\* The image of an outfit outlives the items it shows.
CONSTANTS
    Item = {i1}
    Request = {r1}
    alice = alice
    bob = bob
    closetA = closetA
    closetB = closetB
    User = {alice}
    Closet = {closetA}
    Owner <- MCOwnerA
    MaxOutfits = 1
    Faults = {}
    None = None
SPECIFICATION FairOutfits
PROPERTY
    DeletionReachesOutfits
CHECK_DEADLOCK FALSE
