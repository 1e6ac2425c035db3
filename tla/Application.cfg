\* An upload and another request on its item, fairly scheduled, and one request on the
\* outfits, of two users, with every fault.
CONSTANTS
    Item = {i1}
    Request = {r1, r2}
    OutfitRequest = {o1}
    alice = alice
    bob = bob
    closetA = closetA
    closetB = closetB
    User <- MCUser
    Closet <- MCCloset
    Owner <- MCOwner
    Attr = {name}
    MaxOutfits = 1
    Faults = {"store", "analyze", "crash"}
    OutfitFaults = {"explain"}
    None = None
SPECIFICATION FairSpecApp
INVARIANTS
    FailsByOwnDeletion
PROPERTIES
    ImplementsOutfits
    UploadSettles
CHECK_DEADLOCK FALSE
