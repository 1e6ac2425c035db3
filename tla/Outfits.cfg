\* Two requests on the items of two closets; explanations may fail.
CONSTANTS
    Item = {i1, i2}
    Request = {r1, r2}
    alice = alice
    bob = bob
    closetA = closetA
    closetB = closetB
    User <- MCUser
    Closet <- MCCloset
    Owner <- MCOwner
    MaxOutfits = 2
    Faults = {"explain"}
    None = None
SYMMETRY MCSymmetry
SPECIFICATION SpecOutfits
INVARIANTS
    TypeOK
    FailsByDeletion
    AnsweredOutfitsServed
    ImagesShowOwnItems
CHECK_DEADLOCK FALSE
