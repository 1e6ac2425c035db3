\* Four requests of two users on one item, with every fault.
CONSTANTS
    Item = {i1}
    Request = {r1, r2, r3, r4}
    alice = alice
    bob = bob
    closetA = closetA
    closetB = closetB
    User <- MCUser
    Closet <- MCCloset
    Owner <- MCOwner
    Attr = {name}
    Faults = {"store", "analyze", "crash"}
    None = None
SYMMETRY MCRequestSymmetry
SPECIFICATION Spec
INVARIANTS
    TypeOK
    OwnedThroughout
    DeleteAnsweredOnce
    RemovalLeavesNoFiles
    ReadyHasImage
    KeyFollowsStatus
    ReadyImageServed
PROPERTIES
    DeletedStaysDeleted
    SettledStays
    ImplementsCatalog
CHECK_DEADLOCK FALSE
