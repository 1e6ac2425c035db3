\* The documented promise OrphanCleanup does not hold.
CONSTANTS
    Item = {i1}
    Request = {r1, r2, r3}
    alice = alice
    closetA = closetA
    bob = bob
    closetB = closetB
    User = {alice}
    Closet = {closetA}
    Owner <- MCOwnerA
    Attr = {name}
    Faults = {}
    None = None
SPECIFICATION Spec
INVARIANT
    OrphanCleanup
CHECK_DEADLOCK FALSE
