\* Four requests on two addresses, one of them spelt in two ways, with every fault.
CONSTANTS
    Request = {r1, r2, r3, r4}
    rawA = rawA
    rawA2 = rawA2
    rawB = rawB
    emailA = emailA
    emailB = emailB
    Raw <- MCRaw
    Email <- MCEmail
    Normal <- MCNormal
    Password = {p1, p2}
    Faults = {"error", "crash"}
    None = None
SYMMETRY MCSymmetry
SPECIFICATION Spec
INVARIANTS
    TypeOK
    AccountsConsistent
    SignupOpensAccount
    SessionsAreOwners
PROPERTIES
    SessionsResolve
    ImplementsAccountBook
CHECK_DEADLOCK FALSE
