SPECIFICATION Spec
CONSTANTS
    Item = {i1, i2, i3, i4, i5}
    i1 = i1
    i2 = i2
    i3 = i3
    i4 = i4
    i5 = i5
    Garment <- MCGarment
    Temperature <- MCTemperature
    Request = {r1}
    MaxChanges = 2
    None = None
INVARIANTS
    TypeOK
    OnlyChangesTear
    ReportsAgree
    RatiosAddUp
    SuitedOutfitWins
CHECK_DEADLOCK FALSE
