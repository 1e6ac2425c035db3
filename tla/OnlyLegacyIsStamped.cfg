SPECIFICATION Spec
CONSTANTS
    Workers = {w1, w2}
    MaxCrashes = 0
    MaxDowngrades = 0
PROPERTIES
    OnlyLegacyIsStamped
CHECK_DEADLOCK FALSE
