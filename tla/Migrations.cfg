SPECIFICATION FairSpec
CONSTANTS
    Workers = {w1, w2}
    MaxCrashes = 1
    MaxDowngrades = 2
INVARIANTS
    TypeOK
    HeadIsMetadata
    ServedSchemaStands
PROPERTIES
    ImplementsHistory
    SomeWorkerServes
CHECK_DEADLOCK FALSE
