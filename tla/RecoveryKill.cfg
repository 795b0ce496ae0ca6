SPECIFICATION Spec
CONSTANTS
    Kinds <- MCKinds
    Size <- MCSize
    Checkpoint = "CHECKPOINT"
    RollSize = 7
    Sync = "group"
    CrashModes = {"kill"}
    Wants = {1, 20}
    Concurrent = FALSE
    MaxLsn = 6
PROPERTY ImplementsDurableLog
