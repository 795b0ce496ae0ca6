SPECIFICATION Spec
CONSTANTS
    Kinds <- MCKinds
    Size <- MCSize
    Checkpoint = "CHECKPOINT"
    RollSize = 5
    Sync = "on"
    CrashModes = {"kill", "power", "header", "fsync"}
    Wants = {}
    Concurrent = TRUE
    MaxLsn = 4
INVARIANTS RecoveryComplete LogReachesCheckpoint
CHECK_DEADLOCK FALSE
CONSTRAINT Bounded
