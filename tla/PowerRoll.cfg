SPECIFICATION Spec
CONSTANTS
    Kinds <- MCKinds
    Size <- MCSize
    Checkpoint = "CHECKPOINT"
    RollSize = 7
    Sync = "group"
    CrashModes = {"power"}
    Wants = {}
    Concurrent = FALSE
    MaxLsn = 5
INVARIANT FlushedReadable
CHECK_DEADLOCK FALSE
