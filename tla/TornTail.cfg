SPECIFICATION Spec
CONSTANTS
    Kinds <- MCKinds
    Size <- MCSize
    Checkpoint = "CHECKPOINT"
    RollSize = 100
    Sync = "on"
    CrashModes = {"tear"}
    Wants = {1, 20}
    Concurrent = FALSE
    MaxLsn = 5
INVARIANT Reopens
CHECK_DEADLOCK FALSE
