SPECIFICATION Spec
CONSTANTS
    k1 = k1
    k2 = k2
    Keys <- MCKeys
    OldSnapshots = FALSE
    MaxTx = 2
    MaxLsn = 6
    MaxRestarts = 1
SYMMETRY KeySymmetry
CHECK_DEADLOCK FALSE
INVARIANTS FirstCommitterWins ConflictTableExact AckedCommitsSurvive
