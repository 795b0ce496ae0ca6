SPECIFICATION Spec
CONSTANTS
    k1 = k1
    k2 = k2
    Keys <- MCKeys
    Values = {"one"}
    TypeOf <- MCTypeOf
    Classes <- MCClasses
    Names = {"s"}
    Stops = FALSE
    MaxLsn = 3
    MaxRef = 2
SYMMETRY KeySymmetry
INVARIANT SnapshotStable
CHECK_DEADLOCK FALSE
