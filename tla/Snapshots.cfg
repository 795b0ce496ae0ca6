SPECIFICATION Spec
CONSTANTS
    k1 = k1
    k2 = k2
    Keys <- MCKeys
    Values = {"one", "two"}
    TypeOf <- MCTypeOf
    Classes <- MCClasses
    Names = {"s"}
    Stops = TRUE
    MaxLsn = 3
    MaxRef = 2
SYMMETRY KeySymmetry
INVARIANTS SnapshotFixed OneWritePerLsn KeysKeptByUpserts MirrorExact
