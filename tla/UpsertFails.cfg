SPECIFICATION Spec
CONSTANTS
    k1 = k1
    k2 = k2
    Keys <- MCKeys
    Values = {"one", "two"}
    TypeOf <- MCTypeOf
    Classes <- MCClasses
    Names = {"s"}
    Stops = FALSE
    MaxLsn = 3
    MaxRef = 2
SYMMETRY KeySymmetry
INVARIANT KeysKept
CHECK_DEADLOCK FALSE
