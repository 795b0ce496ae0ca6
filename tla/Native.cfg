SPECIFICATION Spec
CONSTANTS
    Null = Null
    Kinds = {"INSERT"}
    WritesFail = TRUE
    MaxLsn = 5
    MaxItems = 5
    Stores = {"Person", "KNOWS"}
    EdgeStores = {"KNOWS"}
    Iris = {"i", "j"}
    Batches <- MCBatches
    Lsns = {1, 2}
    MaxChunks = 2
INVARIANTS ReadsBack StoreExact
PROPERTY PrunedCovered
CHECK_DEADLOCK FALSE
