SPECIFICATION Spec
CONSTANTS
    Null = Null
    Kinds = {"INSERT"}
    WritesFail = FALSE
    MaxLsn = 4
    MaxItems = 4
    Stores = {"Person"}
    EdgeStores = {}
    Iris = {"i"}
    Batches <- MCBatches
    Lsns = {1}
    MaxChunks = 1
PROPERTY LsnOrdersWrites
CHECK_DEADLOCK FALSE
