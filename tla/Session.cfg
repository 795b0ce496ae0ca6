SPECIFICATION MCSpec
CONSTANTS
    None = None
    NoStore = NoStore
    Handles = {h1, h2}
    Formats = {"auto", "bundle"}
    MaxWrites = 2
    MaxFaults = 1
    Classes <- MCClasses
    Relations = {"R"}
    NodeIds = {1, 2}
    Edges = {1, 2}
    Columns <- MCColumns
    NidOnly <- MCNidOnly
    Broken = Broken
    Inputs <- MCInputs
    Owners = {"o1", "o2"}
    Limit = 1
    MaxLoads = 3
    Strings = {1, 2, 3}
    NoFile = NoFile
    Kinds <- MCKinds
    Preds <- MCPreds
    KindOf <- MCKindOf
    Default = "R"
    Imports <- MCImports
    MaxImports = 3
    Null = Null
INVARIANTS CopyOnDisk PathComplete ClockAhead DiffExact IngestExact
