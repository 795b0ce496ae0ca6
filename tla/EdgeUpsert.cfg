SPECIFICATION Spec
CONSTANTS
    x = x
    y = y
    Keys <- MCKeys
    EdgeKeys = {"e"}
    Pairs <- MCPairs
    NoKey = "none"
    Classes <- MCClasses
    Relations <- MCRelations
    Tables <- MCTables
    MaxNodes = 2
    MaxEdges = 2
    MaxFaults = 0
SYMMETRY KeySymmetry
INVARIANT EdgesKept
