SPECIFICATION Spec
CONSTANTS
    Null = Null
    NoLimit = NoLimit
    Nodes <- MCNodes
    NodeType <- MCNodeType
    Weight <- MCWeight
    Graphs <- MCGraphs
    Queries <- MCQueries
    Prop <- MCProp
    Missing = Missing
    ExternalId <- MCExternalId
    PathQueries <- MCPathQueries
    NumVertices = 3
    Cases <- MCCases
    NativeCalls <- MCNativeCalls
INVARIANTS AnswerExact SamplingExact NothingLeftOpen EnginesAgree NativeExact GraphCallsExact
PROPERTY CallsEnd
CHECK_DEADLOCK FALSE
