SPECIFICATION Spec
CONSTANTS
    None = None
    Handles = {h1, h2}
    Iris <- MCIris
    Names <- MCNames
    Tail_ <- MCTail
    Defs <- MCDefs
    PropDefs <- MCPropDefs
    Others <- MCOthers
    Bases <- MCBases
    Plans <- MCPlans
    Budgets = {0, 1, 3}
    MaxIterations = 3
    MaxCalls = 3
INVARIANTS SubclassesExact StoresKnown InferExact
PROPERTY InferEnds
