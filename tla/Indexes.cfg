SPECIFICATION Spec
CONSTANTS
    A = A
    R = R
    B = B
    V = V
    P = P
    T = T
    h1 = h1
    h2 = h2
    None = None
    Types = {A, B}
    Rels = {R}
    VNames = {V}
    PNames = {P}
    TNames = {T}
    Handles = {h1, h2}
    Declared <- MCDeclared
    IriTail <- MCIriTail
    MaxWrites = 2
SYMMETRY MCSymmetry
INVARIANTS IndexesExact HandleCachesExact
CONSTRAINT Apart
