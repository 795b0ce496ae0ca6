SPECIFICATION Spec
CONSTANTS
    p1 = p1
    p2 = p2
    p3 = p3
    g1 = g1
    g2 = g2
    Pages <- MCPages
    Guards <- MCGuards
    Values = {0, 1}
    Zero = 0
    None = None
    Capacity = 2
    LruK = 2
    MaxClock = 5
SYMMETRY MCSymmetry
INVARIANTS PinsAccounted NoLostUpdate WithinCapacity
