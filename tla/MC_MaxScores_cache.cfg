SPECIFICATION Spec
CONSTANTS
    Sub = {s1, s2}
    Stk = {k1, k2}
    Points <- SomePoints
    Tx = {t1, t2}
    None = None
    NoRow = NoRow
    Strategies = {"max", "sum"}
INVARIANTS
    TypeOK
    CacheExplained
SYMMETRY Symmetry
