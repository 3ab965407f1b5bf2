SPECIFICATION Spec
CONSTANTS
    Sub = {s1, s2}
    Stk = {k1}
    Points <- SomePoints
    Tx = {t1, t2}
    None = None
    NoRow = NoRow
    Strategies = {"max"}
INVARIANT CacheRight
