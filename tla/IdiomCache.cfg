SPECIFICATION FairSpec
CONSTANTS
    Writers = {w1, w2}
    Scanners = {s1, s2}
    Empty = Empty
    Free = Free
    PoolSize = 2
INVARIANTS
    OneLoader
    OnlyCommittedIdioms
    StaleOnlyFromWindow
PROPERTIES
    RequestsEnd
