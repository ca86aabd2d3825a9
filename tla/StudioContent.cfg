SPECIFICATION Spec
CONSTANTS
    u1 = u1
    u2 = u2
    i1 = i1
    i2 = i2
    i3 = i3
    Units = {u1, u2, u3}
    Issues = {i1, i2, i3, i4}
    Points = {p1}
    Texts = {t1}
    Sessions = {s1}
    Workers = {r1, r2}
    SeedUnits = {u1, u2}
    SeedIssues = {i1, i2, i3}
    SeedOf <- TwoUnits
    MaxRequests = 5
    None = None
CHECK_DEADLOCK FALSE
SYMMETRY Symmetry
INVARIANTS
    ReferencesResolve
    PointersAgree
    OnlyOverlapsMerge
PROPERTIES
    CascadeTakesNoCountedIssue
