SPECIFICATION Spec
CONSTANTS
    Users = {u1}
    Modules = {m1}
    Defaults = {m1}
    Admins = {a1, a2}
    Workers = {r1, r2}
    None = None
SYMMETRY Symmetry
INVARIANTS
    GrantorGaveTheLevel
PROPERTIES
    FallsOnlyOverOldCopies
    RevokedStaysRevoked
