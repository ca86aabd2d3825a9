SPECIFICATION Spec
CONSTANTS
    Users = {u1, u2}
    Workers = {r1, r2}
    None = None
SYMMETRY Symmetry
INVARIANTS
    SuperAdminRemains
PROPERTIES
    OnlyAskedChanges
CHECK_DEADLOCK FALSE
