SPECIFICATION Spec
CONSTANTS
    Chats = {c1, c2}
    Taps = {p1}
    Messages = {m1}
    Claims = {refund}
    None = None
    MaxRestarts = 0
SYMMETRY Symmetry
INVARIANT ClaimsOnce
CHECK_DEADLOCK FALSE
