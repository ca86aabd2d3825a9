SPECIFICATION TapSpec
CHECK_DEADLOCK FALSE
INVARIANTS
    OrderFirstSuffices
    AckIsSpokenFromContext
