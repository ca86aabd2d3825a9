SPECIFICATION Spec
CONSTANTS
    None = None
    Order = Order
    Ghost = Ghost
    p1 = p1
    p2 = p2
    OrderIds = {Order, Ghost}
    Stage1Slots = {p1, p2}
    RoundsUp = {}
    Customers <- MCCustomers
    Bills <- MCBills
    Messages <- MCMessages
    Proposals <- MCProposals
    MaxTurns = 3
INVARIANTS
    PolicyRoutesCarryNoRefund
    MatrixOwnsAmounts
    LargeRefundsReachAHuman
    InjectionIsTraced
PROPERTIES
    ClaimsAfterAFlagAreReviewed
    NoClaimTwice
CHECK_DEADLOCK FALSE
