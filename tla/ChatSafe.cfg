SPECIFICATION Spec
CONSTANTS
    Chats = {c1, c2}
    Taps = {p1}
    Messages = {m1}
    Claims = {refund}
    None = None
    MaxRestarts = 1
SYMMETRY Symmetry
INVARIANTS
    DeletedStaysHidden
    NoGaps
    RepliesAnswerQuestions
    HistoryIsRespected
CHECK_DEADLOCK FALSE
