SPECIFICATION RunsSpec
CONSTANTS
    Runs = {r1}
    MaxSessions = 3
    Quota = 2
    TurnLimit = 3
    MaxAttempts = 4
    NoScore = NoScore
CHECK_DEADLOCK FALSE
INVARIANTS
    ScoresAreRecorded
    NothingDrawnAfterALoss
PROPERTIES
    RunsEnd
