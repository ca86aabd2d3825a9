SPECIFICATION FairSpec
CONSTANTS
    Runs = {r1, r2}
    Deletes = {d1}
    None = None
    NoRow = NoRow
    Overlap = FALSE
    Translates = TRUE
    MaxCrashes = 1
CHECK_DEADLOCK FALSE
INVARIANTS
    ReadyIsOneRunsWork
    FailedSaysWhy
PROPERTIES
    FollowsStatusMachine
    RetrySettlesTheRow
