SPECIFICATION FairSpec
CONSTANTS
    Runs = {r1, r2}
    Deletes = {d1, d2}
    None = None
    NoRow = NoRow
    Overlap = TRUE
    Translates = TRUE
    MaxCrashes = 1
CHECK_DEADLOCK FALSE
INVARIANTS
    DeletedForGood
    FileMissingOnlyAfterDelete
    TextBehindStatus
PROPERTIES
    RunsSettleTheRow
