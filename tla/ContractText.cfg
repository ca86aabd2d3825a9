SPECIFICATION Spec
CONSTANTS
    Pages = 2
    MaxClauses = 2
    Written = {"full", "mute", "long"}
    MaxHurt = 2
    MaxRows = 4
    MaxDamage = 2
CHECK_DEADLOCK FALSE
INVARIANTS
    EveryClauseIsExplained
    SilenceIsAmber
    WordsStayInTheirRow
    EnglishHasACause
