\* Two articles of one or two stories, or a book around the thresholds.
SPECIFICATION RulesSpec
CONSTANTS
    Situations <- MCSituations
    None = None
    Targets <- Mandate
    Sells <- SellList
INVARIANT
    PairSurvives
CHECK_DEADLOCK FALSE
