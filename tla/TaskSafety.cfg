\* Two RMs and the runner on one task and one alert, two failures, one
\* re-delivery.
SPECIFICATION Spec
CONSTANTS
    TaskIds = {t1}
    Alerts = {a1}
    Requests = {r1, r2}
    None = None
    TitleKinds <- MCKinds
    MaxFaults = 2
    MaxRedeliveries = 1
SYMMETRY MCSymmetry
INVARIANTS
    NothingFallsOut
    AgentRunsOnce
    AutonomyBoundary
    ConvertedHasTask
PROPERTIES
    TableUnlessOvertaken
CHECK_DEADLOCK FALSE
