\* Two tasks behind one runner, an RM who patches either of them, and a
\* re-delivery; nothing fails (AutoTaskFinishes promises no more).
SPECIFICATION FairSpec
CONSTANTS
    TaskIds = {t1, t2}
    Alerts = {a1}
    Requests = {r1}
    None = None
    TitleKinds <- MCKinds
    MaxFaults = 0
    MaxRedeliveries = 1
PROPERTIES
    AutoTaskFinishes
CHECK_DEADLOCK FALSE
