\* Two callers, three mails of two threads, two articles and a seeded story;
\* the meter passes its cap with the second answer.
SPECIFICATION Spec
CONSTANTS
    Callers = {w1, w2}
    Cap = 2
    WarnAt = 2
    Usage = {1}
    MostTokens = 1
    Attempts = 3
    MaxOps = 2
    NumMails = 3
    EarlyMails = 2
    Thread <- mcThread
    Inbound <- mcInbound
    Entities <- mcEntities
    PerCycle = 1
    Clients = {c1, c2}
    Articles = {"a", "b"}
    Text <- mcText
    Stories = {"s"}
    Ambiguous <- mcAmbiguous
    Far <- mcFar
    Books <- mcBooks
    Loaded <- mcLoaded
    c1 = c1
    c2 = c2
    alpha = alpha
    beta = beta
    gamma = gamma
    isin1 = isin1
    isin2 = isin2
    isin3 = isin3
    other = other
    green = green
INVARIANT BudgetHolds
INVARIANT EachAnsweredOnce
INVARIANT NoDuplicateRow
INVARIANT SeededReaches
PROPERTY RowsJudged
PROPERTY MatchGrows
PROPERTY SpendsAsBudgeted
SYMMETRY mcSymmetry
CHECK_DEADLOCK FALSE
