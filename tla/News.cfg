\* The schema as it is: a failure, a failed LLM call, an expired
\* verdict.
SPECIFICATION FairSpec
CONSTANTS
    c1 = c1
    c2 = c2
    NumArticles = 4
    PageSize = 2
    Clients <- MCClients
    Keyword <- MCKeyword
    Own <- MCOwn
    Care <- MCCare
    Shortlisted <- MCShortlisted
    UniqueIndex = FALSE
    MaxFaults = 1
    MaxErrors = 1
    MaxExpiries = 1
INVARIANTS
    CursorCovers
    PaidOnce
PROPERTIES
    NoSpuriousCandidate
    ArticleSettles
CHECK_DEADLOCK FALSE
