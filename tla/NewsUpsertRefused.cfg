\* The schema as it is, and nothing fails: the upsert is refused.
SPECIFICATION Spec
CONSTANTS
    c1 = c1
    c2 = c2
    NumArticles = 1
    PageSize = 2
    Clients <- MCClients
    Keyword <- MCKeyword
    Own <- MCOwn
    Care <- MCCare
    Shortlisted <- MCShortlisted
    UniqueIndex = FALSE
    MaxFaults = 0
    MaxErrors = 0
    MaxExpiries = 0
INVARIANT
    CandidateHasItem
CHECK_DEADLOCK FALSE
