\* Two requests at once on one client: scores, swaps, sheets and drafts while
\* the DNA changes.
SPECIFICATION Spec
CONSTANTS
    q1 = q1
    q2 = q2
    Requests = {q1, q2}
    Positions = {"chips", "oil"}
    Candidates = {"phones", "cloud", "web", "gas"}
    Held = {"web"}
    Industry <- MCIndustry
    Region <- MCRegion
    Asset <- MCAsset
    Chf <- MCChf
    Profiles <- MCProfiles
    Sayings <- MCSayings
    MaxDrafts = 1
    MaxOps = 5
SYMMETRY MCSymmetry
INVARIANTS
    OfferSound
    OneAnswer
    DraftFaithful
    SentMeansMailed
PROPERTIES
    AnswerStays
    FitFalls
CHECK_DEADLOCK FALSE
