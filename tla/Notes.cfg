\* Two requests at once over two lists; the RM signs out, and in again.
SPECIFICATION Spec
CONSTANTS
    q1 = q1
    q2 = q2
    n1 = n1
    n2 = n2
    n3 = n3
    values = values
    tilts = tilts
    g1 = g1
    g2 = g2
    Requests = {q1, q2}
    Calls <- MCCalls
    Grants = {g1, g2}
    Early = {g1}
    Notes = {n1, n2, n3}
    Imported = {n1}
    Lists = {values, tilts}
    Unsourced = Unsourced
    Replies <- MCReplies
    MaxEvents = 2
    MaxOps = 3
SYMMETRY MCSymmetry
INVARIANTS
    SignOutSticks
    NoteIsWhole
    LostToSameList
    SourcesStand
    ReportIsTrue
CHECK_DEADLOCK FALSE
