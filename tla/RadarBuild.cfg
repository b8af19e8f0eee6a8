\* The refresh loop and two admin requests, one failure, three sources that
\* come or go.
SPECIFICATION BuildSpec
CONSTANTS
    c1 = c1
    c2 = c2
    i1 = i1
    s1 = s1
    u1 = u1
    None = None
    Sources <- MCSources
    Positions <- MCPositions
    Decay <- MCDecay
    Pinned <- MCPinned
    Builders = {"loop", "admin"}
    NumBuilds = 3
    MaxChanges = 3
    MaxRequests = 2
    MaxAborts = 1
INVARIANTS
    TableSound
PROPERTY
    NothingDropped
