\* Builder and dispatcher over a day of two hours, the second one quiet, and
\* the morning after; one failure; two sources that come or go.
SPECIFICATION FairRadarSpec
CONSTANTS
    c1 = c1
    c2 = c2
    i1 = i1
    s1 = s1
    u1 = u1
    None = None
    Keys <- MCKeys
    CriticalAt = 90
    Margin = 50
    HoursPerDay = 2
    QuietStart = 1
    QuietEnd = 0
    DigestHour = 0
    MaxDays = 1
    MaxFaults = 1
    Sources <- MCSources
    Positions <- MCPositions
    Decay <- MCDecay
    Pinned <- MCPinned
    Builders = {"loop"}
    NumBuilds = 2
    MaxChanges = 2
    MaxRequests = 0
    MaxAborts = 0
INVARIANTS
    TellsOnce
PROPERTIES
    DispatchSpec
    CriticalSurfaces
CHECK_DEADLOCK FALSE
