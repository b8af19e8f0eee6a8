\* Calls one at a time: a bond and a promise extracted twice, RMs, a failure.
SPECIFICATION FairSpec
CONSTANTS
    c1 = c1
    r1 = r1
    Clients = {c1}
    Runs = {r1}
    Items <- BondPromises
    Keys <- ItemKeys
    KeyOf <- MCKeyOf
    ClientOf <- MCClientOf
    GenOf <- MCGenOf
    Decisions = {"open", "dismissed", "converted"}
    NumBatches = 2
    MaxErrors = 1
INVARIANTS
    CooldownSound
    OneRowPerKey
PROPERTIES
    DecisionKept
    SignalSurfaces
