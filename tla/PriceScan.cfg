\* The price loop and an admin request scan at once; a SIX call fails or a
\* scan is aborted.
SPECIFICATION PriceSpec
CONSTANTS
    c1 = c1
    c2 = c2
    l1 = l1
    loop = loop
    admin = admin
    Order <- TwoClients
    Scans = {loop, admin}
    Holdings <- MCHoldings
    Anonymous <- MCAnonymous
    Listings = {l1}
    Levels = {1, 3}
    Threshold = 2
    MaxTicks = 2
    MaxFaults = 1
SYMMETRY SameScans
INVARIANTS
    PricesTold
