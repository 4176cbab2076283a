\* Daemons die, stop() of b raises; check is called again and again.
SPECIFICATION FairSpec
CONSTANTS
    k = k
    a = a
    b = b
    c = c
    Modules = {k, a, b}
    Core = {k}
    Rank <- MCRank
    Failing = {}
    StartRaises = {}
    StopRaises = {b}
    StopFails = {}
    NoEnable = {}
    Crashes = TRUE
INVARIANT UpIsSupervised
PROPERTY CheckRevives
