\* Order and outcome of commands: a cannot always start, the handlers of b raise,
\* stop() of c may return an error.
SPECIFICATION Spec
CONSTANTS
    k = k
    a = a
    b = b
    c = c
    Modules = {k, a, b, c}
    Core = {k}
    Rank <- MCRank
    Failing = {a}
    StartRaises = {b}
    StopRaises = {b}
    StopFails = {c}
    NoEnable = {b}
    Crashes = FALSE
INVARIANT StopStopsAll
INVARIANT StartStartsEnabled
PROPERTY CoreAroundAll
