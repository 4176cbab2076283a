\* Two stations, two modules, two profiles, two faults.
SPECIFICATION Spec
CONSTANTS
    n1 = n1
    n2 = n2
    c = c
    m = m
    k = k
    p = p
    q = q
    Any = Any
    Comment = Comment
    NoProfile = NoProfile
    NoStation = NoStation
    NoJob = NoJob
    Nets = {n1, n2}
    Codes = {c}
    Modules = {m, k}
    Managed = {m}
    Profiles = {p, q}
    Keyed <- MCStations
    InitialLines <- MCInitialLines
    MaxFaults = 2
INVARIANT BindingsResolve
INVARIANT CommandsDo
PROPERTY OnlyItsLines
