\* All lists of up to five names; a chain, a cycle, a shared and a missing proxy.
SPECIFICATION FairSpec
CONSTANTS
    a = a
    b = b
    c = c
    d = d
    e = e
    x = x
    NoProxy = NoProxy
    Modules <- MCModules
    Names <- MCNames
    Proxy <- MCProxy
    Requires = {b, d}
    Failing = {d}
    MaxArgs = 5
INVARIANT ProxiesConfigured
INVARIANT NeededOnce
PROPERTY Ends
\* the command ends
CHECK_DEADLOCK FALSE
