\* Three invocations from shells, actions and daemons; signals, kills and a user
\* who cannot write the lock file.  Only the tools are sure to run: actions may take
\* for ever.
SPECIFICATION ToolSpec
CONSTANTS
    c1 = c1
    c2 = c2
    c3 = c3
    Commands = {c1, c2, c3}
    NoWait = NoWait
    Nobody = Nobody
    Waits <- MCWaits
    Unprivileged = {c3}
    Faults = {"term", "kill", "daemon"}
INVARIANT LockCoversAction
INVARIANT SomebodyRuns
PROPERTY HandOver
PROPERTY LockSpec
PROPERTY EveryCommandEnds
PROPERTY WaitBounded
PROPERTY SignalReachesAction
\* the commands end and the system stops
CHECK_DEADLOCK FALSE
