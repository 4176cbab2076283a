\* start() returns when the daemon is up or dead; daemons crash.
SPECIFICATION FairSpec
CONSTANTS
    p1 = p1
    p2 = p2
    p3 = p3
    i1 = i1
    i2 = i2
    i3 = i3
    i4 = i4
    Pids = {p1, p2}
    Inodes = {i1, i2, i3}
    NoPid = NoPid
    NoInode = NoInode
    Tool = Tool
    Late = FALSE
    Faults = {"crash"}
INVARIANT LockVisible
INVARIANT StopMeansDown
PROPERTY KillsHolder
PROPERTY SingleInstance
PROPERTY Restarted
PROPERTY HandlersReturn
