\* start() returns early, the script is killed: daemons race for the lock file.
SPECIFICATION Spec
CONSTANTS
    p1 = p1
    p2 = p2
    p3 = p3
    i1 = i1
    i2 = i2
    i3 = i3
    i4 = i4
    Pids = {p1, p2}
    Inodes = {i1, i2, i3}
    NoPid = NoPid
    NoInode = NoInode
    Tool = Tool
    Late = TRUE
    Faults = {"crash", "abort"}
SYMMETRY Symmetry
INVARIANT PidOfOwner
