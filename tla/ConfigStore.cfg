\* Files with includes, namespaces and errors are read, changed, written and read
\* again.
SPECIFICATION FairSpec
CONSTANTS
    Atoms <- MCAtoms
    Disks <- MCDisks
    Layers <- MCLayers
    Home <- MCHome
    Editable <- MCEditable
    Values <- MCValues
    WithQuote = {"q", "j"}
    Joining = {"j"}
    Misread <- MCMisread
    Fragile <- MCFragile
    WithHash = {"h", "#"}
    Cut <- MCCut
    Nothing = "nothing"
    Env <- MCEnv
    NoUri = NoUri
    Long = 3
INVARIANT TypeOK
INVARIANT IncludesNest
INVARIANT LoadedAsMeant
INVARIANT SavedReadsBack
PROPERTY ReadEnds
