SPECIFICATION Spec
CONSTANTS
    Frames = 13
    KPages = 8
    UPages = 9
    Radix = 3
    Image = {0}
    KernelZero = 1
    Repo = 8
    Maps <- MCMaps
    Ranges <- MCRanges
    Segments <- MCSegments
    MaxProcs = 2
    MaxSegs = 2
    MaxIo = 1
INVARIANTS
    OneUse
    LiveBacked
    NothingLost
PROPERTIES
    MixedInBetween
\* Nothing goes on after an exception in the middle of loading a process, or a page fault.
CHECK_DEADLOCK FALSE
