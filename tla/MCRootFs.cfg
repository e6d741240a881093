SPECIFICATION PathSpec
CONSTANTS
    Name = {"h", "m", "a", "b", "ser0", "ser1"}
    Mountable <- MCMountable
    Mounts = 3
    Depth = 2
    Indirections = 2
    RootEntries = 5
    PerCluster = 5
    Trees <- MCTrees
    DirClusters <- MCClusters
INVARIANTS
    CursorTrue
    SearchesRight
    ListedFound
\* The kernel stops when an assertion fails.
CHECK_DEADLOCK FALSE
