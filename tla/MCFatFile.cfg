SPECIFICATION Spec
CONSTANTS
    ClusterSize = 2
    Clusters = 6
    Searched = 8
    HalfWord = 6
    Word = 64
    File = {"row", "split", "empty"}
    Handle = {h1, h2}
    None = None
    Chains <- MCChains
    Sizes <- MCSizes
    Counts = {1, 2, 4}
    MaxSize = 4
SYMMETRY MCSymmetry
INVARIANTS
    PlacedTransfers
    SequentialReads
    FilesDisjoint
\* What happens after file data was written over the table or a directory is left open.
CHECK_DEADLOCK FALSE
