SPECIFICATION Spec
CONSTANTS
    Depth = 2
    Fanout = 2
    LeafPages = 2
    Null = Null
INVARIANTS
    CachesTrue
PROPERTIES
    LowestPage
    Implements
