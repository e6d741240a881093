SPECIFICATION Spec
CONSTANTS
    Key = {0, 1, 2}
    Weights = {2, 5}
    Period = 2
    Cycle = 16
    MaxEdges = 2
INVARIANTS
    TypeOK
    SlicesFillCycle
    QueueDistinct
PROPERTIES
    DiesOnlyOnRebuild
    WeightConserved
    RoundRobin
\* The machine stops when the queue is deleted.
CHECK_DEADLOCK FALSE
