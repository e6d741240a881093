SPECIFICATION Spec
CONSTANTS
    N = 3
    Boot = Boot
    Slices = {0, 3, 4}
    Counts = 4
    Enablers = {2}
INVARIANTS
    TypeOK
    OwnRegisters
    Preemptible
    CallsReturn
PROPERTIES
    StaleChargeFollowsYield
    EveryProcessRuns
CHECK_DEADLOCK FALSE
