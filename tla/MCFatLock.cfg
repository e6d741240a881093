SPECIFICATION LockSpec
CONSTANTS
    N = 2
    Boot = Boot
    Slices = {0, 3, 4}
    Counts = 4
    Enablers = {0, 1}
    Operations = {"walk", "read", "search"}
INVARIANT
    NoSelfDeadlock
CHECK_DEADLOCK FALSE
