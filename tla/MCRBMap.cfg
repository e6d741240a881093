SPECIFICATION Spec
CONSTANT
    Key = {0, 1, 2, 3, 4, 5, 6, 7}
INVARIANTS
    FindsKeys
    RedBlack
PROPERTY
    CrashesOnlyOnBlackLeaf
CHECK_DEADLOCK FALSE
