SPECIFICATION Spec
CONSTANTS
    Depth = 3
    PageSize = 2
    Addresses = 64
    Sizes = {2, 4, 6, 8, 10, 14, 16}
    Hinted = {2, 4, 6}
    Images <- MCImages
INVARIANTS
    TreeTellsTruth
    NeverOverclaims
PROPERTIES
    Implements
