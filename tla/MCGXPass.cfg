SPECIFICATION Spec
CONSTANTS
    Literal <- Literals
    MaxValue = 1100
    Size = 5
INVARIANTS
    GXPassTypeOK
    ValueAgrees
    PermutationRanked
CHECK_DEADLOCK FALSE
