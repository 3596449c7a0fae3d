CONSTANTS
    v1 = v1
    v2 = v2
    v3 = v3
    v4 = v4
    s1 = s1
    s2 = s2
    s3 = s3
    s4 = s4
    Vectors <- MCVectors
    Areas <- MCAreas
    Null = Null
    Wild = Wild
    Offs = 1
    DoOffs = TRUE
    MaxNew = 2
    MaxWords = 5
SPECIFICATION Spec
SYMMETRY Symmetry
CHECK_DEADLOCK FALSE
INVARIANT CallerSeesItsWords
INVARIANT BlocksHaveOneOwner
