\* Four keys, three of which collide, in 4 to 8 buckets.
SPECIFICATION Spec
CONSTANTS
    k1 = k1  k2 = k2  k3 = k3  k4 = k4  k5 = k5  v1 = v1  v2 = v2
    Keys = {k1, k2, k3, k4}
    Values = {v1, v2}
    Hash <- Colliding
    MinBuckets = 4
    MaxBuckets = 8
    Elements <- Stored
    Ranges <- TwoRanges
    MarksFrom = {TRUE}
INVARIANTS EveryKeyIsFound WalkMissesNone
PROPERTY ImplementsMap
