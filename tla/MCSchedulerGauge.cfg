CONSTANTS
    r1 = r1
    r2 = r2
    r3 = r3
    s1 = s1
    s2 = s2
    Requests = {r1, r2}
    Stoppers = {s1}
    Capacity = 1
    MaxBatch = 2
    MaxPadded = 64
    Keys <- KeysDef
    Key <- KeyDef
    Bucket <- BucketDef
SPECIFICATION Spec
INVARIANTS
    GaugeReturnsToZero
