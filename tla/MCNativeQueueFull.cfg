\* The queue at its capacity: two of three jobs fit.
SPECIFICATION Spec
CONSTANTS
    j1 = j1  j2 = j2  j3 = j3
    c1 = c1  c2 = c2
    Jobs = {j1, j2, j3}
    Contents = {c1}
    Metas = {m1, m2}
    Blank = m1
    Buckets = {0, 1}
    BucketOf <- McBucketOf
    Legacy <- McLegacy
    MaxJobs = 2
    MaxOrder = 3
    MaxStops = 1
    Provider = {j3}
    NoRow = NoRow  NoTx = NoTx  NoMeta = NoMeta  Delete = Delete  Same = Same
INVARIANT NeverRefused
CHECK_DEADLOCK FALSE
