\* Saves, crashes and recoveries of three jobs in two buckets.
SPECIFICATION FairSpec
CONSTANTS
    j1 = j1  j2 = j2  j3 = j3
    c1 = c1  c2 = c2
    Jobs = {j1, j2, j3}
    Contents = {c1}
    Metas = {m1, m2}
    Blank = m1
    Buckets = {0, 1}
    BucketOf <- McBucketOf
    Legacy <- McLegacy
    MaxJobs = 3
    MaxOrder = 2
    MaxStops = 1
    Provider = {j3}
    NoRow = NoRow  NoTx = NoTx  NoMeta = NoMeta  Delete = Delete  Same = Same
INVARIANTS TypeOK ReaderSeesCommitted
PROPERTIES ImplementsAtomicQueue OnlySavesCommit SavedIsStored EventuallyReadable
CHECK_DEADLOCK FALSE
