\* Five mixes of latency tests and speed tests.
SPECIFICATION TestSpec
INVARIANTS
    ExclusiveWorker
    LeaseWithinDeadline
    LeaderIsQueued
    SerialSpeed
PROPERTIES
    EveryJobEnds
CONSTANTS
    Jobs = {1, 2, 3, 4, 5, 6, 7}
    Workers = {"n1", "n2"}
    Probes = {}
    Op <- TestOp
    Exec <- TestExec
    Node <- TestExec
    Site <- TestSite
    Key <- TestKey
    Groups <- TestGroups
    Resettable = {"n1"}
    QueueTime = 2
    RunTime = 2
    RenewTime = 1
    Deadline = 2
    OnlineTime = 1
    LeaseTime = 0
    Backoff = 1
    MaxLatency = 2
    MaxTries = 1
    Quota = 0
    MaxRestarts = 1
CHECK_DEADLOCK FALSE
