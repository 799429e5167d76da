\* Five mixes of speed tests, two-ended jobs and public measurements.
SPECIFICATION MixSpec
INVARIANTS
    TypeOK
    MaintenanceQuiet
    NotRepeated
PROPERTIES
    ResultIsFinal
CONSTANTS
    Jobs = {1, 2, 3, 4, 5, 6}
    Workers = {"n1", "p1"}
    Probes = {"p1"}
    Op <- MixOp
    Exec <- MixExec
    Node <- MixNode
    Site <- MixKey
    Key <- MixKey
    Groups <- MixGroups
    Resettable = {"p1"}
    QueueTime = 2
    RunTime = 1
    RenewTime = 1
    Deadline = 2
    OnlineTime = 1
    LeaseTime = 1
    Backoff = 1
    MaxLatency = 1
    MaxTries = 1
    Quota = 2
    MaxRestarts = 1
CHECK_DEADLOCK FALSE
