\* A server and a probe of a host, two files; two crashes, reboots or failing commands.
SPECIFICATION Spec
CONSTANTS
    n = n  p = p
    agent = agent  unit = unit
    Workers = {n, p}
    Probes = {p}
    Files = {agent, unit}
    Agent = agent
    Unit = unit
    MaxTroubles = 2
INVARIANTS NothingHalfDone HelperTogether UpgradeOfIdle
PROPERTIES InterruptedEnds
CHECK_DEADLOCK FALSE
