\* One benchmark, a helper that is down and a restart of the agent.
SPECIFICATION Spec
CONSTANTS
    Jobs = {1}
    None = None
    MaxFaults = 2
INVARIANTS FailedNeverRuns
CHECK_DEADLOCK FALSE
