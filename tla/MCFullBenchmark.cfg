\* One benchmark of a VPS and three faults, or two benchmarks and none.
SPECIFICATION McSpec
CONSTANTS
    Jobs = {1, 2}
    None = None
    MaxFaults = 3
INVARIANTS StartedOnce FailureIsTrue ReportKept
CHECK_DEADLOCK FALSE
PROPERTIES ReportsSettle
