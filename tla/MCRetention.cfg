\* Two rounds of one index day, a crash or a failed write.
SPECIFICATION Spec
CONSTANTS
    Rounds = {1, 2}
    Days = {1}
    DayOf <- OneDay
    Parts = 2
    Detail = 1
    Whole = 3
    None = None
    MaxClock = 5
    MaxFaults = 1
INVARIANTS ExpiryScheduled NothingEarly MarkedFirst
CHECK_DEADLOCK FALSE
PROPERTIES RoundsExpire
