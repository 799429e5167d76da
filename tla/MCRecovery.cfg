\* Two of three planned rounds; a crash and an I/O error, or no fault.
SPECIFICATION McSpec
CONSTANTS
    A = A  B = B  C = C  a1 = a1  b1 = b1  c1 = c1
    today = today  too = too  later = later  left = left  right = right
    Jobs = {a1, b1, c1}
    Rounds = {A, B, C}
    Occurrences = {today, too, later}
    RoundOf <- McRoundOf
    Key <- McKey
    Scope <- McScope
    Stable <- McStable
    None = None
    Capacity = 4
    MaxCrashes = 1
    MaxErrors = 1
INVARIANTS OpenIsQueued MeasuredOnce OccurrenceOnce SharedOnce OneUnfinished
CHECK_DEADLOCK FALSE
