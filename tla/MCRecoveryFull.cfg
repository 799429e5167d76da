\* The recovery finds more jobs than the queue may hold.
SPECIFICATION Spec
CONSTANTS
    A = A  B = B  C = C  a1 = a1  b1 = b1  c1 = c1
    today = today  too = too  later = later  left = left  right = right
    Jobs = {a1, b1}
    Rounds = {A, B}
    Occurrences = {today}
    RoundOf <- McRoundOf
    Key <- McKey
    Scope <- McScope
    Stable <- McStable
    None = None
    Capacity = 1
    MaxCrashes = 1
    MaxErrors = 0
INVARIANTS RestartReconstructs
CHECK_DEADLOCK FALSE
