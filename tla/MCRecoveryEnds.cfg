\* Two rounds run by hand that measure the same; one crash.
SPECIFICATION ByHand
CONSTANTS
    A = A  B = B  C = C  a1 = a1  b1 = b1  c1 = c1
    today = today  too = too  later = later  left = left  right = right
    Jobs = {a1, b1}
    Rounds = {A, B}
    Occurrences = {}
    RoundOf <- McRoundOf
    Key <- McKey
    Scope <- McScope
    Stable <- McStable
    None = None
    Capacity = 4
    MaxCrashes = 1
    MaxErrors = 0
PROPERTIES SlotsEnd
CHECK_DEADLOCK FALSE
