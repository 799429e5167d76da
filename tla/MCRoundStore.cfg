\* Four mixes of rounds; one crash, and a failed write in two of them.
SPECIFICATION McSpec
CONSTANTS
    p = p  q = q  h = h  f = f
    p1 = p1  p2 = p2  q1 = q1  h1 = h1  f1 = f1
    Rounds = {p, q, h, f}
    Full = {f}
    Slots = {p1, p2, q1, h1, f1}
    RoundOf <- McRoundOf
    None = None
    Rest = Rest
    MaxDay = 1
    MaxCrashes = 1
    MaxErrors = 1
INVARIANTS UnfinishedIsListed SettledIsIndexed AnswerSurvives DeletionIsWhole
PROPERTIES ImplementsResultLedger DeletionEnds ResultsSurface
CHECK_DEADLOCK FALSE
