----------------------------- MODULE ResultLedger -----------------------------
(***************************************************************************)
(* What the round store promises to a reader: the result of a slot, once   *)
(* there, stays what it is.  Only a full benchmark that was given up at    *)
(* its deadline is replaced, once, by its late result; only the URL of an  *)
(* upload is added to a partial one; only a full benchmark disappears, as  *)
(* a whole, and only when all of it has a result.                          *)
(***************************************************************************)
CONSTANTS Rounds, Full, Slots, RoundOf, None
VARIABLE result         \* per slot: its measurement, or None

SlotsOf(r) == {s \in Slots : RoundOf[s] = r}

Init == result = [s \in Slots |-> None]

Record(s) ==
    /\ result[s] = None
    /\ \E state \in {"ok", "partial", "failed", "missing", "cancelled"}, expired \in BOOLEAN :
         /\ expired => state = "failed" /\ RoundOf[s] \in Full
         /\ result' = [result EXCEPT ![s] =
                [state |-> state, expired |-> expired, late |-> FALSE, url |-> FALSE]]

ReplaceExpired(s) ==
    /\ result[s] # None /\ result[s].expired /\ RoundOf[s] \in Full
    /\ \E state \in {"ok", "partial", "failed"} :
         result' = [result EXCEPT ![s] =
                [state |-> state, expired |-> FALSE, late |-> TRUE, url |-> FALSE]]

AddUrl(s) ==
    /\ result[s] # None /\ result[s].state = "partial" /\ RoundOf[s] \in Full
    /\ result' = [result EXCEPT ![s].url = TRUE]

Delete(r) ==
    /\ r \in Full /\ \A s \in SlotsOf(r) : result[s] # None
    /\ result' = [s \in Slots |-> IF RoundOf[s] = r THEN None ELSE result[s]]

Next == \/ \E s \in Slots : Record(s) \/ ReplaceExpired(s) \/ AddUrl(s)
        \/ \E r \in Full : Delete(r)
Spec == Init /\ [][Next]_result
=============================================================================
