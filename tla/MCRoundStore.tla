----------------------------- MODULE MCRoundStore -----------------------------
(* Small instances of RoundStore for TLC: rounds q and h of one target,      *)
(* round p of two, round f a full benchmark.                                *)
EXTENDS RoundStore

CONSTANTS p, q, h, f, p1, p2, q1, h1, f1

McRoundOf == [s \in Slots |-> CASE s = f1 -> f [] s = q1 -> q [] s = h1 -> h [] OTHER -> p]

(* Each behaviour has one crash and the rounds of one mix; a failed write    *)
(* comes where there is one target, midnight where there is a full benchmark. *)
McInit ==
    /\ Init /\ crashes = 0
    /\ \/ planned = {f} /\ errors = 0 /\ day = 0
       \/ planned = {q} /\ errors = 0 /\ day = MaxDay
       \/ planned \in {{p}, {q, h}} /\ errors = MaxErrors /\ day = MaxDay
McSpec == McInit /\ [][Next]_vars /\ Fairness
=============================================================================
