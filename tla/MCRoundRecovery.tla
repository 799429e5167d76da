---------------------------- MODULE MCRoundRecovery ----------------------------
(* Small instances of RoundRecovery for TLC: rounds A and C are of one suite, *)
(* round B of another; a job of B and the jobs of A and C measure the same.  *)
EXTENDS RoundRecovery

CONSTANTS A, B, C, a1, b1, c1, today, too, later, left, right

McRoundOf == [j \in Jobs |-> CASE j = a1 -> A [] j = b1 -> B [] OTHER -> C]
McKey == [j \in Jobs |-> left]
McScope == [r \in Rounds |-> IF r = B THEN right ELSE left]
McStable == [o \in Occurrences |-> CASE o = today -> A [] o = too -> B [] OTHER -> C]

(* Each behaviour plans two rounds, the other long ago: A and B, with a crash *)
(* and an I/O error or without, or A and C without.                          *)
Mix(due) == planned = Occurrences \ due
McInit ==
    /\ Init
    /\ \/ Mix({today, too})
       \/ calm /\ Mix({today, later})
McSpec == McInit /\ [][Next]_vars

(* Rounds run by hand, with faults.                                         *)
HandInit == Init /\ ~calm
ByHand == HandInit /\ [][Next]_vars /\ Fairness
=============================================================================
