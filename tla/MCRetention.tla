------------------------------ MODULE MCRetention ------------------------------
(* A small instance of Retention for TLC: all rounds are of one index day.   *)
EXTENDS Retention

OneDay == [r \in Rounds |-> 1]
=============================================================================
