----------------------------- MODULE AtomicQueue -----------------------------
(***************************************************************************)
(* What native-queue-state.js promises its callers: a queue and a record   *)
(* of metadata that change together, in one step, per save; jobs keep      *)
(* their FIFO place for as long as they are queued and newcomers line up   *)
(* behind every job that stays.                                            *)
(***************************************************************************)
EXTENDS Integers

CONSTANTS Jobs, Contents, Metas, NoRow

VARIABLES rows, meta

Row == [order : Nat, val : Contents]
Queued(r) == {j \in Jobs : r[j] # NoRow}

KeepsFifo(old, new) ==
    /\ \A j, k \in Queued(old) \cap Queued(new) :
         old[j].order < old[k].order <=> new[j].order < new[k].order
    /\ \A j \in Queued(old) \cap Queued(new), k \in Queued(new) \ Queued(old) :
         new[j].order < new[k].order

Init ==
    /\ rows \in [Jobs -> Row \cup {NoRow}]
    /\ meta \in Metas

Commit ==
    /\ rows' \in [Jobs -> Row \cup {NoRow}]
    /\ meta' \in Metas
    /\ KeepsFifo(rows, rows')

Spec == Init /\ [][Commit]_<<rows, meta>>
=============================================================================
