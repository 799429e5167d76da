---------------------------- MODULE MCNativeQueue ----------------------------
(* Small instances of NativeQueue for TLC. *)
EXTENDS NativeQueue

CONSTANTS j1, j2, j3, c1, c2

(* j1 and j3 share a bucket, j2 has its own. *)
McBucketOf == [j \in Jobs |-> IF j = j2 THEN 1 ELSE 0]

(* A job of an older, inline queue. *)
McLegacy == [j \in Jobs |-> IF j = j1 THEN [order |-> 0, val |-> c1] ELSE NoRow]
=============================================================================
