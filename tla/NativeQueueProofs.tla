-------------------------- MODULE NativeQueueProofs --------------------------
(***************************************************************************)
(* Theorems about NativeQueue for any jobs, buckets, capacity and number   *)
(* of crashes: its state keeps its type, what a reader will find changes   *)
(* only when a save commits, an open store answers with what is stored, a  *)
(* save stores what it was given, and the whole implements AtomicQueue.    *)
(***************************************************************************)
EXTENDS NativeQueue, FiniteNaturals

-----------------------------------------------------------------------------
(* Numbers.                                                                *)

(* Sets of jobs are finite and can be counted.                             *)
LEMMA JobsCounted ==
    ASSUME NEW S \in SUBSET Jobs
    PROVE  IsFiniteSet(S) /\ Cardinality(S) \in Nat
  BY QueueConstants, SubsetCounted

(* NextOrder is above every order in use.                                  *)
LEMMA NextOrderAbove ==
    ASSUME NEW rows \in Rows
    PROVE  /\ NextOrder(rows) \in Nat
           /\ \A j \in Listed(rows) : rows[j].order < NextOrder(rows)
  <1> DEFINE L == Listed(rows)
  <1>1. L \in SUBSET Jobs /\ \A j \in L : rows[j] \in Row
    BY DEF Listed, Rows
  <1>2. CASE L = {}
    BY <1>2 DEF NextOrder
  <1>3. CASE L # {}
    <2> DEFINE f == [j \in L |-> rows[j].order]
    <2> HIDE DEF L
    <2>1. f \in [L -> Nat]
      BY <1>1 DEF Row
    <2>2. IsFiniteSet(L)
      BY <1>1, JobsCounted
    <2> HIDE DEF f
    <2>3. \E m \in L : \A j \in L : f[j] <= f[m]
      BY <2>1, <2>2, <1>3, GreatestValue
    <2>4. \E n \in {rows[j].order : j \in L} : \A j \in L : rows[j].order <= n
      BY <2>3 DEF f
    <2> DEFINE n == CHOOSE n \in {rows[j].order : j \in L} : \A j \in L : rows[j].order <= n
    <2>5. n \in {rows[j].order : j \in L} /\ \A j \in L : rows[j].order <= n
      BY <2>4
    <2>6. NextOrder(rows) = 1 + n
      BY <1>3 DEF NextOrder, L
    <2> HIDE DEF n
    <2>7. n \in Nat /\ \A j \in L : rows[j].order \in Nat
      BY <2>5, <2>1 DEF f
    <2> QED
      BY <2>5, <2>6, <2>7 DEF L
  <1> QED
    BY <1>2, <1>3

-----------------------------------------------------------------------------
(* The inductive invariant.                                                *)

(* What may be pending, and what the disk holds when nothing is.           *)
Journal ==
    /\ pc = "open" => pending = NoTx
    /\ pc \in {"open", "saving"} => meta \in Metas
    /\ pending # NoTx => IF pending.migration THEN pending.meta # NoMeta ELSE Sharded
    /\ pending = NoTx /\ ~Sharded => dir.rows = Empty

(* How far the running apply has come.                                     *)
Applied ==
    Applying =>
      /\ pending # NoTx
      /\ recs = Merge(dir.rows, pending.change)
      /\ \A j \in Jobs : BucketOf[j] \notin todo => dir.rows[j] = recs[j]
      /\ rootDue => pending.meta # NoMeta
      /\ ~rootDue /\ pending.meta # NoMeta => Sharded /\ root.meta = pending.meta

(* What the records in memory may differ in from those on disk.            *)
Cached ==
    pc = "open" /\ Sharded => \A j \in Jobs :
      /\ recs[j] = NoRow <=> dir.rows[j] = NoRow
      /\ dirty[j] = Clean => recs[j] = dir.rows[j]

IInv == TypeOK /\ Journal /\ Applied /\ Cached

-----------------------------------------------------------------------------
(* The operators of the model.                                             *)

DirtyMap == [Jobs -> [stamp : Nat, del : BOOLEAN]]

LEMMA ConstantTypes ==
    /\ Empty \in Rows /\ Spotless \in DirtyMap /\ Clean \in [stamp : Nat, del : BOOLEAN]
    /\ \A j \in Jobs : BucketOf[j] \in Buckets
  BY QueueConstants DEF Empty, Spotless, Clean, Rows, DirtyMap

(* The changes of an intent, merged, make rows again.                      *)
LEMMA MergeType ==
    ASSUME NEW rows \in Rows, NEW change \in [Jobs -> Row \cup {Delete, Same}]
    PROVE  Merge(rows, change) \in Rows
  BY DEF Merge, Rows

(* Applying the changes to rows of which some are already changed gives    *)
(* what applying them to the original rows gives.                          *)
LEMMA MergeAgain ==
    ASSUME NEW rows \in Rows, NEW change \in [Jobs -> Row \cup {Delete, Same}],
           NEW some \in Rows,
           \A j \in Jobs : some[j] \in {rows[j], Merge(rows, change)[j]}
    PROVE  Merge(some, change) = Merge(rows, change)
  BY DEF Merge

(* A bucket that is not written holds no job that changes.                 *)
LEMMA UntouchedIsSame ==
    ASSUME NEW tx \in Tx, NEW rows, NEW j \in Jobs, BucketOf[j] \notin Touched(tx)
    PROVE  tx.change[j] = Same /\ Merge(rows, tx.change)[j] = rows[j]
  <1>1. ~tx.migration
    BY ConstantTypes DEF Touched
  <1>2. tx.change[j] = Same
    BY <1>1 DEF Touched
  <1> QED
    BY <1>2, QueueNulls DEF Merge

LEMMA StampType ==
    NewStamp \in Nat \ {0}
  <1>1. {j \in Jobs : dirty[j] # Clean} \in SUBSET Jobs
    OBVIOUS
  <1> QED
    BY <1>1, JobsCounted DEF NewStamp

(* What syncStructure marks; every job it leaves clean was clean already   *)
(* or is in no record, and a newcomer it marks is in the array.            *)
LEMMA SyncMarks ==
    ASSUME TypeOK
    PROVE  /\ SyncStructure \in DirtyMap
           /\ \A j \in Jobs : SyncStructure[j] = Clean => dirty[j] = Clean \/ recs[j] = NoRow
           /\ \A j \in Newcomers(SyncStructure) : queue[j] # NoRow
  <1>1. CASE FastPath
    BY <1>1 DEF FastPath, SyncStructure, Newcomers, TypeOK, DirtyMap
  <1>2. CASE ~FastPath
    <2> DEFINE late(j) == NewStamp + Cardinality({k \in Unmarked : queue[k].order < queue[j].order})
    <2>1. \A j \in Jobs : late(j) \in Nat \ {0}
      <3> SUFFICES ASSUME NEW j \in Jobs PROVE late(j) \in Nat \ {0}
        OBVIOUS
      <3>1. {k \in Unmarked : queue[k].order < queue[j].order} \in SUBSET Jobs
        BY DEF Unmarked
      <3>2. Cardinality({k \in Unmarked : queue[k].order < queue[j].order}) \in Nat
        BY <3>1, JobsCounted
      <3> QED
        BY <3>2, StampType
    <2>2. NewStamp + Cardinality(Jobs) \in Nat
      <3>1. Jobs \in SUBSET Jobs
        OBVIOUS
      <3> QED
        BY <3>1, JobsCounted, StampType
    <2>3. \A j \in Jobs : dirty[j] \in [stamp : Nat, del : BOOLEAN]
      BY DEF TypeOK
    <2> DEFINE mark(j) ==
                 CASE j \in Unmarked -> [stamp |-> late(j), del |-> FALSE]
                   [] queue[j] = NoRow /\ recs[j] # NoRow ->
                        [stamp |-> IF dirty[j] = Clean THEN NewStamp + Cardinality(Jobs)
                                   ELSE dirty[j].stamp, del |-> TRUE]
                   [] queue[j] = NoRow /\ recs[j] = NoRow /\ ~dirty[j].del -> Clean
                   [] OTHER -> dirty[j]
    <2>4. SyncStructure = [j \in Jobs |-> mark(j)]
      BY <1>2 DEF SyncStructure
    <2> HIDE DEF late
    <2>5. \A j \in Jobs :
            /\ mark(j) \in [stamp : Nat, del : BOOLEAN]
            /\ mark(j) = Clean => dirty[j] = Clean \/ recs[j] = NoRow
            /\ mark(j) # Clean /\ ~mark(j).del /\ recs[j] = NoRow => queue[j] # NoRow
      <3> SUFFICES ASSUME NEW j \in Jobs
                   PROVE  /\ mark(j) \in [stamp : Nat, del : BOOLEAN]
                          /\ mark(j) = Clean => dirty[j] = Clean \/ recs[j] = NoRow
                          /\ mark(j) # Clean /\ ~mark(j).del /\ recs[j] = NoRow
                                => queue[j] # NoRow
        OBVIOUS
      <3>1. CASE j \in Unmarked
        BY <3>1, <2>1 DEF Unmarked, Clean
      <3>2. CASE j \notin Unmarked /\ queue[j] = NoRow /\ recs[j] # NoRow
        BY <3>2, <2>2, <2>3 DEF Clean
      <3>3. CASE j \notin Unmarked /\ queue[j] = NoRow /\ recs[j] = NoRow
        BY <3>3, <2>3 DEF Clean
      <3>4. CASE j \notin Unmarked /\ queue[j] # NoRow
        BY <3>4, <2>3 DEF Clean
      <3> QED
        BY <3>1, <3>2, <3>3, <3>4
    <2> HIDE DEF mark
    <2> QED
      BY <2>4, <2>5 DEF DirtyMap, Newcomers
  <1> QED
    BY <1>1, <1>2

(* The numbers a save gives are naturals.                                  *)
LEMMA PlaceType ==
    ASSUME TypeOK, NEW j \in Jobs, NEW d
    PROVE  Before(queue, j) \in Nat /\ NewOrder(d, j) \in Nat
  <1>1. {k \in Listed(queue) : queue[k].order < queue[j].order} \in SUBSET Jobs
    BY DEF Listed
  <1>2. {k \in Newcomers(d) : d[k].stamp < d[j].stamp} \in SUBSET Jobs
    BY DEF Newcomers
  <1> QED
    BY <1>1, <1>2, JobsCounted DEF Before, NewOrder, TypeOK

(* What a save of an open queue intends is an intent, and it passes        *)
(* checkTransaction.                                                       *)
LEMMA IntentType ==
    ASSUME TypeOK, Journal, pc = "open", NEW full \in BOOLEAN
    PROVE  /\ Intent(full) \in Tx
           /\ Intent(full).migration <=> ~Sharded
           /\ Intent(full).migration => Intent(full).meta # NoMeta
  <1> DEFINE d == SyncStructure
             whole(j) == [order |-> Before(queue, j), val |-> queue[j].val]
             fresh(j) == [order |-> NewOrder(d, j), val |-> queue[j].val]
  <1>1. d \in DirtyMap /\ \A j \in Newcomers(d) : queue[j] # NoRow
    BY SyncMarks
  <1>2. \A j \in Jobs : queue[j] # NoRow => whole(j) \in Row /\ fresh(j) \in Row
    <2> SUFFICES ASSUME NEW j \in Jobs, queue[j] # NoRow
                 PROVE  whole(j) \in Row /\ fresh(j) \in Row
      OBVIOUS
    <2>1. queue[j].val \in Contents
      BY DEF TypeOK, Rows, Row
    <2>2. Before(queue, j) \in Nat /\ NewOrder(d, j) \in Nat
      BY PlaceType
    <2> QED
      BY <2>1, <2>2 DEF Row
  <1> HIDE DEF d, whole, fresh
  <1>3. ChangesFrom(d) \in [Jobs -> Row \cup {Delete, Same}]
    <2> DEFINE change(j) == CASE d[j] = Clean -> Same
                              [] d[j].del -> Delete
                              [] OTHER -> IF recs[j] # NoRow THEN recs[j] ELSE fresh(j)
    <2>1. ChangesFrom(d) = [j \in Jobs |-> change(j)]
      BY DEF ChangesFrom, fresh
    <2>2. \A j \in Jobs : change(j) \in Row \cup {Delete, Same}
      BY <1>1, <1>2 DEF Newcomers, TypeOK, Rows, DirtyMap
    <2> HIDE DEF change
    <2> QED
      BY <2>1, <2>2
  <1>4. [j \in Jobs |-> IF queue[j] = NoRow THEN Same ELSE whole(j)]
           \in [Jobs -> Row \cup {Delete, Same}]
    BY <1>2
  <1>5. /\ [j \in Jobs |-> IF queue[j] = NoRow THEN 0 ELSE 1 + Before(queue, j)] \in [Jobs -> Nat]
        /\ [j \in Jobs |-> d[j].stamp] \in [Jobs -> Nat]
    BY <1>1, PlaceType DEF DirtyMap
  <1>6. meta \in Metas /\ meta # NoMeta
    BY QueueNulls DEF Journal
  <1> DEFINE m == IF ~Sharded \/ (full /\ meta # root.meta) THEN meta ELSE NoMeta
             c == IF ~Sharded THEN [j \in Jobs |-> IF queue[j] = NoRow THEN Same ELSE whole(j)]
                  ELSE ChangesFrom(d)
             r == IF ~Sharded THEN [j \in Jobs |-> IF queue[j] = NoRow THEN 0 ELSE 1 + Before(queue, j)]
                  ELSE [j \in Jobs |-> d[j].stamp]
  <1>7. Intent(full) = [migration |-> ~Sharded, change |-> c, rank |-> r, meta |-> m]
    BY DEF Intent, d, whole
  <1>8. c \in [Jobs -> Row \cup {Delete, Same}] /\ r \in [Jobs -> Nat] /\ m \in Metas \cup {NoMeta}
    BY <1>3, <1>4, <1>5, <1>6
  <1>9. ~Sharded => m # NoMeta
    BY <1>6
  <1> HIDE DEF c, r, m
  <1>10. (~Sharded) \in BOOLEAN
    BY DEF Sharded
  <1>11. Intent(full) \in Tx
    BY <1>7, <1>8, <1>10 DEF Tx
  <1>12. Intent(full).migration = (~Sharded) /\ Intent(full).meta = m
    BY <1>7
  <1> QED
    BY <1>9, <1>11, <1>12, Zenon

(* A job a save says nothing of is on disk as it is in memory.             *)
LEMMA SameIsStored ==
    ASSUME IInv, pc = "open", Sharded, NEW full \in BOOLEAN, NEW j \in Jobs,
           Intent(full).change[j] = Same
    PROVE  recs[j] = dir.rows[j]
  <1> DEFINE d == SyncStructure
  <1>1. Intent(full).change = ChangesFrom(d)
    BY DEF Intent
  <1>2. d[j] = Clean => dirty[j] = Clean \/ recs[j] = NoRow
    <2> HIDE DEF d
    <2> QED
      BY SyncMarks DEF IInv, d
  <1>3. d[j] \in [stamp : Nat, del : BOOLEAN]
    BY SyncMarks DEF IInv, DirtyMap
  <1>4. d[j] = Clean
    <2> DEFINE fresh == [order |-> NewOrder(d, j), val |-> queue[j].val]
    <2>1. SUFFICES ASSUME d[j] # Clean PROVE FALSE
      OBVIOUS
    <2> DEFINE change == CASE d[j] = Clean -> Same
                           [] d[j].del -> Delete
                           [] OTHER -> IF recs[j] # NoRow THEN recs[j] ELSE fresh
    <2>5. ChangesFrom(d)[j] = change
      BY DEF ChangesFrom
    <2>6. change = Same
      <3> HIDE DEF change, d
      <3> QED
        BY <2>5, <1>1
    <2> HIDE DEF d
    <2>2. CASE d[j].del
      BY <2>1, <2>2, <2>6, QueueNulls
    <2>3. CASE ~d[j].del /\ recs[j] # NoRow
      BY <2>1, <2>3, <2>6, QueueNulls DEF IInv, TypeOK, Rows
    <2>4. CASE ~d[j].del /\ recs[j] = NoRow
      <3>1. fresh = Same
        BY <2>1, <2>4, <2>6
      <3>2. queue[j] # NoRow
        BY <2>1, <2>4, SyncMarks DEF IInv, Newcomers, d
      <3>3. queue[j].val \in Contents
        BY <3>2 DEF IInv, TypeOK, Rows, Row
      <3>4. NewOrder(d, j) \in Nat
        BY PlaceType DEF IInv
      <3> QED
        BY <3>1, <3>3, <3>4, QueueNulls DEF Row
    <2> QED
      BY <2>2, <2>3, <2>4, <1>3
  <1> QED
    BY <1>2, <1>4 DEF IInv, Cached

-----------------------------------------------------------------------------
(* Steps that leave the disk alone.                                        *)

(* Load and Recover.                                                       *)
LEMMA ReadStep ==
    ASSUME IInv, Load \/ Recover
    PROVE  IInv'
  <1>1. CASE Load
    <2> DEFINE found == IF Sharded THEN dir.rows ELSE root.inline
    <2>1. found \in Rows /\ root.meta \in Metas /\ NextOrder(found) \in Nat
      BY NextOrderAbove DEF IInv, TypeOK
    <2> HIDE DEF found
    <2>2. UNCHANGED <<root, dir, pending, todo, rootDue, stops>> /\ pending = NoTx
      BY <1>1 DEF Load, HasPending
    <2>3. CASE pc' = "open" /\ queue' = found /\ recs' = found /\ meta' = root.meta
               /\ next' = NextOrder(found) /\ dirty' = Spotless /\ synced' = TRUE
      <3>1. TypeOK'
        BY <2>1, <2>2, <2>3, ConstantTypes DEF IInv, TypeOK, DirtyMap
      <3>2. Journal' /\ Applied'
        BY <2>1, <2>2, <2>3 DEF IInv, Journal, Applied, Applying, Sharded
      <3>3. Cached'
        BY <2>2, <2>3 DEF Cached, Sharded, found
      <3> QED
        BY <3>1, <3>2, <3>3 DEF IInv
    <2>4. CASE pc' = "refused" /\ Forget
      <3>1. TypeOK'
        BY <2>2, <2>4, ConstantTypes DEF IInv, TypeOK, DirtyMap, Forget
      <3>2. Journal' /\ Applied' /\ Cached'
        BY <2>2, <2>4 DEF IInv, Journal, Applied, Applying, Sharded, Cached
      <3> QED
        BY <3>1, <3>2 DEF IInv
    <2> QED
      BY <1>1, <2>3, <2>4 DEF Load, found
  <1>2. CASE Recover
    <2>1. /\ UNCHANGED <<root, dir, pending, queue, meta, next, dirty, synced, stops>>
          /\ pending # NoTx /\ pending \in Tx
      BY <1>2 DEF Recover, HasPending, IInv, TypeOK
    <2>2. pending.change \in [Jobs -> Row \cup {Delete, Same}] /\ pending.meta \in Metas \cup {NoMeta}
      BY <2>1 DEF Tx
    <2>3. CASE pc' = "recovering" /\ recs' = Merge(dir.rows, pending.change)
               /\ todo' = Touched(pending) /\ rootDue' = (pending.meta # NoMeta)
      <3>1. Merge(dir.rows, pending.change) \in Rows
        BY <2>2, MergeType DEF IInv, TypeOK
      <3>2. Touched(pending) \subseteq Buckets
        BY ConstantTypes DEF Touched
      <3>3. TypeOK'
        BY <2>1, <2>3, <3>1, <3>2 DEF IInv, TypeOK
      <3>4. Journal' /\ Cached'
        BY <2>1, <2>3 DEF IInv, Journal, Cached, Sharded
      <3>5. \A j \in Jobs : BucketOf[j] \notin Touched(pending)
                              => Merge(dir.rows, pending.change)[j] = dir.rows[j]
        BY <2>1, UntouchedIsSame
      <3>6. Applied'
        BY <2>1, <2>3, <3>5 DEF Applied
      <3> QED
        BY <3>3, <3>4, <3>6 DEF IInv
    <2>4. CASE pc' = "refused" /\ UNCHANGED <<recs, todo, rootDue>>
      BY <2>1, <2>4 DEF IInv, TypeOK, Journal, Applied, Applying, Sharded, Cached
    <2> QED
      BY <1>2, <2>3, <2>4 DEF Recover
  <1> QED
    BY <1>1, <1>2

(* The callers change the value in memory and mark what they change.       *)
LEMMA CallerStep ==
    ASSUME IInv, Caller
    PROVE  IInv'
  <1> USE DEF IInv
  <1>0. NoRow \notin Row
    BY QueueNulls
  <1>1. ASSUME NEW j \in Jobs, NEW v \in Contents, Push(j, v) PROVE IInv'
    <2>1. NextOrder(queue) \in Nat
      BY NextOrderAbove DEF TypeOK
    <2>2. TypeOK'
      BY <1>1, <2>1 DEF Push, TypeOK, Rows, Row
    <2>3. Journal' /\ Applied' /\ Cached'
      BY <1>1 DEF Push, Journal, Applied, Applying, Sharded, Cached
    <2> QED
      BY <2>2, <2>3
  <1>2. ASSUME NEW j \in Jobs, NEW v \in Contents, Touch(j, v) PROVE IInv'
    <2>1. queue[j] \in Row /\ (recs[j] # NoRow => recs[j] \in Row)
      BY <1>2 DEF Touch, TypeOK, Rows
    <2>2. queue' \in Rows /\ recs' \in Rows
      BY <1>2, <2>1 DEF Touch, TypeOK, Rows, Row
    <2>3. dirty' \in DirtyMap /\ dirty'[j] # Clean
      BY <1>2, StampType DEF Touch, TypeOK, DirtyMap, Clean
    <2>4. TypeOK'
      BY <1>2, <2>2, <2>3 DEF Touch, TypeOK, DirtyMap
    <2>5. Journal' /\ Applied'
      BY <1>2 DEF Touch, Journal, Applied, Applying, Sharded
    <2>6. \A k \in Jobs : (recs'[k] = NoRow <=> recs[k] = NoRow)
                          /\ (k # j => recs'[k] = recs[k] /\ dirty'[k] = dirty[k])
      BY <1>2, <2>1, <1>0 DEF Touch, TypeOK, Rows, Row
    <2>7. Cached'
      BY <1>2, <2>3, <2>6 DEF Touch, Cached, Sharded
    <2> QED
      BY <2>4, <2>5, <2>7
  <1>3. ASSUME NEW j \in Jobs, Finish(j) PROVE IInv'
    <2>1. queue' \in Rows
      BY <1>3 DEF Finish, TypeOK, Rows
    <2>2. dirty' \in DirtyMap /\ dirty'[j] # Clean /\ \A k \in Jobs \ {j} : dirty'[k] = dirty[k]
      BY <1>3, StampType DEF Finish, TypeOK, DirtyMap, Clean
    <2>3. TypeOK'
      BY <1>3, <2>1, <2>2 DEF Finish, TypeOK, DirtyMap
    <2>4. Journal' /\ Applied'
      BY <1>3 DEF Finish, Journal, Applied, Applying, Sharded
    <2>5. Cached'
      BY <1>3, <2>2 DEF Finish, Cached, Sharded
    <2> QED
      BY <2>3, <2>4, <2>5
  <1>4. ASSUME NEW m \in Metas, SetMeta(m) PROVE IInv'
    BY <1>4 DEF SetMeta, TypeOK, Journal, Applied, Applying, Sharded, Cached
  <1> QED
    BY <1>1, <1>2, <1>3, <1>4 DEF Caller

(* A crash forgets what was in memory.                                     *)
LEMMA StopStep ==
    ASSUME IInv, Stop
    PROVE  IInv'
  <1>1. stops' \in 0 .. MaxStops
    BY QueueConstants DEF IInv, TypeOK, Stop
  <1>2. TypeOK'
    BY <1>1, ConstantTypes DEF IInv, TypeOK, DirtyMap, Stop, Forget, diskVars
  <1>3. Journal' /\ Applied' /\ Cached'
    BY DEF IInv, Journal, Applied, Applying, Sharded, Cached, Stop, diskVars
  <1> QED
    BY <1>2, <1>3 DEF IInv

-----------------------------------------------------------------------------
(* Steps of a save and of the apply it shares with recovery.               *)

(* An intent takes its name.                                               *)
LEMMA SaveStep ==
    ASSUME IInv, NEW full \in BOOLEAN, Save(full)
    PROVE  IInv'
  <1> DEFINE tx == Intent(full)
             rows == IF tx.migration THEN Empty ELSE recs
  <1>1. /\ pc = "open" /\ pending' = tx /\ UNCHANGED <<root, dir, stops>>
        /\ \/ /\ pc' = "saving" /\ recs' = Merge(rows, tx.change)
              /\ todo' = Touched(tx) /\ rootDue' = (tx.meta # NoMeta)
              /\ UNCHANGED <<queue, meta, next, dirty, synced>>
           \/ pc' = "closed" /\ Forget /\ UNCHANGED <<todo, rootDue>>
    BY DEF Save
  <1>2. /\ tx \in Tx
        /\ tx.migration <=> ~Sharded
        /\ tx.migration => tx.meta # NoMeta
    BY <1>1, IntentType DEF IInv
  <1>3. Sharded => \A j \in Jobs : tx.change[j] = Same => recs[j] = dir.rows[j]
    BY <1>1, SameIsStored
  <1> HIDE DEF tx
  <1>4. tx # NoTx /\ tx.change \in [Jobs -> Row \cup {Delete, Same}]
    BY <1>2, NoTxIsNoTx DEF Tx
  <1>5. rows \in Rows
    BY ConstantTypes DEF IInv, TypeOK
  <1>6. Merge(rows, tx.change) = Merge(dir.rows, tx.change)
    <2>1. CASE Sharded
      BY <2>1, <1>2, <1>3 DEF Merge
    <2>2. CASE ~Sharded
      BY <2>2, <1>1, <1>2 DEF IInv, Journal
    <2> QED
      BY <2>1, <2>2
  <1> HIDE DEF rows
  <1>7. Merge(rows, tx.change) \in Rows /\ Touched(tx) \subseteq Buckets
    BY <1>4, <1>5, MergeType, ConstantTypes DEF Touched
  <1>8. CASE /\ pc' = "saving" /\ recs' = Merge(rows, tx.change)
             /\ todo' = Touched(tx) /\ rootDue' = (tx.meta # NoMeta)
             /\ UNCHANGED <<queue, meta, next, dirty, synced>>
    <2>1. TypeOK'
      BY <1>1, <1>2, <1>7, <1>8 DEF IInv, TypeOK
    <2>2. Journal' /\ Cached'
      BY <1>1, <1>2, <1>4, <1>8 DEF IInv, Journal, Cached, Sharded
    <2>3. Applied'
      <3>1. \A j \in Jobs : BucketOf[j] \notin Touched(tx)
                              => Merge(dir.rows, tx.change)[j] = dir.rows[j]
        BY <1>2, UntouchedIsSame
      <3> QED
        BY <1>1, <1>4, <1>6, <1>8, <3>1 DEF Applied
    <2> QED
      BY <2>1, <2>2, <2>3 DEF IInv
  <1>9. CASE pc' = "closed" /\ Forget /\ UNCHANGED <<todo, rootDue>>
    <2>1. TypeOK'
      BY <1>1, <1>2, <1>9, ConstantTypes DEF IInv, TypeOK, DirtyMap, Forget
    <2>2. Journal' /\ Applied' /\ Cached'
      BY <1>1, <1>2, <1>4, <1>9 DEF IInv, Journal, Applied, Applying, Cached, Sharded
    <2> QED
      BY <2>1, <2>2 DEF IInv
  <1> QED
    BY <1>1, <1>8, <1>9

(* A save without changes: nothing is marked, so nothing differs.          *)
LEMMA SaveNothingStep ==
    ASSUME IInv, NEW full \in BOOLEAN, SaveNothing(full)
    PROVE  IInv'
  <1>1. /\ pc = "open" /\ dirty' = Spotless /\ synced' = TRUE
        /\ UNCHANGED <<root, dir, pending, pc, queue, meta, recs, next, todo, rootDue, stops>>
    BY DEF SaveNothing
  <1>2. Sharded
    BY <1>1, IntentType DEF SaveNothing, Nothing, IInv
  <1>3. \A j \in Jobs : recs[j] = dir.rows[j]
    BY <1>1, <1>2, SameIsStored DEF SaveNothing, Nothing
  <1>4. TypeOK'
    BY <1>1, ConstantTypes DEF IInv, TypeOK, DirtyMap
  <1>5. Journal' /\ Applied'
    BY <1>1 DEF IInv, Journal, Applied, Applying, Sharded
  <1>6. Cached'
    BY <1>1, <1>3 DEF Cached
  <1> QED
    BY <1>4, <1>5, <1>6 DEF IInv

(* One bucket, the root, or the end of the apply.                          *)
LEMMA ApplyStep ==
    ASSUME IInv, WriteRoot \/ Unlink \/ \E b \in Buckets : WriteBucket(b)
    PROVE  IInv'
  <1> USE DEF IInv
  <1>0. /\ Applying /\ pending \in Tx
        /\ pending.change \in [Jobs -> Row \cup {Delete, Same}]
        /\ pending.meta \in Metas \cup {NoMeta}
    BY DEF WriteRoot, Unlink, WriteBucket, TypeOK, Applied, Tx
  <1>1. ASSUME NEW b \in Buckets, WriteBucket(b) PROVE IInv'
    <2>1. /\ UNCHANGED <<root, pending, pc, queue, meta, recs, next, dirty, synced, rootDue, stops>>
          /\ todo' = todo \ {b} /\ dir'.files = dir.files \cup {b}
          /\ dir' \in [files : SUBSET Buckets, rows : Rows]
          /\ \A j \in Jobs : dir'.rows[j] = IF BucketOf[j] = b THEN recs[j] ELSE dir.rows[j]
      BY <1>1 DEF WriteBucket, TypeOK, Rows
    <2>2. TypeOK'
      BY <2>1 DEF TypeOK
    <2>3. Merge(dir'.rows, pending.change) = Merge(dir.rows, pending.change)
      BY <1>0, <2>1, MergeAgain DEF Applied, TypeOK
    <2>4. Applied'
      BY <1>0, <2>1, <2>3 DEF Applied, Applying, Sharded
    <2>5. Journal' /\ Cached'
      BY <1>0, <2>1 DEF Journal, Applied, Applying, Cached, Sharded
    <2> QED
      BY <2>2, <2>4, <2>5
  <1>2. CASE WriteRoot
    <2>1. /\ UNCHANGED <<dir, pending, pc, queue, meta, recs, next, dirty, synced, todo, stops>>
          /\ rootDue' = FALSE /\ pending.meta # NoMeta
          /\ root' = [kind |-> "sharded", meta |-> pending.meta, inline |-> Empty]
      BY <1>2 DEF WriteRoot, Applied
    <2>2. TypeOK'
      BY <1>0, <2>1, ConstantTypes DEF TypeOK
    <2>3. Journal' /\ Applied' /\ Cached'
      BY <1>0, <2>1 DEF Journal, Applied, Applying, Cached, Sharded
    <2> QED
      BY <2>2, <2>3
  <1>3. CASE Unlink
    <2>1. /\ UNCHANGED <<root, dir, todo, rootDue, stops>> /\ pending' = NoTx
          /\ todo = {} /\ ~rootDue
      BY <1>3 DEF Unlink
    <2>2. Sharded /\ \A j \in Jobs : dir.rows[j] = recs[j]
      BY <1>0, <2>1 DEF Applied, Journal
    <2>3. CASE pc = "saving"
      <3>1. /\ pc' = "open" /\ dirty' = Spotless /\ synced' = TRUE
            /\ UNCHANGED <<queue, recs, meta>> /\ next' \in {NextOrder(recs), next}
        BY <1>3, <2>3 DEF Unlink
      <3>2. NextOrder(recs) \in Nat
        BY NextOrderAbove DEF TypeOK
      <3>3. TypeOK'
        BY <2>1, <3>1, <3>2, ConstantTypes DEF TypeOK, DirtyMap
      <3>4. Journal' /\ Applied' /\ Cached'
        BY <2>1, <2>2, <2>3, <3>1 DEF Journal, Applied, Applying, Cached, Sharded
      <3> QED
        BY <3>3, <3>4
    <2>4. CASE pc # "saving"
      <3>1. pc' = "closed" /\ Forget
        BY <1>3, <2>4 DEF Unlink
      <3>2. TypeOK'
        BY <2>1, <3>1, ConstantTypes DEF TypeOK, DirtyMap, Forget
      <3>3. Journal' /\ Applied' /\ Cached'
        BY <2>1, <2>2, <3>1 DEF Journal, Applied, Applying, Cached, Sharded
      <3> QED
        BY <3>2, <3>3
    <2> QED
      BY <2>3, <2>4
  <1> QED
    BY <1>1, <1>2, <1>3

-----------------------------------------------------------------------------
(* Theorems.                                                               *)

LEMMA Initially ==
    Init => IInv
  <1> SUFFICES ASSUME Init PROVE IInv
    OBVIOUS
  <1>1. TypeOK
    <2>1. root \in [kind : {"missing", "inline", "sharded"}, meta : Metas, inline : Rows]
      BY QueueConstants, QueueNulls, ConstantTypes DEF Init
    <2>2. dir \in [files : SUBSET Buckets, rows : Rows]
      BY ConstantTypes DEF Init
    <2>3. 0 \in 0 .. MaxStops
      BY QueueConstants
    <2> QED
      BY <2>1, <2>2, <2>3, ConstantTypes DEF Init, TypeOK, DirtyMap
  <1>2. Journal /\ Applied /\ Cached
    BY DEF Init, Journal, Applied, Applying, Cached, Sharded
  <1> QED
    BY <1>1, <1>2 DEF IInv

LEMMA Inductive ==
    IInv /\ [Next]_vars => IInv'
  <1> SUFFICES ASSUME IInv, [Next]_vars PROVE IInv'
    OBVIOUS
  <1>1. CASE Caller
    BY <1>1, CallerStep
  <1>2. CASE Load \/ Recover
    BY <1>2, ReadStep
  <1>3. CASE WriteRoot \/ Unlink \/ \E b \in Buckets : WriteBucket(b)
    BY <1>3, ApplyStep
  <1>4. CASE Stop
    BY <1>4, StopStep
  <1>5. CASE \E full \in BOOLEAN : Save(full) \/ SaveNothing(full)
    BY <1>5, SaveStep, SaveNothingStep
  <1>6. CASE UNCHANGED vars
    BY <1>6 DEF vars, IInv, TypeOK, Journal, Applied, Applying, Cached, Sharded
  <1> QED
    BY <1>1, <1>2, <1>3, <1>4, <1>5, <1>6 DEF Next, Store

LEMMA Invariance ==
    Spec => []IInv
  BY Initially, Inductive, PTL DEF Spec

(* The store's state keeps its type, whatever it recovers and saves.       *)
THEOREM TypeCorrect ==
    Spec => []TypeOK
  <1>1. IInv => TypeOK
    BY DEF IInv
  <1> QED
    BY <1>1, Invariance, PTL

CommittedKept ==
    StoredRows' # StoredRows \/ StoredMeta' # StoredMeta =>
      pc = "open" /\ pending = NoTx /\ pending' # NoTx

(* Only the intent of a save changes what is stored.                       *)
LEMMA StoredIsKept ==
    ASSUME IInv, Next
    PROVE  CommittedKept
  <1>1. CASE UNCHANGED <<root, dir, pending>>
    BY <1>1 DEF CommittedKept, StoredRows, StoredMeta, Sharded
  <1>2. ASSUME NEW full \in BOOLEAN, Save(full) PROVE CommittedKept
    <2>1. pc = "open" /\ pending' = Intent(full)
      BY <1>2 DEF Save
    <2>2. pending' # NoTx
      BY <2>1, IntentType, NoTxIsNoTx DEF IInv
    <2> QED
      BY <2>1, <2>2 DEF IInv, Journal, CommittedKept
  <1>3. ASSUME NEW b \in Buckets, WriteBucket(b) PROVE CommittedKept
    <2>1. /\ UNCHANGED <<root, pending>> /\ pending # NoTx
          /\ recs = Merge(dir.rows, pending.change)
          /\ \A j \in Jobs : dir'.rows[j] \in {recs[j], dir.rows[j]}
      BY <1>3 DEF WriteBucket, IInv, Applied
    <2>2. /\ pending.change \in [Jobs -> Row \cup {Delete, Same}]
          /\ dir.rows \in Rows /\ dir'.rows \in Rows
      <3>1. TypeOK'
        BY <1>3, Inductive DEF Next, Store, IInv
      <3> QED
        BY <3>1, <2>1 DEF IInv, TypeOK, Tx
    <2>3. Merge(dir'.rows, pending.change) = Merge(dir.rows, pending.change)
      BY <2>1, <2>2, MergeAgain
    <2> QED
      BY <2>1, <2>3 DEF CommittedKept, StoredRows, StoredMeta
  <1>4. CASE WriteRoot
    BY <1>4 DEF CommittedKept, WriteRoot, IInv, Applied, StoredRows, StoredMeta
  <1>5. CASE Unlink
    <2>1. /\ UNCHANGED <<root, dir>> /\ pending' = NoTx /\ pending # NoTx
          /\ recs = Merge(dir.rows, pending.change)
          /\ Sharded /\ \A j \in Jobs : dir.rows[j] = recs[j]
          /\ pending.meta # NoMeta => root.meta = pending.meta
      BY <1>5 DEF Unlink, IInv, Applied, Journal
    <2>2. dir.rows = recs
      BY <2>1 DEF IInv, TypeOK, Rows
    <2> QED
      BY <2>1, <2>2 DEF CommittedKept, StoredRows, StoredMeta, Sharded
  <1> QED
    BY <1>1, <1>2, <1>3, <1>4, <1>5
    DEF Next, Caller, Store, Push, Touch, Finish, SetMeta, Load, Recover,
        SaveNothing, Stop, diskVars

(* What a later reader will find changes when the intent of a save takes   *)
(* its name, and at no other step: a crash at any point of an apply loses  *)
(* nothing and shows nothing half done, and a recovery that runs twice, or *)
(* stops half-way, changes nothing that was committed.                     *)
THEOREM SavesAlone ==
    Spec => OnlySavesCommit
  <1>1. IInv /\ [Next]_vars => [CommittedKept]_vars
    BY StoredIsKept
  <1> QED
    BY <1>1, Invariance, PTL DEF Spec, OnlySavesCommit, CommittedKept

-----------------------------------------------------------------------------
(* What is in memory and what is stored, job by job.                       *)

(* Two arrays of jobs hold the same jobs with the same contents, and those *)
(* not marked before their first save in the same order.                   *)
Agree(a, b) ==
    /\ Listed(a) = Listed(b)
    /\ \A j \in Listed(a) : a[j].val = b[j].val
    /\ \A j, k \in Listed(a) \ Provider : a[j].order < a[k].order <=> b[j].order < b[k].order

(* The array and the records of an open store: jobs that are in both hold  *)
(* the same object, and newcomers stand behind them.                       *)
Remembers ==
    pc = "open" =>
      LET both == Listed(queue) \cap Listed(recs)
      IN /\ \A j \in both : queue[j].val = recs[j].val
         /\ \A j, k \in both \ Provider :
              queue[j].order < queue[k].order <=> recs[j].order < recs[k].order
         /\ \A j \in both, k \in Listed(queue) \ Listed(recs) : queue[j].order < queue[k].order
         /\ \A j \in Listed(recs) : recs[j].order < next

(* What a mark says: a deleted job has left the array, and only a job of   *)
(* the provider is marked before its first save.                           *)
Marks ==
    pc = "open" =>
      /\ \A j \in Jobs : dirty[j].del => queue[j] = NoRow
      /\ \A j \in Listed(queue) \ Listed(recs) : dirty[j] # Clean => j \in Provider
      /\ synced => Listed(queue) = Listed(recs)

(* A save in progress writes the array it was given.                       *)
Matches == pc = "saving" => Agree(queue, recs)

(* FIFO numbers never change between two saves; of an inline queue, whose  *)
(* jobs are numbered afresh by the first save, the array keeps them.       *)
Numbered ==
    pc = "open" => \A j \in Listed(recs) :
      IF Sharded THEN recs[j].order = dir.rows[j].order
      ELSE queue[j] # NoRow => queue[j].order = root.inline[j].order
Inline ==
    pc = "open" /\ ~Sharded => \A j \in Jobs :
      /\ recs[j] = NoRow <=> root.inline[j] = NoRow
      /\ dirty[j] = Clean => recs[j] = root.inline[j]

Memory == Remembers /\ Marks /\ Matches /\ Numbered /\ Inline

-----------------------------------------------------------------------------
(* Operators.                                                              *)

(* Counting the smaller ones keeps the order.                              *)
LEMMA RankKeepsOrder ==
    ASSUME NEW D, IsFiniteSet(D), NEW f \in [D -> Nat], NEW j \in D, NEW k \in D
    PROVE  Cardinality({i \in D : f[i] < f[j]}) < Cardinality({i \in D : f[i] < f[k]})
             <=> f[j] < f[k]
  <1> DEFINE A == {i \in D : f[i] < f[j]}
             B == {i \in D : f[i] < f[k]}
  <1>1. /\ A \in SUBSET D /\ B \in SUBSET D
        /\ IsFiniteSet(A) /\ IsFiniteSet(B)
        /\ Cardinality(A) \in Nat /\ Cardinality(B) \in Nat
    <2>1. A \in SUBSET D /\ B \in SUBSET D
      OBVIOUS
    <2> QED
      BY <2>1, SubsetCounted
  <1>2. CASE f[j] < f[k]
    <2>1. A \cup {j} \subseteq B /\ j \notin A
      BY <1>2
    <2> HIDE DEF A, B
    <2>2. IsFiniteSet(A \cup {j}) /\ Cardinality(A \cup {j}) = Cardinality(A) + 1
      BY <1>1, <2>1, FS_AddElement
    <2>3. Cardinality(A \cup {j}) <= Cardinality(B)
      BY <1>1, <2>1, <2>2, FS_Subset
    <2>4. Cardinality(A) < Cardinality(B)
      BY <1>1, <2>2, <2>3
    <2> QED
      BY <1>2, <2>4 DEF A, B
  <1>3. CASE ~(f[j] < f[k])
    <2>1. B \subseteq A
      BY <1>3
    <2> HIDE DEF A, B
    <2>2. Cardinality(B) <= Cardinality(A)
      BY <1>1, <2>1, FS_Subset
    <2>3. ~(Cardinality(A) < Cardinality(B))
      BY <1>1, <2>2
    <2> QED
      BY <1>3, <2>3 DEF A, B
  <1> QED
    BY <1>2, <1>3

LEMMA BeforeKeepsOrder ==
    ASSUME NEW rows \in Rows, NEW j \in Listed(rows), NEW k \in Listed(rows)
    PROVE  Before(rows, j) < Before(rows, k) <=> rows[j].order < rows[k].order
  <1> DEFINE D == Listed(rows)
             f == [i \in D |-> rows[i].order]
  <1>1. IsFiniteSet(D) /\ D \in SUBSET Jobs
    <2>1. D \in SUBSET Jobs
      BY DEF Listed
    <2> HIDE DEF D
    <2> QED
      BY <2>1, JobsCounted
  <1>2. f \in [D -> Nat]
    BY DEF Listed, Rows, Row
  <1>3. /\ Before(rows, j) = Cardinality({i \in D : f[i] < f[j]})
        /\ Before(rows, k) = Cardinality({i \in D : f[i] < f[k]})
    <2>1. {i \in D : f[i] < f[j]} = {i \in D : rows[i].order < rows[j].order}
      OBVIOUS
    <2>2. {i \in D : f[i] < f[k]} = {i \in D : rows[i].order < rows[k].order}
      OBVIOUS
    <2> HIDE DEF f
    <2> QED
      BY <2>1, <2>2 DEF Before
  <1>4. f[j] = rows[j].order /\ f[k] = rows[k].order
    OBVIOUS
  <1> HIDE DEF D, f
  <1> QED
    BY <1>1, <1>2, <1>3, <1>4, RankKeepsOrder DEF D

(* syncStructure by cases, when it compares the whole array.               *)
LEMMA SyncCases ==
    ASSUME ~FastPath, NEW j \in Jobs
    PROVE  /\ j \in Unmarked =>
                SyncStructure[j] =
                  [stamp |-> NewStamp + Cardinality({k \in Unmarked : queue[k].order < queue[j].order}),
                   del |-> FALSE]
           /\ j \notin Unmarked /\ queue[j] # NoRow => SyncStructure[j] = dirty[j]
           /\ queue[j] = NoRow /\ recs[j] # NoRow =>
                SyncStructure[j].del /\ SyncStructure[j] # Clean
           /\ queue[j] = NoRow /\ recs[j] = NoRow =>
                SyncStructure[j] = IF dirty[j].del THEN dirty[j] ELSE Clean
  <1> DEFINE new == [stamp |-> NewStamp + Cardinality({k \in Unmarked : queue[k].order < queue[j].order}),
                     del |-> FALSE]
             s == IF dirty[j] = Clean THEN NewStamp + Cardinality(Jobs) ELSE dirty[j].stamp
             gone == [stamp |-> s, del |-> TRUE]
  <1>1. SyncStructure[j] =
          CASE j \in Unmarked -> new
            [] queue[j] = NoRow /\ recs[j] # NoRow -> gone
            [] queue[j] = NoRow /\ recs[j] = NoRow /\ ~dirty[j].del -> Clean
            [] OTHER -> dirty[j]
    BY DEF SyncStructure
  <1>2. gone.del /\ gone # Clean
    BY DEF Clean
  <1>3. j \in Unmarked => queue[j] # NoRow /\ recs[j] = NoRow
    BY DEF Unmarked
  <1> HIDE DEF new, gone
  <1>4. j \in Unmarked => SyncStructure[j] = new
    BY <1>1, <1>3
  <1> QED
    BY <1>1, <1>2, <1>3, <1>4 DEF new

(* What a save finds to say of each job is what the array makes of it.     *)
LEMMA SyncFinds ==
    ASSUME TypeOK, Marks, pc = "open", NEW j \in Jobs
    PROVE  /\ queue[j] # NoRow => /\ ~SyncStructure[j].del
                                  /\ SyncStructure[j] = Clean => recs[j] # NoRow
           /\ queue[j] = NoRow => \/ SyncStructure[j] = Clean /\ recs[j] = NoRow
                                  \/ SyncStructure[j] # Clean /\ SyncStructure[j].del
  <1>1. /\ dirty[j].del => queue[j] = NoRow
        /\ synced => (queue[j] = NoRow <=> recs[j] = NoRow)
    BY DEF Marks, Listed
  <1>2. CASE FastPath
    BY <1>1, <1>2 DEF FastPath, SyncStructure, Clean
  <1>3. CASE ~FastPath
    <2>1. CASE j \in Unmarked
      <3> DEFINE n == Cardinality({k \in Unmarked : queue[k].order < queue[j].order})
      <3>1. n \in Nat
        <4>1. {k \in Unmarked : queue[k].order < queue[j].order} \in SUBSET Jobs
          BY DEF Unmarked
        <4> QED
          BY <4>1, JobsCounted
      <3>2. SyncStructure[j] = [stamp |-> NewStamp + n, del |-> FALSE] /\ queue[j] # NoRow
        BY <1>3, <2>1, SyncCases DEF Unmarked
      <3> HIDE DEF n
      <3>3. ~SyncStructure[j].del /\ SyncStructure[j].stamp # 0
        BY <3>1, <3>2, StampType
      <3> QED
        BY <3>2, <3>3 DEF Clean
    <2>2. CASE j \notin Unmarked /\ queue[j] # NoRow
      BY <1>1, <1>3, <2>2, SyncCases DEF Unmarked
    <2>3. CASE queue[j] = NoRow
      BY <1>3, <2>3, SyncCases DEF Clean
    <2> QED
      BY <2>1, <2>2, <2>3
  <1> QED
    BY <1>2, <1>3

(* Newcomers are stamped in the order of the array, but for those that     *)
(* were marked before their first save.                                    *)
LEMMA StampsInOrder ==
    ASSUME TypeOK, Marks, pc = "open",
           NEW j \in Newcomers(SyncStructure) \ Provider,
           NEW k \in Newcomers(SyncStructure) \ Provider
    PROVE  SyncStructure[j].stamp < SyncStructure[k].stamp <=> queue[j].order < queue[k].order
  <1>1. ~FastPath
    BY DEF FastPath, SyncStructure, Newcomers
  <1>2. ASSUME NEW i \in Newcomers(SyncStructure) \ Provider PROVE i \in Unmarked
    <2>1. i \in Jobs /\ queue[i] # NoRow /\ recs[i] = NoRow
      BY SyncMarks DEF Newcomers
    <2>2. dirty[i] = Clean
      BY <2>1 DEF Marks, Listed
    <2> QED
      BY <2>1, <2>2 DEF Unmarked
  <1> DEFINE f == [i \in Unmarked |-> queue[i].order]
  <1>3. f \in [Unmarked -> Nat] /\ IsFiniteSet(Unmarked)
    <2>1. Unmarked \in SUBSET Jobs
      BY DEF Unmarked
    <2> QED
      BY <2>1, JobsCounted DEF TypeOK, Rows, Row, Unmarked
  <1>4. ASSUME NEW i \in Unmarked
        PROVE  /\ {m \in Unmarked : queue[m].order < queue[i].order} = {m \in Unmarked : f[m] < f[i]}
               /\ Cardinality({m \in Unmarked : f[m] < f[i]}) \in Nat
               /\ f[i] = queue[i].order
    <2>1. {m \in Unmarked : queue[m].order < queue[i].order} = {m \in Unmarked : f[m] < f[i]}
      OBVIOUS
    <2>2. {m \in Unmarked : f[m] < f[i]} \in SUBSET Jobs
      BY DEF Unmarked
    <2> QED
      BY <2>1, <2>2, JobsCounted
  <1> HIDE DEF f
  <1>5. ASSUME NEW i \in Unmarked
        PROVE  SyncStructure[i].stamp = NewStamp + Cardinality({m \in Unmarked : f[m] < f[i]})
    <2> DEFINE n == Cardinality({m \in Unmarked : queue[m].order < queue[i].order})
    <2>1. i \in Jobs
      BY DEF Unmarked
    <2>2. SyncStructure[i] = [stamp |-> NewStamp + n, del |-> FALSE]
      BY <1>1, <2>1, SyncCases
    <2>3. n = Cardinality({m \in Unmarked : f[m] < f[i]})
      BY <1>4
    <2> HIDE DEF n
    <2> QED
      BY <2>2, <2>3
  <1>6. Cardinality({m \in Unmarked : f[m] < f[j]}) < Cardinality({m \in Unmarked : f[m] < f[k]})
          <=> f[j] < f[k]
    BY <1>2, <1>3, RankKeepsOrder
  <1> DEFINE rank(i) == Cardinality({m \in Unmarked : f[m] < f[i]})
  <1>7. \A i \in {j, k} : /\ SyncStructure[i].stamp = NewStamp + rank(i) /\ rank(i) \in Nat
                          /\ f[i] = queue[i].order
    BY <1>2, <1>4, <1>5
  <1>8. rank(j) < rank(k) <=> f[j] < f[k]
    BY <1>6
  <1> HIDE DEF rank
  <1> QED
    BY <1>7, <1>8, StampType

(* The numbers of newcomers follow their stamps, behind all records.       *)
LEMMA NumbersInOrder ==
    ASSUME TypeOK, NEW d \in DirtyMap, NEW j \in Newcomers(d), NEW k \in Newcomers(d)
    PROVE  /\ NewOrder(d, j) < NewOrder(d, k) <=> d[j].stamp < d[k].stamp
           /\ NewOrder(d, j) \in Nat /\ next <= NewOrder(d, j)
  <1> DEFINE D == Newcomers(d)
             f == [i \in D |-> d[i].stamp]
  <1>1. D \in SUBSET Jobs
    BY DEF Newcomers
  <1>2. f \in [D -> Nat] /\ IsFiniteSet(D)
    <2>1. \A i \in D : d[i].stamp \in Nat
      BY <1>1 DEF DirtyMap
    <2> HIDE DEF D
    <2> QED
      BY <1>1, <2>1, JobsCounted
  <1>3. ASSUME NEW i \in D
        PROVE  /\ NewOrder(d, i) = next + Cardinality({m \in D : f[m] < f[i]})
               /\ Cardinality({m \in D : f[m] < f[i]}) \in Nat
               /\ f[i] = d[i].stamp
    <2>1. {m \in D : d[m].stamp < d[i].stamp} = {m \in D : f[m] < f[i]}
      OBVIOUS
    <2>2. {m \in D : f[m] < f[i]} \in SUBSET Jobs
      BY <1>1
    <2> HIDE DEF f
    <2>3. NewOrder(d, i) = next + Cardinality({m \in D : f[m] < f[i]})
      BY <2>1 DEF NewOrder
    <2>4. f[i] = d[i].stamp
      BY DEF f
    <2> QED
      BY <2>2, <2>3, <2>4, JobsCounted
  <1> HIDE DEF D, f
  <1>4. j \in D /\ k \in D /\ next \in Nat
    BY DEF D, TypeOK
  <1>5. Cardinality({m \in D : f[m] < f[j]}) < Cardinality({m \in D : f[m] < f[k]})
          <=> f[j] < f[k]
    BY <1>2, <1>4, RankKeepsOrder
  <1> QED
    BY <1>3, <1>4, <1>5

-----------------------------------------------------------------------------
(* What a save stores.                                                     *)

(* The rows a save has in memory once its intent has its name: the array,  *)
(* whose newcomers come after every job that was stored before.            *)
LEMMA SaveStores ==
    ASSUME IInv, Memory, pc = "open", Sharded, NEW full \in BOOLEAN,
           NEW new, new = Merge(recs, Intent(full).change)
    PROVE  /\ Agree(queue, new)
           /\ \A j \in Listed(recs) \cap Listed(new) : new[j] = recs[j]
           /\ \A j \in Listed(new) \ Listed(recs) : new[j].order \in Nat /\ next <= new[j].order
  <1> DEFINE d == SyncStructure
             row(j) == [order |-> NewOrder(d, j), val |-> queue[j].val]
             change(j) == CASE d[j] = Clean -> Same
                            [] d[j].del -> Delete
                            [] OTHER -> IF recs[j] # NoRow THEN recs[j] ELSE row(j)
  <1>1. /\ TypeOK /\ Marks /\ d \in DirtyMap /\ queue \in Rows /\ recs \in Rows
        /\ Intent(full).change = ChangesFrom(d)
    BY SyncMarks DEF IInv, Memory, TypeOK, Intent
  <1>2. \A j \in Jobs : new[j] = CASE change(j) = Same -> recs[j]
                                   [] change(j) = Delete -> NoRow
                                   [] OTHER -> change(j)
    <2>1. ChangesFrom(d) = [j \in Jobs |-> change(j)]
      BY DEF ChangesFrom
    <2> HIDE DEF change, d
    <2> QED
      BY <1>1, <2>1 DEF Merge
  <1>3. ASSUME NEW j \in Jobs
        PROVE  /\ queue[j] # NoRow /\ recs[j] # NoRow => new[j] = recs[j]
               /\ queue[j] # NoRow /\ recs[j] = NoRow => new[j] = row(j) /\ j \in Newcomers(d)
               /\ queue[j] = NoRow => new[j] = NoRow
               /\ row(j).order = NewOrder(d, j) /\ row(j).val = queue[j].val
    <2>1. /\ queue[j] # NoRow => ~d[j].del /\ (d[j] = Clean => recs[j] # NoRow)
          /\ queue[j] = NoRow => (d[j] = Clean /\ recs[j] = NoRow) \/ (d[j] # Clean /\ d[j].del)
      BY <1>1, SyncFinds
    <2>2. recs[j] # NoRow => recs[j] \in Row
      BY <1>1 DEF Rows
    <2>3. queue[j] # NoRow => row(j) \in Row
      BY <1>1, PlaceType DEF Rows, Row
    <2>4. row(j).order = NewOrder(d, j) /\ row(j).val = queue[j].val
      OBVIOUS
    <2> HIDE DEF d, row
    <2>5. CASE queue[j] # NoRow /\ recs[j] # NoRow
      <3>1. change(j) \in {Same, recs[j]}
        BY <2>1, <2>5
      <3> HIDE DEF change
      <3> QED
        BY <1>2, <2>2, <2>4, <2>5, <3>1, QueueNulls
    <2>6. CASE queue[j] # NoRow /\ recs[j] = NoRow
      <3>1. change(j) = row(j)
        BY <2>1, <2>6
      <3> HIDE DEF change
      <3> QED
        BY <1>2, <2>1, <2>3, <2>4, <2>6, <3>1, QueueNulls DEF Newcomers
    <2>7. CASE queue[j] = NoRow
      <3>1. (change(j) = Same /\ recs[j] = NoRow) \/ change(j) = Delete
        BY <2>1, <2>7
      <3> HIDE DEF change
      <3> QED
        BY <1>2, <2>4, <2>7, <3>1, QueueNulls
    <2> QED
      BY <2>5, <2>6, <2>7
  <1> HIDE DEF d, row, change
  <1>4. \A j \in Jobs : queue[j] # NoRow => queue[j].order \in Nat
    BY <1>1 DEF Rows, Row
  <1>5. ASSUME NEW j \in Jobs, queue[j] # NoRow
        PROVE  new[j] # NoRow /\ new[j].val = queue[j].val
    <2>1. CASE recs[j] # NoRow
      BY <1>3, <1>5, <2>1 DEF Memory, Remembers, Listed
    <2>2. CASE recs[j] = NoRow
      <3>1. new[j] = row(j) /\ row(j).val = queue[j].val /\ NewOrder(d, j) \in Nat
        BY <1>1, <1>3, <1>5, <2>2, PlaceType
      <3>2. new[j] \in Row
        BY <1>1, <1>5, <3>1 DEF Rows, Row, row
      <3> QED
        BY <3>1, <3>2, QueueNulls
    <2> QED
      BY <2>1, <2>2
  <1>6. Listed(queue) = Listed(new) /\ \A j \in Listed(queue) : queue[j].val = new[j].val
    BY <1>3, <1>5 DEF Listed
  <1>7. ASSUME NEW j \in Jobs, queue[j] # NoRow, recs[j] = NoRow
        PROVE  /\ j \in Newcomers(d) /\ new[j].order = NewOrder(d, j)
               /\ new[j].order \in Nat /\ next <= new[j].order
    BY <1>1, <1>3, <1>7, NumbersInOrder
  <1>8. \A j \in Jobs : recs[j] # NoRow => recs[j].order \in Nat /\ recs[j].order < next
    BY <1>1 DEF Memory, Remembers, Listed, Rows, Row
  <1>9. ASSUME NEW j \in Listed(queue) \ Provider, NEW k \in Listed(queue) \ Provider
        PROVE  queue[j].order < queue[k].order <=> new[j].order < new[k].order
    <2>1. j \in Jobs /\ k \in Jobs /\ queue[j] # NoRow /\ queue[k] # NoRow /\ next \in Nat
      BY <1>1 DEF Listed, TypeOK
    <2>2. CASE recs[j] # NoRow /\ recs[k] # NoRow
      <3>1. new[j] = recs[j] /\ new[k] = recs[k]
        BY <1>3, <2>1, <2>2
      <3> QED
        BY <2>1, <2>2, <3>1 DEF Memory, Remembers, Listed
    <2>3. CASE recs[j] # NoRow /\ recs[k] = NoRow
      <3>1. queue[j].order < queue[k].order
        BY <2>1, <2>3 DEF Memory, Remembers, Listed
      <3>2. new[j] = recs[j]
        BY <1>3, <2>1, <2>3
      <3> QED
        BY <1>7, <1>8, <2>1, <2>3, <3>1, <3>2
    <2>4. CASE recs[j] = NoRow /\ recs[k] # NoRow
      <3>1. queue[k].order < queue[j].order
        BY <2>1, <2>4 DEF Memory, Remembers, Listed
      <3>2. new[k] = recs[k]
        BY <1>3, <2>1, <2>4
      <3> QED
        BY <1>4, <1>7, <1>8, <2>1, <2>4, <3>1, <3>2
    <2>5. CASE recs[j] = NoRow /\ recs[k] = NoRow
      <3>1. /\ j \in Newcomers(d) \ Provider /\ new[j].order = NewOrder(d, j)
            /\ k \in Newcomers(d) \ Provider /\ new[k].order = NewOrder(d, k)
        BY <1>7, <2>1, <2>5
      <3>2. d[j].stamp < d[k].stamp <=> queue[j].order < queue[k].order
        BY <1>1, <3>1, StampsInOrder DEF Memory, d
      <3>3. NewOrder(d, j) < NewOrder(d, k) <=> d[j].stamp < d[k].stamp
        BY <1>1, <3>1, NumbersInOrder
      <3> QED
        BY <3>1, <3>2, <3>3
    <2> QED
      BY <2>2, <2>3, <2>4, <2>5
  <1>10. \A j \in Listed(recs) \cap Listed(new) : new[j] = recs[j]
    BY <1>3, <1>6 DEF Listed
  <1>11. \A j \in Listed(new) \ Listed(recs) : new[j].order \in Nat /\ next <= new[j].order
    BY <1>6, <1>7 DEF Listed
  <1> QED
    BY <1>6, <1>9, <1>10, <1>11 DEF Agree

(* The rows a migration writes: the array, numbered by place.              *)
LEMMA MigrationStores ==
    ASSUME IInv, pc = "open", ~Sharded, NEW full \in BOOLEAN,
           NEW new, new = Merge(Empty, Intent(full).change)
    PROVE  /\ Listed(queue) = Listed(new)
           /\ \A j \in Listed(queue) : queue[j].val = new[j].val
           /\ \A j, k \in Listed(queue) :
                queue[j].order < queue[k].order <=> new[j].order < new[k].order
  <1> DEFINE row(j) == [order |-> Before(queue, j), val |-> queue[j].val]
  <1>1. TypeOK /\ queue \in Rows
    BY DEF IInv, TypeOK
  <1>2. \A j \in Jobs : queue[j] # NoRow => row(j) \in Row
    BY <1>1, PlaceType DEF Rows, Row
  <1>3. Intent(full).change = [j \in Jobs |-> IF queue[j] = NoRow THEN Same ELSE row(j)]
    BY DEF Intent
  <1>4. \A j : row(j).order = Before(queue, j) /\ row(j).val = queue[j].val
    OBVIOUS
  <1> HIDE DEF row
  <1>5. \A j \in Jobs : new[j] = IF queue[j] = NoRow THEN NoRow ELSE row(j)
    BY <1>2, <1>3, QueueNulls DEF Merge, Empty
  <1>6. \A j \in Jobs : queue[j] # NoRow => row(j) # NoRow
    BY <1>2, QueueNulls
  <1>7. ASSUME NEW j \in Listed(queue), NEW k \in Listed(queue)
        PROVE  queue[j].order < queue[k].order <=> new[j].order < new[k].order
    <2>1. new[j] = row(j) /\ new[k] = row(k)
      BY <1>5 DEF Listed
    <2> QED
      BY <1>1, <1>4, <2>1, BeforeKeepsOrder
  <1>8. Listed(queue) = Listed(new)
    BY <1>5, <1>6 DEF Listed
  <1>9. \A j \in Listed(queue) : queue[j].val = new[j].val
    BY <1>4, <1>5 DEF Listed
  <1> QED
    BY <1>7, <1>8, <1>9

(* Either way the store now holds the array it was given.                  *)
LEMMA SavedAgrees ==
    ASSUME IInv, Memory, NEW full \in BOOLEAN, Save(full), pc' = "saving"
    PROVE  Agree(queue, recs') /\ queue' = queue
  <1>1. /\ pc = "open" /\ queue' = queue
        /\ recs' = Merge(IF Intent(full).migration THEN Empty ELSE recs, Intent(full).change)
    BY DEF Save
  <1>2. Intent(full).migration <=> ~Sharded
    BY <1>1, IntentType DEF IInv
  <1>3. CASE Sharded
    BY <1>1, <1>2, <1>3, SaveStores
  <1>4. CASE ~Sharded
    <2>1. recs' = Merge(Empty, Intent(full).change)
      BY <1>1, <1>2, <1>4
    <2> QED
      BY <1>1, <1>4, <2>1, MigrationStores DEF Agree
  <1> QED
    BY <1>3, <1>4

-----------------------------------------------------------------------------
(* One lemma per kind of step.                                             *)

LEMMA LoadRemembers ==
    ASSUME IInv, Load
    PROVE  Memory'
  <1> DEFINE found == IF Sharded THEN dir.rows ELSE root.inline
  <1>1. found \in Rows /\ UNCHANGED <<root, dir>>
    BY DEF Load, IInv, TypeOK
  <1>2. CASE pc' = "open" /\ queue' = found /\ recs' = found
             /\ next' = NextOrder(found) /\ dirty' = Spotless /\ synced' = TRUE
    <2> HIDE DEF found
    <2>1. \A j \in Listed(found) : found[j].order < NextOrder(found)
      BY <1>1, NextOrderAbove
    <2>2. Remembers'
      BY <1>2, <2>1 DEF Remembers, Listed
    <2>3. Marks'
      BY <1>2 DEF Marks, Spotless, Clean, Listed
    <2>4. Matches'
      BY <1>2 DEF Matches
    <2>5. Numbered' /\ Inline'
      BY <1>1, <1>2 DEF Numbered, Inline, Sharded, found
    <2> QED
      BY <2>2, <2>3, <2>4, <2>5 DEF Memory
  <1>3. CASE pc' = "refused"
    BY <1>3 DEF Memory, Remembers, Marks, Matches, Numbered, Inline
  <1> QED
    BY <1>2, <1>3 DEF Load

LEMMA PushRemembers ==
    ASSUME IInv, Memory, NEW j \in Jobs, NEW v \in Contents, Push(j, v)
    PROVE  Memory'
  <1>1. /\ pc = "open" /\ queue[j] = NoRow /\ recs[j] = NoRow /\ dirty[j] = Clean
        /\ queue' = [queue EXCEPT ![j] = [order |-> NextOrder(queue), val |-> v]]
        /\ synced' = FALSE /\ UNCHANGED <<root, dir, pc, recs, next, dirty>>
    BY DEF Push
  <1> DEFINE row == [order |-> NextOrder(queue), val |-> v]
  <1>2. /\ \A i \in Listed(queue) : queue[i].order < NextOrder(queue)
        /\ row \in Row /\ row.order = NextOrder(queue)
    BY NextOrderAbove DEF IInv, TypeOK, Row
  <1>3. queue' = [queue EXCEPT ![j] = row]
    BY <1>1
  <1> HIDE DEF row
  <1>4. /\ queue'[j] = row /\ \A i \in Jobs \ {j} : queue'[i] = queue[i]
        /\ Listed(queue') = Listed(queue) \cup {j}
        /\ j \notin Listed(recs)
    BY <1>1, <1>2, <1>3, QueueNulls DEF IInv, TypeOK, Rows, Listed
  <1>5. Remembers'
    <2>1. Listed(queue') \cap Listed(recs) = Listed(queue) \cap Listed(recs)
      BY <1>4
    <2>2. \A i \in Listed(queue) \cap Listed(recs) : queue'[i] = queue[i]
      BY <1>4 DEF Listed
    <2>3. ASSUME NEW i \in Listed(queue) \cap Listed(recs), NEW k \in Listed(queue') \ Listed(recs)
          PROVE  queue'[i].order < queue'[k].order
      <3>1. CASE k = j
        BY <1>2, <1>4, <2>2, <2>3, <3>1
      <3>2. CASE k # j
        BY <1>1, <1>4, <2>2, <2>3, <3>2 DEF Memory, Remembers, Listed
      <3> QED
        BY <3>1, <3>2
    <2>4. Listed(recs)' = Listed(recs) /\ Listed(queue)' = Listed(queue')
      BY <1>1 DEF Listed
    <2>5. /\ \A i \in Listed(queue') \cap Listed(recs) : queue'[i].val = recs'[i].val
          /\ \A i, k \in (Listed(queue') \cap Listed(recs)) \ Provider :
               queue'[i].order < queue'[k].order <=> recs'[i].order < recs'[k].order
          /\ \A i \in Listed(recs) : recs'[i].order < next'
      BY <1>1, <2>1, <2>2 DEF Memory, Remembers
    <2> QED
      BY <2>1, <2>3, <2>4, <2>5 DEF Remembers
  <1>6. Marks'
    BY <1>1, <1>4 DEF Memory, Marks, Listed, Clean
  <1>7. Matches' /\ Inline'
    BY <1>1 DEF Memory, Matches, Inline, Sharded
  <1>8. Numbered'
    BY <1>1, <1>4 DEF Memory, Numbered, Listed, Sharded
  <1> QED
    BY <1>5, <1>6, <1>7, <1>8 DEF Memory

(* The object of a job changes in place: in the array and in its record.   *)
LEMMA TouchRemembers ==
    ASSUME IInv, Memory, NEW j \in Jobs, NEW v \in Contents, Touch(j, v)
    PROVE  Memory'
  <1>1. /\ pc = "open" /\ queue[j] # NoRow /\ (recs[j] # NoRow \/ j \in Provider)
        /\ queue' = [queue EXCEPT ![j].val = v]
        /\ recs' = IF recs[j] = NoRow THEN recs ELSE [recs EXCEPT ![j].val = v]
        /\ dirty' = IF dirty[j] = Clean
                    THEN [dirty EXCEPT ![j] = [stamp |-> NewStamp, del |-> FALSE]] ELSE dirty
        /\ UNCHANGED <<root, dir, pc, next, synced>>
    BY DEF Touch
  <1>2. /\ queue[j] \in Row /\ (recs[j] # NoRow => recs[j] \in Row)
        /\ queue \in Rows /\ recs \in Rows
    BY <1>1 DEF IInv, TypeOK, Rows
  <1>3. /\ queue'[j].val = v /\ queue'[j].order = queue[j].order /\ queue'[j] # NoRow
        /\ \A i \in Jobs \ {j} : queue'[i] = queue[i]
    <2>1. queue'[j] \in Row
      BY <1>1, <1>2 DEF Rows, Row
    <2> QED
      BY <1>1, <1>2, <2>1, QueueNulls DEF Rows, Row
  <1>4. /\ recs[j] # NoRow => recs'[j].val = v /\ recs'[j].order = recs[j].order /\ recs'[j] # NoRow
        /\ recs[j] = NoRow => recs'[j] = NoRow
        /\ \A i \in Jobs \ {j} : recs'[i] = recs[i]
    <2>1. recs[j] # NoRow => recs'[j] \in Row
      BY <1>1, <1>2 DEF Rows, Row
    <2> QED
      BY <1>1, <1>2, <2>1, QueueNulls DEF Rows, Row
  <1>5. /\ dirty'[j] # Clean /\ ~dirty'[j].del
        /\ \A i \in Jobs \ {j} : dirty'[i] = dirty[i]
    <2>1. ~dirty[j].del
      BY <1>1 DEF Memory, Marks
    <2> QED
      BY <1>1, <2>1, StampType DEF IInv, TypeOK, Clean
  <1>6. /\ Listed(queue)' = Listed(queue) /\ Listed(recs)' = Listed(recs)
        /\ \A i \in Listed(queue) : queue'[i].order = queue[i].order
        /\ \A i \in Listed(recs) : recs'[i].order = recs[i].order
    BY <1>1, <1>3, <1>4 DEF Listed
  <1>7. \A i \in Listed(queue) \cap Listed(recs) : queue'[i].val = recs'[i].val
    BY <1>1, <1>3, <1>4 DEF Memory, Remembers, Listed
  <1>8. Remembers'
    <2> DEFINE both == Listed(queue) \cap Listed(recs)
    <2>1. /\ \A i, k \in both \ Provider :
               queue'[i].order < queue'[k].order <=> recs'[i].order < recs'[k].order
          /\ \A i \in both, k \in Listed(queue) \ Listed(recs) : queue'[i].order < queue'[k].order
          /\ \A i \in Listed(recs) : recs'[i].order < next'
      BY <1>1, <1>6 DEF Memory, Remembers
    <2>2. both' = both
      BY <1>6
    <2> HIDE DEF both
    <2>3. \A i \in both : queue'[i].val = recs'[i].val
      BY <1>7 DEF both
    <2> QED
      BY <1>6, <2>1, <2>2, <2>3 DEF Remembers, both
  <1>9. Marks'
    BY <1>1, <1>5, <1>6 DEF Memory, Marks, Listed
  <1>10. Matches'
    BY <1>1 DEF Matches
  <1>11. Numbered'
    BY <1>1, <1>3, <1>6 DEF Memory, Numbered, Sharded, Listed
  <1>12. Inline'
    BY <1>1, <1>4, <1>5 DEF Memory, Inline, Sharded
  <1> QED
    BY <1>8, <1>9, <1>10, <1>11, <1>12 DEF Memory

LEMMA FinishRemembers ==
    ASSUME IInv, Memory, NEW j \in Jobs, Finish(j)
    PROVE  Memory'
  <1>1. /\ pc = "open" /\ queue' = [queue EXCEPT ![j] = NoRow] /\ synced' = FALSE
        /\ UNCHANGED <<root, dir, pc, recs, next>>
    BY DEF Finish
  <1>2. /\ queue'[j] = NoRow /\ \A i \in Jobs \ {j} : queue'[i] = queue[i]
        /\ Listed(queue)' = Listed(queue) \ {j} /\ Listed(recs)' = Listed(recs)
    BY <1>1 DEF IInv, TypeOK, Rows, Listed
  <1>3. dirty'[j] # Clean /\ \A i \in Jobs \ {j} : dirty'[i] = dirty[i]
    BY DEF Finish, IInv, TypeOK, Clean
  <1>4. Remembers'
    BY <1>1, <1>2 DEF Memory, Remembers, Listed
  <1>5. Marks'
    BY <1>1, <1>2, <1>3 DEF Memory, Marks, Listed
  <1>6. Matches'
    BY <1>1 DEF Matches
  <1>7. Numbered' /\ Inline'
    BY <1>1, <1>2, <1>3 DEF Memory, Numbered, Inline, Sharded
  <1> QED
    BY <1>4, <1>5, <1>6, <1>7 DEF Memory

LEMMA SaveRemembers ==
    ASSUME IInv, Memory, NEW full \in BOOLEAN, Save(full)
    PROVE  Memory'
  <1>1. pc' \in {"saving", "closed"}
    BY DEF Save
  <1>2. Matches'
    BY <1>1, SavedAgrees DEF Matches, Agree, Listed
  <1> QED
    BY <1>1, <1>2 DEF Memory, Remembers, Marks, Numbered, Inline

(* A save that finds nothing to say was right: the array is stored.        *)
LEMMA NothingRemembers ==
    ASSUME IInv, Memory, NEW full \in BOOLEAN, SaveNothing(full)
    PROVE  Memory'
  <1>1. /\ pc = "open" /\ dirty' = Spotless /\ synced' = TRUE
        /\ UNCHANGED <<root, dir, pc, queue, recs, next>>
        /\ \A j \in Jobs : Intent(full).change[j] = Same
    BY DEF SaveNothing, Nothing
  <1>2. Sharded
    BY <1>1, IntentType DEF SaveNothing, Nothing, IInv
  <1> DEFINE new == Merge(recs, Intent(full).change)
  <1>3. \A j \in Jobs : new[j] = recs[j]
    BY <1>1, QueueNulls DEF Merge
  <1>4. Agree(queue, new)
    BY <1>1, <1>2, SaveStores
  <1> HIDE DEF new
  <1>5. Listed(queue) = Listed(recs)
    BY <1>3, <1>4 DEF Agree, Listed
  <1>6. Remembers'
    BY <1>1 DEF Memory, Remembers, Listed
  <1>7. Marks'
    BY <1>1, <1>5 DEF Marks, Spotless, Clean, Listed
  <1>8. Matches' /\ Numbered' /\ Inline'
    BY <1>1, <1>2 DEF Memory, Matches, Numbered, Inline, Sharded, Listed
  <1> QED
    BY <1>6, <1>7, <1>8 DEF Memory

(* The end of an apply.                                                    *)
LEMMA UnlinkRemembers ==
    ASSUME IInv, Memory, Unlink
    PROVE  Memory'
  <1>1. CASE pc = "saving"
    <2>1. /\ pc' = "open" /\ dirty' = Spotless /\ synced' = TRUE
          /\ UNCHANGED <<root, dir, queue, recs>>
          /\ next' = IF pending.migration \/ NextOrder(recs) > next THEN NextOrder(recs) ELSE next
      BY <1>1 DEF Unlink
    <2>2. Agree(queue, recs)
      BY <1>1 DEF Memory, Matches
    <2>3. /\ NextOrder(recs) \in Nat /\ next \in Nat
          /\ \A j \in Listed(recs) : recs[j].order < NextOrder(recs) /\ recs[j].order \in Nat
      BY NextOrderAbove DEF IInv, TypeOK, Rows, Row, Listed
    <2>4. \A j \in Listed(recs) : recs[j].order < next'
      BY <2>1, <2>3
    <2>5. Remembers'
      BY <2>1, <2>2, <2>4 DEF Remembers, Agree, Listed
    <2>6. Marks'
      BY <2>1, <2>2 DEF Marks, Agree, Spotless, Clean, Listed
    <2>7. Sharded /\ \A j \in Jobs : dir.rows[j] = recs[j]
      BY DEF Unlink, Applying, IInv, Applied, Journal
    <2>8. Matches' /\ Numbered' /\ Inline'
      BY <2>1, <2>7 DEF Matches, Numbered, Inline, Sharded, Listed
    <2> QED
      BY <2>5, <2>6, <2>8 DEF Memory
  <1>2. CASE pc # "saving"
    BY <1>2 DEF Unlink, Memory, Remembers, Marks, Matches, Numbered, Inline
  <1> QED
    BY <1>1, <1>2

LEMMA MemoryStep ==
    ASSUME IInv, Memory, [Next]_vars
    PROVE  Memory'
  <1>1. CASE Caller
    <2>1. ASSUME NEW m \in Metas, SetMeta(m) PROVE Memory'
      BY <2>1 DEF SetMeta, Memory, Remembers, Marks, Matches, Agree, Numbered, Inline, Listed, Sharded
    <2> QED
      BY <1>1, <2>1, PushRemembers, TouchRemembers, FinishRemembers DEF Caller
  <1>2. CASE Load
    BY <1>2, LoadRemembers
  <1>3. CASE Recover \/ Stop
    BY <1>3 DEF Recover, Stop, Memory, Remembers, Marks, Matches, Numbered, Inline
  <1>4. CASE Unlink
    BY <1>4, UnlinkRemembers
  <1>5. CASE WriteRoot \/ \E b \in Buckets : WriteBucket(b)
    <2>1. UNCHANGED <<pc, queue, recs>> /\ pc # "open"
      BY <1>5 DEF WriteRoot, WriteBucket, Applying
    <2> QED
      BY <2>1 DEF Memory, Remembers, Marks, Matches, Agree, Numbered, Inline, Listed
  <1>6. CASE \E full \in BOOLEAN : Save(full) \/ SaveNothing(full)
    BY <1>6, SaveRemembers, NothingRemembers
  <1>7. CASE UNCHANGED vars
    BY <1>7 DEF vars, Memory, Remembers, Marks, Matches, Agree, Numbered, Inline, Listed, Sharded
  <1> QED
    BY <1>1, <1>2, <1>3, <1>4, <1>5, <1>6, <1>7 DEF Next, Store

LEMMA MemoryInvariance ==
    Spec => []Memory
  <1>1. Init => Memory
    BY DEF Init, Memory, Remembers, Marks, Matches, Numbered, Inline
  <1> QED
    BY <1>1, MemoryStep, Invariance, PTL DEF Spec

-----------------------------------------------------------------------------
(* No reader meets a half-applied save: an open store that has nothing     *)
(* marked answers with exactly what the disk holds, in the order of the    *)
(* array (native-queue-state.js 123-174, 243-247).                         *)
THEOREM ReadersSeeCommits ==
    Spec => []ReaderSeesCommitted
  <1>1. IInv /\ Memory => ReaderSeesCommitted
    <2> SUFFICES ASSUME IInv, Memory, pc = "open", dirty = Spotless, synced
                 PROVE  /\ recs = StoredRows
                        /\ Listed(queue) = Listed(StoredRows)
                        /\ \A j \in Listed(queue) : queue[j].val = StoredRows[j].val
                        /\ \A j, k \in Listed(queue) \ Provider :
                             queue[j].order < queue[k].order
                               <=> StoredRows[j].order < StoredRows[k].order
      BY DEF ReaderSeesCommitted
    <2>1. recs = StoredRows
      <3>1. pending = NoTx /\ \A j \in Jobs : dirty[j] = Clean
        BY DEF IInv, Journal, Spotless
      <3>2. CASE Sharded
        <4>1. \A j \in Jobs : recs[j] = dir.rows[j]
          BY <3>1, <3>2 DEF IInv, Cached
        <4> QED
          BY <3>1, <3>2, <4>1 DEF StoredRows, IInv, TypeOK, Rows
      <3>3. CASE ~Sharded
        <4>1. \A j \in Jobs : recs[j] = root.inline[j]
          BY <3>1, <3>3 DEF Memory, Inline
        <4> QED
          BY <3>1, <3>3, <4>1 DEF StoredRows, IInv, TypeOK, Rows
      <3> QED
        BY <3>2, <3>3
    <2>2. Listed(queue) = Listed(recs)
      BY DEF Memory, Marks
    <2>3. /\ \A j \in Listed(queue) : queue[j].val = recs[j].val
          /\ \A j, k \in Listed(queue) \ Provider :
               queue[j].order < queue[k].order <=> recs[j].order < recs[k].order
      BY <2>2 DEF Memory, Remembers
    <2> QED
      BY <2>1, <2>2, <2>3
  <1> QED
    BY <1>1, Invariance, MemoryInvariance, PTL

(* A save that returns has stored the array it was given, whichever jobs   *)
(* its callers marked and whichever they did not (179-196).                *)
THEOREM SavesStoreTheArray ==
    Spec => SavedIsStored
  <1> DEFINE Kept == pc = "saving" /\ pc' = "open" =>
                       /\ Listed(queue') = Listed(StoredRows')
                       /\ \A j \in Listed(queue') : queue'[j].val = StoredRows'[j].val
  <1>1. IInv /\ Memory /\ [Next]_vars => [Kept]_vars
    <2> SUFFICES ASSUME IInv, Memory, Next, pc = "saving", pc' = "open"
                 PROVE  /\ Listed(queue') = Listed(StoredRows')
                        /\ \A j \in Listed(queue') : queue'[j].val = StoredRows'[j].val
      OBVIOUS
    <2>1. Unlink
      BY DEF Next, Caller, Store, Push, Touch, Finish, SetMeta, Load, Recover, WriteBucket, WriteRoot,
             Save, SaveNothing, Stop
    <2>2. /\ UNCHANGED <<root, dir, queue, recs>> /\ pending' = NoTx
          /\ Sharded /\ \A j \in Jobs : dir.rows[j] = recs[j]
      BY <2>1 DEF Unlink, Applying, IInv, Applied, Journal
    <2>3. StoredRows' = recs
      BY <2>2 DEF StoredRows, Sharded, IInv, TypeOK, Rows
    <2>4. Agree(queue, recs)
      BY DEF Memory, Matches
    <2> QED
      BY <2>2, <2>3, <2>4 DEF Agree
  <1> QED
    BY <1>1, Invariance, MemoryInvariance, PTL DEF Spec, SavedIsStored

-----------------------------------------------------------------------------
(* The refinement of AtomicQueue.                                          *)

LEMMA StoredType ==
    ASSUME IInv
    PROVE  StoredRows \in Rows /\ StoredMeta \in Metas
  <1>1. pending # NoTx => pending.change \in [Jobs -> Row \cup {Delete, Same}]
                          /\ pending.meta \in Metas \cup {NoMeta}
    BY DEF IInv, TypeOK, Tx
  <1>2. dir.rows \in Rows /\ root.inline \in Rows /\ root.meta \in Metas
    BY DEF IInv, TypeOK
  <1> QED
    BY <1>1, <1>2, MergeType DEF StoredRows, StoredMeta

LEMMA StoredTypeNext ==
    ASSUME IInv'
    PROVE  StoredRows' \in Rows /\ StoredMeta' \in Metas
  <1>1. pending' # NoTx => pending'.change \in [Jobs -> Row \cup {Delete, Same}]
                           /\ pending'.meta \in Metas \cup {NoMeta}
    BY DEF IInv, TypeOK, Tx
  <1>2. dir'.rows \in Rows /\ root'.inline \in Rows /\ root'.meta \in Metas
    BY DEF IInv, TypeOK
  <1> QED
    BY <1>1, <1>2, MergeType DEF StoredRows, StoredMeta, Sharded

(* The records in memory, changed, are those on disk, changed.             *)
LEMMA SameChanges ==
    ASSUME IInv, pc = "open", Sharded, NEW full \in BOOLEAN
    PROVE  Merge(dir.rows, Intent(full).change) = Merge(recs, Intent(full).change)
  BY SameIsStored DEF Merge

(* A save keeps the order of the jobs that stay, newcomers line up behind. *)
LEMMA SaveKeepsFifo ==
    ASSUME IInv, Memory, NEW full \in BOOLEAN, Save(full)
    PROVE  Abstract!KeepsFifo(StoredRows, StoredRows')
  <1> DEFINE new == Merge(dir.rows, Intent(full).change)
  <1>1. pc = "open" /\ pending = NoTx /\ pending' = Intent(full) /\ dir' = dir
    BY DEF Save, IInv, Journal
  <1>2. Intent(full) # NoTx /\ (Intent(full).migration <=> ~Sharded)
    BY <1>1, IntentType, NoTxIsNoTx DEF IInv
  <1>3. StoredRows' = new
    BY <1>1, <1>2 DEF StoredRows
  <1>4. /\ \A j \in Listed(recs) : recs[j].order \in Nat /\ recs[j].order < next
        /\ next \in Nat
    BY <1>1 DEF IInv, TypeOK, Memory, Remembers, Listed, Rows, Row
  <1>5. CASE Sharded
    <2>1. new = Merge(recs, Intent(full).change)
      BY <1>1, <1>5, SameChanges
    <2> HIDE DEF new
    <2>2. /\ \A j \in Listed(recs) \cap Listed(new) : new[j] = recs[j]
          /\ \A j \in Listed(new) \ Listed(recs) : new[j].order \in Nat /\ next <= new[j].order
      BY <1>1, <1>5, <2>1, SaveStores
    <2>3. StoredRows = dir.rows /\ Listed(dir.rows) = Listed(recs)
      BY <1>1, <1>5 DEF StoredRows, IInv, Cached, Listed
    <2>4. \A j \in Listed(recs) : recs[j].order = dir.rows[j].order
      BY <1>1, <1>5 DEF Memory, Numbered
    <2> QED
      BY <1>3, <1>4, <2>2, <2>3, <2>4 DEF Abstract!KeepsFifo, Abstract!Queued, Listed
  <1>6. CASE ~Sharded
    <2>1. new = Merge(Empty, Intent(full).change)
      BY <1>1, <1>6 DEF IInv, Journal
    <2> HIDE DEF new
    <2>2. /\ Listed(queue) = Listed(new)
          /\ \A j, k \in Listed(queue) :
               queue[j].order < queue[k].order <=> new[j].order < new[k].order
      BY <1>1, <1>6, <2>1, MigrationStores
    <2>3. StoredRows = root.inline /\ Listed(root.inline) = Listed(recs)
      BY <1>1, <1>6 DEF StoredRows, Memory, Inline, Listed
    <2>4. \A j \in Listed(recs) \cap Listed(queue) : queue[j].order = root.inline[j].order
      BY <1>1, <1>6 DEF Memory, Numbered, Listed
    <2>5. \A j \in Listed(recs) \cap Listed(queue), k \in Listed(queue) \ Listed(recs) :
            queue[j].order < queue[k].order
      BY <1>1 DEF Memory, Remembers
    <2> QED
      BY <1>3, <2>2, <2>3, <2>4, <2>5 DEF Abstract!KeepsFifo, Abstract!Queued, Listed
  <1> QED
    BY <1>5, <1>6

LEMMA StepRefines ==
    ASSUME IInv, Memory, [Next]_vars
    PROVE  [Abstract!Commit]_<<StoredRows, StoredMeta>>
  <1>1. CASE UNCHANGED vars
    BY <1>1 DEF vars, StoredRows, StoredMeta, Sharded
  <1>2. CASE Next
    <2>1. IInv'
      BY <1>2, Inductive
    <2>2. /\ StoredRows' \in [Jobs -> Abstract!Row \cup {NoRow}] /\ StoredMeta' \in Metas
      <3>1. StoredRows' \in Rows /\ StoredMeta' \in Metas
        BY <2>1, StoredTypeNext
      <3> QED
        BY <3>1 DEF Rows, Row, Abstract!Row
    <2>3. CASE \E full \in BOOLEAN : Save(full)
      BY <2>2, <2>3, SaveKeepsFifo DEF Abstract!Commit
    <2>4. CASE ~\E full \in BOOLEAN : Save(full)
      <3>1. pending' = pending \/ pending' = NoTx
        BY <1>2, <2>4 DEF Next, Caller, Store, Push, Touch, Finish, SetMeta, Load, Recover,
              WriteBucket, WriteRoot, Unlink, SaveNothing, Stop, diskVars
      <3>2. UNCHANGED <<StoredRows, StoredMeta>>
        BY <1>2, <3>1, StoredIsKept DEF CommittedKept
      <3> QED
        BY <3>2
    <2> QED
      BY <2>3, <2>4
  <1> QED
    BY <1>1, <1>2

(* The store implements the atomic queue: files, crashes, recoveries and   *)
(* the callers' marks cannot be told from one step per save, in which every *)
(* job that stays keeps its place and newcomers line up behind it.          *)
THEOREM QueueIsAtomic ==
    Spec => ImplementsAtomicQueue
  <1>1. Init => Abstract!Init
    <2>1. Init => IInv
      BY Initially
    <2>2. IInv => StoredRows \in [Jobs -> Abstract!Row \cup {NoRow}] /\ StoredMeta \in Metas
      BY StoredType DEF Rows, Row, Abstract!Row
    <2> QED
      BY <2>1, <2>2 DEF Abstract!Init
  <1>2. IInv /\ Memory /\ [Next]_vars => [Abstract!Commit]_<<StoredRows, StoredMeta>>
    BY StepRefines
  <1> QED
    BY <1>1, <1>2, Invariance, MemoryInvariance, PTL DEF Spec, Abstract!Spec, ImplementsAtomicQueue
=============================================================================
