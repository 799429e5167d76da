----------------------------- MODULE NativeQueue -----------------------------
(***************************************************************************)
(* The durable job queue of the Network Observatory plugin                 *)
(* (network-observatory/plugin/src/native-queue-state.js): one small root  *)
(* file (native-state.json), a directory of bucket files and one           *)
(* write-ahead file (pending.json).  A save writes its intent first, then  *)
(* each touched bucket, then the root, then removes the intent; a process  *)
(* that finds an intent rolls it forward before it reads anything.  The    *)
(* first save of an inline queue (or of none) is a migration: it writes    *)
(* every bucket of a new epoch, the only epoch a running plugin ever has.  *)
(*                                                                         *)
(* JavaScript arrays and Maps are functions over job ids whose entries     *)
(* carry their position ("order" in an array, "stamp" in the dirty Map).   *)
(* Every file is replaced by a rename, so one file write is one step; a    *)
(* crash or an I/O error (both drop everything kept in memory) may come    *)
(* between any two of them.                                                *)
(***************************************************************************)
EXTENDS Integers, FiniteSets

CONSTANTS
    Jobs,           \* ids of jobs
    Contents,       \* what a job object can hold (phase, lease, ...)
    Metas,          \* what the root metadata can hold
    Blank,          \* the metadata of a new installation, blank()
    Buckets,        \* bucket numbers (BUCKETS = 64 in the code)
    BucketOf,       \* bucketFor: the bucket of a job id
    MaxJobs,        \* MAX_JOBS, the capacity checked on load and apply
    MaxOrder,       \* bound: FIFO numbers given before arrivals stop
    MaxStops,       \* bound: crashes and failed saves
    Legacy,         \* jobs inline in a native-state.json of an older version
    Provider,       \* jobs measured by Globalping, marked before their first save
    NoRow, NoTx, NoMeta, Delete, Same

Row == [order : Nat, val : Contents]
Rows == [Jobs -> Row \cup {NoRow}]

ASSUME QueueConstants ==
    /\ IsFiniteSet(Jobs) /\ IsFiniteSet(Buckets) /\ Buckets \subseteq Nat
    /\ BucketOf \in [Jobs -> Buckets]
    /\ MaxJobs \in Nat /\ MaxOrder \in Nat /\ MaxStops \in Nat
    /\ Legacy \in Rows /\ Provider \subseteq Jobs
    /\ \A j, k \in Jobs : Legacy[j] # NoRow /\ Legacy[k] # NoRow /\ j # k
                            => Legacy[j].order # Legacy[k].order

ASSUME QueueNulls ==
    /\ NoRow \notin Row /\ Delete \notin Row /\ Same \notin Row
    /\ Delete # Same /\ Delete # NoRow /\ Same # NoRow
    /\ NoMeta \notin Metas /\ Blank \in Metas

Empty == [j \in Jobs |-> NoRow]
Clean == [stamp |-> 0, del |-> FALSE]
Spotless == [j \in Jobs |-> Clean]

(* An intent: "change" holds what becomes of each job, "rank" the place of *)
(* the change in the array of changes.                                     *)
Tx == [ migration : BOOLEAN, change : [Jobs -> Row \cup {Delete, Same}],
        rank : [Jobs -> Nat], meta : Metas \cup {NoMeta} ]

ASSUME NoTxIsNoTx == NoTx \notin Tx

VARIABLES
    \* on disk
    root,       \* native-state.json: its kind (missing, inline, sharded), meta, inline jobs
    dir,        \* the epoch's directory: bucket files that exist, rows they hold
    pending,    \* pending.json
    \* in memory
    pc,         \* closed, open, saving, recovering, refused
    queue,      \* value.jobs; order is the position in the array
    meta,       \* the other fields of value
    recs,       \* the Map "records": what the store believes the buckets hold
    next,       \* nextOrder
    dirty,      \* the Map "dirty"
    synced,     \* syncedJobs = value.jobs and syncedLength = value.jobs.length
    todo,       \* buckets the running apply has still to write
    rootDue,    \* the running apply has still to write the root
    stops       \* crashes and failures so far

diskVars == <<root, dir, pending>>
memVars == <<queue, meta, recs, next, dirty, synced>>
vars == <<root, dir, pending, pc, queue, meta, recs, next, dirty,
          synced, todo, rootDue, stops>>

-----------------------------------------------------------------------------
Listed(rows) == {j \in Jobs : rows[j] # NoRow}
Size(rows) == Cardinality(Listed(rows))
Before(rows, j) == Cardinality({k \in Listed(rows) : rows[k].order < rows[j].order})
DistinctOrders(rows) ==
    \A j, k \in Listed(rows) : rows[j].order = rows[k].order => j = k
NextOrderBySize(rows) == Size(rows)      \* mutant
NextOrder(rows) ==      \* Math.max(next, order + 1) over every record
    IF Listed(rows) = {} THEN 0
    ELSE 1 + (CHOOSE n \in {rows[j].order : j \in Listed(rows)} :
                \A j \in Listed(rows) : rows[j].order <= n)
Sharded == root.kind = "sharded"

HasPendingNever == FALSE      \* mutant
HasPending == pending # NoTx

(* loadEpoch: every bucket must be there, unless a migration is resumed.   *)
Loadable(allowMissing) ==
    /\ allowMissing \/ dir.files = Buckets
    /\ DistinctOrders(dir.rows)
    /\ Size(dir.rows) <= MaxJobs

CheckTransactionOldRoot(tx) ==      \* mutant
    /\ tx.migration <=> ~Sharded
    /\ tx.migration => tx.meta # NoMeta
CheckTransaction(tx) ==
    /\ tx.migration \/ Sharded            \* rootEpoch is baseEpoch or epoch
    /\ tx.migration => tx.meta # NoMeta

(* The rows after the changes of an intent, whichever of them are already  *)
(* on disk.                                                                *)
Merge(rows, change) ==
    [j \in Jobs |-> CASE change[j] = Same -> rows[j]
                      [] change[j] = Delete -> NoRow
                      [] OTHER -> change[j]]

Puts(tx) == {j \in Jobs : tx.change[j] \notin {Delete, Same}}
CanApply(rows, tx) ==
    /\ \A j \in Puts(tx) :
         /\ rows[j] # NoRow => rows[j].order = tx.change[j].order
         /\ \A k \in Jobs \ {j} :
              /\ rows[k] # NoRow /\ rows[k].order = tx.change[j].order
                   => tx.change[k] = Delete /\ tx.rank[k] < tx.rank[j]
              /\ k \in Puts(tx) => tx.change[k].order # tx.change[j].order
    /\ Size(Merge(rows, tx.change)) <= MaxJobs

TouchedByPuts(tx) ==      \* mutant
    IF tx.migration THEN Buckets ELSE {BucketOf[j] : j \in Puts(tx)}
Touched(tx) ==
    IF tx.migration THEN Buckets ELSE {BucketOf[j] : j \in {k \in Jobs : tx.change[k] # Same}}

(* Buckets are written in the order the changes first name them; a         *)
(* migration then writes the buckets no change names.                      *)
ChangesIn(b) == {j \in Jobs : BucketOf[j] = b /\ pending.change[j] # Same}
Earlier(b, c) ==
    /\ ChangesIn(b) # {}
    /\ \A k \in ChangesIn(c) : \E j \in ChangesIn(b) : pending.rank[j] < pending.rank[k]

-----------------------------------------------------------------------------
Forget ==       \* invalidate()
    /\ queue' = Empty /\ recs' = Empty /\ dirty' = Spotless
    /\ meta' = NoMeta /\ next' = 0 /\ synced' = FALSE

(* read() when nothing is pending: the whole epoch, or the inline queue.   *)
Load ==
    /\ pc = "closed" /\ ~HasPending
    /\ LET rows == IF Sharded THEN dir.rows ELSE root.inline
           sound == IF Sharded THEN Loadable(FALSE)
                    ELSE /\ Size(rows) <= MaxJobs
                         /\ root.kind = "missing" => dir.files = {}
       IN IF sound
          THEN /\ pc' = "open" /\ queue' = rows /\ recs' = rows
               /\ meta' = root.meta /\ next' = NextOrder(rows)
               /\ dirty' = Spotless /\ synced' = TRUE
          ELSE /\ pc' = "refused" /\ Forget
    /\ UNCHANGED <<root, dir, pending, todo, rootDue, stops>>

(* recover(): the intent is checked, its epoch loaded and apply started.   *)
Recover ==
    /\ pc = "closed" /\ HasPending
    /\ IF CheckTransaction(pending) /\ Loadable(pending.migration) /\ CanApply(dir.rows, pending)
       THEN /\ pc' = "recovering" /\ recs' = Merge(dir.rows, pending.change)
            /\ todo' = Touched(pending) /\ rootDue' = (pending.meta # NoMeta)
       ELSE pc' = "refused" /\ UNCHANGED <<recs, todo, rootDue>>
    /\ UNCHANGED <<root, dir, pending, queue, meta, next, dirty, synced, stops>>

-----------------------------------------------------------------------------
(* What the callers do to the value between two saves.                     *)
Push(j, v) ==       \* s.jobs.push(job)
    /\ pc = "open" /\ queue[j] = NoRow /\ recs[j] = NoRow /\ dirty[j] = Clean
    /\ Size(queue) < MaxJobs /\ next < MaxOrder
    /\ queue' = [queue EXCEPT ![j] = [order |-> NextOrder(queue), val |-> v]]
    /\ synced' = FALSE
    /\ UNCHANGED <<root, dir, pending, pc, meta, recs, next, dirty, todo, rootDue, stops>>

NewStamp == 1 + Cardinality({j \in Jobs : dirty[j] # Clean})

Touch(j, v) ==      \* the object changes in place, then touchJob(job)
    /\ pc = "open" /\ queue[j] # NoRow
    /\ recs[j] # NoRow \/ j \in Provider
    /\ queue' = [queue EXCEPT ![j].val = v]
    /\ recs' = IF recs[j] = NoRow THEN recs ELSE [recs EXCEPT ![j].val = v]
    /\ dirty' = IF dirty[j] = Clean
                THEN [dirty EXCEPT ![j] = [stamp |-> NewStamp, del |-> FALSE]] ELSE dirty
    /\ UNCHANGED <<root, dir, pending, pc, meta, next, synced, todo, rootDue, stops>>

Finish(j) ==        \* forgetJob(job), then value.jobs = value.jobs.filter(...)
    /\ pc = "open" /\ queue[j] # NoRow
    /\ queue' = [queue EXCEPT ![j] = NoRow]
    /\ dirty' = [dirty EXCEPT ![j] =
                   [stamp |-> IF dirty[j] = Clean THEN NewStamp ELSE dirty[j].stamp, del |-> TRUE]]
    /\ synced' = FALSE
    /\ UNCHANGED <<root, dir, pending, pc, meta, recs, next, todo, rootDue, stops>>

SetMeta(m) ==       \* any other field of the value
    /\ pc = "open" /\ meta # m
    /\ meta' = m
    /\ UNCHANGED <<root, dir, pending, pc, queue, recs, next, dirty, synced, todo, rootDue, stops>>

-----------------------------------------------------------------------------
(* syncStructure: a marked update of known jobs only is taken as it is;    *)
(* anything else compares the whole array with the records.                *)
FastPathWhenMarked ==      \* mutant
    /\ dirty # Spotless
    /\ \A j \in Jobs : dirty[j] # Clean => ~dirty[j].del /\ recs[j] # NoRow
FastPath ==
    /\ synced /\ dirty # Spotless
    /\ \A j \in Jobs : dirty[j] # Clean => ~dirty[j].del /\ recs[j] # NoRow

Unmarked == {j \in Jobs : queue[j] # NoRow /\ recs[j] = NoRow /\ dirty[j] = Clean}
SyncStructure ==
    IF FastPath THEN dirty
    ELSE [j \in Jobs |->
           CASE j \in Unmarked ->
                  [stamp |-> NewStamp + Cardinality({k \in Unmarked : queue[k].order < queue[j].order}),
                   del |-> FALSE]
             [] queue[j] = NoRow /\ recs[j] # NoRow ->
                  [stamp |-> IF dirty[j] = Clean THEN NewStamp + Cardinality(Jobs) ELSE dirty[j].stamp,
                   del |-> TRUE]
             [] queue[j] = NoRow /\ recs[j] = NoRow /\ ~dirty[j].del -> Clean
             [] OTHER -> dirty[j]]

Newcomers(d) == {j \in Jobs : d[j] # Clean /\ ~d[j].del /\ recs[j] = NoRow}
NewOrder(d, j) == next + Cardinality({k \in Newcomers(d) : d[k].stamp < d[j].stamp})
ChangesFrom(d) ==
    [j \in Jobs |->
      CASE d[j] = Clean -> Same
        [] d[j].del -> Delete
        [] OTHER -> IF recs[j] # NoRow THEN recs[j]
                    ELSE [order |-> NewOrder(d, j), val |-> queue[j].val]]

(* The intent of a save; a migration numbers the array afresh.             *)
Intent(full) ==
    LET d == SyncStructure
        migrating == ~Sharded
    IN [ migration |-> migrating,
         change |-> IF migrating
                    THEN [j \in Jobs |-> IF queue[j] = NoRow THEN Same
                                         ELSE [order |-> Before(queue, j), val |-> queue[j].val]]
                    ELSE ChangesFrom(d),
         rank |-> IF migrating
                  THEN [j \in Jobs |-> IF queue[j] = NoRow THEN 0 ELSE 1 + Before(queue, j)]
                  ELSE [j \in Jobs |-> d[j].stamp],
         meta |-> IF migrating \/ (full /\ meta # root.meta) THEN meta ELSE NoMeta ]

Nothing(tx) == ~tx.migration /\ tx.meta = NoMeta /\ \A j \in Jobs : tx.change[j] = Same

(* write() up to the rename of pending.json: that rename is the commit.    *)
(* "full" is options.metadata: FALSE for a save of jobs only.              *)
Save(full) ==
    /\ pc = "open"
    /\ LET tx == Intent(full)
           rows == IF tx.migration THEN Empty ELSE recs
       IN /\ ~Nothing(tx)
          /\ pending' = tx
          /\ IF CanApply(rows, tx)
             THEN /\ pc' = "saving" /\ recs' = Merge(rows, tx.change)
                  /\ todo' = Touched(tx) /\ rootDue' = (tx.meta # NoMeta)
                  /\ UNCHANGED <<queue, meta, next, dirty, synced>>
             ELSE pc' = "closed" /\ Forget /\ UNCHANGED <<todo, rootDue>>
    /\ UNCHANGED <<root, dir, stops>>

(* A save with nothing to say only remembers the array it has checked.     *)
SaveNothing(full) ==
    /\ pc = "open" /\ Nothing(Intent(full))
    /\ dirty' = Spotless /\ synced' = TRUE
    /\ UNCHANGED <<root, dir, pending, pc, queue, meta, recs, next, todo, rootDue, stops>>

-----------------------------------------------------------------------------
(* apply(), shared by a save and by a recovery.                            *)
Applying == pc \in {"saving", "recovering"}

WriteBucket(b) ==
    /\ Applying /\ b \in todo /\ \A c \in todo : ~Earlier(c, b)
    /\ dir' = [ files |-> dir.files \cup {b},
                rows |-> [j \in Jobs |-> IF BucketOf[j] = b THEN recs[j] ELSE dir.rows[j]] ]
    /\ todo' = todo \ {b}
    /\ UNCHANGED <<root, pending, pc, queue, meta, recs, next, dirty, synced, rootDue, stops>>

WriteRootAlways ==      \* mutant
    /\ Applying /\ todo = {}
    /\ root' = [kind |-> "sharded", meta |-> pending.meta, inline |-> Empty]
    /\ rootDue' = FALSE
    /\ UNCHANGED <<dir, pending, pc, queue, meta, recs, next, dirty, synced, todo, stops>>
WriteRoot ==
    /\ Applying /\ todo = {} /\ rootDue
    /\ root' = [kind |-> "sharded", meta |-> pending.meta, inline |-> Empty]
    /\ rootDue' = FALSE
    /\ UNCHANGED <<dir, pending, pc, queue, meta, recs, next, dirty, synced, todo, stops>>

(* The intent is removed: a save returns to its caller, a recovery goes on *)
(* to load what it has just completed.                                     *)
Unlink ==
    /\ Applying /\ todo = {} /\ ~rootDue
    /\ pending' = NoTx
    /\ IF pc = "saving"
       THEN /\ pc' = "open" /\ dirty' = Spotless /\ synced' = TRUE
            /\ next' = IF pending.migration \/ NextOrder(recs) > next THEN NextOrder(recs) ELSE next
            /\ UNCHANGED <<queue, recs, meta>>
       ELSE pc' = "closed" /\ Forget
    /\ UNCHANGED <<root, dir, todo, rootDue, stops>>

(* The process dies, a file operation fails, or the caller throws in the   *)
(* middle of its changes: every cached value is dropped.                   *)
Stop ==
    /\ pc \in {"open", "saving", "recovering"} /\ stops < MaxStops
    /\ pc' = "closed" /\ Forget /\ todo' = {} /\ rootDue' = FALSE
    /\ stops' = stops + 1
    /\ UNCHANGED diskVars

-----------------------------------------------------------------------------
Init ==
    /\ \/ root = [kind |-> "inline", meta |-> Blank, inline |-> Legacy]
       \/ root = [kind |-> "missing", meta |-> Blank, inline |-> Empty]
    /\ dir = [files |-> {}, rows |-> Empty]
    /\ pending = NoTx
    /\ pc = "closed" /\ queue = Empty /\ recs = Empty /\ dirty = Spotless
    /\ meta = NoMeta /\ next = 0 /\ synced = FALSE
    /\ todo = {} /\ rootDue = FALSE /\ stops = 0

Caller ==
    \/ \E j \in Jobs, v \in Contents : Push(j, v) \/ Touch(j, v)
    \/ \E j \in Jobs : Finish(j)
    \/ \E m \in Metas : SetMeta(m)

Store ==
    \/ Load \/ Recover \/ WriteRoot \/ Unlink
    \/ \E b \in Buckets : WriteBucket(b)

Next ==
    \/ Caller \/ Store \/ Stop
    \/ \E full \in BOOLEAN : Save(full) \/ SaveNothing(full)

Spec == Init /\ [][Next]_vars

(* A started read or write is synchronous code: it runs on unless the      *)
(* process stops.  The callers may pause for ever.                         *)
FairSpec == Spec /\ WF_vars(Store)

-----------------------------------------------------------------------------
(* The queue any later reader will find: the pending intent is committed.  *)
StoredRows ==
    IF pending # NoTx THEN Merge(dir.rows, pending.change)
    ELSE IF Sharded THEN dir.rows ELSE root.inline
StoredMeta == IF pending # NoTx /\ pending.meta # NoMeta THEN pending.meta ELSE root.meta

TypeOK ==
    /\ root \in [kind : {"missing", "inline", "sharded"}, meta : Metas, inline : Rows]
    /\ dir \in [files : SUBSET Buckets, rows : Rows]
    /\ pending \in Tx \cup {NoTx}
    /\ pc \in {"closed", "open", "saving", "recovering", "refused"}
    /\ queue \in Rows /\ recs \in Rows /\ next \in Nat
    /\ meta \in Metas \cup {NoMeta}
    /\ dirty \in [Jobs -> [stamp : Nat, del : BOOLEAN]]
    /\ synced \in BOOLEAN /\ rootDue \in BOOLEAN
    /\ todo \subseteq Buckets /\ stops \in 0 .. MaxStops

(* No reader meets a half-applied save: whenever the store answers from    *)
(* memory and nothing is marked, what it holds is what the disk holds.     *)
(* Jobs that were not marked before their first save also keep the order   *)
(* of the array (lines 123-174 and 243-247).                               *)
ReaderSeesCommitted ==
    pc = "open" /\ dirty = Spotless /\ synced =>
        /\ recs = StoredRows
        /\ Listed(queue) = Listed(StoredRows)
        /\ \A j \in Listed(queue) : queue[j].val = StoredRows[j].val
        /\ \A j, k \in Listed(queue) \ Provider :
             queue[j].order < queue[k].order <=> StoredRows[j].order < StoredRows[k].order

(* What a later reader will find changes when the intent of a save takes   *)
(* its name, and at no other step: no crash, no bucket or root written, no *)
(* recovery, no reader and no caller changes it (lines 87-130, 235-242).   *)
OnlySavesCommit ==
    [][StoredRows' # StoredRows \/ StoredMeta' # StoredMeta =>
         pc = "open" /\ pending = NoTx /\ pending' # NoTx]_vars

(* A save that returns has stored the array it was given: no job silently  *)
(* missing, left over or old (syncStructure, lines 179-196).               *)
SavedIsStored ==
    [][pc = "saving" /\ pc' = "open" =>
         /\ Listed(queue') = Listed(StoredRows')
         /\ \A j \in Listed(queue') : queue'[j].val = StoredRows'[j].val]_vars

(* "A committed intent is rolled forward": no crash leaves files that the  *)
(* checks of a later read or recovery refuse (lines 43-105, 123-130).       *)
NeverRefused == pc # "refused"

(* What a later reader will find is an atomic queue: it changes by whole   *)
(* saves, and jobs keep their FIFO place (lines 87-130, 199-242).          *)
Abstract == INSTANCE AtomicQueue WITH rows <- StoredRows, meta <- StoredMeta
ImplementsAtomicQueue == Abstract!Spec

(* Whenever the process is down, some later step reads the queue again.    *)
EventuallyReadable == pc \in {"closed", "saving", "recovering"} ~> pc = "open"
=============================================================================
