----------------------------- MODULE RoundRecovery -----------------------------
(***************************************************************************)
(* How rounds, the job queue and the dispatch cursor stay together         *)
(* (network-observatory/plugin/src/report-controller.js with finishMany,   *)
(* tick and the worker routes of native-controller.js).                    *)
(*                                                                         *)
(* A handler works on the cached queue and cursor, writes rounds as it     *)
(* goes, and saves queue and cursor last, in one step (NativeQueue).  It    *)
(* may stop between any two of its writes: on an I/O error it throws, and  *)
(* the cache is read again from the disk; when the process ends, the next  *)
(* one recovers the rounds that are not finished.                          *)
(*                                                                         *)
(* A round is on the disk from its creation (RoundStore has the files of    *)
(* it); time is left out: leases run out at any moment, and all planned    *)
(* times are within the minute in which equal measurements are shared.     *)
(***************************************************************************)
EXTENDS Integers, FiniteSets, Sequences, SequencesExt

CONSTANTS
    Jobs, Rounds, RoundOf,
    Key,            \* what a job measures: equal keys share a measurement
    Scope,          \* the suite and module of a round
    Occurrences,    \* planned times of a suite
    Stable,         \* dispatchRoundId: the round of an occurrence
    None,
    Capacity,       \* MAX_QUEUE
    MaxCrashes, MaxErrors       \* bounds

(* A job in the queue: its phase, and the job whose measurement it awaits.  *)
Entries == [phase : {"queued", "running", "shared"}, leader : Jobs \cup {None}]

ASSUME RecoveryConstants ==
    /\ IsFiniteSet(Jobs) /\ RoundOf \in [Jobs -> Rounds]
    /\ Stable \in [Occurrences -> Rounds]
    /\ None \notin Jobs \cup Occurrences \cup Entries
    /\ Capacity \in Nat /\ MaxCrashes \in Nat /\ MaxErrors \in Nat

JobsOf(r) == {j \in Jobs : RoundOf[j] = r}

VARIABLES
    slot,           \* per job: its slot, "none" before the round is created,
                    \* with the job whose measurement it took
    saved,          \* per job: its copy in the manifest
    origin,         \* per round: the occurrence it was created for
    queue,          \* s.jobs: per job its phase and leader, or None
    cursor,         \* s.reportDispatch: occurrences planned and not dispatched
    planned,        \* occurrences whose time has passed (nextAt)
    disk,           \* queue, cursor and planned as last saved
    recovered,      \* tick has recovered the rounds since the process started
    todo,           \* writes left of the running handler
    held,           \* jobs a worker measures or has a result of
    executed,       \* per job: how often it was handed to a worker
    followed,       \* history: the leader its manifest last named
    begun,          \* history: the open slots this process started with
    calm,           \* nothing fails in this behaviour
    crashes, errors

rounds == <<slot, saved, origin>>
cache == <<queue, cursor, planned>>
vars == <<rounds, cache, disk, recovered, todo, held, executed, followed, begun, calm, crashes, errors>>

Idle == todo = <<>>
Recorded == {"ok", "failed", "missing", "cancelled"}
Reusable == Recorded \ {"cancelled"}
-----------------------------------------------------------------------------
(* A running handler: what it has made of the cache, the slots as it sees  *)
(* them, its writes of results and, held back to the end of its batch, of  *)
(* manifests.                                                              *)
Start == [queue |-> queue, cursor |-> cursor, planned |-> planned, slot |-> slot,
          writes |-> <<>>, batch |-> <<>>]
Known(h) == {j \in Jobs : h.queue[j] # None}
Followers(h, l) == {j \in Known(h) : h.queue[j].leader = l}
Add(h, j, entry) == [h EXCEPT !.queue[j] = entry]
EndBatch(h) == [h EXCEPT !.writes = @ \o h.batch, !.batch = <<>>]

(* store.complete keeps the result that is there.                          *)
Complete(h, j, state, of) ==
    IF h.slot[j].state # "open" THEN h
    ELSE [h EXCEPT !.slot[j] = [state |-> state, of |-> of],
                   !.writes = Append(@, [what |-> "complete", job |-> j,
                                         value |-> [state |-> state, of |-> of]])]
Progress(h, j) ==
    [h EXCEPT !.batch = Append(@, [what |-> "progress", job |-> j, value |-> h.queue[j]])]

(* shareJob: a job waits for a queued one that measures the same.          *)
Leaders(h, j) == {l \in Known(h) \ {j} : h.queue[l].leader = None /\ Key[l] = Key[j]}
Share(h, j) ==
    IF Leaders(h, j) = {} THEN [phase |-> "queued", leader |-> None]
    ELSE [phase |-> "shared", leader |-> CHOOSE l \in Leaders(h, j) : TRUE]

(* finishMany, for one job: its followers end with it, or are set free.    *)
Without(h, S) == [h EXCEPT !.queue = [j \in Jobs |-> IF j \in S THEN None ELSE h.queue[j]]]
Free(h, S) ==
    LET freed == [h EXCEPT !.queue = [j \in Jobs |->
                    IF j \in S THEN [phase |-> "queued", leader |-> None] ELSE h.queue[j]]]
    IN  FoldLeft(Progress, freed, SetToSeq(S))
FinishOneFreeing(h, j, state) ==      \* mutant
    IF h.queue[j] = None THEN h
    ELSE Without(Free(Complete(h, j, state, j), Followers(h, j)), {j})
FinishOne(h, j, state) ==
    LET done == Complete(h, j, state, j)
        all == FoldLeft(LAMBDA g, f : Complete(g, f, state, j), done, SetToSeq(Followers(h, j)))
    IN  IF h.queue[j] = None THEN h
        ELSE IF state = "cancelled" THEN Without(Free(done, Followers(h, j)), {j})
        ELSE Without(all, Followers(h, j) \cup {j})

-----------------------------------------------------------------------------
(* recoverJob puts the job of an open slot back into the queue.  unready   *)
(* are the jobs without a capable worker, or past their time.              *)
StoredResult(h, l) == l # None /\ h.slot[l].state \in Reusable
Reattach(h, j, recoverable) ==
    LET copy == saved[j] IN
    IF copy.leader \in recoverable THEN copy
    ELSE IF copy.phase = "running" THEN [phase |-> "running", leader |-> None]
    ELSE Share(h, j)
RecoverJobReady(h, j, recoverable, unready) ==      \* mutant
    IF j \in Known(h) \cup unready THEN h
    ELSE Progress(Add(h, j, Reattach(h, j, recoverable)), j)
RecoverJob(h, j, recoverable, unready) ==
    IF j \in Known(h) THEN h
    ELSE IF StoredResult(h, saved[j].leader)
         THEN Complete(h, j, h.slot[saved[j].leader].state, h.slot[saved[j].leader].of)
    ELSE IF j \in unready THEN Complete(h, j, "missing", j)
    ELSE Progress(Add(h, j, Reattach(h, j, recoverable)), j)
RecoverAll(h, order, recoverable, unready) ==
    FoldLeft(LAMBDA g, j : RecoverJob(g, j, recoverable, unready), h, order)

(* tick, after it: followers whose leader is not in the queue.             *)
Orphans(h) == {j \in Known(h) : h.queue[j].leader \notin Known(h) \cup {None}}
Settle(h, j) ==
    IF StoredResult(h, h.queue[j].leader)
    THEN Without(Complete(h, j, h.slot[h.queue[j].leader].state, h.slot[h.queue[j].leader].of), {j})
    ELSE Free(h, {j})
SettleOrphans(h) == FoldLeft(Settle, h, SetToSeq(Orphans(h)))

Open == {j \in Jobs : slot[j].state = "open"}
RecoverRounds(h, unready) ==
    {EndBatch(SettleOrphans(RecoverAll(h, order, Known(h) \cup Open, unready))) :
        order \in SetToSeqs({j \in Open : h.slot[j].state = "open"})}

-----------------------------------------------------------------------------
(* enqueue of round r for an occurrence, or None.                          *)
PendingOfRound(h, r) == {j \in Known(h) : RoundOf[j] = r}      \* mutant
Pending(h, r) == {j \in Known(h) : Scope[RoundOf[j]] = Scope[r]}
Exists(h, r) == \E j \in JobsOf(r) : h.slot[j].state # "none"
ResumedAsIs(h, r, unready) == h      \* mutant
Resumed(h, r, unready) ==
    LET lost == {j \in JobsOf(r) : h.slot[j].state = "open"} IN
    EndBatch(RecoverAll(h, SetToSeq(lost), Known(h) \cup lost, unready))
Created(h, r, o, unready) ==
    LET ready == JobsOf(r) \ unready
        entry == [j \in JobsOf(r) |-> IF j \in ready THEN Share(h, j)
                                      ELSE [phase |-> "queued", leader |-> None]]
        new == [h EXCEPT
            !.slot = [j \in Jobs |-> IF j \in JobsOf(r) THEN [state |-> "open", of |-> j] ELSE @[j]],
            !.queue = [j \in Jobs |-> IF j \in ready THEN entry[j] ELSE @[j]],
            !.writes = Append(@, [what |-> "create", round |-> r, origin |-> o, value |-> entry])]
    IN  FoldLeft(LAMBDA g, j : Complete(g, j, "missing", j), new, SetToSeq(unready \cap JobsOf(r)))
Fits(h, r, unready) == Cardinality(Known(h)) + Cardinality(JobsOf(r) \ unready) <= Capacity

(* What enqueue may do: nothing for a suite that is still at work, go on    *)
(* with the round of a replayed cursor, or create the round.               *)
Enqueued(h, r, o, unready) ==
    IF Pending(h, r) # {} THEN h
    ELSE IF o # None /\ Exists(h, r) THEN Resumed(h, r, unready)
    ELSE Created(h, r, o, unready)

(* dispatchStep: a member whose round does not fit keeps its place, and so  *)
(* may one whose previous round ran out but is not reaped yet.              *)
DispatchIdFresh(o) ==      \* mutant
    {r \in Rounds : Scope[r] = Scope[Stable[o]] /\ \A j \in JobsOf(r) : slot[j].state = "none"}
DispatchId(o) == {Stable[o]}
Retained(h, r, unready) ==
    /\ Pending(h, r) = {} /\ ~Exists(h, r) /\ ~Fits(h, r, unready)
Dispatched(h, o, unready) ==
    {[Enqueued(h, r, o, unready) EXCEPT !.cursor = @ \ {o}] :
        r \in {q \in DispatchId(o) : ~Retained(h, q, unready)}}

-----------------------------------------------------------------------------
(* The handler ends with the save of queue and cursor.                     *)
Save(reply) == <<[what |-> "save", reply |-> reply]>>
Begin(h, ending) ==
    /\ Idle
    /\ queue' = h.queue /\ cursor' = h.cursor /\ planned' = h.planned
    /\ todo' = EndBatch(h).writes \o ending
    /\ UNCHANGED <<rounds, disk, recovered, held, executed, followed, begun, calm, crashes, errors>>

(* The minute tick: expired jobs first, then the recovery, then the plan.   *)
(* Nothing is saved when nothing changed.                                   *)
Expire(h, S) ==
    FoldLeft(LAMBDA g, j : FinishOne(g, j, IF queue[j].phase = "running" THEN "failed"
                                           ELSE "missing"),
             h, SetToSeq(S))
Plan(h, due) == [h EXCEPT !.cursor = @ \cup due, !.planned = @ \cup due]
Tick(expired, unready, due) ==
    LET reaped == Expire(Start, expired) IN
    \E h \in IF recovered THEN {reaped} ELSE RecoverRounds(reaped, unready) :
        LET plan == Plan(h, due)
            idle == plan = [Start EXCEPT !.slot = plan.slot]
        IN  /\ ~recovered \/ ~idle
            /\ Begin(plan, (IF recovered THEN <<>> ELSE <<[what |-> "recovered"]>>)
                           \o IF idle THEN <<>> ELSE Save(None))

(* One slice of the dispatcher, which a tick schedules after its recovery: up *)
(* to two members.                                                          *)
DispatchStep(unready) ==
    recovered /\ \E o \in cursor : \E h \in Dispatched(Start, o, unready) :
        \/ Begin(h, Save(None))
        \/ \E p \in h.cursor : \E g \in Dispatched(h, p, unready) : Begin(g, Save(None))

(* The run button, for up to two rounds: an occurrence that waits for       *)
(* dispatch, or a new round.  Above the capacity it throws, and the rounds   *)
(* before are created but not queued.                                       *)
Waiting(h, r) == {o \in h.cursor : Scope[Stable[o]] = Scope[r]}
Runnable(h, r) ==
    IF Waiting(h, r) # {} THEN \E o \in Waiting(h, r) : Stable[o] = r
    ELSE ~Exists(h, r) /\ \A o \in Occurrences : Stable[o] # r
Ran(h, r, unready) ==
    Enqueued(h, r, IF Waiting(h, r) = {} THEN None ELSE CHOOSE o \in Waiting(h, r) : Stable[o] = r,
             unready)
Run(r, unready) ==
    LET h == Ran(Start, r, unready) IN
    /\ Runnable(Start, r) /\ ~Retained(Start, r, unready) /\ Pending(Start, r) = {}
    /\ \/ Begin(h, Save(None))
       \/ \E q \in {p \in Rounds : Runnable(h, p)} :
            IF Retained(h, q, unready) THEN Begin(h, <<[what |-> "throw"]>>)
            ELSE Begin(Ran(h, q, unready), Save(None))

(* Cancellation of a round, job by job.                                     *)
Cancel(r) ==
    /\ \E j \in JobsOf(r) : slot[j].state # "none"
    /\ Begin(FoldLeft(LAMBDA h, j : EndBatch(FinishOne(h, j, "cancelled")), Start,
                      SetToSeq(JobsOf(r) \cap Known(Start))), Save(None))

(* A worker polls, and posts its result until it is taken or refused.       *)
DispatchableAgain(j) == queue[j] # None /\ queue[j].phase # "shared"      \* mutant
Dispatchable(j) == queue[j] # None /\ queue[j].phase = "queued"
Poll(j) ==
    /\ Dispatchable(j)
    /\ LET h == Add(Start, j, [phase |-> "running", leader |-> None])
       IN  Begin(Progress(h, j), Save(j))
Result(j) ==
    /\ j \in held
    /\ IF queue[j] # None /\ queue[j].phase = "running"
       THEN Begin(FinishOne(Start, j, "ok"), Save(None))
       ELSE /\ Idle /\ held' = held \ {j}       \* a replay, or refused
            /\ UNCHANGED <<rounds, cache, disk, recovered, todo, executed, followed, begun, calm, crashes, errors>>

-----------------------------------------------------------------------------
(* One write of a handler.                                                 *)
Reload == queue' = disk.queue /\ cursor' = disk.cursor /\ planned' = disk.planned
Write ==
    /\ ~Idle /\ Head(todo).what \notin {"save", "throw"}
    /\ LET w == Head(todo) IN
       /\ slot' = CASE w.what = "create" ->
                         [j \in Jobs |-> IF RoundOf[j] = w.round THEN [state |-> "open", of |-> j]
                                         ELSE slot[j]]
                    [] w.what = "complete" -> [slot EXCEPT ![w.job] = w.value]
                    [] OTHER -> slot
       /\ saved' = CASE w.what = "create" ->
                          [j \in Jobs |-> IF RoundOf[j] = w.round THEN w.value[j] ELSE saved[j]]
                     [] w.what = "progress" /\ slot[w.job].state = "open" ->
                          [saved EXCEPT ![w.job] = w.value]
                     [] OTHER -> saved
       /\ followed' = [j \in Jobs |-> IF saved'[j].leader # None THEN saved'[j].leader
                                      ELSE followed[j]]
       /\ origin' = IF w.what = "create" THEN [origin EXCEPT ![w.round] = w.origin] ELSE origin
       /\ recovered' = (recovered \/ w.what = "recovered")
       /\ todo' = Tail(todo)
    /\ UNCHANGED <<cache, disk, held, executed, begun, calm, crashes, errors>>

SaveQueue ==
    /\ ~Idle /\ Head(todo).what = "save"
    /\ Cardinality(Known(Start)) <= Capacity
    /\ disk' = [queue |-> queue, cursor |-> cursor, planned |-> planned]
    /\ LET j == Head(todo).reply IN
       IF j = None THEN UNCHANGED <<held, executed>>
       ELSE held' = held \cup {j} /\ executed' = [executed EXCEPT ![j] = @ + 1]
    /\ todo' = <<>>
    /\ UNCHANGED <<rounds, cache, recovered, followed, begun, calm, crashes, errors>>

(* An error of the disk, a queue above its capacity: the handler throws     *)
(* and lock drops the cache.                                                *)
Fail ==
    /\ ~Idle
    /\ IF \/ Head(todo).what = "throw"
          \/ Head(todo).what = "save" /\ Cardinality(Known(Start)) > Capacity
       THEN UNCHANGED errors
       ELSE /\ ~calm /\ errors < MaxErrors /\ Head(todo).what # "recovered"
            /\ errors' = errors + 1
    /\ Reload /\ todo' = <<>>
    /\ UNCHANGED <<rounds, disk, recovered, held, executed, followed, begun, calm, crashes>>

Crash ==
    /\ ~calm /\ crashes < MaxCrashes /\ crashes' = crashes + 1
    /\ Reload /\ todo' = <<>> /\ recovered' = FALSE /\ begun' = Open
    /\ UNCHANGED <<rounds, disk, held, executed, followed, calm, errors>>

-----------------------------------------------------------------------------
Init ==
    /\ slot = [j \in Jobs |-> [state |-> "none", of |-> j]]
    /\ saved = [j \in Jobs |-> [phase |-> "queued", leader |-> None]]
    /\ origin = [r \in Rounds |-> None]
    /\ queue = [j \in Jobs |-> None] /\ cursor = {} /\ planned \in SUBSET Occurrences
    /\ disk = [queue |-> queue, cursor |-> {}, planned |-> planned]
    /\ recovered = FALSE /\ todo = <<>> /\ held = {}
    /\ executed = [j \in Jobs |-> 0] /\ followed = [j \in Jobs |-> None]
    /\ begun = {} /\ calm \in BOOLEAN
    /\ crashes = 0 /\ errors = 0

TickSome ==
    \E expired \in SUBSET Known(Start), unready \in SUBSET (IF recovered THEN {} ELSE Open),
       due \in SUBSET (Occurrences \ planned) :
        Tick(expired, unready, due)
Next ==
    \/ TickSome
    \/ \E unready \in SUBSET {j \in Jobs : \E o \in cursor : Stable[o] = RoundOf[j]} :
           DispatchStep(unready)
    \/ \E unready \in SUBSET {j \in Jobs : slot[j].state \in {"none", "open"}}, r \in Rounds :
           Runnable(Start, r) /\ Run(r, unready)
    \/ \E r \in Rounds : Cancel(r)
    \/ \E j \in Jobs : Poll(j) \/ Result(j)
    \/ Write \/ SaveQueue \/ Fail \/ Crash

(* Handlers end; the minute tick comes, and in the end finds each job past  *)
(* its time; the dispatcher goes on while members wait.                     *)
Fairness ==
    /\ WF_vars(Write) /\ WF_vars(SaveQueue \/ Fail)
    /\ SF_vars(Tick({}, {}, {}))
    /\ \A j \in Jobs : SF_vars(j \in Known(Start) /\ Tick({j}, {}, {}))
    /\ \A o \in Occurrences :
         SF_vars(recovered /\ \E h \in Dispatched(Start, o, {}) : Begin(h, Save(None)))
Spec == Init /\ [][Next]_vars /\ Fairness
-----------------------------------------------------------------------------
TypeOK ==
    /\ slot \in [Jobs -> [state : Recorded \cup {"none", "open"}, of : Jobs]]
    /\ saved \in [Jobs -> Entries] /\ origin \in [Rounds -> Occurrences \cup {None}]
    /\ queue \in [Jobs -> Entries \cup {None}] /\ disk.queue \in [Jobs -> Entries \cup {None}]
    /\ cursor \subseteq planned /\ planned \subseteq Occurrences
    /\ disk.cursor \subseteq disk.planned /\ disk.planned \subseteq planned
    /\ recovered \in BOOLEAN /\ held \subseteq Jobs
    /\ executed \in [Jobs -> Nat] /\ followed \in [Jobs -> Jobs \cup {None}]
    /\ begun \subseteq Jobs /\ calm \in BOOLEAN
    /\ crashes \in 0..MaxCrashes /\ errors \in 0..MaxErrors

(* No unfinished round is forgotten: once recovery is over, the job of an   *)
(* open slot is in the queue, or its occurrence is dispatched again.        *)
OpenIsQueued ==
    Idle /\ recovered =>
        \A j \in Open : queue[j] # None \/ \E o \in cursor : Stable[o] = RoundOf[j]

(* A restart puts the open slots it finds back into the queue.             *)
RestartReconstructs ==
    Idle /\ recovered =>
        \A j \in begun \cap Open :
            queue[j] # None \/ \E o \in cursor : Stable[o] = RoundOf[j]

(* dispatchRoundId: a cursor that lags the rounds it made, replayed after a *)
(* crash or a failed save, makes no second round for its occurrence.        *)
OccurrenceOnce ==
    \A r, q \in Rounds : r # q /\ origin[r] # None => origin[r] # origin[q]

(* A measurement that was handed out is not handed out again by recovery.   *)
MeasuredOnce ==
    \A j \in Jobs : executed[j] <= 1

(* Equal measurements are shared: a job that was to wait for another one is *)
(* not measured when that one has a result, unless a fault separated them.  *)
SharedOnce ==
    calm => \A f \in Jobs : followed[f] # None /\ executed[f] > 0 =>
        slot[followed[f]].state # "ok" \/ slot[followed[f]].of # followed[f]

(* One unfinished round per suite, module and server: a second click, or a  *)
(* time that comes while the last round is at work, adds no traffic.         *)
OneUnfinished ==
    calm => \A r, q \in Rounds : r # q /\ Scope[r] = Scope[q] =>
        JobsOf(r) \cap Open = {} \/ JobsOf(q) \cap Open = {}

(* Every slot of a round gets its result.                                   *)
SlotsEnd == \A j \in Jobs : slot[j].state = "open" ~> slot[j].state \in Recorded
=============================================================================
