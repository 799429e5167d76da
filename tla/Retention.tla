------------------------------- MODULE Retention -------------------------------
(***************************************************************************)
(* The retention of finished rounds                                        *)
(* (network-observatory/plugin/src/retention-store.js): the details of a    *)
(* round go some days after its completion, the round itself later.        *)
(*                                                                         *)
(* A cycle scans the index days whose expiry has come, in runs of a few     *)
(* steps between which rounds start and finish.  The cursor of the cycle    *)
(* is a file; it, the expiries, index days, manifests and measurements are  *)
(* written one at a time, and the process may end between two of them.      *)
(*                                                                         *)
(* Modelled is one server and module.  A round is a number that orders as    *)
(* its plannedAt and id, a day a number that orders as its file name; the    *)
(* clock ticks in units longer than the hour between two cycles.            *)
(***************************************************************************)
EXTENDS Integers, FiniteSets, FiniteSetsExt, SequencesExt

CONSTANTS
    Rounds, Days, DayOf,
    Parts,              \* measurement files of a round
    Detail, Whole,      \* how long details and rounds are kept
    None,
    MaxClock, MaxFaults     \* bounds

Manifests == [at : Nat \cup {None}, detail : BOOLEAN]
IndexRows == [round : Rounds, at : Nat \cup {None}, detail : BOOLEAN]
Caches == [day : Days, rows : SUBSET IndexRows]

ASSUME RetentionConstants ==
    /\ Rounds \subseteq Nat /\ IsFiniteSet(Rounds)
    /\ Days \subseteq Nat /\ IsFiniteSet(Days) /\ DayOf \in [Rounds -> Days]
    /\ Parts \in Nat /\ Detail \in Nat /\ Whole \in Nat /\ Detail <= Whole
    /\ None \notin Int /\ None \notin Manifests /\ None \notin Caches
    /\ \A S \in SUBSET Days : S # None
    /\ MaxClock \in Nat /\ MaxFaults \in Nat

VARIABLES
    clock,
    manifest,       \* per round: completedAt and detailAvailable, or None
    parts,          \* per round: its measurement files
    queued,         \* rounds with a job in the queue (isRoundActive)
    index,          \* per day: the rows of its index file
    expiry,         \* retention.json: per day when it must be scanned
    stored,         \* maintenance.json: the cycle as last written
    cycle,          \* the cycle in memory, or None
    cached,         \* indexCache: a day and its rows, or None
    run,            \* the running maintenance: "off", "fresh", "on"
    todo,           \* writes left of the running handler
    done,           \* history: when a round was completed first
    faults          \* crashes and failed writes so far

disk == <<manifest, parts, queued, index, expiry, stored>>
memory == <<cycle, cached, run>>
vars == <<clock, disk, memory, todo, done, faults>>

Idle == todo = <<>> /\ run = "off"
Absent == -1
Never == MaxClock + Whole + 2
-----------------------------------------------------------------------------
(* Index days and when they must be scanned.                               *)
Row(r, m) == [round |-> r, at |-> m.at, detail |-> m.detail]
Due(rows) ==
    Min({Never} \cup {w.at + 1 + (IF w.detail THEN Detail ELSE Whole) :
                        w \in {v \in rows : v.at # None}})
Entry(rows) == IF rows = {} THEN Absent ELSE Due(rows)
Schedule(S, value) == [file |-> "expiry", days |-> S, value |-> value]
Note(d, rows, entry) ==
    IF Entry(rows) = entry THEN <<>> ELSE <<Schedule({d}, Entry(rows))>>

(* An earlier expiry is announced before the index has the row.            *)
BeforeIndexNever(d, rows) == <<>>      \* mutant
BeforeIndex(d, rows) ==
    IF Due(rows) < expiry[d] THEN <<Schedule({d}, 0)>> ELSE <<>>
IndexWrites(r, m) ==
    LET d == DayOf[r]
        rows == {w \in index[d] : w.round # r} \cup {Row(r, m)}
        entry == IF BeforeIndex(d, rows) = <<>> THEN expiry[d] ELSE 0
    IN  IF rows = index[d] THEN <<>>
        ELSE BeforeIndex(d, rows)
             \o <<[file |-> "index", day |-> d, rows |-> rows, cache |-> None]>>
             \o Note(d, rows, entry)

-----------------------------------------------------------------------------
(* Rounds: created and queued, completed and taken from the queue.  What    *)
(* a crash leaves half done is done again: by the recovery, by the worker   *)
(* that posts its result again or by the expiry of the job.                 *)
QueueWrite(r, value) == <<[file |-> "queue", round |-> r, value |-> value]>>
ManifestWrite(r, m) == IF m = manifest[r] THEN <<>> ELSE <<[file |-> "manifest", round |-> r, value |-> m]>>
Begin(writes) ==
    /\ Idle /\ todo' = writes
    /\ UNCHANGED <<clock, disk, memory, done, faults>>

Create(r) ==
    /\ r \notin queued /\ done[r] = None
    /\ LET m == [at |-> None, detail |-> TRUE]
       IN  Begin(ManifestWrite(r, m) \o IndexWrites(r, m) \o QueueWrite(r, TRUE))

Complete(r) ==
    /\ r \in queued /\ manifest[r] # None
    /\ LET m == [manifest[r] EXCEPT !.at = IF @ = None THEN clock ELSE @]
       IN  Begin((IF parts[r] = Parts THEN <<>> ELSE <<[file |-> "parts", round |-> r]>>)
                 \o ManifestWrite(r, m) \o IndexWrites(r, m) \o QueueWrite(r, FALSE))

-----------------------------------------------------------------------------
(* stepIndex: one step on a day.                                           *)
Work == cycle.work
Rows == IF cached # None /\ cached.day = Work.day THEN cached.rows ELSE index[Work.day]
After(rows) == [day |-> Work.day, rows |-> rows]
ActiveNever(r) == FALSE      \* mutant
Active(r) == r \in queued
Step(work, writes) ==
    /\ run # "off" /\ todo = <<>>
    /\ run' = "on" /\ todo' = writes
    /\ cycle' = [cycle EXCEPT !.work = work]
    /\ UNCHANGED <<clock, disk, done, faults>>
Scanning == cycle # None /\ cycle.work # None
Keep == UNCHANGED cached

(* The details or the whole round that the cursor names.                    *)
Deleting == Scanning /\ Work.deleting # None
Victim == Work.deleting.round
Skip(r) == [Work EXCEPT !.after = r, !.deleting = None]
Early(m, mode) ==
    m # None /\ ~(m.at # None /\ clock - m.at > (IF mode = "round" THEN Whole ELSE Detail))

Unwanted == Active(Victim) \/ (~Work.deleting.marked /\ Early(manifest[Victim], Work.deleting.mode))
Abandon == Step(Skip(Victim), <<>>)

MarkWritesNothing(m) == <<>>      \* mutant
MarkWrites(m) ==
    IF m # None /\ Work.deleting.mode = "details" /\ m.detail
    THEN ManifestWrite(Victim, [m EXCEPT !.detail = FALSE]) ELSE <<>>
StepMark ==
    /\ Deleting /\ ~Work.deleting.marked
    /\ IF Unwanted THEN Abandon
       ELSE Step([Work EXCEPT !.deleting.marked = TRUE], MarkWrites(manifest[Victim]))
    /\ Keep

(* prune, in the order of the names: the manifest, then measurements.       *)
Round == Work.deleting.mode = "round"
Remains == parts[Victim] > 0 \/ (Round /\ manifest[Victim] # None)
Removal ==
    IF Round /\ manifest[Victim] # None
    THEN ManifestWrite(Victim, None) ELSE <<[file |-> "part", round |-> Victim]>>
PrunedUnrecorded == Skip(Victim)      \* mutant
Pruned == [Skip(Victim) EXCEPT !.updates = @ \cup {[round |-> Victim, mode |-> Work.deleting.mode]}]
StepPrune ==
    /\ Deleting /\ Work.deleting.marked
    /\ IF Unwanted THEN Abandon
       ELSE IF Remains THEN Step(Work, Removal) ELSE Step(Pruned, <<>>)
    /\ Keep

(* The rows of a day, the last first.                                       *)
Left == {w \in Rows : w.round < Work.after}
Next1 == CHOOSE w \in Left : \A v \in Left : v.round <= w.round
RunOut(w) == w.at # None /\ clock - w.at > (IF w.detail THEN Detail ELSE Whole)
WrittenOff(w) == IF clock - w.at > Whole THEN "round" ELSE "details"
Nothing == Work.updates = {} /\ Due(Rows) > clock
AtRow == Scanning /\ Work.deleting = None /\ ~Nothing /\ Left # {}

Deletable(w) == RunOut(w) /\ ~Active(w.round) /\ ~Early(manifest[w.round], WrittenOff(w))

StepSkip ==
    /\ AtRow /\ ~Deletable(Next1)
    /\ Step([Work EXCEPT !.after = Next1.round], <<>>) /\ cached' = After(Rows)

WriteAhead == <<[file |-> "state"]>>
StepDelete ==
    /\ AtRow /\ Deletable(Next1)
    /\ Step([Work EXCEPT !.deleting = [round |-> Next1.round, mode |-> WrittenOff(Next1), marked |-> FALSE]],
            WriteAhead)
    /\ cached' = After(Rows)

(* commit: the rows of what was deleted.                                    *)
Updated ==
    LET gone == {u.round : u \in {v \in Work.updates : v.mode = "round"}}
        marked == {u.round : u \in Work.updates}
    IN  {IF w.round \in marked THEN [w EXCEPT !.detail = FALSE] ELSE w :
            w \in {v \in index[Work.day] : v.round \notin gone}}
Commit(cache) ==
    IF Work.updates = {} THEN <<>>
    ELSE <<[file |-> "index", day |-> Work.day, rows |-> Updated, cache |-> cache]>>
         \o Note(Work.day, Updated, expiry[Work.day])

StepDayDone ==
    /\ Scanning /\ Work.deleting = None /\ (Nothing \/ Left = {})
    /\ run # "off" /\ todo = <<>> /\ run' = "on"
    /\ cycle' = [cycle EXCEPT !.work = None, !.days = @ \ {Work.day}]
    /\ todo' = IF Work.updates = {} THEN Note(Work.day, Rows, expiry[Work.day]) ELSE Commit(None)
    /\ cached' = None
    /\ UNCHANGED <<clock, disk, done, faults>>

-----------------------------------------------------------------------------
(* maintenanceStep: a run of steps, at least one, under the lock.           *)
StartRun ==
    /\ Idle /\ run' = "fresh"
    /\ cycle' = IF cycle = None THEN [days |-> None, work |-> None] ELSE cycle
    /\ UNCHANGED <<clock, disk, cached, todo, done, faults>>

StepList ==
    /\ cycle # None /\ run # "off" /\ todo = <<>> /\ cycle.days = None
    /\ LET stale == {d \in Days : expiry[d] # Absent /\ index[d] = {}}
       IN  todo' = IF stale = {} THEN <<>> ELSE <<Schedule(stale, Absent)>>
    /\ cycle' = [cycle EXCEPT !.days = {d \in Days : index[d] # {} /\ expiry[d] <= clock}]
    /\ run' = "on"
    /\ UNCHANGED <<clock, disk, cached, done, faults>>

StepDay ==
    /\ cycle # None /\ cycle.days \notin {None, {}} /\ cycle.work = None
    /\ Step([day |-> Min(cycle.days), after |-> Max(Rounds) + 1, updates |-> {}, deleting |-> None],
            <<>>)
    /\ Keep

StepCycleDone ==
    /\ cycle # None /\ run # "off" /\ todo = <<>> /\ cycle.days = {} /\ cycle.work = None
    /\ cycle' = None /\ run' = "on" /\ cached' = None
    /\ UNCHANGED <<clock, disk, todo, done, faults>>

EndRun ==
    /\ run = "on" /\ todo = <<>>
    /\ run' = "off"
    /\ IF Scanning
       THEN /\ todo' = Commit(After(Updated)) \o <<[file |-> "state"]>>
            /\ cycle' = [cycle EXCEPT !.work.updates = {}]
       ELSE todo' = <<[file |-> "state"]>> /\ UNCHANGED cycle
    /\ UNCHANGED <<clock, disk, cached, done, faults>>

Steps ==
    StepMark \/ StepPrune \/ StepSkip \/ StepDelete \/ StepDayDone
    \/ StepList \/ StepDay \/ StepCycleDone

-----------------------------------------------------------------------------
(* One write of the running handler.                                       *)
Write ==
    /\ todo # <<>>
    /\ LET w == Head(todo) IN
       /\ manifest' = IF w.file = "manifest" THEN [manifest EXCEPT ![w.round] = w.value] ELSE manifest
       /\ done' = IF w.file = "manifest" /\ w.value # None /\ done[w.round] = None
                  THEN [done EXCEPT ![w.round] = w.value.at] ELSE done
       /\ parts' = CASE w.file = "part" -> [parts EXCEPT ![w.round] = @ - 1]
                     [] w.file = "parts" -> [parts EXCEPT ![w.round] = Parts]
                     [] OTHER -> parts
       /\ queued' = CASE w.file = "queue" /\ w.value -> queued \cup {w.round}
                      [] w.file = "queue" /\ ~w.value -> queued \ {w.round}
                      [] OTHER -> queued
       /\ index' = IF w.file = "index" THEN [index EXCEPT ![w.day] = w.rows] ELSE index
       /\ cached' = IF w.file = "index" /\ (w.cache # None \/ (cached # None /\ cached.day = w.day))
                    THEN w.cache ELSE cached
       /\ expiry' = IF w.file = "expiry"
                    THEN [d \in Days |-> IF d \in w.days THEN w.value ELSE expiry[d]] ELSE expiry
       /\ stored' = IF w.file = "state" THEN cycle ELSE stored
    /\ todo' = Tail(todo)
    /\ UNCHANGED <<clock, cycle, run, faults>>

(* A write that fails ends its handler, and a run of maintenance drops what *)
(* it remembers of the cycle.                                               *)
Forget == cycle' = stored /\ cached' = None
Maintaining == run # "off" \/ Last(todo).file = "state"
Fail ==
    /\ todo # <<>> /\ faults < MaxFaults /\ faults' = faults + 1
    /\ todo' = <<>> /\ run' = "off"
    /\ IF Maintaining THEN Forget ELSE UNCHANGED <<cycle, cached>>
    /\ UNCHANGED <<clock, disk, done>>

Crash ==
    /\ faults < MaxFaults /\ faults' = faults + 1
    /\ todo' = <<>> /\ run' = "off" /\ Forget
    /\ UNCHANGED <<clock, disk, done>>

Tick ==
    /\ clock < MaxClock /\ clock' = clock + 1
    /\ UNCHANGED <<disk, memory, todo, done, faults>>

Init ==
    /\ clock = 0
    /\ manifest = [r \in Rounds |-> None] /\ parts = [r \in Rounds |-> 0] /\ queued = {}
    /\ index = [d \in Days |-> {}] /\ expiry = [d \in Days |-> Absent]
    /\ stored = None /\ cycle = None /\ cached = None /\ run = "off" /\ todo = <<>>
    /\ done = [r \in Rounds |-> None]
    /\ faults = 0

Next ==
    \/ \E r \in Rounds : Create(r) \/ Complete(r)
    \/ StartRun \/ Steps \/ EndRun
    \/ Write \/ Fail \/ Crash \/ Tick

(* Runs of maintenance come back as long as the process lives, a worker      *)
(* posts a result until its job leaves the queue, and time goes on.          *)
Fairness ==
    /\ WF_vars(Write) /\ WF_vars(Steps \/ EndRun) /\ WF_vars(EndRun)
    /\ SF_vars(StartRun) /\ WF_vars(Tick)
    /\ SF_vars(\E r \in Rounds : Complete(r))
Spec == Init /\ [][Next]_vars /\ Fairness
-----------------------------------------------------------------------------
Gone(r) == manifest[r] = None /\ parts[r] = 0 /\ \A w \in index[DayOf[r]] : w.round # r

(* A crash between the index and retention.json "cannot leave a completed   *)
(* round scheduled never" (65-67): whatever write was the last, a day is    *)
(* scanned no later than its first completed row runs out.                  *)
ExpiryScheduled ==
    \A d \in Days : \A w \in index[d] :
        w.at # None => expiry[d] <= w.at + (IF w.detail THEN Detail ELSE Whole) + 1

(* Nothing goes early: a round whose time has not come, by its first        *)
(* completion, and one with a job in the queue are whole; then its manifest *)
(* stays until its second time comes.                                       *)
NothingEarly ==
    \A r \in Rounds : done[r] # None =>
        /\ r \in queued \/ clock - done[r] <= Detail
             => parts[r] = Parts /\ manifest[r] # None /\ manifest[r].detail
        /\ r \in queued \/ clock - done[r] <= Whole => manifest[r] # None

(* A manifest that offers details has all of them, through every             *)
(* interruption of a deletion, of either kind.                               *)
MarkedFirst ==
    \A r \in Rounds :
        manifest[r] # None /\ manifest[r].at # None /\ manifest[r].detail => parts[r] = Parts

(* Every completed round goes, with its index row, when its time has passed *)
(* and maintenance goes on; the cursor skips none of them for ever.         *)
RoundsExpire ==
    \A r \in Rounds : done[r] # None /\ done[r] + Whole < MaxClock ~> Gone(r)
=============================================================================
