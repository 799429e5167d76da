------------------------------ MODULE RoundStore ------------------------------
(***************************************************************************)
(* The files of report rounds                                              *)
(* (network-observatory/plugin/src/round-store.js) of one measured server. *)
(* A round has a manifest with the state of its slots, a measurement file  *)
(* per recorded slot, receipts that let a worker replay its result, a row  *)
(* in a daily index and, while unfinished, an entry in the server's active *)
(* list.  Every file is replaced by a rename.                              *)
(*                                                                         *)
(* The store is synchronous: an operation looks at files and memory once   *)
(* and leaves in "todo" the writes it makes, in their order; no other      *)
(* operation starts before they are done, but an I/O error or the end of   *)
(* the process may come between any two.  Inside batch(fn) manifests stay  *)
(* in memory until the batch ends; measurements and receipts do not.       *)
(*                                                                         *)
(* Every round has an index file of its own here (its module and day); the *)
(* expiry notes kept beside an index are left to Retention.  Receipts are   *)
(* filed by day; a behaviour is shorter than the seven days in which they   *)
(* are looked up.                                                          *)
(***************************************************************************)
EXTENDS Naturals, FiniteSets, Sequences, SequencesExt

CONSTANTS
    Rounds,
    Full,           \* rounds of a full benchmark, kept for ever and deletable
    Slots,          \* the targets of all rounds; a slot has one job
    RoundOf,        \* the round of a slot
    None,           \* no file, no entry
    Rest,           \* a renamed round directory that has lost its manifest
    MaxDay,         \* bound: the last day of a behaviour
    MaxCrashes,     \* bound: ends of the process
    MaxErrors       \* bound: failed writes

Days == 0..MaxDay

SlotsOf(r) == {s \in Slots : RoundOf[s] = r}
Outcomes == {"ok", "partial", "failed", "missing", "cancelled"}
Entry == [state : Outcomes \cup {"open"}, late : BOOLEAN]
Open == [state |-> "open", late |-> FALSE]

(* A measurement file: its state, whether it stands for a missed deadline, *)
(* whether it replaced one that did, whether the report has its URL.       *)
Measurement == [state : Outcomes, expired : BOOLEAN, late : BOOLEAN, url : BOOLEAN]
Manifests(r) == [slots : [SlotsOf(r) -> Entry], jobs : SUBSET SlotsOf(r)]

ASSUME StoreConstants ==
    /\ Full \subseteq Rounds /\ RoundOf \in [Slots -> Rounds]
    /\ IsFiniteSet(Slots) /\ IsFiniteSet(Rounds)
    /\ MaxDay \in 0..6 /\ None \notin Days
    /\ MaxCrashes \in Nat /\ MaxErrors \in Nat
    /\ None # Rest /\ None \notin Measurement
    /\ \A r \in Rounds : None \notin Manifests(r) /\ Rest \notin Manifests(r)

VARIABLES
    manifest,       \* per round: manifest.json
    measured,       \* per slot: its measurement file
    receipt,        \* receipts/<day>/<job>.json: pairs of a slot and a day
    fullReceipt,    \* per slot: the day in its receipt of full-receipts
    recordedOn,     \* history: per slot, the day of its last receipt
    index,          \* per round: its row in the index
    active,         \* active.json
    intent,         \* rounds with a deletion intent
    tomb,           \* per round: the manifest of the renamed directory, or
                    \* Rest
    dirty,          \* per round: the manifest a batch holds back
    trusted,        \* recoveredRounds: measurements need not be read again
    mode,           \* "single", "batch" (inside fn) or "flush"
    todo,           \* writes left of the running operation
    unscanned,      \* rounds the recovery of this process has not seen
    queued,         \* slots whose job is in the stored queue of the controller
    settled,        \* slots whose job the running handler takes from the queue
    planned,        \* rounds the suites ask for
    day,            \* the day of the clock, in UTC
    crashes, errors

files == <<manifest, measured, receipt, fullReceipt, recordedOn, index, active, intent, tomb>>
memory == <<dirty, trusted, mode, unscanned, settled>>
vars == <<files, memory, todo, queued, planned, day, crashes, errors>>

Idle == todo = <<>>
-----------------------------------------------------------------------------
(* Reading a round.  A dirty manifest comes before the file; a deletion    *)
(* intent hides a full benchmark.                                          *)
View(r) == IF dirty[r] # None THEN dirty[r] ELSE manifest[r]
Visible(r) == View(r) # None /\ ~(r \in Full /\ r \in intent)
Terminal(m) == \A s \in DOMAIN m.slots : m.slots[s].state # "open"

(* The measurement is written before the manifest: get takes over what a   *)
(* crash kept from the manifest, a late full benchmark included.           *)
LagsNever(r, e, res) == FALSE      \* mutant
Lags(r, e, res) == \/ e.state = "open"
                   \/ r \in Full /\ res.late /\ (~e.late \/ e.state # res.state)
Merged(r) ==
    [View(r) EXCEPT !.slots =
       [s \in SlotsOf(r) |->
          IF measured[s] # None /\ Lags(r, @[s], measured[s])
          THEN [state |-> measured[s].state, late |-> @[s].late \/ measured[s].late]
          ELSE @[s]]]
Get(r) == IF r \in trusted THEN View(r) ELSE Merged(r)      \* get without details

-----------------------------------------------------------------------------
(* Writes.                                                                 *)
Put(what, where, value) == [what |-> what, where |-> where, value |-> value]
When(cond, writes) == IF cond THEN writes ELSE <<>>

(* save keeps recovery jobs of unfinished slots only.                      *)
Tidy(m) == [m EXCEPT !.jobs = {s \in @ : m.slots[s].state = "open"}]

(* The row of the daily index, and the active list, change only when they  *)
(* differ; a late result moves the time of completion.                     *)
Summary(m) ==
    LET in(states) == {s \in DOMAIN m.slots : m.slots[s].state \in states} IN
    [counts |-> [o \in Outcomes |-> Cardinality(in({o}))],
     late |-> \E s \in DOMAIN m.slots : m.slots[s].late,
     state |-> CASE ~Terminal(m) -> "running"
                 [] in({"cancelled"}) = DOMAIN m.slots -> "cancelled"
                 [] in({"ok"}) = DOMAIN m.slots -> "complete"
                 [] in({"ok", "partial"}) # {} /\ in({"ok"}) # DOMAIN m.slots
                    /\ Terminal(m) -> "partial"
                 [] in({"missing"}) = DOMAIN m.slots -> "missing"
                 [] OTHER -> "failed"]
ASSUME RowIsEntry == \A r \in Rounds : \A m \in Manifests(r) : Summary(m) # None
IndexRow(r, m) == When(index[r] # Summary(m), <<Put("index", r, Summary(m))>>)
Listed(r, keep) == When((r \in active) # keep, <<Put("active", r, keep)>>)

PersistActiveFirst(r, m) ==      \* mutant
    Listed(r, ~Terminal(m))
    \o <<Put("manifest", r, m)>>
    \o IndexRow(r, m)
    \o <<Put("trusted", r, TRUE)>>
Persist(r, m) ==
    <<Put("manifest", r, m)>>
    \o IndexRow(r, m)
    \o Listed(r, ~Terminal(m))
    \o <<Put("trusted", r, TRUE)>>

Save(r, m) == IF mode = "batch" THEN <<Put("dirty", r, Tidy(m)), Put("trusted", r, TRUE)>>
              ELSE Persist(r, Tidy(m))
(* get saves what it recovered, and remembers that it looked.              *)
GetWrites(r) == IF Get(r) # View(r) THEN Save(r, Get(r)) ELSE <<Put("trusted", r, TRUE)>>

(* The end of a batch: all manifests, then all index rows, then the active *)
(* list, which loses the finished rounds at once.                          *)
Finished(S) == {r \in S : Terminal(dirty[r]) /\ r \in active}
FlushIndexLast(order, failed) ==      \* mutant
    FlattenSeq([i \in DOMAIN order |-> <<Put("manifest", order[i], dirty[order[i]])>>])
    \o When(Finished(ToSet(order)) # {}, <<Put("inactive", None, Finished(ToSet(order)))>>)
    \o FlattenSeq([i \in DOMAIN order |-> IndexRow(order[i], dirty[order[i]])])
    \o <<Put("close", None, failed)>>
Flush(order, failed) ==
    FlattenSeq([i \in DOMAIN order |-> <<Put("manifest", order[i], dirty[order[i]])>>])
    \o FlattenSeq([i \in DOMAIN order |-> IndexRow(order[i], dirty[order[i]])])
    \o When(Finished(ToSet(order)) # {}, <<Put("inactive", None, Finished(ToSet(order)))>>)
    \o FlattenSeq([i \in DOMAIN order |-> <<Put("trusted", order[i], TRUE)>>])
    \o <<Put("close", None, failed)>>
EndBatch(failed) ==
    \E order \in SetToSeqs({r \in Rounds : dirty[r] # None}) :
        todo' = Flush(order, failed) /\ mode' = "flush"

-----------------------------------------------------------------------------
(* One write.                                                              *)
Set(f, what, w) == IF w.what = what THEN [f EXCEPT ![w.where] = w.value] ELSE f
Mark(S, what, w) == IF w.what # what THEN S
                    ELSE IF w.value THEN S \cup {w.where} ELSE S \ {w.where}

Write ==
    /\ ~Idle
    /\ LET w == Head(todo)
           closed == w.what = "close"
       IN
       /\ manifest' = IF w.what = "bury" THEN [manifest EXCEPT ![w.where] = None]
                      ELSE Set(manifest, "manifest", w)
       /\ tomb' = IF w.what = "bury" THEN [tomb EXCEPT ![w.where] = manifest[w.where]]
                  ELSE Set(tomb, "tomb", w)
       /\ measured' = IF w.what = "bury"
                      THEN [s \in Slots |-> IF RoundOf[s] = w.where THEN None ELSE measured[s]]
                      ELSE Set(measured, "measurement", w)
       /\ index' = Set(index, "index", w)
       /\ active' = IF w.what = "inactive" THEN active \ w.value ELSE Mark(active, "active", w)
       /\ receipt' = Mark(receipt, "receipt", w)
       /\ recordedOn' = IF w.what = "receipt" /\ w.value
                        THEN [recordedOn EXCEPT ![w.where[1]] = w.where[2]] ELSE recordedOn
       /\ fullReceipt' = Set(fullReceipt, "fullReceipt", w)
       /\ intent' = Mark(intent, "intent", w)
       /\ dirty' = IF closed THEN [r \in Rounds |-> None] ELSE Set(dirty, "dirty", w)
       /\ trusted' = IF closed /\ w.value THEN {} ELSE Mark(trusted, "trusted", w)
       /\ unscanned' = Mark(unscanned, "unscanned", w)
       /\ settled' = IF closed /\ w.value THEN {} ELSE Mark(settled, "settled", w)
       /\ mode' = IF closed THEN "single" ELSE mode
       /\ todo' = Tail(todo)
    /\ UNCHANGED <<queued, planned, day, crashes, errors>>

(* A write throws.  write() forgets what memory holds; a batch still       *)
(* flushes before it hands the error on.                                   *)
InMemory == {"dirty", "trusted", "unscanned", "settled", "close"}
WriteFails ==
    /\ ~Idle /\ Head(todo).what \notin InMemory
    /\ errors < MaxErrors
    /\ errors' = errors + 1 /\ trusted' = {} /\ settled' = {}
    /\ IF mode = "batch" THEN EndBatch(TRUE) /\ UNCHANGED dirty
       ELSE todo' = <<>> /\ mode' = "single" /\ dirty' = [r \in Rounds |-> None]
    /\ UNCHANGED <<files, unscanned, queued, planned, day, crashes>>

(* The process ends, and a new one starts.                                 *)
Crash ==
    /\ crashes < MaxCrashes
    /\ crashes' = crashes + 1
    /\ todo' = <<>> /\ mode' = "single" /\ dirty' = [r \in Rounds |-> None]
    /\ trusted' = {} /\ settled' = {} /\ unscanned' = planned
    /\ UNCHANGED <<files, queued, planned, day, errors>>

(* No operation is under way at midnight: each looks at the clock once.    *)
NextDay ==
    /\ Idle /\ day < MaxDay /\ day' = day + 1
    /\ UNCHANGED <<files, memory, todo, queued, planned, crashes, errors>>

Run(writes) == /\ Idle /\ todo' = writes
               /\ UNCHANGED <<files, memory, queued, planned, day, crashes, errors>>

-----------------------------------------------------------------------------
(* create: the pointer that finds the round after a restart comes first.   *)
NewManifest(r) == [slots |-> [s \in SlotsOf(r) |-> Open], jobs |-> SlotsOf(r)]
CreateWrites(r) == Listed(r, TRUE) \o Persist(r, NewManifest(r))
Refused(r) == r \in Full /\ r \in intent
Create(r) ==
    /\ mode = "single" /\ r \in planned /\ ~Refused(r)
    /\ manifest[r] = None       \* an existing round is returned as it is
    /\ Run(CreateWrites(r))

(* The queue of the controller, saved as a whole: it gets the jobs of open *)
(* slots from enqueue or recovery, and loses those that were recorded.  A   *)
(* save that fails leaves them to be recorded again.                        *)
Queue(s) ==
    /\ Idle /\ mode = "single" /\ Visible(RoundOf[s]) /\ s \in View(RoundOf[s]).jobs
    /\ queued' = queued \cup {s}
    /\ UNCHANGED <<files, memory, todo, planned, day, crashes, errors>>
Dequeue ==
    /\ Idle /\ mode = "single" /\ settled # {}
    /\ \/ queued' = queued \ settled /\ UNCHANGED errors
       \/ errors < MaxErrors /\ errors' = errors + 1 /\ UNCHANGED queued
    /\ settled' = {}
    /\ UNCHANGED <<files, dirty, trusted, mode, unscanned, todo, planned, day, crashes>>

OpenBatch == /\ Idle /\ mode = "single" /\ settled = {} /\ mode' = "batch"
             /\ UNCHANGED <<files, dirty, trusted, unscanned, settled, todo, queued, planned, day, crashes, errors>>
CloseBatch == /\ Idle /\ mode = "batch" /\ EndBatch(FALSE)
              /\ UNCHANGED <<files, dirty, trusted, unscanned, settled, queued, planned, day, crashes, errors>>

(* complete, always inside a batch (finishMany, enqueue, recoverJob).  What *)
(* was measured stays; the receipts are written again, of this day.  A job   *)
(* is recorded as missing when its slot is made, or found by pending, which *)
(* looks at the measurements: nothing is measured there.                    *)
Result(state, expired) == [state |-> state, expired |-> expired, late |-> FALSE, url |-> FALSE]
KeptNever(s, res) == res      \* mutant
Kept(s, res) == IF measured[s] # None THEN measured[s] ELSE res
ResultWritesReceiptFirst(s, res) ==      \* mutant
    <<Put("receipt", <<s, day>>, TRUE)>>
    \o When(measured[s] # Kept(s, res), <<Put("measurement", s, Kept(s, res))>>)
    \o When(RoundOf[s] \in Full, <<Put("fullReceipt", s, day)>>)
ResultWrites(s, res) ==
    When(measured[s] # Kept(s, res), <<Put("measurement", s, Kept(s, res))>>)
    \o <<Put("receipt", <<s, day>>, TRUE)>>
    \o When(RoundOf[s] \in Full, <<Put("fullReceipt", s, day)>>)
Complete(s, res) ==
    LET r == RoundOf[s] IN
    /\ mode = "batch" /\ Visible(r) /\ s \notin settled
    /\ s \in queued \/ (res.state = "missing" /\ Merged(r).slots[s].state = "open")
    /\ res.expired => r \in Full /\ res.state = "failed"
    /\ Run(GetWrites(r) \o ResultWrites(s, res)
           \o Save(r, [Get(r) EXCEPT !.slots[s].state = Kept(s, res).state])
           \o <<Put("settled", s, TRUE)>>)

(* progress of a claimed, retried or released job.                         *)
Progress(s) ==
    LET r == RoundOf[s] IN
    /\ mode \in {"single", "batch"} /\ Visible(r) /\ s \in queued
    /\ Get(r).slots[s].state = "open"
    /\ Run(Save(r, Get(r)))

(* acceptLateFull: the result of a benchmark given up at its deadline; it   *)
(* is past the queue.                                                       *)
Replaceable(s) == measured[s] # None /\ measured[s].expired
LateFull(s, state) ==
    LET r == RoundOf[s]
        res == [state |-> state, expired |-> FALSE, late |-> TRUE, url |-> FALSE]
    IN
    /\ mode = "single" /\ s \notin queued /\ fullReceipt[s] # None
    /\ r \in Full /\ Visible(r) /\ Replaceable(s)
    /\ Run(GetWrites(r) \o <<Put("measurement", s, res)>>
           \o Save(r, [Get(r) EXCEPT !.slots[s] = [state |-> state, late |-> TRUE]]))

(* updateFullReportUrl: the same report again, with the URL of its upload.  *)
AddUrl(s) ==
    LET r == RoundOf[s] IN
    /\ mode = "single" /\ s \notin queued /\ fullReceipt[s] # None
    /\ r \in Full /\ Visible(r) /\ Get(r).slots[s].state # "cancelled"
    /\ measured[s] # None /\ measured[s].state = "partial" /\ ~measured[s].url
    /\ Run(GetWrites(r) \o <<Put("measurement", s, [measured[s] EXCEPT !.url = TRUE])>>)

(* A reader asks for the details of a round: every measurement is read.    *)
Read(r) ==
    /\ mode = "single" /\ Visible(r)
    /\ Run(IF Merged(r) # View(r) THEN Save(r, Merged(r)) ELSE <<Put("trusted", r, TRUE)>>)

(* pending, once per process: a round of the active list is repaired or     *)
(* dropped from the list.                                                   *)
ScanWrites(r) == IF Visible(r) THEN Persist(r, Tidy(Get(r))) ELSE <<Put("active", r, FALSE)>>
Scan(r) ==
    /\ mode = "single" /\ r \in unscanned
    /\ Run(When(r \in active, ScanWrites(r)) \o <<Put("unscanned", r, FALSE)>>)

-----------------------------------------------------------------------------
(* Deleting a full benchmark: intent, rename, index row, receipts, active   *)
(* entry, the renamed directory, and the intent last.  Of the receipts by   *)
(* day one goes: that of the day in full-receipts, else the newest.         *)
Receipts(s) == {d \in Days : <<s, d>> \in receipt}
DayOfOldest(s) == IF Receipts(s) = {} THEN None ELSE Min(Receipts(s))      \* mutant
DayOf(s) == IF fullReceipt[s] # None THEN fullReceipt[s]
            ELSE IF Receipts(s) = {} THEN None ELSE Max(Receipts(s))
Forget(s) ==
    When(DayOf(s) # None, <<Put("receipt", <<s, DayOf(s)>>, FALSE)>>)
    \o <<Put("fullReceipt", s, None)>>
Finalize(r) ==
    <<Put("index", r, None)>>
    \o FlattenSeq([i \in 1..Cardinality(SlotsOf(r)) |-> Forget(SetToSeq(SlotsOf(r))[i])])
    \o Listed(r, FALSE)
    \o <<Put("tomb", r, Rest), Put("tomb", r, None)>>
ResumeStuck(r) ==      \* mutant
    IF tomb[r] \notin {None, Rest} THEN Finalize(r) \o <<Put("intent", r, FALSE)>>
    ELSE IF manifest[r] # None
         THEN <<Put("bury", r, None)>> \o Finalize(r) \o <<Put("intent", r, FALSE)>> ELSE <<>>
Resume(r) ==
    (IF tomb[r] \notin {None, Rest} THEN Finalize(r)
     ELSE IF manifest[r] # None THEN <<Put("bury", r, None)>> \o Finalize(r)
     ELSE <<Put("tomb", r, None)>>)
    \o <<Put("intent", r, FALSE)>>

AllDone(r) == \A s \in SlotsOf(r) : Get(r).slots[s].state # "open"
Deletable(r) == r \in Full /\ AllDone(r) /\ \A s \in SlotsOf(r) : s \notin queued
DeleteFullRound(r) ==
    /\ mode = "single" /\ Visible(r) /\ Deletable(r)
    /\ Run(When(Get(r) # View(r), Save(r, Get(r)))
           \o <<Put("intent", r, TRUE), Put("trusted", r, FALSE)>> \o Resume(r))
(* list, a second delete, or one step of maintenance.                      *)
ResumeFullDeletion(r) == mode = "single" /\ r \in intent /\ Run(Resume(r))

-----------------------------------------------------------------------------
Init ==
    /\ manifest = [r \in Rounds |-> None] /\ tomb = [r \in Rounds |-> None]
    /\ index = [r \in Rounds |-> None] /\ dirty = [r \in Rounds |-> None]
    /\ measured = [s \in Slots |-> None]
    /\ fullReceipt = [s \in Slots |-> None] /\ recordedOn = [s \in Slots |-> None]
    /\ receipt = {} /\ active = {} /\ intent = {} /\ day \in Days
    /\ trusted = {} /\ mode = "single" /\ todo = <<>>
    /\ queued = {} /\ settled = {} /\ planned \in SUBSET Rounds /\ unscanned = planned
    /\ crashes \in 0..MaxCrashes /\ errors \in 0..MaxErrors

Operation ==
    \/ \E r \in Rounds : Create(r) \/ Read(r) \/ Scan(r)
                         \/ DeleteFullRound(r) \/ ResumeFullDeletion(r)
    \/ \E s \in Slots : \/ Queue(s) \/ Progress(s) \/ AddUrl(s)
                        \/ \E state \in Outcomes, expired \in BOOLEAN :
                               Complete(s, Result(state, expired))
                        \/ \E state \in {"ok", "partial", "failed"} : LateFull(s, state)
    \/ OpenBatch \/ CloseBatch \/ Dequeue
Next == Operation \/ NextDay \/ Write \/ WriteFails \/ Crash

(* A running operation ends; the minute tick scans, maintenance resumes     *)
(* deletions, and a worker repeats a result until the job leaves the queue. *)
Fairness ==
    /\ WF_vars(Write) /\ SF_vars(CloseBatch)
    /\ SF_vars(\E r \in Rounds : Scan(r))
    /\ SF_vars(\E r \in Full : ResumeFullDeletion(r))
Spec == Init /\ [][Next]_vars /\ Fairness

-----------------------------------------------------------------------------
TypeOK ==
    /\ \A r \in Rounds :
         /\ manifest[r] = None \/ manifest[r] \in Manifests(r)
         /\ tomb[r] \in {None, Rest} \/ tomb[r] \in Manifests(r)
         /\ dirty[r] = None \/ dirty[r] \in Manifests(r)
    /\ measured \in [Slots -> Measurement \cup {None}]
    /\ \A r \in Rounds : index[r] # None =>
         index[r].counts \in [Outcomes -> 0..Cardinality(SlotsOf(r))]
    /\ receipt \subseteq Slots \X Days /\ fullReceipt \in [Slots -> Days \cup {None}]
    /\ recordedOn \in [Slots -> Days \cup {None}] /\ day \in Days /\ queued \subseteq Slots
    /\ settled \subseteq Slots /\ active \subseteq Rounds /\ intent \subseteq Full
    /\ trusted \subseteq Rounds /\ unscanned \subseteq Rounds /\ planned \subseteq Rounds
    /\ mode \in {"single", "batch", "flush"}
    /\ crashes \in 0..MaxCrashes /\ errors \in 0..MaxErrors

(* A restart looks only at active.json: whatever write was the last, every *)
(* round with an unfinished slot is there, with the jobs of its unfinished *)
(* slots (create, persist and the end of a batch order their writes so).   *)
UnfinishedIsListed ==
    \A r \in Rounds : manifest[r] # None =>
        /\ Terminal(manifest[r]) \/ r \in active
        /\ \A s \in SlotsOf(r) : manifest[r].slots[s].state = "open" => s \in manifest[r].jobs

(* The history lists index rows: a round recovery will not visit again has *)
(* a row that agrees with its manifest.  A late full benchmark is excluded: *)
(* its round left the active list long ago, and a stop between manifest and *)
(* row leaves the old row until the next change.                            *)
SettledIsIndexed ==
    \A r \in Rounds :
        manifest[r] # None /\ r \notin active \cup intent
        /\ (\A s \in SlotsOf(r) : measured[s] = None \/ ~measured[s].late)
            => index[r] = Summary(manifest[r])

(* A worker whose answer was lost posts again.  Once its job left the       *)
(* queue a receipt vouches for the stored result, else the worker would be  *)
(* told that its task is over; a full benchmark needs its lasting receipt.  *)
(* No receipt vouches for a result that is not there, but for those by day  *)
(* that the deletion of a full benchmark may leave.                         *)
AnswerSurvives ==
    \A s \in Slots :
        /\ measured[s] # None /\ measured[s].state # "missing" /\ s \notin queued =>
             /\ Receipts(s) # {}
             /\ RoundOf[s] \in Full => fullReceipt[s] # None
        /\ Receipts(s) # {} /\ RoundOf[s] \notin Full => measured[s] # None
        /\ fullReceipt[s] # None => measured[s] # None \/ RoundOf[s] \in intent

(* A deletion can always go on (the checks of resumeFullDeletion and        *)
(* finalizeDeletedFull never refuse what they find), and when its intent is *)
(* gone it left nothing behind but receipts of days before the last on      *)
(* which the job was recorded: a result that is recorded again on another   *)
(* day has two receipts by day, and only the newer goes.                    *)
DeletionIsWhole ==
    \A r \in Full :
        /\ r \in intent => /\ manifest[r] # None => Terminal(manifest[r])
                           /\ tomb[r] \notin {None, Rest} => Terminal(tomb[r])
        /\ r \notin intent /\ manifest[r] = None =>
             /\ tomb[r] = None /\ index[r] = None
             /\ \A s \in SlotsOf(r) :
                  /\ measured[s] = None /\ fullReceipt[s] = None
                  /\ recordedOn[s] # None => <<s, recordedOn[s]>> \notin receipt

(* What a reader gets: the measurements of the rounds that are not hidden. *)
Ledger == INSTANCE ResultLedger WITH
    result <- [s \in Slots |-> IF RoundOf[s] \in intent THEN None ELSE measured[s]]
ImplementsResultLedger == Ledger!Spec

(* A deletion that was begun is finished, whatever interrupts it.          *)
DeletionEnds == \A r \in Full : r \in intent ~> r \notin intent

(* No measurement stays for ever where no manifest tells of it; only where  *)
(* a write failed, and no restart followed, need nobody look again.         *)
ResultsSurface ==
    []<>(\/ errors > 0
         \/ \A s \in Slots :
              LET m == manifest[RoundOf[s]] IN
              measured[s] # None /\ m # None => m.slots[s].state # "open")
=============================================================================
