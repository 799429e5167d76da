----------------------------- MODULE FullBenchmark -----------------------------
(***************************************************************************)
(* A full benchmark between three processes: the panel that dispatches it    *)
(* and keeps its result (native-controller.js, round-store.js), the agent    *)
(* of a VPS (network-observatory/runner/agent.py) and the privileged helper   *)
(* that runs it for hours (runner/tcpquality_helper.py).                     *)
(*                                                                         *)
(* The agent keeps what it must start and what it must post in files of its  *)
(* outbox; the helper keeps a directory per task.  Either may end between    *)
(* any two steps, a request or its answer may be lost, and the heartbeat is  *)
(* a second thread of the agent that works with what the panel said earlier. *)
(*                                                                         *)
(* Data of a result: "report" and "linked" (the same with the address of its *)
(* public copy), "stopped" (cancelled, failed or interrupted) and            *)
(* "unconnected" (the agent could not reach the helper).                     *)
(***************************************************************************)
EXTENDS Naturals

CONSTANTS
    Jobs,               \* jobs of one VPS, in the order of the queue
    None,
    MaxFaults           \* bound: lost answers, ends of agent and helper

ASSUME FullBenchmarkConstants ==
    /\ Jobs \subseteq Nat /\ MaxFaults \in Nat
    /\ None \notin Nat /\ None \notin {"new", "tried"}

(* Records of the helper's and of the agent's files.                        *)
Measured == {"report", "linked", "stopped"}
Task == [state : {"running", "complete"}, data : Measured \cup {None}, revision : Nat,
         pending : BOOLEAN, acknowledged : BOOLEAN]
Result == [data : Measured \cup {"unconnected"}, revision : Nat \cup {None}]
ASSUME NoneIsNoRecord == None \notin Measured \cup Task \cup Result

VARIABLES
    phase, record,      \* panel: queue phase of a job; its recorded result
    starts,             \* agent, <id>.start.json: None, "new" or "tried"
    outbox,             \* agent, <id>.json: None or data and helperRevision
    orphans,            \* agent, <id>.orphan.json
    allowed,            \* agent, _helper_allowed: None or jobs with a lease
    main,               \* agent: where the main loop is
    beat,               \* agent: what the heartbeat thread was told, or None
    up,                 \* helper: it listens at its socket
    task,               \* helper, <id>/task.json: None or a record
    active, doomed,     \* helper: running threads; those told to cancel
    runs,               \* history: how often the helper ran a job
    faults

panel == <<phase, record>>
files == <<starts, outbox, orphans>>
helper == <<up, task, active, doomed, runs>>
vars == <<panel, files, allowed, main, beat, helper, faults>>

At(label) == main.at = label
Lossy == faults < MaxFaults /\ faults' = faults + 1
Sound == UNCHANGED faults

(* The main loop: flush_helper_starts, collect_helper_results,              *)
(* flush_results, poll; an error in any of them ends the pass.               *)
Begin(next) == [at |-> "begin", next |-> next]
Pass == Begin("collect")
Starts(next, known, left) ==
    IF left # {} THEN [at |-> "starts", next |-> next, known |-> known, left |-> left]
    ELSE IF next = "collect" THEN [at |-> "collect"] ELSE Pass
Results(left) == IF left = {} THEN [at |-> "poll"] ELSE [at |-> "results", left |-> left]
-----------------------------------------------------------------------------
(* The helper's requests.                                                  *)
Complete(j) == task[j] # None /\ task[j].state = "complete"
StartedKnownActive(j) == j \in active      \* mutant
StartedKnown(j) == task[j] # None
Startable(j) == ~StartedKnown(j) /\ active = {}
StartRefused(j) == ~StartedKnown(j) /\ active # {}
NewTask == [state |-> "running", data |-> None, revision |-> 0, pending |-> FALSE, acknowledged |-> FALSE]
HelperStarts(j) ==
    IF Startable(j)
    THEN /\ task' = [task EXCEPT ![j] = NewTask] /\ active' = active \cup {j}
         /\ runs' = [runs EXCEPT ![j] = @ + 1]
         /\ UNCHANGED <<up, doomed>>
    ELSE UNCHANGED helper

AckAcceptedAny(j, revision) == Complete(j)      \* mutant
AckAccepted(j, revision) == Complete(j) /\ task[j].revision = revision
HelperAck(j, revision) ==
    IF up /\ AckAccepted(j, revision)
    THEN task' = [task EXCEPT ![j].acknowledged = TRUE] /\ UNCHANGED <<up, active, doomed, runs>>
    ELSE UNCHANGED helper

(* A measurement ends; its upload may have to be tried again.               *)
Outcome(j, data, pending) ==
    [task[j] EXCEPT !.state = "complete", !.revision = 1, !.data = data, !.pending = pending]
Finish(j) ==
    /\ j \in active
    /\ \/ j \in doomed /\ task' = [task EXCEPT ![j] = Outcome(j, "stopped", FALSE)]
       \/ \E data \in {"report", "linked"} :
              task' = [task EXCEPT ![j] = Outcome(j, data, data = "report")]
    /\ active' = active \ {j} /\ doomed' = doomed \ {j}
    /\ UNCHANGED <<panel, files, allowed, main, beat, up, runs, faults>>

RetryPending(j) ==
    /\ up /\ Complete(j) /\ task[j].pending
    /\ task' = [task EXCEPT ![j].data = "linked", ![j].revision = @ + 1,
                            ![j].pending = FALSE, ![j].acknowledged = FALSE]
    /\ UNCHANGED <<panel, files, allowed, main, beat, up, active, doomed, runs, faults>>

HelperStop ==
    /\ up /\ Lossy
    /\ up' = FALSE /\ active' = {} /\ doomed' = {}
    /\ UNCHANGED <<panel, files, allowed, main, beat, task, runs>>
HelperUp ==
    /\ ~up /\ up' = TRUE
    /\ task' = [j \in Jobs |->
                   IF task[j] # None /\ task[j].state = "running"
                   THEN Outcome(j, "stopped", FALSE) ELSE task[j]]
    /\ UNCHANGED <<panel, files, allowed, main, beat, active, doomed, runs, faults>>
-----------------------------------------------------------------------------
(* The panel's answer to a posted result.                                   *)
Owned(j) == phase[j] = "running"
Late(j) == phase[j] = "gone" /\ record[j] = "expired"
Linkable(j, data) == phase[j] = "gone" /\ data = "linked" /\ record[j] = "report"
Replayed(j, data) ==
    /\ phase[j] = "gone" /\ record[j] \notin {None, "expired"}
    /\ data = "linked" => record[j] = "linked"
Accepted(j, data) == Owned(j) \/ Late(j) \/ Linkable(j, data) \/ Replayed(j, data)
PanelResult(j, data) ==
    /\ phase' = IF Owned(j) THEN [phase EXCEPT ![j] = "gone"] ELSE phase
    /\ record' = IF Owned(j) \/ Late(j) \/ Linkable(j, data)
                 THEN [record EXCEPT ![j] = data] ELSE record

Ended(j, result) ==
    /\ phase' = [phase EXCEPT ![j] = "gone"] /\ record' = [record EXCEPT ![j] = result]
    /\ UNCHANGED <<files, allowed, main, beat, helper, faults>>
Expire(j) == phase[j] = "running" /\ Ended(j, "expired")
Cancel(j) == phase[j] # "gone" /\ Ended(j, "cancelled")
-----------------------------------------------------------------------------
(* flush_helper_starts.                                                    *)
BeginStarts ==
    /\ At("begin")
    /\ main' = Starts(main.next, allowed,
                      IF allowed = None THEN {} ELSE {j \in Jobs : starts[j] # None})
    /\ UNCHANGED <<panel, files, allowed, beat, helper, faults>>

SavedAlready(j) == outbox[j] # None
StartStep(j) ==
    /\ At("starts") /\ j \in main.left
    /\ LET rest == Starts(main.next, main.known, main.left \ {j}) IN
       IF SavedAlready(j)
       THEN starts' = [starts EXCEPT ![j] = None] /\ main' = rest
       ELSE IF j \notin main.known
            THEN UNCHANGED starts /\ main' = rest
            ELSE /\ starts' = [starts EXCEPT ![j] = "tried"]
                 /\ main' = [at |-> "start", job |-> j, first |-> starts[j] = "new", rest |-> rest]
    /\ UNCHANGED <<panel, outbox, orphans, allowed, beat, helper, faults>>

(* The request of a start: answered, refused while another task runs,       *)
(* without an answer, or without a helper.                                   *)
Started == [at |-> "started", job |-> main.job, rest |-> main.rest]
AskStart ==
    /\ At("start") /\ up
    /\ HelperStarts(main.job)
    /\ \/ Sound /\ main' = IF StartRefused(main.job) THEN Pass ELSE Started
       \/ Lossy /\ main' = Pass
    /\ UNCHANGED <<panel, files, allowed, beat>>
FirstTryAlways == TRUE      \* mutant
FirstTry == main.first
NoHelper ==
    /\ At("start") /\ ~up
    /\ IF FirstTry
       THEN outbox' = [outbox EXCEPT ![main.job] = [data |-> "unconnected", revision |-> None]]
            /\ main' = Started
       ELSE main' = Pass /\ UNCHANGED outbox
    /\ UNCHANGED <<panel, starts, orphans, allowed, beat, helper, faults>>
RemoveStart ==
    /\ At("started") /\ starts' = [starts EXCEPT ![main.job] = None] /\ main' = main.rest
    /\ UNCHANGED <<panel, outbox, orphans, allowed, beat, helper, faults>>

-----------------------------------------------------------------------------
(* collect_helper_results and flush_results.                               *)
Collectible(j) ==
    up /\ Complete(j) /\ ~task[j].acknowledged /\ j \notin orphans /\ outbox[j] = None
Collect ==
    /\ At("collect")
    /\ outbox' = [j \in Jobs |->
                     IF Collectible(j) THEN [data |-> task[j].data, revision |-> task[j].revision]
                     ELSE outbox[j]]
    /\ main' = Results({j \in Jobs : outbox'[j] # None})
    /\ UNCHANGED <<panel, starts, orphans, allowed, beat, helper, faults>>

(* A posted result: it may not arrive, and its answer may not come back.     *)
Post(j) ==
    /\ At("results") /\ j \in main.left
    /\ \/ /\ Lossy /\ main' = Pass
          /\ UNCHANGED panel \/ PanelResult(j, outbox[j].data)
       \/ /\ Sound /\ PanelResult(j, outbox[j].data)
          /\ main' = [at |-> IF Accepted(j, outbox[j].data) THEN "accepted" ELSE "refused",
                      job |-> j, revision |-> outbox[j].revision, rest |-> Results(main.left \ {j})]
    /\ UNCHANGED <<files, allowed, beat, helper>>
RemoveResult ==
    /\ At("accepted") /\ outbox' = [outbox EXCEPT ![main.job] = None]
    /\ main' = [main EXCEPT !.at = "ack"]
    /\ UNCHANGED <<panel, starts, orphans, allowed, beat, helper, faults>>
RetainedNot == outbox' = [outbox EXCEPT ![main.job] = None] /\ UNCHANGED orphans      \* mutant
Retained == outbox' = [outbox EXCEPT ![main.job] = None] /\ orphans' = orphans \cup {main.job}
RetainOrphan ==
    /\ At("refused") /\ Retained /\ main' = main.rest
    /\ UNCHANGED <<panel, starts, allowed, beat, helper, faults>>
Acknowledge ==
    /\ At("ack") /\ HelperAck(main.job, main.revision) /\ main' = main.rest
    /\ UNCHANGED <<panel, files, allowed, beat, faults>>

(* poll: the panel leases one benchmark at a time.                          *)
Queued == {j \in Jobs : phase[j] = "queued"}
Dispatchable == IF \E j \in Jobs : phase[j] = "running" THEN {} ELSE Queued
Poll ==
    /\ At("poll")
    /\ \/ Dispatchable = {} /\ main' = Pass /\ Sound /\ UNCHANGED phase
       \/ \E j \in Dispatchable :
              /\ \A i \in Dispatchable : j <= i
              /\ phase' = [phase EXCEPT ![j] = "running"]
              /\ \/ Sound /\ main' = [at |-> "claimed", job |-> j]
                 \/ Lossy /\ main' = Pass
    /\ UNCHANGED <<record, files, allowed, beat, helper>>
Claim ==
    /\ At("claimed")
    /\ starts' = [starts EXCEPT ![main.job] = "new"]
    /\ allowed' = IF allowed = None THEN {main.job} ELSE allowed \cup {main.job}
    /\ main' = Begin("continue")
    /\ UNCHANGED <<panel, outbox, orphans, beat, helper, faults>>

MainStep ==
    \/ BeginStarts \/ AskStart \/ NoHelper \/ RemoveStart
    \/ Collect \/ RemoveResult \/ RetainOrphan \/ Acknowledge
    \/ Poll \/ Claim
    \/ \E j \in Jobs : StartStep(j) \/ Post(j)
-----------------------------------------------------------------------------
(* The heartbeat thread: it asks the helper and the panel, then acts on      *)
(* both answers, however old they are.                                       *)
Beat ==
    /\ beat = None
    /\ beat' = [allowed |-> {j \in Jobs : phase[j] = "running"},
                running |-> IF up THEN {j \in Jobs : task[j] # None /\ task[j].state = "running"} ELSE {}]
    /\ UNCHANGED <<panel, files, allowed, main, helper, faults>>
Reconcile ==
    /\ beat # None /\ beat' = None
    /\ allowed' = beat.allowed
    /\ doomed' = doomed \cup ((beat.running \ beat.allowed) \cap active)
    /\ UNCHANGED <<panel, files, main, up, task, active, runs, faults>>

AgentRestart ==
    /\ Lossy /\ allowed' = None /\ beat' = None /\ main' = Pass
    /\ UNCHANGED <<panel, files, helper>>

(* Any of the jobs may be cancelled before, any of the faults be spent.      *)
Init ==
    /\ phase \in [Jobs -> {"queued", "gone"}]
    /\ record = [j \in Jobs |-> IF phase[j] = "gone" THEN "cancelled" ELSE None]
    /\ starts = [j \in Jobs |-> None] /\ outbox = [j \in Jobs |-> None] /\ orphans = {}
    /\ allowed = None /\ main = Pass /\ beat = None
    /\ up = TRUE /\ task = [j \in Jobs |-> None] /\ active = {} /\ doomed = {}
    /\ runs = [j \in Jobs |-> 0] /\ faults \in 0..MaxFaults

Next ==
    \/ MainStep \/ Beat \/ Reconcile \/ AgentRestart
    \/ HelperStop \/ HelperUp
    \/ \E j \in Jobs : Finish(j) \/ RetryPending(j) \/ Expire(j) \/ Cancel(j)

(* The threads of the agent go on, the helper is started again by its        *)
(* service manager and a measurement ends at its own timeout.  An upload of   *)
(* the helper may fail for ever, and nobody has to cancel.                    *)
Fairness ==
    /\ WF_vars(MainStep) /\ WF_vars(Beat \/ Reconcile) /\ WF_vars(HelperUp)
    /\ WF_vars(\E j \in Jobs : Finish(j))
Spec == Init /\ [][Next]_vars /\ Fairness
-----------------------------------------------------------------------------
(* "Retries remain idempotent": through lost answers and restarts of either   *)
(* side, the helper runs a benchmark of hours at most once.                   *)
StartedOnce == \A j \in Jobs : runs[j] <= 1

(* "Never report failure while the real measurement might be running": a      *)
(* failure waits in the outbox only for a benchmark that the helper has not   *)
(* seen, whatever answer was lost and whoever restarted before.               *)
FailureIsTrue ==
    \A j \in Jobs : outbox[j] # None /\ outbox[j].data = "unconnected" => task[j] = None

(* "Complete copies are now durable on the panel": the helper gives up its   *)
(* copies of a report only when the panel has the report in its last          *)
(* revision; a job that was cancelled, or given up as unreachable, keeps      *)
(* that result.                                                              *)
ReportKept ==
    \A j \in Jobs : Complete(j) /\ task[j].acknowledged =>
        record[j] \in {task[j].data, "cancelled", "unconnected"}

(* Every finished benchmark is acknowledged in the end or kept as an orphan:  *)
(* no result stays between the helper, the outbox and the panel.              *)
ReportsSettle ==
    \A j \in Jobs : []<>(Complete(j) => task[j].acknowledged \/ j \in orphans)

(* "Never start it after that result has been saved": a benchmark that was    *)
(* recorded as failed because the helper was not there never runs.            *)
FailedNeverRuns == \A j \in Jobs : record[j] = "unconnected" => task[j] = None
=============================================================================
