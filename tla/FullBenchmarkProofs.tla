-------------------------- MODULE FullBenchmarkProofs --------------------------
(***************************************************************************)
(* Theorems about FullBenchmark for any jobs of a VPS and any number of      *)
(* faults: a benchmark runs at most once, a failure in the outbox is true,   *)
(* and the helper gives up its copies only of what the panel has.            *)
(***************************************************************************)
EXTENDS FullBenchmark, TLAPS

Types ==
    /\ phase \in [Jobs -> {"queued", "running", "gone"}]
    /\ record \in [Jobs -> Measured \cup {"unconnected", "expired", "cancelled", None}]
    /\ starts \in [Jobs -> {None, "new", "tried"}]
    /\ outbox \in [Jobs -> {None} \cup Result]
    /\ task \in [Jobs -> {None} \cup Task]
    /\ active \in SUBSET Jobs
    /\ runs \in [Jobs -> Nat]

(* Where the main loop is, and what it will go on with.                     *)
Working == At("start") \/ At("started")
Settling == At("accepted") \/ At("refused") \/ At("ack")
Place ==
    /\ Working \/ Settling \/ At("claimed") => main.job \in Jobs
    /\ Working => main.rest.at \in {"begin", "starts", "collect"}
    /\ Settling => main.rest.at \in {"results", "poll"}

(* A job that the panel has not dispatched is nowhere else.                 *)
Waiting ==
    /\ \A j \in Jobs : phase[j] = "queued" => starts[j] = None /\ task[j] = None
    /\ At("claimed") => phase[main.job] # "queued" /\ task[main.job] = None
    /\ Working => phase[main.job] # "queued"
    /\ At("starts") => \A j \in main.left : phase[j] # "queued"
    /\ Working /\ main.rest.at = "starts" => \A j \in main.rest.left : phase[j] # "queued"

(* What was not tried before is unknown to the helper.                      *)
Untried ==
    /\ \A j \in Jobs : starts[j] = "new" => task[j] = None
    /\ At("start") =>
        /\ starts[main.job] = "tried" /\ outbox[main.job] = None
        /\ main.first => task[main.job] = None

Ran == \A j \in Jobs : runs[j] <= 1 /\ (task[j] = None => runs[j] = 0)

(* The helper's directories.                                                *)
Tasks ==
    /\ ~up => active = {}
    /\ \A j \in active : task[j] # None /\ task[j].state = "running"
    /\ \A j \in Jobs : task[j] # None =>
        /\ task[j].state = "running" => ~task[j].pending /\ ~task[j].acknowledged
        /\ task[j].state = "complete" => task[j].data \in Measured
        /\ task[j].pending => task[j].data = "report"

(* A result to post comes from the helper, if not from its absence.          *)
From(j, data) ==
    Complete(j) /\ (task[j].data = data \/ (data = "report" /\ task[j].data = "linked"))
Fresh(j, data, revision) ==
    /\ revision \in Nat /\ revision <= task[j].revision
    /\ revision = task[j].revision => data = task[j].data
Came ==
    /\ \A j \in Jobs : outbox[j] # None =>
        IF outbox[j].data = "unconnected" THEN task[j] = None /\ outbox[j].revision = None
        ELSE From(j, outbox[j].data) /\ Fresh(j, outbox[j].data, outbox[j].revision)
    /\ At("results") => \A j \in main.left : outbox[j] # None
    /\ Settling /\ main.rest.at = "results" => \A j \in main.rest.left : j # main.job /\ outbox[j] # None

(* A recorded report comes from the helper.                                 *)
Recorded == \A j \in Jobs : record[j] \in Measured => From(j, record[j])

(* What was accepted is recorded, and only that is acknowledged.             *)
Has(j) == phase[j] = "gone" /\ record[j] \in {task[j].data, "cancelled", "unconnected"}
Settled ==
    /\ At("accepted") \/ At("ack") =>
        /\ phase[main.job] = "gone"
        /\ main.revision \in Nat =>
            /\ Complete(main.job) /\ main.revision <= task[main.job].revision
            /\ main.revision = task[main.job].revision => Has(main.job)
        /\ main.revision \in Nat \cup {None}
    /\ \A j \in Jobs : Complete(j) /\ task[j].acknowledged => Has(j)

IInv == Types /\ Place /\ Waiting /\ Untried /\ Ran /\ Tasks /\ Came /\ Recorded /\ Settled

(* The helper starts a job that it does not know, or does nothing. *)
LEMMA AskStartKeeps ==
    ASSUME IInv, AskStart
    PROVE  IInv'
  <1> USE FullBenchmarkConstants, NoneIsNoRecord
          DEF IInv, panel, files, helper, At, Sound, Lossy, Pass, Begin
  <1> DEFINE j == main.job
  <1>1. /\ j \in Jobs /\ phase[j] # "queued" /\ outbox[j] = None
        /\ starts[j] = "tried" /\ up
        /\ main.rest.at \in {"begin", "starts", "collect"}
        /\ main.rest.at = "starts" => \A i \in main.rest.left : phase[i] # "queued"
    BY DEF AskStart, Place, Waiting, Untried, Working
  <1>2. /\ main' = Started \/ main' = Pass
        /\ UNCHANGED <<phase, record, starts, outbox, orphans, up>>
    BY DEF AskStart, HelperStarts
  <1>3. /\ main'.at = "started" \/ main'.at = "begin"
        /\ main'.at = "started" => main'.job = j /\ main'.rest = main.rest
    BY <1>2 DEF Started
  <1>4. Place' /\ (Settling' <=> FALSE) /\ (At("start")' <=> FALSE)
    BY <1>1, <1>3 DEF Place, Working, Settling
  <1>5. CASE ~Startable(j)
    <2>1. UNCHANGED <<task, active, runs>>
      BY <1>5 DEF AskStart, HelperStarts
    <2>2. Types'
      BY <1>2, <2>1 DEF Types
    <2>3. Waiting'
      BY <1>1, <1>2, <1>3, <2>1 DEF Waiting, Working
    <2>4. Untried' /\ Ran' /\ Tasks' /\ Recorded'
      BY <1>2, <1>4, <2>1 DEF Untried, Ran, Tasks, Recorded, From, Complete
    <2>5. Came' /\ Settled'
      BY <1>2, <1>3, <1>4, <2>1 DEF Came, From, Fresh, Complete, Settled, Has, Settling
    <2> QED
      BY <1>4, <2>2, <2>3, <2>4, <2>5
  <1>6. CASE Startable(j)
    <2>1. /\ task' = [task EXCEPT ![j] = NewTask] /\ active' = active \cup {j}
          /\ runs' = [runs EXCEPT ![j] = @ + 1] /\ task[j] = None
      BY <1>6 DEF AskStart, HelperStarts, Startable, StartedKnown
    <2>2. NewTask \in Task /\ NewTask # None
      <3>1. NewTask \in Task
        BY DEF NewTask, Task
      <3> QED
        BY <3>1
    <2>3. /\ NewTask.state = "running" /\ ~NewTask.pending /\ ~NewTask.acknowledged
      BY DEF NewTask
    <2>4. Types'
      <3>1. task' \in [Jobs -> {None} \cup Task]
        BY <1>1, <2>1, <2>2 DEF Types
      <3>2. active' \in SUBSET Jobs
        BY <1>1, <2>1 DEF Types
      <3>3. runs \in [Jobs -> Nat] /\ runs[j] \in Nat
        BY <1>1 DEF Types
      <3>4. runs' \in [Jobs -> Nat]
        BY <1>1, <2>1, <3>3
      <3> QED
        BY <1>2, <3>1, <3>2, <3>4 DEF Types
    <2>5. task'[j] = NewTask /\ \A i \in Jobs \ {j} : task'[i] = task[i]
      BY <1>1, <2>1 DEF Types
    <2>6. runs'[j] = 1 /\ \A i \in Jobs \ {j} : runs'[i] = runs[i]
      <3>1. runs \in [Jobs -> Nat] /\ runs[j] = 0
        BY <1>1, <2>1 DEF Types, Ran
      <3> QED
        BY <1>1, <2>1, <3>1
    <2> HIDE DEF j
    <2>7. Waiting'
      BY <1>1, <1>2, <1>3, <2>5 DEF Waiting, Working, j
    <2>8. Untried' /\ Ran'
      BY <1>1, <1>2, <1>4, <2>2, <2>5, <2>6 DEF Untried, Ran
    <2>9. Tasks'
      BY <1>1, <1>2, <2>1, <2>2, <2>3, <2>5 DEF Tasks
    <2>10. \A i \in Jobs : Complete(i)' => i # j /\ Complete(i) /\ task'[i] = task[i]
      BY <2>3, <2>5 DEF Complete
    <2>11. \A i \in Jobs : Complete(i) => i # j /\ Complete(i)' /\ task'[i] = task[i]
      BY <2>1, <2>5 DEF Complete
    <2>12. Recorded'
      BY <1>2, <2>11 DEF Recorded, From
    <2>13. Came'
      BY <1>1, <1>2, <1>3, <1>4, <2>5, <2>11 DEF Came, From, Fresh
    <2>14. Settled'
      BY <1>2, <1>3, <2>10 DEF Settled, Has
    <2> QED
      BY <1>4, <2>4, <2>7, <2>8, <2>9, <2>12, <2>13, <2>14
  <1> QED
    BY <1>5, <1>6

(* What the helper offers goes into empty places of the outbox. *)
LEMMA CollectKeeps ==
    ASSUME IInv, Collect
    PROVE  IInv'
  <1> USE FullBenchmarkConstants, NoneIsNoRecord
          DEF IInv, panel, files, helper, At, Sound, Lossy, Pass, Begin
  <1> DEFINE Got(j) == [data |-> task[j].data, revision |-> task[j].revision]
  <1>1. \A j \in Jobs : Collectible(j) =>
          /\ outbox[j] = None /\ Complete(j) /\ task[j] \in Task /\ task[j].data \in Measured
          /\ Got(j) \in Result
    <2>1. SUFFICES ASSUME NEW j \in Jobs, Collectible(j)
                   PROVE  /\ outbox[j] = None /\ Complete(j) /\ task[j] \in Task
                          /\ task[j].data \in Measured /\ Got(j) \in Result
      OBVIOUS
    <2>2. outbox[j] = None /\ Complete(j) /\ task[j] # None /\ task[j].data \in Measured
      BY <2>1 DEF Collectible, Complete, Tasks
    <2>3. task[j] \in Task
      BY <2>2 DEF Types
    <2>4. Got(j) \in Result
      BY <2>2, <2>3 DEF Task, Result
    <2> QED
      BY <2>2, <2>3, <2>4
  <1>2. /\ outbox' = [j \in Jobs |-> IF Collectible(j) THEN Got(j) ELSE outbox[j]]
        /\ main' = Results({j \in Jobs : outbox'[j] # None})
        /\ UNCHANGED <<phase, record, starts, orphans, up, task, active, doomed, runs>>
    BY DEF Collect
  <1> HIDE DEF Got
  <1>3. \A j \in Jobs : outbox'[j] = IF Collectible(j) THEN Got(j) ELSE outbox[j]
    BY <1>2
  <1>4. \/ main'.at = "poll"
        \/ main'.at = "results" /\ main'.left = {j \in Jobs : outbox'[j] # None}
    BY <1>2 DEF Results
  <1>5. Types'
    <2>1. outbox' \in [Jobs -> {None} \cup Result]
      BY <1>1, <1>2 DEF Types
    <2> QED
      BY <1>2, <2>1 DEF Types
  <1>6. Place' /\ Waiting' /\ Untried' /\ Settled'
    BY <1>2, <1>4 DEF Place, Waiting, Untried, Settled, Working, Settling, Has, Complete
  <1>7. Ran' /\ Tasks' /\ Recorded'
    BY <1>2 DEF Ran, Tasks, Recorded, From, Complete
  <1>8. Came'
    <2>1. \A j \in Jobs : Collectible(j) =>
            /\ Got(j).data \in Measured /\ Got(j).data = task[j].data
            /\ Got(j).revision = task[j].revision /\ task[j].revision \in Nat
      BY <1>1 DEF Got, Task
    <2>2. ASSUME NEW j \in Jobs, Collectible(j)
          PROVE  /\ outbox'[j] # None /\ outbox'[j].data # "unconnected"
                 /\ From(j, outbox'[j].data) /\ Fresh(j, outbox'[j].data,
                     outbox'[j].revision)
      <3>1. outbox'[j] = Got(j) /\ Complete(j) /\ Got(j) # None
        BY <1>1, <1>3, <2>2
      <3>2. /\ Got(j).data \in Measured /\ Got(j).data = task[j].data
            /\ Got(j).revision = task[j].revision /\ task[j].revision \in Nat
        BY <2>1, <2>2
      <3>3. Fresh(j, Got(j).data, Got(j).revision)
        BY <3>2 DEF Fresh
      <3>4. Got(j).data # "unconnected"
        BY <3>2 DEF Measured
      <3> QED
        BY <3>1, <3>2, <3>3, <3>4 DEF From
    <2>3. ASSUME NEW j \in Jobs, ~Collectible(j)
          PROVE  outbox'[j] = outbox[j]
      BY <1>3, <2>3
    <2> QED
      BY <1>2, <1>4, <2>2, <2>3 DEF Came, From, Fresh, Complete, Settling
  <1> QED
    BY <1>5, <1>6, <1>7, <1>8

(* The helper takes an acknowledgement of the revision it has. *)
LEMMA AcknowledgeKeeps ==
    ASSUME IInv, Acknowledge
    PROVE  IInv'
  <1> USE FullBenchmarkConstants, NoneIsNoRecord
          DEF IInv, panel, files, helper, At, Sound, Lossy, Pass, Begin
  <1> DEFINE j == main.job
  <1>1. /\ j \in Jobs /\ phase[j] = "gone" /\ main.rest.at \in {"results", "poll"}
        /\ main.rest.at = "results" => \A i \in main.rest.left : i # j /\ outbox[i] # None
    BY DEF Acknowledge, Place, Settled, Came, Settling
  <1>2. /\ main' = main.rest
        /\ UNCHANGED <<phase, record, starts, outbox, orphans, up, active, runs>>
    BY DEF Acknowledge, HelperAck
  <1>3. CASE ~(up /\ AckAccepted(j, main.revision))
    <2>1. UNCHANGED task
      BY <1>3 DEF Acknowledge, HelperAck
    <2> QED
      BY <1>1, <1>2, <2>1 DEF Types, Place, Waiting, Untried, Ran, Tasks, Came, Recorded,
          Settled,
          Working, Settling, From, Fresh, Complete, Has
  <1>4. CASE up /\ AckAccepted(j, main.revision)
    <2> DEFINE kept == [task[j] EXCEPT !.acknowledged = TRUE]
    <2>1. task' = [task EXCEPT ![j] = kept] /\ Complete(j) /\ main.revision = task[j].revision
      BY <1>4 DEF Acknowledge, HelperAck, AckAccepted
    <2>2. task[j] # None /\ task[j] \in Task /\ task[j].state = "complete"
      BY <1>1, <2>1 DEF Types, Complete
    <2>3. /\ kept \in Task /\ kept.state = "complete" /\ kept.data = task[j].data
          /\ kept.revision = task[j].revision /\ kept.pending = task[j].pending
      BY <2>2 DEF Task
    <2>4. kept # None
      BY <2>3
    <2> HIDE DEF kept
    <2>5. Types'
      <3>1. task' \in [Jobs -> {None} \cup Task]
        BY <1>1, <2>1, <2>3 DEF Types
      <3> QED
        BY <1>2, <3>1 DEF Types
    <2>6. task'[j] = kept /\ \A i \in Jobs \ {j} : task'[i] = task[i]
      BY <1>1, <2>1 DEF Types
    <2>7. Has(j)
      <3>1. main.revision \in Nat
        BY <2>1, <2>2 DEF Task
      <3> QED
        BY <2>1, <3>1 DEF Settled, Acknowledge
    <2> HIDE DEF j
    <2>8. \A i \in Jobs :
            /\ task'[i] = None <=> task[i] = None
            /\ task[i] # None => /\ task'[i].state = task[i].state
                                 /\ task'[i].data = task[i].data
                                 /\ task'[i].revision = task[i].revision
                                 /\ task'[i].pending = task[i].pending
      BY <2>2, <2>3, <2>4, <2>6
    <2>9. Place' /\ Waiting' /\ Untried' /\ Ran'
      BY <1>1, <1>2, <2>8 DEF Place, Waiting, Untried, Ran, Working, Settling
    <2>10. Tasks'
      <3>1. \A i \in active' : task'[i] # None /\ task'[i].state = "running"
        BY <1>2, <2>8 DEF Tasks, Types
      <3>2. \A i \in Jobs : task'[i] # None =>
              /\ task'[i].state = "running" => ~task'[i].pending /\ ~task'[i].acknowledged
              /\ task'[i].state = "complete" => task'[i].data \in Measured
              /\ task'[i].pending => task'[i].data = "report"
        BY <2>2, <2>3, <2>6, <2>8 DEF Tasks
      <3> QED
        BY <1>2, <3>1, <3>2 DEF Tasks
    <2>11. \A i \in Jobs : Complete(i)' <=> Complete(i)
      BY <2>8 DEF Complete
    <2>12. Came' /\ Recorded'
      BY <1>1, <1>2, <2>8, <2>11 DEF Came, Recorded, From, Fresh, Settling, Complete, j
    <2>13. Settled'
      BY <1>1, <1>2, <2>6, <2>7, <2>8, <2>11 DEF Settled, Has, Complete
    <2> QED
      BY <2>5, <2>9, <2>10, <2>12, <2>13
  <1> QED
    BY <1>3, <1>4

(* Measurements may end, with a result, and leave the threads of the helper. *)
LEMMA EndingKeeps ==
    ASSUME IInv,
           UNCHANGED <<phase, record, starts, outbox, orphans, main, runs>>,
           task' \in [Jobs -> {None} \cup Task],
           active' \in SUBSET active, ~up' => active' = {},
           \A i \in Jobs : \/ task'[i] = task[i]
                           \/ /\ task[i] # None /\ task[i].state = "running" /\ i \notin active'
                              /\ task'[i] # None /\ task'[i].state = "complete"
                              /\ task'[i].data \in Measured /\ ~task'[i].acknowledged
                              /\ task'[i].pending => task'[i].data = "report"
    PROVE  IInv'
  <1> USE FullBenchmarkConstants, NoneIsNoRecord DEF IInv, At
  <1>1. Types'
    BY DEF Types
  <1>2. \A i \in Jobs : Complete(i) => task'[i] = task[i]
    BY DEF Complete
  <1>3. \A i \in Jobs : task'[i] = None <=> task[i] = None
    OBVIOUS
  <1>4. Place' /\ Waiting' /\ Untried' /\ Ran'
    BY <1>3 DEF Place, Waiting, Untried, Ran, Working, Settling
  <1>5. Tasks'
    <2>1. \A i \in active' : task'[i] # None /\ task'[i].state = "running"
      BY DEF Tasks, Types
    <2>2. \A i \in Jobs : task'[i] # None =>
            /\ task'[i].state = "running" => ~task'[i].pending /\ ~task'[i].acknowledged
            /\ task'[i].state = "complete" => task'[i].data \in Measured
            /\ task'[i].pending => task'[i].data = "report"
      BY DEF Tasks
    <2> QED
      BY <2>1, <2>2 DEF Tasks
  <1>6. Came' /\ Recorded'
    BY <1>2, <1>3 DEF Came, Recorded, From, Fresh, Complete, Settling
  <1>7. Settled'
    <2>1. \A i \in Jobs : Complete(i)' /\ task'[i].acknowledged => task'[i] = task[i]
      BY DEF Complete
    <2>2. \A i \in Jobs : task'[i] = task[i] => (Complete(i)' <=> Complete(i)) /\ (Has(i)' <=> Has(i))
      BY DEF Complete, Has
    <2>3. Settling => main.job \in Jobs
      BY DEF Place
    <2> QED
      BY <1>2, <2>1, <2>2, <2>3 DEF Settled, Settling
  <1> QED
    BY <1>1, <1>4, <1>5, <1>6, <1>7

(* The record of an ended measurement. *)
LEMMA OutcomeIsComplete ==
    ASSUME IInv, NEW j \in Jobs, NEW data \in Measured, NEW pending \in BOOLEAN,
           task[j] # None, task[j].state = "running"
    PROVE  /\ Outcome(j, data, pending) \in Task
           /\ Outcome(j, data, pending).state = "complete"
           /\ Outcome(j, data, pending).data = data
           /\ Outcome(j, data, pending).pending = pending
           /\ ~Outcome(j, data, pending).acknowledged
  <1>1. task[j] \in Task /\ ~task[j].acknowledged
    BY DEF IInv, Types, Tasks
  <1> QED
    BY <1>1 DEF Outcome, Task

(* A measurement ends. *)
LEMMA FinishKeeps ==
    ASSUME IInv, NEW j \in Jobs, Finish(j)
    PROVE  IInv'
  <1> USE FullBenchmarkConstants, NoneIsNoRecord DEF IInv
  <1>1. j \in active /\ up /\ task[j] # None /\ task[j].state = "running"
    BY DEF Finish, Tasks
  <1>2. PICK data \in Measured, pending \in BOOLEAN :
          /\ task' = [task EXCEPT ![j] = Outcome(j, data, pending)]
          /\ pending => data = "report"
    BY DEF Finish, Measured
  <1> DEFINE out == Outcome(j, data, pending)
  <1>3. /\ out \in Task /\ out.state = "complete" /\ out.data = data
        /\ out.pending = pending /\ ~out.acknowledged
    BY <1>1, OutcomeIsComplete
  <1> HIDE DEF out
  <1>4. task' = [task EXCEPT ![j] = out]
    BY <1>2 DEF out
  <1>5. task' \in [Jobs -> {None} \cup Task]
    BY <1>3, <1>4 DEF Types
  <1>6. task'[j] = out /\ \A i \in Jobs \ {j} : task'[i] = task[i]
    BY <1>4 DEF Types
  <1>7. /\ UNCHANGED <<phase, record, starts, outbox, orphans, main, runs, up>>
        /\ active' = active \ {j}
    BY DEF Finish, panel, files
  <1>8. out # None
    BY <1>3
  <1> QED
    BY <1>1, <1>2, <1>3, <1>5, <1>6, <1>7, <1>8, EndingKeeps

(* The helper writes off what it was measuring. *)
LEMMA HelperUpKeeps ==
    ASSUME IInv, HelperUp
    PROVE  IInv'
  <1> USE FullBenchmarkConstants, NoneIsNoRecord DEF IInv
  <1> DEFINE Cut(i) == task[i] # None /\ task[i].state = "running"
             Stopped(i) == Outcome(i, "stopped", FALSE)
  <1>1. /\ active = {}
        /\ UNCHANGED <<phase, record, starts, outbox, orphans, main, runs, active>>
        /\ up'
        /\ task' = [i \in Jobs |-> IF Cut(i) THEN Stopped(i) ELSE task[i]]
    BY DEF HelperUp, panel, files, Tasks
  <1>2. \A i \in Jobs : Cut(i) =>
          /\ Stopped(i) \in Task /\ Stopped(i).state = "complete"
          /\ Stopped(i).data = "stopped" /\ ~Stopped(i).pending /\ ~Stopped(i).acknowledged
    BY OutcomeIsComplete DEF Measured
  <1> HIDE DEF Stopped
  <1>3. \A i \in Jobs : task'[i] = IF Cut(i) THEN Stopped(i) ELSE task[i]
    BY <1>1
  <1>4. task' \in [Jobs -> {None} \cup Task]
    BY <1>1, <1>2 DEF Types
  <1>5. \A i \in Jobs : Cut(i) => Stopped(i) # None /\ Stopped(i).data \in Measured
    BY <1>2 DEF Measured
  <1> QED
    BY <1>1, <1>2, <1>3, <1>4, <1>5, EndingKeeps

(* The main loop looks for start files. *)
LEMMA BeginStartsKeeps ==
    ASSUME IInv, BeginStarts
    PROVE  IInv'
  <1> USE FullBenchmarkConstants, NoneIsNoRecord
          DEF IInv, panel, files, helper, At, Sound, Lossy, Pass, Begin
  <1>1. Types'
    BY DEF BeginStarts, Starts, Types, Result, Measured
  <1>2. Place' /\ Waiting' /\ Untried'
    BY DEF BeginStarts, Starts, Place, Waiting, Untried, Types, Working, Settling
  <1>3. Ran' /\ Tasks'
    BY DEF BeginStarts, Starts, Ran, Tasks
  <1>4. Came'
    BY DEF BeginStarts, Starts, Came, From, Fresh, Complete, Types, Place, Working,
        Settling, Untried
  <1>5. Recorded' /\ Settled'
    BY DEF BeginStarts, Starts, Recorded, Settled, From, Complete, Has, Types, Came,
        Measured, Settling, Place, Working
  <1> QED
    BY <1>1, <1>2, <1>3, <1>4, <1>5

(* A failure is saved on the first try only. *)
LEMMA NoHelperKeeps ==
    ASSUME IInv, NoHelper
    PROVE  IInv'
  <1> USE FullBenchmarkConstants, NoneIsNoRecord
          DEF IInv, panel, files, helper, At, Sound, Lossy, Pass, Begin
  <1>1. Types'
    BY DEF NoHelper, FirstTry, Started, Types, Result, Measured
  <1>2. Place' /\ Waiting' /\ Untried'
    BY DEF NoHelper, FirstTry, Started, Place, Waiting, Untried, Types, Working, Settling
  <1>3. Ran' /\ Tasks'
    BY DEF NoHelper, FirstTry, Started, Ran, Tasks
  <1>4. Came'
    BY DEF NoHelper, FirstTry, Started, Came, From, Fresh, Complete, Types, Place, Working,
        Settling, Untried
  <1>5. Recorded' /\ Settled'
    BY DEF NoHelper, FirstTry, Started, Recorded, Settled, From, Complete, Has, Types,
        Came, Measured, Settling, Place, Working
  <1> QED
    BY <1>1, <1>2, <1>3, <1>4, <1>5

(* The start file goes. *)
LEMMA RemoveStartKeeps ==
    ASSUME IInv, RemoveStart
    PROVE  IInv'
  <1> USE FullBenchmarkConstants, NoneIsNoRecord
          DEF IInv, panel, files, helper, At, Sound, Lossy, Pass, Begin
  <1>1. Types'
    BY DEF RemoveStart, Types, Result, Measured
  <1>2. Place' /\ Waiting' /\ Untried'
    BY DEF RemoveStart, Place, Waiting, Untried, Types, Working, Settling
  <1>3. Ran' /\ Tasks'
    BY DEF RemoveStart, Ran, Tasks
  <1>4. Came'
    BY DEF RemoveStart, Came, From, Fresh, Complete, Types, Place, Working, Settling,
        Untried
  <1>5. Recorded' /\ Settled'
    BY DEF RemoveStart, Recorded, Settled, From, Complete, Has, Types, Came, Measured,
        Settling, Place, Working
  <1> QED
    BY <1>1, <1>2, <1>3, <1>4, <1>5

(* The posted result leaves the outbox. *)
LEMMA RemoveResultKeeps ==
    ASSUME IInv, RemoveResult
    PROVE  IInv'
  <1> USE FullBenchmarkConstants, NoneIsNoRecord
          DEF IInv, panel, files, helper, At, Sound, Lossy, Pass, Begin
  <1>1. Types'
    BY DEF RemoveResult, Types, Result, Measured
  <1>2. Place' /\ Waiting' /\ Untried'
    BY DEF RemoveResult, Place, Waiting, Untried, Types, Working, Settling
  <1>3. Ran' /\ Tasks'
    BY DEF RemoveResult, Ran, Tasks
  <1>4. Came'
    BY DEF RemoveResult, Came, From, Fresh, Complete, Types, Place, Working, Settling,
        Untried
  <1>5. Recorded' /\ Settled'
    BY DEF RemoveResult, Recorded, Settled, From, Complete, Has, Types, Came, Measured,
        Settling, Place, Working
  <1> QED
    BY <1>1, <1>2, <1>3, <1>4, <1>5

(* A refused result is kept aside. *)
LEMMA RetainOrphanKeeps ==
    ASSUME IInv, RetainOrphan
    PROVE  IInv'
  <1> USE FullBenchmarkConstants, NoneIsNoRecord
          DEF IInv, panel, files, helper, At, Sound, Lossy, Pass, Begin
  <1>1. Types'
    BY DEF RetainOrphan, Retained, Types, Result, Measured
  <1>2. Place' /\ Waiting' /\ Untried'
    BY DEF RetainOrphan, Retained, Place, Waiting, Untried, Types, Working, Settling
  <1>3. Ran' /\ Tasks'
    BY DEF RetainOrphan, Retained, Ran, Tasks
  <1>4. Came'
    BY DEF RetainOrphan, Retained, Came, From, Fresh, Complete, Types, Place, Working,
        Settling, Untried
  <1>5. Recorded' /\ Settled'
    BY DEF RetainOrphan, Retained, Recorded, Settled, From, Complete, Has, Types, Came,
        Measured, Settling, Place, Working
  <1> QED
    BY <1>1, <1>2, <1>3, <1>4, <1>5

(* A dispatched job gets its start file. *)
LEMMA ClaimKeeps ==
    ASSUME IInv, Claim
    PROVE  IInv'
  <1> USE FullBenchmarkConstants, NoneIsNoRecord
          DEF IInv, panel, files, helper, At, Sound, Lossy, Pass, Begin
  <1>1. Types'
    BY DEF Claim, Types, Result, Measured
  <1>2. Place' /\ Waiting' /\ Untried'
    BY DEF Claim, Place, Waiting, Untried, Types, Working, Settling
  <1>3. Ran' /\ Tasks'
    BY DEF Claim, Ran, Tasks
  <1>4. Came'
    BY DEF Claim, Came, From, Fresh, Complete, Types, Place, Working, Settling, Untried
  <1>5. Recorded' /\ Settled'
    BY DEF Claim, Recorded, Settled, From, Complete, Has, Types, Came, Measured, Settling,
        Place, Working
  <1> QED
    BY <1>1, <1>2, <1>3, <1>4, <1>5

(* The heartbeat asks both sides. *)
LEMMA BeatKeeps ==
    ASSUME IInv, Beat
    PROVE  IInv'
  <1> USE FullBenchmarkConstants, NoneIsNoRecord
          DEF IInv, panel, files, helper, At, Sound, Lossy, Pass, Begin
  <1>1. Types'
    BY DEF Beat, Types, Result, Measured
  <1>2. Place' /\ Waiting' /\ Untried'
    BY DEF Beat, Place, Waiting, Untried, Types, Working, Settling
  <1>3. Ran' /\ Tasks'
    BY DEF Beat, Ran, Tasks
  <1>4. Came'
    BY DEF Beat, Came, From, Fresh, Complete, Types, Place, Working, Settling, Untried
  <1>5. Recorded' /\ Settled'
    BY DEF Beat, Recorded, Settled, From, Complete, Has, Types, Came, Measured, Settling,
        Place, Working
  <1> QED
    BY <1>1, <1>2, <1>3, <1>4, <1>5

(* The heartbeat acts on their answers. *)
LEMMA ReconcileKeeps ==
    ASSUME IInv, Reconcile
    PROVE  IInv'
  <1> USE FullBenchmarkConstants, NoneIsNoRecord
          DEF IInv, panel, files, helper, At, Sound, Lossy, Pass, Begin
  <1>1. Types'
    BY DEF Reconcile, Types, Result, Measured
  <1>2. Place' /\ Waiting' /\ Untried'
    BY DEF Reconcile, Place, Waiting, Untried, Types, Working, Settling
  <1>3. Ran' /\ Tasks'
    BY DEF Reconcile, Ran, Tasks
  <1>4. Came'
    BY DEF Reconcile, Came, From, Fresh, Complete, Types, Place, Working, Settling, Untried
  <1>5. Recorded' /\ Settled'
    BY DEF Reconcile, Recorded, Settled, From, Complete, Has, Types, Came, Measured,
        Settling, Place, Working
  <1> QED
    BY <1>1, <1>2, <1>3, <1>4, <1>5

(* The agent keeps its files only. *)
LEMMA AgentRestartKeeps ==
    ASSUME IInv, AgentRestart
    PROVE  IInv'
  <1> USE FullBenchmarkConstants, NoneIsNoRecord
          DEF IInv, panel, files, helper, At, Sound, Lossy, Pass, Begin
  <1>1. Types'
    BY DEF AgentRestart, Types, Result, Measured
  <1>2. Place' /\ Waiting' /\ Untried'
    BY DEF AgentRestart, Place, Waiting, Untried, Types, Working, Settling
  <1>3. Ran' /\ Tasks'
    BY DEF AgentRestart, Ran, Tasks
  <1>4. Came'
    BY DEF AgentRestart, Came, From, Fresh, Complete, Types, Place, Working, Settling,
        Untried
  <1>5. Recorded' /\ Settled'
    BY DEF AgentRestart, Recorded, Settled, From, Complete, Has, Types, Came, Measured,
        Settling, Place, Working
  <1> QED
    BY <1>1, <1>2, <1>3, <1>4, <1>5

(* The helper loses its threads. *)
LEMMA HelperStopKeeps ==
    ASSUME IInv, HelperStop
    PROVE  IInv'
  <1> USE FullBenchmarkConstants, NoneIsNoRecord
          DEF IInv, panel, files, helper, At, Sound, Lossy, Pass, Begin
  <1>1. Types'
    BY DEF HelperStop, Types, Result, Measured
  <1>2. Place' /\ Waiting' /\ Untried'
    BY DEF HelperStop, Place, Waiting, Untried, Types, Working, Settling
  <1>3. Ran' /\ Tasks'
    BY DEF HelperStop, Ran, Tasks
  <1>4. Came'
    BY DEF HelperStop, Came, From, Fresh, Complete, Types, Place, Working, Settling, Untried
  <1>5. Recorded' /\ Settled'
    BY DEF HelperStop, Recorded, Settled, From, Complete, Has, Types, Came, Measured,
        Settling, Place, Working
  <1> QED
    BY <1>1, <1>2, <1>3, <1>4, <1>5

(* A job runs out at the panel. *)
LEMMA ExpireKeeps ==
    ASSUME IInv, NEW j \in Jobs, Expire(j)
    PROVE  IInv'
  <1> USE FullBenchmarkConstants, NoneIsNoRecord
          DEF IInv, panel, files, helper, At, Sound, Lossy, Pass, Begin
  <1>1. Types'
    BY DEF Expire, Ended, Types, Result, Measured
  <1>2. Place' /\ Waiting' /\ Untried'
    BY DEF Expire, Ended, Place, Waiting, Untried, Types, Working, Settling
  <1>3. Ran' /\ Tasks'
    BY DEF Expire, Ended, Ran, Tasks
  <1>4. Came'
    BY DEF Expire, Ended, Came, From, Fresh, Complete, Types, Place, Working, Settling,
        Untried
  <1>5. Recorded' /\ Settled'
    BY DEF Expire, Ended, Recorded, Settled, From, Complete, Has, Types, Came, Measured,
        Settling, Place, Working
  <1> QED
    BY <1>1, <1>2, <1>3, <1>4, <1>5

(* An administrator cancels a job. *)
LEMMA CancelKeeps ==
    ASSUME IInv, NEW j \in Jobs, Cancel(j)
    PROVE  IInv'
  <1> USE FullBenchmarkConstants, NoneIsNoRecord
          DEF IInv, panel, files, helper, At, Sound, Lossy, Pass, Begin
  <1>1. Types'
    BY DEF Cancel, Ended, Types, Result, Measured
  <1>2. Place' /\ Waiting' /\ Untried'
    BY DEF Cancel, Ended, Place, Waiting, Untried, Types, Working, Settling
  <1>3. Ran' /\ Tasks'
    BY DEF Cancel, Ended, Ran, Tasks
  <1>4. Came'
    BY DEF Cancel, Ended, Came, From, Fresh, Complete, Types, Place, Working, Settling,
        Untried
  <1>5. Recorded' /\ Settled'
    BY DEF Cancel, Ended, Recorded, Settled, From, Complete, Has, Types, Came, Measured,
        Settling, Place, Working
  <1> QED
    BY <1>1, <1>2, <1>3, <1>4, <1>5

(* The panel dispatches the first job, or its answer is lost. *)
LEMMA PollKeeps ==
    ASSUME IInv, Poll
    PROVE  IInv'
  <1> USE FullBenchmarkConstants, NoneIsNoRecord
          DEF IInv, panel, files, helper, At, Sound, Lossy, Pass, Begin
  <1>1. UNCHANGED <<record, starts, outbox, orphans, up, task, active, doomed, runs>>
    BY DEF Poll
  <1>2. CASE phase' = phase /\ main' = Pass
    BY <1>1, <1>2 DEF Types, Place, Waiting, Untried, Ran, Tasks, Came, Recorded, Settled,
        Working, Settling, From, Fresh, Complete, Has
  <1>3. CASE \E j \in Dispatchable : /\ phase' = [phase EXCEPT ![j] = "running"]
                                     /\ main' = [at |-> "claimed",
                                         job |-> j] \/ main' = Pass
    <2>1. PICK j \in Jobs : /\ phase[j] = "queued" /\ phase' = [phase EXCEPT ![j] = "running"]
                            /\ main' = [at |-> "claimed", job |-> j] \/ main' = Pass
      BY <1>3 DEF Dispatchable, Queued
    <2>2. phase'[j] = "running" /\ \A i \in Jobs \ {j} : phase'[i] = phase[i]
      BY <2>1 DEF Types
    <2>3. main'.at = "begin" \/ (main'.at = "claimed" /\ main'.job = j)
      BY <2>1
    <2>4. Types'
      BY <1>1, <2>1 DEF Types
    <2>5. task[j] = None
      BY <2>1 DEF Waiting
    <2>6. Place' /\ Waiting' /\ Untried'
      BY <1>1, <2>2, <2>3, <2>5 DEF Place, Waiting, Untried, Working, Settling
    <2>7. Ran' /\ Tasks' /\ Recorded'
      BY <1>1 DEF Ran, Tasks, Recorded, From, Complete
    <2>8. Came'
      BY <1>1, <2>3 DEF Came, From, Fresh, Complete, Settling
    <2>9. Settled'
      BY <1>1, <2>2, <2>3, <2>5 DEF Settled, Has, Complete
    <2> QED
      BY <2>4, <2>6, <2>7, <2>8, <2>9
  <1> QED
    BY <1>2, <1>3 DEF Poll

(* The agent looks at one start file. *)
LEMMA StartStepKeeps ==
    ASSUME IInv, NEW j \in Jobs, StartStep(j)
    PROVE  IInv'
  <1> USE FullBenchmarkConstants, NoneIsNoRecord
          DEF IInv, panel, files, helper, At, Sound, Lossy, Pass, Begin
  <1> DEFINE further == Starts(main.next, main.known, main.left \ {j})
  <1>1. /\ UNCHANGED <<phase, record, outbox, orphans, up, task, active, doomed, runs>>
        /\ phase[j] # "queued"
    BY DEF StartStep, Waiting
  <1>2. /\ further.at \in {"begin", "starts", "collect"}
        /\ further.at = "starts" => \A i \in further.left : phase[i] # "queued"
    BY DEF StartStep, Starts, Waiting
  <1> HIDE DEF further
  <1>3. Ran' /\ Tasks' /\ Recorded'
    BY <1>1 DEF Ran, Tasks, Recorded, From, Complete
  <1>4. CASE main' = further /\ (starts' = [starts EXCEPT ![j] = None] \/ starts' = starts)
    <2>1. Types'
      BY <1>1, <1>4 DEF Types
    <2>2. Place' /\ Waiting' /\ Untried'
      BY <1>1, <1>2, <1>4 DEF Place, Waiting, Untried, Types, Working, Settling
    <2>3. Came' /\ Settled'
      BY <1>1, <1>2, <1>4 DEF Came, Settled, From, Fresh, Complete, Has, Settling
    <2> QED
      BY <1>3, <2>1, <2>2, <2>3
  <1>5. CASE /\ outbox[j] = None /\ starts' = [starts EXCEPT ![j] = "tried"]
             /\ main' = [at |-> "start", job |-> j, first |-> starts[j] = "new",
                 rest |-> further]
    <2>1. Types'
      BY <1>1, <1>5 DEF Types
    <2>2. /\ main'.at = "start" /\ main'.job = j /\ main'.rest = further
          /\ main'.first => starts[j] = "new"
      BY <1>5
    <2>3. starts'[j] = "tried" /\ \A i \in Jobs \ {j} : starts'[i] = starts[i]
      BY <1>5 DEF Types
    <2>4. Place' /\ Waiting'
      BY <1>1, <1>2, <2>2, <2>3 DEF Place, Waiting, Working, Settling
    <2>5. Untried'
      BY <1>1, <1>5, <2>2, <2>3 DEF Untried
    <2>6. Came' /\ Settled'
      BY <1>1, <2>2 DEF Came, Settled, From, Fresh, Complete, Has, Settling
    <2> QED
      BY <1>3, <2>1, <2>4, <2>5, <2>6
  <1> QED
    <2>1. CASE outbox[j] # None
      <3>1. main' = further /\ starts' = [starts EXCEPT ![j] = None]
        BY <2>1 DEF StartStep, SavedAlready, further
      <3>2. main' = further /\ (starts' = [starts EXCEPT ![j] = None] \/ starts' = starts)
        BY <3>1
      <3> QED
        BY <1>4, <3>2
    <2>2. CASE outbox[j] = None /\ j \notin main.known
      BY <1>4, <2>2 DEF StartStep, SavedAlready, further
    <2>3. CASE outbox[j] = None /\ j \in main.known
      BY <1>5, <2>3 DEF StartStep, SavedAlready, further
    <2> QED
      BY <2>1, <2>2, <2>3

(* The panel records a result, or refuses it. *)
LEMMA PostKeeps ==
    ASSUME IInv, NEW j \in Jobs, Post(j)
    PROVE  IInv'
  <1> USE FullBenchmarkConstants, NoneIsNoRecord
          DEF IInv, panel, files, helper, At, Sound, Lossy, Pass, Begin
  <1> DEFINE data == outbox[j].data
  <1>1. /\ UNCHANGED <<starts, outbox, orphans, up, task, active, doomed, runs>>
        /\ outbox[j] \in Result /\ data \in Measured \cup {"unconnected"}
    BY DEF Post, Came, Types, Result
  <1>2. Types'
    <2>1. phase' \in [Jobs -> {"queued", "running", "gone"}]
      BY DEF Post, PanelResult, Types
    <2>2. record' \in [Jobs -> Measured \cup {"unconnected", "expired", "cancelled", None}]
      BY <1>1 DEF Post, PanelResult, Types
    <2> QED
      BY <1>1, <2>1, <2>2 DEF Types
  <1>3. Place' /\ Waiting' /\ Untried'
    BY DEF Post, PanelResult, Accepted, Owned, Late, Linkable, Replayed, Results, Place,
        Waiting,
        Untried, Types, Working, Settling
  <1>4. Ran' /\ Tasks'
    BY <1>1 DEF Ran, Tasks
  <1>5. Came'
    BY DEF Post, Results, Came, From, Fresh, Complete, Settling
  <1>6. Recorded'
    BY DEF Post, PanelResult, Recorded, From, Complete, Came, Types, Measured
  <1>7. Settled'
    BY <1>1 DEF Post, PanelResult, Accepted, Owned, Late, Linkable, Replayed, Settled, Has,
        Complete,
        Came, From, Fresh, Types, Recorded, Result, Task, Measured
  <1> QED
    BY <1>2, <1>3, <1>4, <1>5, <1>6, <1>7

(* A new revision replaces a report without address. *)
LEMMA RetryPendingKeeps ==
    ASSUME IInv, NEW j \in Jobs, RetryPending(j)
    PROVE  IInv'
  <1> USE FullBenchmarkConstants, NoneIsNoRecord DEF IInv, panel, files, helper, At
  <1> DEFINE new == [task[j] EXCEPT !.data = "linked", !.revision = @ + 1,
                                    !.pending = FALSE, !.acknowledged = FALSE]
  <1>1. /\ task[j] \in Task /\ task[j] # None /\ task[j].state = "complete" /\ task[j].data = "report"
        /\ UNCHANGED <<phase, record, starts, outbox, orphans, main, up, active, runs>>
    BY DEF RetryPending, Complete, Types, Tasks
  <1>2. task' = [task EXCEPT ![j] = new]
    BY <1>1 DEF RetryPending, Types
  <1>3. /\ new \in Task /\ new.state = "complete" /\ new.data = "linked" /\ ~new.pending
        /\ ~new.acknowledged /\ new.revision = task[j].revision + 1 /\ task[j].revision \in Nat
    <2>1. task[j].revision \in Nat /\ task[j].revision + 1 \in Nat
      BY <1>1 DEF Task
    <2>2. new \in Task
      BY <1>1, <2>1 DEF Task, Measured
    <2>3. /\ new.state = "complete" /\ new.data = "linked" /\ ~new.pending
          /\ ~new.acknowledged /\ new.revision = task[j].revision + 1
      BY <1>1 DEF Task
    <2> QED
      BY <2>1, <2>2, <2>3
  <1> HIDE DEF new
  <1>4. new # None /\ task'[j] = new /\ \A i \in Jobs \ {j} : task'[i] = task[i]
    BY <1>2, <1>3 DEF Types
  <1>5. Types'
    <2>1. task' \in [Jobs -> {None} \cup Task]
      BY <1>2, <1>3 DEF Types
    <2> QED
      BY <1>1, <2>1 DEF Types
  <1>6. Place' /\ Waiting' /\ Untried' /\ Ran'
    BY <1>1, <1>4 DEF Place, Waiting, Untried, Ran, Working, Settling
  <1>7. Tasks'
    <2>1. \A i \in active' : task'[i] # None /\ task'[i].state = "running"
      BY <1>1, <1>4 DEF Tasks, Types
    <2>2. \A i \in Jobs : task'[i] # None =>
            /\ task'[i].state = "running" => ~task'[i].pending /\ ~task'[i].acknowledged
            /\ task'[i].state = "complete" => task'[i].data \in Measured
            /\ task'[i].pending => task'[i].data = "report"
      BY <1>3, <1>4 DEF Tasks, Measured
    <2> QED
      BY <1>1, <2>1, <2>2 DEF Tasks
  <1>8. Came'
    BY <1>1, <1>3, <1>4 DEF Came, From, Fresh, Complete, Settling, Types, Result
  <1>9. Recorded'
    BY <1>1, <1>3, <1>4 DEF Recorded, From, Complete
  <1>10. Settled'
    <2>1. \A i \in Jobs : Complete(i)' /\ task'[i].acknowledged => Has(i)'
      BY <1>1, <1>3, <1>4 DEF Settled, Has, Complete
    <2>2. ASSUME At("accepted") \/ At("ack"), main.revision \in Nat
          PROVE  /\ Complete(main.job)' /\ main.revision <= task'[main.job].revision
                 /\ main.revision = task'[main.job].revision => Has(main.job)'
      <3>1. CASE main.job = j
        BY <1>1, <1>3, <1>4, <2>2, <3>1 DEF Settled, Complete
      <3>2. CASE main.job # j
        BY <1>1, <1>4, <2>2, <3>2 DEF Settled, Has, Complete, Place, Settling
      <3> QED
        BY <3>1, <3>2
    <2> QED
      BY <1>1, <2>1, <2>2 DEF Settled
  <1> QED
    BY <1>5, <1>6, <1>7, <1>8, <1>9, <1>10

-----------------------------------------------------------------------------
LEMMA InitHolds == Init => IInv
  <1> USE FullBenchmarkConstants, NoneIsNoRecord DEF At, Pass, Begin
  <1> SUFFICES ASSUME Init PROVE IInv
    OBVIOUS
  <1>1. Types
    BY DEF Init, Types, Measured
  <1>2. \A j \in Jobs : task[j] = None /\ outbox[j] = None /\ starts[j] = None
    BY DEF Init
  <1>3. main.at = "begin"
    BY DEF Init
  <1>4. Place /\ Waiting /\ Untried
    BY <1>2, <1>3 DEF Place, Waiting, Untried, Working, Settling
  <1>5. Ran /\ Tasks
    BY <1>2 DEF Init, Ran, Tasks
  <1>6. Came
    BY <1>2, <1>3 DEF Came, Settling
  <1>7. Recorded
    BY DEF Init, Recorded, Measured
  <1>8. Settled
    BY <1>2, <1>3 DEF Settled, Complete
  <1> QED
    BY <1>1, <1>4, <1>5, <1>6, <1>7, <1>8 DEF IInv

LEMMA StepKeeps ==
    ASSUME IInv, [Next]_vars
    PROVE  IInv'
  <1>1. CASE MainStep
    BY <1>1, BeginStartsKeeps, AskStartKeeps, NoHelperKeeps, RemoveStartKeeps, CollectKeeps,
       RemoveResultKeeps, RetainOrphanKeeps, AcknowledgeKeeps, PollKeeps, ClaimKeeps,
       StartStepKeeps, PostKeeps DEF MainStep
  <1>2. CASE Beat \/ Reconcile \/ AgentRestart
    BY <1>2, BeatKeeps, ReconcileKeeps, AgentRestartKeeps
  <1>3. CASE HelperStop \/ HelperUp
    BY <1>3, HelperStopKeeps, HelperUpKeeps
  <1>4. CASE \E j \in Jobs : Finish(j) \/ RetryPending(j) \/ Expire(j) \/ Cancel(j)
    BY <1>4, FinishKeeps, RetryPendingKeeps, ExpireKeeps, CancelKeeps
  <1>5. CASE UNCHANGED vars
    BY <1>5 DEF vars, panel, files, helper, IInv, Types, Place, Waiting, Untried, Ran,
        Tasks, Came,
        Recorded, Settled, At, Working, Settling, From, Fresh, Complete, Has
  <1> QED
    BY <1>1, <1>2, <1>3, <1>4, <1>5 DEF Next

(* The inductive invariant holds in every behaviour of the three processes.  *)
LEMMA Invariance == Spec => []IInv
  <1> QED
    BY InitHolds, StepKeeps, PTL DEF Spec

(* helper.start answers a task it knows as started: however many starts are  *)
(* sent after lost answers and restarts, the benchmark runs once at most.    *)
THEOREM MeasuredAtMostOnce == Spec => []StartedOnce
  <1>1. IInv => StartedOnce
    BY DEF IInv, Ran, StartedOnce
  <1> QED
    BY <1>1, Invariance, PTL

(* flush_helper_starts saves a failure only on the first try of a start: in   *)
(* every behaviour a failure in the outbox is about a benchmark that the      *)
(* helper does not have.                                                    *)
THEOREM FailuresAreTrue == Spec => []FailureIsTrue
  <1>1. IInv => FailureIsTrue
    BY DEF IInv, Came, FailureIsTrue
  <1> QED
    BY <1>1, Invariance, PTL

(* The helper is told to give up its copies only by an acknowledgement of the *)
(* revision that the panel has, for any number of faults.                    *)
THEOREM ReportsAreKept == Spec => []ReportKept
  <1>1. IInv => ReportKept
    BY DEF IInv, Settled, Has, ReportKept
  <1> QED
    BY <1>1, Invariance, PTL

=============================================================================
