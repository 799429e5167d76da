---------------------------- MODULE JobLeaseProofs ----------------------------
(***************************************************************************)
(* Theorems about JobLease for any jobs, workers, timers and limits: the   *)
(* controller's state keeps its type, leases end by their deadlines,       *)
(* followers wait for live leaders, recorded results are final and no      *)
(* measurement is repeated beyond its retries; a worker does one thing at  *)
(* a time, speed tests do not disturb each other, and a worker in          *)
(* maintenance measures nothing.                                           *)
(***************************************************************************)
EXTENDS JobLease, FiniteNaturals

-----------------------------------------------------------------------------
(* The inductive invariant.                                                *)

JobRecord == [phase : Phases, ttl : 0 .. QueueTime, left : 0 .. Deadline,
              wait : 0 .. Backoff * (MaxTries + 1), tries : 0 .. MaxTries,
              leader : Jobs \cup {NoJob}]

(* The two halves of TypeOK.                                               *)
JobType ==
    /\ job \in [Jobs -> JobRecord]
    /\ result \in [Jobs -> Outcomes \cup {"none"}]
    /\ inflight \subseteq [id : Jobs, create : BOOLEAN]
    /\ bgpBusy \in Jobs \cup {NoJob}
    /\ runs \in [Jobs -> Nat] /\ created \in [Jobs -> Nat]
RestType ==
    /\ known \subseteq Workers /\ tools \subseteq Workers
    /\ fresh \in [Workers -> 0 .. OnlineTime] /\ lease \in [Workers -> 0 .. LeaseTime]
    /\ cool \in Nat
    /\ provider \in [used : 0 .. Quota, blocked : 0 .. LeaseTime]
    /\ reap \subseteq Jobs /\ restarts \in 0 .. MaxRestarts

(* A request under way is for a job in the phase that sent it, or ended.   *)
Requests ==
    /\ \A r \in inflight : job[r.id].phase \in {"done", IF r.create THEN "submitting" ELSE "provider"}
    /\ bgpBusy # NoJob => job[bgpBusy].phase \in {"done", "bgp-running"}

(* Only a job that has ended has a result.                                 *)
Final == \A j \in Jobs : result[j] # "none" => job[j].phase = "done"

Repeatable(j) == Op[j] \in Speed \cup {"benchmark"}

(* Dispatches of a job, as its phase and retries tell.                     *)
Dispatches ==
    \A j \in Jobs :
      /\ job[j].phase \notin {"running", "done"} => runs[j] = job[j].tries
      /\ job[j].phase = "running" => runs[j] = job[j].tries + 1
      /\ job[j].phase = "new" => job[j].tries = 0
      /\ job[j].tries > 0 => Repeatable(j)
      /\ runs[j] <= IF Repeatable(j) THEN MaxTries + 1 ELSE 1

(* A Globalping measurement exists only once a submission was answered or, *)
(* in a reload, forgotten.                                                 *)
Submissions ==
    /\ \A j \in Jobs : created[j] <= 1
    /\ \A j \in Jobs : job[j].phase \notin {"submitting", "provider", "done"} => created[j] = 0
    /\ \A r \in inflight : r.create => created[r.id] = 0

Life == LeaderIsQueued /\ LeaseWithinDeadline /\ Final /\ Dispatches
IInv == JobType /\ RestType /\ Life /\ Requests /\ Submissions

-----------------------------------------------------------------------------
(* Constants.                                                              *)

LEMMA Timers ==
    /\ Jobs \subseteq Nat /\ NoJob \notin Jobs
    /\ {QueueTime, RunTime, RenewTime, Deadline, OnlineTime, LeaseTime, MaxTries, Quota} \subseteq Nat
    /\ RunTime <= Deadline /\ RunTime <= QueueTime /\ RenewTime <= QueueTime /\ Deadline <= QueueTime
  <1>1. Jobs \subseteq Nat \ {NoJob}
    BY LeaseConstants
  <1>2. {QueueTime, RunTime, RenewTime, Deadline, OnlineTime, LeaseTime, Backoff} \subseteq Nat
    BY LeaseConstants
  <1>3. {MaxLatency, MaxTries, Quota, MaxRestarts} \subseteq Nat
    BY LeaseConstants
  <1>4. RenewTime <= RunTime /\ RunTime <= Deadline /\ Deadline <= QueueTime
    BY LeaseConstants
  <1>5. RunTime \in Nat /\ RenewTime \in Nat /\ Deadline \in Nat /\ QueueTime \in Nat
    BY <1>2
  <1>6. RunTime <= QueueTime /\ RenewTime <= QueueTime
    BY <1>4, <1>5
  <1> QED
    BY <1>1, <1>2, <1>3, <1>4, <1>6

(* The wait of a retry is in range.                                        *)
LEMMA Waits ==
    /\ 0 \in 0 .. Backoff * (MaxTries + 1)
    /\ \A t \in 0 .. MaxTries : Backoff * (t + 1) \in 0 .. Backoff * (MaxTries + 1)
  <1>1. Backoff \in Nat /\ MaxTries \in Nat
    BY LeaseConstants
  <1>2. \A a, b, c \in Nat : b <= c => a * b \in Nat /\ a * b <= a * c
    OBVIOUS
  <1>3. \A t \in 0 .. MaxTries : t + 1 \in Nat /\ t + 1 <= MaxTries + 1
    BY <1>1
  <1>4. MaxTries + 1 \in Nat /\ Backoff * (MaxTries + 1) \in Nat
    BY <1>1, <1>2
  <1>5. \A t \in 0 .. MaxTries : Backoff * (t + 1) \in Nat /\ Backoff * (t + 1) <= Backoff * (MaxTries + 1)
    BY <1>1, <1>2, <1>3, <1>4
  <1> HIDE DEF Waits
  <1> QED
    BY <1>4, <1>5

LEMMA BlankType ==
    ASSUME NEW p \in Phases
    PROVE  Blank(p) \in JobRecord
  BY Timers, Waits DEF Blank, JobRecord

LEMMA TypeSplit ==
    TypeOK <=> JobType /\ RestType
  BY DEF TypeOK, JobType, RestType, JobRecord

-----------------------------------------------------------------------------
(* What a step may do to a job.                                            *)

PerJob == job' = [j \in Jobs |-> job'[j]] /\ result' = [j \in Jobs |-> result'[j]]

Changed(j) ==       \* what all but the ends of a job have in common
    /\ job'[j] \in JobRecord /\ result'[j] = result[j]
    /\ job'[j].phase = "running" => job'[j].ttl <= job'[j].left
Kept(j) ==          \* only timers, if anything
    /\ Changed(j) /\ runs'[j] = runs[j]
    /\ job'[j].phase = job[j].phase /\ job'[j].tries = job[j].tries
    /\ job'[j].leader = job[j].leader
    /\ job[j].leader # NoJob => job'[job[j].leader].phase \notin {"new", "done"}
                                /\ job'[job[j].leader].leader = NoJob
Closed(j) ==
    /\ job'[j] = Blank("done") /\ job[j].phase # "done"
    /\ result'[j] \in Outcomes /\ runs'[j] = runs[j]
Freed(j) ==         \* a follower whose leader was cancelled
    /\ job[j].phase = "shared" /\ Changed(j) /\ runs'[j] = runs[j]
    /\ job'[j].phase = "queued" /\ job'[j].leader = NoJob /\ job'[j].tries = job[j].tries
Entered(j) ==
    /\ job[j].phase = "new" /\ Changed(j) /\ runs'[j] = runs[j]
    /\ job'[j].tries = job[j].tries
    /\ \/ job'[j].phase = "queued" /\ job'[j].leader = NoJob
       \/ /\ job'[j].phase = "shared" /\ job'[j].leader \in Jobs
          /\ job'[job'[j].leader].phase \notin {"new", "done"}
          /\ job'[job'[j].leader].leader = NoJob
Waiting == {"queued", "listening", "ready", "submitting", "provider", "bgp-running"}
Advanced(j) ==
    /\ job[j].phase \in Waiting /\ Changed(j) /\ runs'[j] = runs[j]
    /\ job'[j].phase \in Waiting /\ job'[j].tries = job[j].tries
    /\ job'[j].leader = job[j].leader
Started(j) ==
    /\ job[j].phase \in {"queued", "ready"} /\ Changed(j) /\ runs'[j] = runs[j] + 1
    /\ job'[j].phase = "running" /\ job'[j].tries = job[j].tries
    /\ job'[j].leader = job[j].leader
Retried(j) ==
    /\ job[j].phase = "running" /\ Changed(j) /\ runs'[j] = runs[j] /\ Repeatable(j)
    /\ job'[j].phase = "queued" /\ job'[j].tries = job[j].tries + 1
    /\ job'[j].leader = job[j].leader

Moves(j) == \/ Kept(j) \/ Closed(j) \/ Freed(j) \/ Entered(j)
            \/ Advanced(j) \/ Started(j) \/ Retried(j)

(* Whatever a step does to each job, the invariant of jobs holds again.    *)
LEMMA LifeGoesOn ==
    ASSUME JobType, Life, PerJob, runs' = [j \in Jobs |-> runs'[j]],
           \A j \in Jobs : Moves(j)
    PROVE  /\ Life'
           /\ job' \in [Jobs -> JobRecord] /\ result' \in [Jobs -> Outcomes \cup {"none"}]
           /\ runs' \in [Jobs -> Nat]
  <1>1. ASSUME NEW j \in Jobs
        PROVE  /\ job[j] \in JobRecord /\ result[j] \in Outcomes \cup {"none"}
               /\ runs[j] \in Nat /\ job[j].tries \in 0 .. MaxTries /\ Moves(j)
    BY DEF JobType, JobRecord
  <1>2. ASSUME NEW j \in Jobs
        PROVE  /\ job'[j] \in JobRecord /\ result'[j] \in Outcomes \cup {"none"}
               /\ runs'[j] \in Nat
    <2>1. CASE Closed(j)
      BY <1>1, <2>1, BlankType DEF Closed, Phases
    <2>2. CASE Changed(j) /\ runs'[j] \in {runs[j], runs[j] + 1}
      BY <1>1, <2>2 DEF Changed
    <2> QED
      BY <1>1, <2>1, <2>2 DEF Moves, Kept, Freed, Entered, Advanced, Started, Retried
  <1>3. /\ job' \in [Jobs -> JobRecord] /\ result' \in [Jobs -> Outcomes \cup {"none"}]
        /\ runs' \in [Jobs -> Nat]
    BY <1>2 DEF PerJob
  <1>4. LeaderIsQueued'
    <2>1. ASSUME NEW j \in Jobs
          PROVE  /\ job'[j].phase = "shared" <=> job'[j].leader # NoJob
                 /\ job'[j].leader # NoJob =>
                      /\ job'[job'[j].leader].phase \notin {"new", "done"}
                      /\ job'[job'[j].leader].leader = NoJob
                      /\ job'[j].leader \in Jobs
      <3>1. /\ job[j].phase = "shared" <=> job[j].leader # NoJob
            /\ job'[j].leader \in Jobs \cup {NoJob}
        BY <1>2 DEF Life, LeaderIsQueued, JobRecord
      <3>2. CASE Kept(j)
        BY <3>1, <3>2 DEF Kept
      <3>3. CASE Closed(j)
        BY <3>3 DEF Closed, Blank
      <3>4. CASE Freed(j)
        BY <3>4 DEF Freed
      <3>5. CASE Entered(j)
        BY <3>5, Timers DEF Entered
      <3>6. CASE Advanced(j)
        BY <3>1, <3>6 DEF Advanced, Waiting
      <3>7. CASE Started(j)
        BY <3>1, <3>7 DEF Started
      <3>8. CASE Retried(j)
        BY <3>1, <3>8 DEF Retried
      <3> QED
        BY <1>1, <3>2, <3>3, <3>4, <3>5, <3>6, <3>7, <3>8 DEF Moves
    <2> QED
      BY <2>1 DEF LeaderIsQueued, Leader, Queued
  <1>5. LeaseWithinDeadline'
    <2>1. ASSUME NEW j \in Jobs, job'[j].phase = "running" PROVE job'[j].ttl <= job'[j].left
      BY <1>1, <2>1 DEF Moves, Kept, Closed, Freed, Entered, Advanced, Started, Retried, Changed, Blank
    <2> QED
      BY <2>1 DEF LeaseWithinDeadline
  <1>6. Final'
    <2>1. ASSUME NEW j \in Jobs, result'[j] # "none" PROVE job'[j].phase = "done"
      <3>1. result[j] # "none" => job[j].phase = "done"
        BY DEF Life, Final
      <3>2. CASE Kept(j)
        BY <2>1, <3>1, <3>2 DEF Kept, Changed
      <3>3. CASE Closed(j)
        BY <3>3 DEF Closed, Blank
      <3>4. CASE Freed(j) \/ Entered(j) \/ Advanced(j) \/ Started(j) \/ Retried(j)
        BY <2>1, <3>1, <3>4 DEF Freed, Entered, Advanced, Started, Retried, Changed, Waiting
      <3> QED
        BY <1>1, <3>2, <3>3, <3>4 DEF Moves
    <2> QED
      BY <2>1 DEF Final
  <1>7. Dispatches'
    <2>1. ASSUME NEW j \in Jobs
          PROVE  /\ job'[j].phase \notin {"running", "done"} => runs'[j] = job'[j].tries
                 /\ job'[j].phase = "running" => runs'[j] = job'[j].tries + 1
                 /\ job'[j].phase = "new" => job'[j].tries = 0
                 /\ job'[j].tries > 0 => Repeatable(j)
                 /\ runs'[j] <= IF Repeatable(j) THEN MaxTries + 1 ELSE 1
      <3> DEFINE most == IF Repeatable(j) THEN MaxTries + 1 ELSE 1
      <3>1. /\ job[j].phase \notin {"running", "done"} => runs[j] = job[j].tries
            /\ job[j].phase = "running" => runs[j] = job[j].tries + 1
            /\ job[j].phase = "new" => job[j].tries = 0
            /\ job[j].tries > 0 => Repeatable(j)
            /\ runs[j] <= most
        BY DEF Life, Dispatches
      <3>2. job[j].tries \in Nat /\ runs[j] \in Nat /\ job[j].tries + 1 <= most
        BY <1>1, <3>1, Timers
      <3> SUFFICES   /\ job'[j].phase \notin {"running", "done"} => runs'[j] = job'[j].tries
                     /\ job'[j].phase = "running" => runs'[j] = job'[j].tries + 1
                     /\ job'[j].phase = "new" => job'[j].tries = 0
                     /\ job'[j].tries > 0 => Repeatable(j)
                     /\ runs'[j] <= most
        OBVIOUS
      <3> HIDE DEF most
      <3>3. CASE Kept(j)
        BY <3>1, <3>2, <3>3 DEF Kept
      <3>4. CASE Closed(j)
        BY <3>1, <3>2, <3>4 DEF Closed, Blank
      <3>5. CASE Freed(j) \/ Entered(j) \/ Advanced(j)
        BY <3>1, <3>2, <3>5 DEF Freed, Entered, Advanced, Waiting
      <3>6. CASE Started(j)
        BY <3>1, <3>2, <3>6 DEF Started
      <3>7. CASE Retried(j)
        BY <3>1, <3>2, <3>7 DEF Retried
      <3> QED
        BY <1>1, <3>3, <3>4, <3>5, <3>6, <3>7 DEF Moves
    <2> QED
      BY <2>1 DEF Dispatches, Repeatable
  <1> QED
    BY <1>3, <1>4, <1>5, <1>6, <1>7 DEF Life

(* The half of the type that jobs do not carry.                            *)
OutsideType ==
    /\ inflight \subseteq [id : Jobs, create : BOOLEAN]
    /\ bgpBusy \in Jobs \cup {NoJob} /\ created \in [Jobs -> Nat]

Elsewhere == {"submitting", "provider", "bgp-running", "done"}
Quiet(j) == \/ job'[j].phase \in {job[j].phase, "done"}
            \/ job[j].phase \notin Elsewhere /\ job'[j].phase \notin Elsewhere

(* Steps that ask nobody outside anything keep what is known of requests.  *)
LEMMA QuietRequests ==
    ASSUME JobType, Requests, Submissions, \A j \in Jobs : Quiet(j),
           inflight' \subseteq inflight, bgpBusy' \in {bgpBusy, NoJob}, created' = created
    PROVE  Requests' /\ Submissions' /\ OutsideType'
  <1>1. OutsideType'
    BY DEF OutsideType, JobType
  <1>2. ASSUME NEW r \in inflight'
        PROVE  job'[r.id].phase \in {"done", IF r.create THEN "submitting" ELSE "provider"}
    <2>1. r.id \in Jobs /\ r \in inflight
      BY <1>2 DEF JobType
    <2>2. job[r.id].phase \in {"done", IF r.create THEN "submitting" ELSE "provider"}
      BY <2>1 DEF Requests
    <2>3. Quiet(r.id)
      BY <2>1
    <2> QED
      BY <2>2, <2>3 DEF Quiet, Elsewhere
  <1>3. ASSUME bgpBusy' # NoJob PROVE job'[bgpBusy'].phase \in {"done", "bgp-running"}
    <2>1. bgpBusy' = bgpBusy /\ bgpBusy \in Jobs /\ job[bgpBusy].phase \in {"done", "bgp-running"}
      BY <1>3 DEF JobType, Requests
    <2>2. Quiet(bgpBusy)
      BY <2>1
    <2> QED
      BY <2>1, <2>2 DEF Quiet, Elsewhere
  <1>4. ASSUME NEW j \in Jobs, job'[j].phase \notin {"submitting", "provider", "done"}
        PROVE  created'[j] = 0
    <2>1. job[j].phase \notin {"submitting", "provider", "done"}
      BY <1>4 DEF Quiet, Elsewhere
    <2> QED
      BY <2>1 DEF Submissions
  <1>5. \A j \in Jobs : created'[j] <= 1
    BY DEF Submissions
  <1>6. \A r \in inflight' : r.create => created'[r.id] = 0
    BY DEF Submissions
  <1> QED
    BY <1>1, <1>2, <1>3, <1>4, <1>5, <1>6 DEF Requests, Submissions

(* A result is final, but for that of a full benchmark.                    *)
Settled == \A j \in Jobs : job[j].phase = "done" =>
             \/ result'[j] = result[j]
             \/ Op[j] = "full" /\ result[j] = "expired" /\ result'[j] = "late"

Inner == JobType /\ Life /\ Requests /\ Submissions

(* A step of moves that asks nobody outside keeps all but RestType.        *)
LEMMA QuietStep ==
    ASSUME IInv, PerJob, runs' = [j \in Jobs |-> runs'[j]],
           \A j \in Jobs : Moves(j) /\ Quiet(j),
           inflight' \subseteq inflight, bgpBusy' \in {bgpBusy, NoJob}, created' = created
    PROVE  Inner' /\ Settled
  <1>1. /\ Life' /\ job' \in [Jobs -> JobRecord]
        /\ result' \in [Jobs -> Outcomes \cup {"none"}] /\ runs' \in [Jobs -> Nat]
    BY LifeGoesOn DEF IInv
  <1>2. Requests' /\ Submissions' /\ OutsideType'
    BY QuietRequests DEF IInv
  <1>3. Settled
    <2>1. ASSUME NEW j \in Jobs, job[j].phase = "done" PROVE result'[j] = result[j]
      <3>1. Moves(j)
        OBVIOUS
      <3> QED
        BY <2>1, <3>1 DEF Moves, Kept, Closed, Freed, Entered, Advanced, Started, Retried, Changed
    <2> QED
      BY <2>1 DEF Settled
  <1> QED
    BY <1>1, <1>2, <1>3 DEF JobType, OutsideType, Inner

(* A step that moves one job and does not end it leaves the others alone.  *)
LEMMA OneMove ==
    ASSUME IInv, NEW j \in Jobs, job' \in [Jobs -> JobRecord], result' = result,
           \A i \in Jobs \ {j} : job'[i] = job[i],
           runs' = runs \/ runs' = [runs EXCEPT ![j] = @ + 1],
           Moves(j), ~Closed(j)
    PROVE  /\ PerJob /\ runs' = [i \in Jobs |-> runs'[i]]
           /\ \A i \in Jobs : Moves(i) /\ (i # j => Quiet(i) /\ job'[i] = job[i])
  <1>1. /\ job \in [Jobs -> JobRecord] /\ result \in [Jobs -> Outcomes \cup {"none"}]
        /\ runs \in [Jobs -> Nat]
    BY DEF IInv, JobType
  <1>2. PerJob
    BY <1>1 DEF PerJob
  <1>3. runs' = [i \in Jobs |-> runs'[i]]
    BY <1>1
  <1>4. ASSUME NEW i \in Jobs, i # j PROVE job'[i] = job[i] /\ result'[i] = result[i] /\ runs'[i] = runs[i]
    BY <1>1, <1>4
  <1>5. ASSUME NEW i \in Jobs, i # j PROVE Kept(i)
    <2>1. job'[i] = job[i] /\ result'[i] = result[i] /\ runs'[i] = runs[i] /\ job[i] \in JobRecord
      BY <1>1, <1>4, <1>5
    <2>2. job[i].phase = "running" => job[i].ttl <= job[i].left
      BY DEF IInv, Life, LeaseWithinDeadline
    <2>3. ASSUME job[i].leader # NoJob
          PROVE  /\ job'[job[i].leader].phase \notin {"new", "done"}
                 /\ job'[job[i].leader].leader = NoJob
      <3> DEFINE k == job[i].leader
      <3>1. /\ k \in Jobs /\ job[k].phase \notin {"new", "done"} /\ job[k].leader = NoJob
            /\ job[k].phase # "shared"
        <4>1. job[i].phase = "shared"
          BY <2>3 DEF IInv, Life, LeaderIsQueued
        <4>2. i \in Queued
          BY <4>1 DEF Queued
        <4>3. k \in Queued /\ job[k].leader = NoJob
          BY <4>2, <2>3 DEF IInv, Life, LeaderIsQueued, Leader
        <4>4. k \in Jobs /\ job[k].phase \notin {"new", "done"}
          BY <4>3 DEF Queued
        <4> QED
          BY <4>3, <4>4 DEF IInv, Life, LeaderIsQueued
      <3>2. CASE k # j
        BY <1>4, <3>1, <3>2
      <3>3. CASE k = j
        <4>1. Kept(j) \/ Advanced(j) \/ Started(j) \/ Retried(j)
          BY <3>1, <3>3 DEF Moves, Freed, Entered
        <4> QED
          BY <3>1, <3>3, <4>1 DEF Kept, Advanced, Started, Retried, Waiting
      <3> QED
        BY <3>2, <3>3
    <2> QED
      BY <2>1, <2>2, <2>3 DEF Kept, Changed
  <1>6. ASSUME NEW i \in Jobs
        PROVE  Moves(i) /\ (i # j => Quiet(i) /\ job'[i] = job[i])
    BY <1>4, <1>5 DEF Moves, Quiet
  <1> QED
    BY <1>2, <1>3, <1>6

(* finishMany closes the jobs it is given and the followers that take      *)
(* their results, frees the other followers and keeps the rest.            *)
FinishedAsTold(S, data) ==
    /\ \E f, g : /\ Finished(S, data) = f /\ f = [j \in Jobs |-> f[j]]
                 /\ Recorded(S, data) = g /\ g = [j \in Jobs |-> g[j]]
    /\ S \cup Adopted(S, data) \cup Released(S, data) \subseteq Jobs
    /\ \A j \in S \cup Adopted(S, data) :
         /\ Finished(S, data)[j] = Blank("done") /\ Recorded(S, data)[j] \in Outcomes
         /\ job[j].phase # "done"
    /\ \A j \in Released(S, data) :
         /\ Finished(S, data)[j] = [job[j] EXCEPT !.phase = "queued", !.leader = NoJob]
         /\ Recorded(S, data)[j] = result[j] /\ job[j].phase = "shared"
    /\ \A j \in Jobs \ (S \cup Adopted(S, data) \cup Released(S, data)) :
         /\ Finished(S, data)[j] = job[j] /\ Recorded(S, data)[j] = result[j]
         /\ job[j].leader # NoJob =>
              /\ job[j].leader \in Jobs \ (S \cup Adopted(S, data) \cup Released(S, data))
              /\ job[job[j].leader].phase \notin {"new", "done"}
              /\ job[job[j].leader].leader = NoJob

LEMMA FinishedJobs ==
    ASSUME JobType, Life, NEW S \in SUBSET Jobs, NEW data,
           \A j \in S : job[j].phase # "done" /\ data[j] \in Outcomes
    PROVE  FinishedAsTold(S, data)
  <1>1. /\ NoJob \notin S
        /\ \A f \in Queued : Leader(f) \in S => job[f].phase = "shared"
        /\ Queued \subseteq Jobs /\ \A f \in Queued : job[f].phase # "done"
    BY Timers DEF Life, LeaderIsQueued, Queued, Leader
  <1>2. \E f, g : /\ Finished(S, data) = f /\ f = [j \in Jobs |-> f[j]]
                  /\ Recorded(S, data) = g /\ g = [j \in Jobs |-> g[j]]
    <2> DEFINE Left(j) == CASE j \in S \cup Adopted(S, data) -> Blank("done")
                            [] j \in Released(S, data) -> [job[j] EXCEPT !.phase = "queued", !.leader = NoJob]
                            [] OTHER -> job[j]
               Says(j) == CASE j \in Adopted(S, data) -> data[Leader(j)]
                            [] j \in S \ Adopted(S, data) -> data[j]
                            [] OTHER -> result[j]
    <2>1. Finished(S, data) = [j \in Jobs |-> Left(j)] /\ Recorded(S, data) = [j \in Jobs |-> Says(j)]
      BY DEF Finished, Recorded
    <2> HIDE DEF Left, Says
    <2> QED
      BY <2>1
  <1>3. ASSUME NEW j \in S \cup Adopted(S, data)
        PROVE  /\ Finished(S, data)[j] = Blank("done") /\ Recorded(S, data)[j] \in Outcomes
               /\ job[j].phase # "done"
    <2>0. j \in Jobs
      BY <1>1, <1>3 DEF Adopted
    <2>1. Finished(S, data)[j] = Blank("done")
      <3>1. j \notin Released(S, data)
        BY <1>3 DEF Released, Adopted
      <3> QED
        BY <1>3, <2>0, <3>1 DEF Finished
    <2>2. job[j].phase # "done"
      <3>1. CASE j \in S
        BY <3>1
      <3>2. CASE j \in Adopted(S, data)
        BY <1>1, <3>2 DEF Adopted
      <3> QED
        BY <1>3, <3>1, <3>2
    <2>3. Recorded(S, data)[j] \in Outcomes
      <3>1. CASE j \in Adopted(S, data)
        BY <1>1, <2>0, <3>1 DEF Recorded, Adopted
      <3>2. CASE j \notin Adopted(S, data)
        BY <1>1, <1>3, <2>0, <3>2 DEF Recorded
      <3> QED
        BY <3>1, <3>2
    <2> QED
      BY <2>1, <2>2, <2>3
  <1>4. ASSUME NEW j \in Released(S, data)
        PROVE  /\ Finished(S, data)[j] = [job[j] EXCEPT !.phase = "queued", !.leader = NoJob]
               /\ Recorded(S, data)[j] = result[j] /\ job[j].phase = "shared"
    <2>1. j \in Jobs /\ j \notin S \cup Adopted(S, data) /\ job[j].phase = "shared"
      BY <1>1, <1>4 DEF Released, Adopted
    <2> QED
      BY <1>4, <2>1 DEF Finished, Recorded
  <1>5. ASSUME NEW j \in Jobs, j \notin S \cup Adopted(S, data) \cup Released(S, data)
        PROVE  /\ Finished(S, data)[j] = job[j] /\ Recorded(S, data)[j] = result[j]
               /\ job[j].leader # NoJob =>
                    /\ job[j].leader \in Jobs \ (S \cup Adopted(S, data) \cup Released(S, data))
                    /\ job[job[j].leader].phase \notin {"new", "done"}
                    /\ job[job[j].leader].leader = NoJob
    <2>1. Finished(S, data)[j] = job[j] /\ Recorded(S, data)[j] = result[j]
      BY <1>5 DEF Finished, Recorded
    <2>2. ASSUME job[j].leader # NoJob
          PROVE  /\ job[j].leader \in Jobs \ (S \cup Adopted(S, data) \cup Released(S, data))
                 /\ job[job[j].leader].phase \notin {"new", "done"}
                 /\ job[job[j].leader].leader = NoJob
      <3> DEFINE k == job[j].leader
      <3>1. j \in Queued /\ k \in Queued /\ job[k].leader = NoJob
        BY <2>2 DEF Life, LeaderIsQueued, Leader, Queued
      <3>2. k \notin S
        BY <1>5, <3>1 DEF Adopted, Released, Leader
      <3>3. k \notin Adopted(S, data) /\ k \notin Released(S, data)
        BY <1>1, <3>1 DEF Adopted, Released, Leader
      <3> QED
        BY <3>1, <3>2, <3>3 DEF Queued
    <2> QED
      BY <2>1, <2>2
  <1> QED
    BY <1>1, <1>2, <1>3, <1>4, <1>5 DEF Adopted, Released, FinishedAsTold

(* A step that only finishes jobs.                                         *)
LEMMA FinishManyMoves ==
    ASSUME JobType, Life, NEW S \in SUBSET Jobs, NEW data,
           \A j \in S : job[j].phase # "done" /\ data[j] \in Outcomes,
           FinishMany(S, data), runs' = runs
    PROVE  /\ PerJob
           /\ \A j \in Jobs : Moves(j) /\ Quiet(j)
  <1> DEFINE Stay == Jobs \ (S \cup Adopted(S, data) \cup Released(S, data))
  <1>1. job' = Finished(S, data) /\ result' = Recorded(S, data) /\ FinishedAsTold(S, data)
    BY FinishedJobs DEF FinishMany
  <1>2. PerJob
    <2>1. PICK f, g : /\ Finished(S, data) = f /\ f = [j \in Jobs |-> f[j]]
                      /\ Recorded(S, data) = g /\ g = [j \in Jobs |-> g[j]]
      BY <1>1 DEF FinishedAsTold
    <2>2. job' = f /\ result' = g
      BY <1>1, <2>1
    <2>3. job' = [j \in Jobs |-> job'[j]]
      BY <2>1, <2>2, Zenon
    <2>4. result' = [j \in Jobs |-> result'[j]]
      BY <2>1, <2>2, Zenon
    <2> QED
      BY <2>3, <2>4 DEF PerJob
  <1>3. ASSUME NEW j \in S \cup Adopted(S, data)
        PROVE  Closed(j) /\ Quiet(j)
    <2>1. job'[j] = Blank("done") /\ result'[j] \in Outcomes /\ job[j].phase # "done"
      BY <1>1 DEF FinishedAsTold
    <2> QED
      BY <2>1 DEF Closed, Blank, Quiet
  <1>4. ASSUME NEW j \in Released(S, data)
        PROVE  Freed(j) /\ Quiet(j)
    <2>1. /\ job'[j] = [job[j] EXCEPT !.phase = "queued", !.leader = NoJob]
          /\ result'[j] = result[j] /\ job[j].phase = "shared"
      BY <1>1 DEF FinishedAsTold
    <2>2. job[j] \in JobRecord
      BY <1>1 DEF JobType, FinishedAsTold
    <2> QED
      BY <2>1, <2>2 DEF Freed, Changed, Quiet, Elsewhere, JobRecord, Phases
  <1>5. ASSUME NEW j \in Stay
        PROVE  Kept(j) /\ Quiet(j)
    <2>1. job'[j] = job[j] /\ result'[j] = result[j] /\ job[j] \in JobRecord
      BY <1>1 DEF FinishedAsTold, JobType
    <2>2. ASSUME job[j].leader # NoJob
          PROVE  /\ job'[job[j].leader].phase \notin {"new", "done"}
                 /\ job'[job[j].leader].leader = NoJob
      <3>1. /\ job[j].leader \in Stay
            /\ job[job[j].leader].phase \notin {"new", "done"}
            /\ job[job[j].leader].leader = NoJob
        BY <1>1, <2>2 DEF FinishedAsTold
      <3>2. job'[job[j].leader] = job[job[j].leader]
        BY <1>1, <3>1 DEF FinishedAsTold
      <3> QED
        BY <3>1, <3>2
    <2>3. job[j].phase = "running" => job[j].ttl <= job[j].left
      BY DEF Life, LeaseWithinDeadline
    <2> QED
      BY <2>1, <2>2, <2>3 DEF Kept, Changed, Quiet
  <1> QED
    BY <1>2, <1>3, <1>4, <1>5 DEF Moves

LEMMA FinishKeeps ==
    ASSUME IInv, NEW S \in SUBSET Jobs, NEW data,
           \A j \in S : job[j].phase # "done" /\ data[j] \in Outcomes,
           FinishMany(S, data), runs' = runs, created' = created,
           inflight' \subseteq inflight, bgpBusy' \in {bgpBusy, NoJob}
    PROVE  Inner' /\ Settled
  <1>1. PerJob /\ \A j \in Jobs : Moves(j) /\ Quiet(j)
    BY FinishManyMoves DEF IInv
  <1>2. runs' = [j \in Jobs |-> runs'[j]]
    BY DEF IInv, JobType
  <1> QED
    BY <1>1, <1>2, QuietStep

LEMMA FinishOne ==
    ASSUME IInv, NEW j \in Jobs, job[j].phase # "done", NEW outcome \in Outcomes,
           Finish(j, outcome), runs' = runs, created' = created,
           inflight' \subseteq inflight, bgpBusy' \in {bgpBusy, NoJob}
    PROVE  Inner' /\ Settled
  <1> DEFINE data == [k \in {j} |-> outcome]
  <1>1. /\ {j} \in SUBSET Jobs /\ FinishMany({j}, data)
        /\ \A k \in {j} : job[k].phase # "done" /\ data[k] \in Outcomes
    BY DEF Finish
  <1> HIDE DEF data
  <1> QED
    BY <1>1, FinishKeeps

(* A step that moves one job, and that asks nobody outside.                *)
LEMMA OneMoveKeeps ==
    ASSUME IInv, NEW j \in Jobs, job' \in [Jobs -> JobRecord], result' = result,
           \A i \in Jobs \ {j} : job'[i] = job[i],
           runs' = runs \/ runs' = [runs EXCEPT ![j] = @ + 1],
           Moves(j), ~Closed(j), Quiet(j), created' = created,
           inflight' \subseteq inflight, bgpBusy' \in {bgpBusy, NoJob}
    PROVE  Inner' /\ Settled
  <1>1. /\ PerJob /\ runs' = [i \in Jobs |-> runs'[i]]
        /\ \A i \in Jobs : Moves(i) /\ (i # j => Quiet(i))
    BY OneMove
  <1> QED
    BY <1>1, QuietStep

(* A step that leaves the jobs alone, or only sets their timers.           *)
LEMMA TimersMove ==
    ASSUME IInv, job' \in [Jobs -> JobRecord], result' = result, runs' = runs,
           \A j \in Jobs : /\ job'[j].phase = job[j].phase /\ job'[j].tries = job[j].tries
                           /\ job'[j].leader = job[j].leader
                           /\ job'[j].phase = "running" => job'[j].ttl <= job'[j].left
    PROVE  /\ PerJob /\ runs' = [j \in Jobs |-> runs'[j]]
           /\ \A j \in Jobs : Moves(j) /\ Quiet(j)
  <1>1. PerJob /\ runs' = [j \in Jobs |-> runs'[j]]
    BY DEF IInv, JobType, PerJob
  <1>2. ASSUME NEW j \in Jobs PROVE Kept(j) /\ Quiet(j)
    <2>1. ASSUME job[j].leader # NoJob
          PROVE  /\ job'[job[j].leader].phase \notin {"new", "done"}
                 /\ job'[job[j].leader].leader = NoJob
      <3>1. j \in Queued
        BY <2>1 DEF IInv, Life, LeaderIsQueued, Queued
      <3>2. job[j].leader \in Queued /\ job[job[j].leader].leader = NoJob
        BY <2>1, <3>1 DEF IInv, Life, LeaderIsQueued, Leader
      <3> QED
        BY <3>2 DEF Queued
    <2> QED
      BY <2>1 DEF Kept, Changed, Quiet
  <1> QED
    BY <1>1, <1>2 DEF Moves

LEMMA IdleKeeps ==
    ASSUME IInv, job' = job, result' = result, runs' = runs, created' = created,
           inflight' \subseteq inflight, bgpBusy' \in {bgpBusy, NoJob}
    PROVE  Inner' /\ Settled
  <1>1. /\ job' \in [Jobs -> JobRecord]
        /\ \A j \in Jobs : job[j].phase = "running" => job[j].ttl <= job[j].left
    BY DEF IInv, JobType, Life, LeaseWithinDeadline
  <1>2. /\ PerJob /\ runs' = [j \in Jobs |-> runs'[j]]
        /\ \A j \in Jobs : Moves(j) /\ Quiet(j)
    BY <1>1, TimersMove
  <1> QED
    BY <1>2, QuietStep

-----------------------------------------------------------------------------
(* One lemma per action.                                                   *)

LEMMA EnqueueKeeps ==
    ASSUME IInv, NEW j \in Jobs, NEW share \in BOOLEAN, Enqueue(j, share)
    PROVE  IInv' /\ Settled
  <1>1. RestType'
    BY DEF IInv, RestType, Enqueue, workerVars, outsideVars
  <1>2. runs' = runs /\ created' = created /\ inflight' = inflight /\ bgpBusy' = bgpBusy
        /\ job[j].phase = "new"
    BY DEF Enqueue, outsideVars
  <1>3. CASE ~Ready(j)
    <2>1. Finish(j, "missing") /\ "missing" \in Outcomes
      BY <1>3 DEF Enqueue, Outcomes
    <2> QED
      BY <1>1, <1>2, <2>1, FinishOne DEF IInv, Inner
  <1>4. CASE Ready(j)
    <2> DEFINE ldr == IF share THEN CHOOSE k \in Sharable(j) : \A m \in Sharable(j) : m <= k
                      ELSE NoJob
               v == [Blank(IF share THEN "shared" ELSE "queued") EXCEPT !.ttl = QueueTime, !.leader = ldr]
    <2>1. job' = [job EXCEPT ![j] = v] /\ result' = result
      BY <1>4 DEF Enqueue
    <2>2. share => ldr \in Sharable(j)
      <3>1. ASSUME share PROVE \E k \in Sharable(j) : \A m \in Sharable(j) : m <= k
        <4>1. Sharable(j) \in SUBSET Jobs /\ Sharable(j) # {}
          BY <3>1 DEF Enqueue, Sharable, Queued
        <4>2. Sharable(j) \in SUBSET Nat /\ IsFiniteSet(Sharable(j))
          BY <4>1, Timers, LeaseConstants, FS_Subset
        <4> QED
          BY <4>1, <4>2, Extremes
      <3> QED
        BY <3>1
    <2> HIDE DEF ldr
    <2>3. /\ ldr \in Jobs \cup {NoJob}
          /\ ~share => ldr = NoJob
          /\ share => /\ ldr \in Jobs /\ ldr # j
                      /\ job[ldr].phase \notin {"new", "done"} /\ job[ldr].leader = NoJob
      <3>1. CASE share
        BY <1>2, <2>2, <3>1 DEF Sharable, Queued, Leader
      <3>2. CASE ~share
        BY <3>2 DEF ldr
      <3> QED
        BY <3>1, <3>2
    <2>4. /\ v \in JobRecord /\ v.leader = ldr /\ v.tries = 0
          /\ v.phase = (IF share THEN "shared" ELSE "queued")
      <3>1. (IF share THEN "shared" ELSE "queued") \in Phases /\ QueueTime \in 0 .. QueueTime
        BY Timers DEF Phases
      <3>2. v = [Blank(IF share THEN "shared" ELSE "queued") EXCEPT !.ttl = QueueTime, !.leader = ldr]
        OBVIOUS
      <3> DEFINE ph == IF share THEN "shared" ELSE "queued"
             b == Blank(ph)
      <3>3. b \in JobRecord /\ b.phase = ph /\ b.tries = 0
        BY <3>1, BlankType DEF Blank
      <3>4. v = [b EXCEPT !.ttl = QueueTime, !.leader = ldr]
        BY <3>2
      <3> HIDE DEF v, ph, b
      <3>5. v \in JobRecord /\ v.phase = ph /\ v.leader = ldr /\ v.tries = 0
        BY <2>3, <3>1, <3>3, <3>4 DEF JobRecord
      <3> QED
        BY <3>5 DEF ph
    <2> HIDE DEF v
    <2>5. job[j].tries = 0 /\ job'[j] = v /\ (share => job'[ldr] = job[ldr])
      BY <1>2, <2>1, <2>3 DEF IInv, Life, Dispatches, JobType
    <2>6. Changed(j)
      <3>1. job'[j].phase \in {"shared", "queued"}
        BY <2>4, <2>5
      <3> QED
        BY <2>1, <2>4, <2>5, <3>1 DEF Changed
    <2>7. Entered(j)
      <3>1. CASE share
        BY <1>2, <2>3, <2>4, <2>5, <2>6, <3>1 DEF Entered
      <3>2. CASE ~share
        BY <1>2, <2>3, <2>4, <2>5, <2>6, <3>2 DEF Entered
      <3> QED
        BY <3>1, <3>2
    <2>8. Quiet(j) /\ ~Closed(j)
      <3>1. job'[j].phase \in {"shared", "queued"}
        BY <2>4, <2>5
      <3> QED
        BY <1>2, <3>1 DEF Quiet, Elsewhere, Closed, Blank
    <2>9. /\ PerJob /\ runs' = [i \in Jobs |-> runs'[i]]
          /\ \A i \in Jobs : Moves(i) /\ (i # j => Quiet(i))
      <3>1. job' \in [Jobs -> JobRecord] /\ \A i \in Jobs \ {j} : job'[i] = job[i]
        BY <2>1, <2>4 DEF IInv, JobType
      <3> QED
        BY <1>2, <2>1, <2>7, <2>8, <3>1, OneMove DEF Moves
    <2> QED
      BY <1>1, <1>2, <2>8, <2>9, QuietStep DEF IInv, Inner
  <1> QED
    BY <1>3, <1>4

LEMMA CancelKeeps ==
    ASSUME IInv, NEW G \in Groups, Cancel(G)
    PROVE  IInv' /\ Settled
  <1>1. RestType'
    BY DEF IInv, RestType, Cancel, workerVars, outsideVars
  <1>2. /\ G \cap Queued \in SUBSET Jobs
        /\ \A j \in G \cap Queued : job[j].phase # "done" /\ [k \in G |-> "cancelled"][j] \in Outcomes
    BY DEF Queued, Outcomes
  <1>3. Inner' /\ Settled
    BY <1>2, FinishKeeps DEF Cancel, outsideVars
  <1> QED
    BY <1>1, <1>3 DEF IInv, Inner

LEMMA NodeTokenKeeps ==
    ASSUME IInv, NEW w \in Resettable, NEW issue \in BOOLEAN, NodeToken(w, issue)
    PROVE  IInv' /\ Settled
  <1> DEFINE S == {j \in Queued : Exec[j] = w \/ Node[j] = w}
  <1>1. RestType'
    BY LeaseConstants, Timers DEF IInv, RestType, NodeToken, outsideVars
  <1>2. S \in SUBSET Jobs /\ \A j \in S : job[j].phase # "done" /\ [k \in S |-> "cancelled"][j] \in Outcomes
    BY DEF Queued, Outcomes
  <1>3. FinishMany(S, [k \in S |-> "cancelled"])
    BY DEF NodeToken
  <1> HIDE DEF S
  <1>4. Inner' /\ Settled
    BY <1>2, <1>3, FinishKeeps DEF NodeToken, outsideVars
  <1> QED
    BY <1>1, <1>4 DEF IInv, Inner

LEMMA ProbeTokenKeeps ==
    ASSUME IInv, NEW w \in Resettable, NEW issue \in BOOLEAN, ProbeToken(w, issue)
    PROVE  IInv' /\ Settled
  <1> DEFINE S == {j \in Queued : Exec[j] = w}
  <1>1. RestType'
    BY LeaseConstants, Timers DEF IInv, RestType, ProbeToken, outsideVars
  <1>2. S \in SUBSET Jobs /\ \A j \in S : job[j].phase # "done" /\ [k \in S |-> "missing"][j] \in Outcomes
    BY DEF Queued, Outcomes
  <1>3. FinishMany(S, [k \in S |-> "missing"]) \/ (job' = job /\ result' = result)
    BY DEF ProbeToken
  <1> HIDE DEF S
  <1>4. Inner' /\ Settled
    <2>1. CASE FinishMany(S, [k \in S |-> "missing"])
      BY <1>2, <2>1, FinishKeeps DEF ProbeToken, outsideVars
    <2>2. CASE job' = job /\ result' = result
      BY <2>2, IdleKeeps DEF ProbeToken, outsideVars
    <2> QED
      BY <1>3, <2>1, <2>2
  <1> QED
    BY <1>1, <1>4 DEF IInv, Inner

LEMMA ClaimKeeps ==
    ASSUME IInv, NEW w \in Workers, Claim(w) \/ Release(w)
    PROVE  IInv' /\ Settled
  <1>1. RestType'
    <2>1. lease' = [lease EXCEPT ![w] = LeaseTime] \/ lease' = [lease EXCEPT ![w] = 0]
      BY DEF Claim, Release
    <2>2. LeaseTime \in 0 .. LeaseTime /\ 0 \in 0 .. LeaseTime
      BY Timers
    <2>3. lease' \in [Workers -> 0 .. LeaseTime]
      BY <2>1, <2>2 DEF IInv, RestType
    <2> QED
      BY <2>3 DEF IInv, RestType, Claim, Release, outsideVars
  <1>2. Inner' /\ Settled
    BY IdleKeeps DEF Claim, Release, outsideVars
  <1> QED
    BY <1>1, <1>2 DEF IInv, Inner

LEMMA DrainMoreKeeps ==
    ASSUME IInv, NEW m \in reap, DrainMore(m)
    PROVE  IInv' /\ Settled
  <1> DEFINE S == Prefix(reap, m)
             data == [j \in S |-> Overdue(j)]
  <1>1. RestType'
    BY DEF IInv, RestType, DrainMore, Rest, workerVars, outsideVars
  <1>2. S \in SUBSET Jobs /\ \A j \in S : job[j].phase # "done" /\ data[j] \in Outcomes
    BY DEF Prefix, Expired, Queued, Overdue, Outcomes
  <1>3. FinishMany(S, data)
    BY DEF DrainMore
  <1> HIDE DEF S, data
  <1>4. Inner' /\ Settled
    BY <1>2, <1>3, FinishKeeps DEF DrainMore, outsideVars
  <1> QED
    BY <1>1, <1>4 DEF IInv, Inner

(* A job is told to start.                                                 *)
LEMMA DispatchMove ==
    ASSUME IInv, NEW j \in Jobs, job[j].phase \in {"queued", "ready"}, Dispatch(j)
    PROVE  /\ job' \in [Jobs -> JobRecord] /\ result' = result
           /\ \A i \in Jobs \ {j} : job'[i] = job[i]
           /\ runs' = [runs EXCEPT ![j] = @ + 1]
           /\ Moves(j) /\ ~Closed(j) /\ Quiet(j)
  <1>1. /\ job[j] \in JobRecord /\ job \in [Jobs -> JobRecord] /\ runs \in [Jobs -> Nat]
    BY DEF IInv, JobType
  <1>2. job' = [job EXCEPT ![j].phase = "running",
                           ![j].ttl = IF Op[j] = "full" THEN Deadline ELSE RunTime,
                           ![j].left = Deadline]
        /\ result' = result /\ runs' = [runs EXCEPT ![j] = @ + 1]
    BY DEF Dispatch
  <1> DEFINE t == IF Op[j] = "full" THEN Deadline ELSE RunTime
  <1>3. t \in 0 .. QueueTime /\ t <= Deadline /\ Deadline \in 0 .. Deadline /\ "running" \in Phases
    BY Timers DEF Phases
  <1>4. job' = [job EXCEPT ![j].phase = "running", ![j].ttl = t, ![j].left = Deadline]
    BY <1>2
  <1> HIDE DEF t
  <1>5. /\ job' \in [Jobs -> JobRecord] /\ \A i \in Jobs \ {j} : job'[i] = job[i]
        /\ job'[j].phase = "running" /\ job'[j].ttl = t /\ job'[j].left = Deadline
        /\ job'[j].tries = job[j].tries /\ job'[j].leader = job[j].leader
    BY <1>1, <1>3, <1>4 DEF JobRecord
  <1>6. Started(j)
    BY <1>1, <1>2, <1>3, <1>5 DEF Started, Changed
  <1>7. ~Closed(j) /\ Quiet(j)
    BY <1>5 DEF Closed, Blank, Quiet, Elsewhere
  <1> QED
    BY <1>2, <1>5, <1>6, <1>7 DEF Moves

LEMMA PollKeeps ==
    ASSUME IInv, NEW w \in Workers, Poll(w)
    PROVE  IInv' /\ Settled
  <1> DEFINE j == First(Dispatchable(w))
  <1>1. RestType'
    BY DEF IInv, RestType, Poll, workerVars, outsideVars
  <1>2. created' = created /\ inflight' = inflight /\ bgpBusy' = bgpBusy
    BY DEF Poll, outsideVars
  <1>3. j \in Jobs
    <2>1. Dispatchable(w) \in SUBSET Jobs /\ Dispatchable(w) # {}
      BY DEF Poll, Dispatchable
    <2>2. Dispatchable(w) \in SUBSET Nat /\ IsFiniteSet(Dispatchable(w))
      BY <2>1, Timers, LeaseConstants, FS_Subset
    <2>3. \E i \in Dispatchable(w) : \A k \in Dispatchable(w) : i <= k
      BY <2>1, <2>2, Extremes
    <2>4. j \in Dispatchable(w)
      BY <2>3 DEF First
    <2> QED
      BY <2>1, <2>4
  <1>4. \/ CanStart(j, w) /\ Online(w) /\ w \in tools /\ Dispatch(j)
        \/ CanStart(j, w) /\ ~(Online(w) /\ w \in tools) /\ Finish(j, "missing") /\ UNCHANGED runs
        \/ /\ CanListen(j, w)
           /\ IF {w, Exec[j]} \subseteq tools
              THEN /\ job' = [job EXCEPT ![j].phase = "listening", ![j].ttl = RunTime]
                   /\ UNCHANGED result
              ELSE Finish(j, "missing")
           /\ UNCHANGED runs
        \/ CanConnect(j, w) /\ Dispatch(j)
    BY DEF Poll
  <1> HIDE DEF j
  <1>5. CASE (CanStart(j, w) \/ CanConnect(j, w)) /\ Dispatch(j)
    <2>1. job[j].phase \in {"queued", "ready"}
      BY <1>5 DEF CanStart, CanConnect
    <2>2. Inner' /\ Settled
      BY <1>2, <1>3, <1>5, <2>1, DispatchMove, OneMoveKeeps
    <2> QED
      BY <1>1, <2>2 DEF IInv, Inner
  <1>6. CASE (CanStart(j, w) \/ CanListen(j, w)) /\ Finish(j, "missing") /\ UNCHANGED runs
    <2>1. job[j].phase # "done" /\ "missing" \in Outcomes
      BY <1>6 DEF CanStart, CanListen, Outcomes
    <2>2. Inner' /\ Settled
      BY <1>2, <1>3, <1>6, <2>1, FinishOne
    <2> QED
      BY <1>1, <2>2 DEF IInv, Inner
  <1>7. CASE /\ CanListen(j, w) /\ UNCHANGED <<result, runs>>
             /\ job' = [job EXCEPT ![j].phase = "listening", ![j].ttl = RunTime]
    <2>1. job[j].phase = "queued" /\ job \in [Jobs -> JobRecord] /\ runs \in [Jobs -> Nat]
      BY <1>7 DEF CanListen, IInv, JobType
    <2>2. "listening" \in Phases /\ RunTime \in 0 .. QueueTime
      BY Timers DEF Phases
    <2>3. /\ job' \in [Jobs -> JobRecord] /\ \A i \in Jobs \ {j} : job'[i] = job[i]
          /\ job'[j].phase = "listening"
          /\ job'[j].tries = job[j].tries /\ job'[j].leader = job[j].leader
      BY <1>3, <1>7, <2>1, <2>2 DEF JobRecord
    <2>4. Advanced(j)
      BY <1>3, <1>7, <2>1, <2>3 DEF Advanced, Changed, Waiting
    <2>5. ~Closed(j) /\ Quiet(j)
      BY <2>1, <2>3 DEF Closed, Blank, Quiet, Elsewhere
    <2>6. Inner' /\ Settled
      BY <1>2, <1>3, <1>7, <2>3, <2>4, <2>5, OneMoveKeeps DEF Moves
    <2> QED
      BY <1>1, <2>6 DEF IInv, Inner
  <1> QED
    BY <1>4, <1>5, <1>6, <1>7

LEMMA HeartbeatKeeps ==
    ASSUME IInv, NEW w \in Workers, NEW equipped \in BOOLEAN,
           NEW active \in SUBSET Running(w), Heartbeat(w, active, equipped)
    PROVE  IInv' /\ Settled
  <1>1. RestType'
    <2>1. OnlineTime \in 0 .. OnlineTime
      BY Timers
    <2>2. fresh' \in [Workers -> 0 .. OnlineTime]
      BY <2>1 DEF IInv, RestType, Heartbeat
    <2> QED
      BY <2>2 DEF IInv, RestType, Heartbeat, outsideVars
  <1>2. created' = created /\ inflight' = inflight /\ bgpBusy' = bgpBusy /\ runs' = runs
        /\ result' = result
    BY DEF Heartbeat, outsideVars
  <1>3. ASSUME NEW j \in Jobs
        PROVE  /\ job'[j] \in JobRecord
               /\ job'[j].phase = job[j].phase /\ job'[j].tries = job[j].tries
               /\ job'[j].leader = job[j].leader
               /\ job'[j].phase = "running" => job'[j].ttl <= job'[j].left
    <2>1. job[j] \in JobRecord /\ (job[j].phase = "running" => job[j].ttl <= job[j].left)
      BY DEF IInv, JobType, Life, LeaseWithinDeadline
    <2>2. job'[j] = job[j] \/ job'[j] = [job[j] EXCEPT !.ttl = Renewed(j)]
      BY DEF Heartbeat
    <2>3. Renewed(j) \in 0 .. QueueTime /\ Renewed(j) <= job[j].left
      <3>1. job[j].left \in Nat /\ RenewTime \in Nat /\ QueueTime \in Nat /\ RenewTime <= QueueTime
        BY <2>1, Timers DEF JobRecord
      <3> QED
        BY <3>1 DEF Renewed, Least
    <2> QED
      BY <2>1, <2>2, <2>3 DEF JobRecord
  <1>4. job' \in [Jobs -> JobRecord]
    BY <1>3 DEF Heartbeat
  <1>5. Inner' /\ Settled
    <2>1. /\ PerJob /\ runs' = [j \in Jobs |-> runs'[j]]
          /\ \A j \in Jobs : Moves(j) /\ Quiet(j)
      BY <1>2, <1>3, <1>4, TimersMove
    <2> QED
      BY <1>2, <2>1, QuietStep
  <1> QED
    BY <1>1, <1>5 DEF IInv, Inner

LEMMA ListenResultKeeps ==
    ASSUME IInv, NEW w \in Workers, NEW j \in Jobs, NEW up \in BOOLEAN, ListenResult(w, j, up)
    PROVE  IInv' /\ Settled
  <1>1. RestType'
    BY DEF IInv, RestType, ListenResult, workerVars, outsideVars
  <1>2. created' = created /\ inflight' = inflight /\ bgpBusy' = bgpBusy /\ runs' = runs
        /\ job[j].phase = "listening"
    BY DEF ListenResult, outsideVars
  <1>3. CASE up
    <2>1. job' = [job EXCEPT ![j].phase = "ready"] /\ result' = result
      BY <1>3 DEF ListenResult
    <2>2. job \in [Jobs -> JobRecord] /\ "ready" \in Phases
      BY DEF IInv, JobType, Phases
    <2>3. /\ job' \in [Jobs -> JobRecord] /\ \A i \in Jobs \ {j} : job'[i] = job[i]
          /\ job'[j].phase = "ready"
          /\ job'[j].tries = job[j].tries /\ job'[j].leader = job[j].leader
      BY <2>1, <2>2 DEF JobRecord
    <2>4. Advanced(j)
      BY <1>2, <2>1, <2>3 DEF Advanced, Changed, Waiting
    <2>5. ~Closed(j) /\ Quiet(j)
      BY <1>2, <2>3 DEF Closed, Blank, Quiet, Elsewhere
    <2>6. Inner' /\ Settled
      BY <1>2, <2>1, <2>3, <2>4, <2>5, OneMoveKeeps DEF Moves
    <2> QED
      BY <1>1, <2>6 DEF IInv, Inner
  <1>4. CASE ~up
    <2>1. Finish(j, "failed") /\ "failed" \in Outcomes
      BY <1>4 DEF ListenResult, Outcomes
    <2>2. Inner' /\ Settled
      BY <1>2, <2>1, FinishOne
    <2> QED
      BY <1>1, <2>2 DEF IInv, Inner
  <1> QED
    BY <1>3, <1>4

LEMMA ResultKeeps ==
    ASSUME IInv, NEW w \in Workers, NEW j \in Jobs,
           NEW outcome \in {"ok", "failed", "busy", "limited"}, Result(w, j, outcome)
    PROVE  IInv' /\ Settled
  <1> DEFINE wait == Backoff * (job[j].tries + 1)
             repeat == outcome \in {"busy", "limited"}
  <1>1. /\ created' = created /\ inflight' = inflight /\ bgpBusy' = bgpBusy /\ runs' = runs
        /\ job[j].phase = "running" /\ (repeat => Repeatable(j))
    BY DEF Result, outsideVars, Repeatable
  <1>2. /\ job \in [Jobs -> JobRecord] /\ job[j] \in JobRecord /\ job[j].tries \in 0 .. MaxTries
        /\ MaxTries \in Nat
    BY Timers DEF IInv, JobType, JobRecord
  <1>3. wait \in 0 .. Backoff * (MaxTries + 1) /\ wait \in Nat
    <2>1. wait \in 0 .. Backoff * (MaxTries + 1)
      BY <1>2, Waits
    <2> QED
      BY <2>1
  <1>4. \/ /\ repeat /\ Retriable(j)
           /\ job' = [job EXCEPT ![j] =
                    [job[j] EXCEPT !.phase = "queued", !.ttl = QueueTime, !.left = 0,
                                   !.wait = wait, !.tries = job[j].tries + 1]]
           /\ cool' = IF Op[j] = "public-speed"
                      THEN Most(cool, IF outcome = "limited" THEN wait ELSE 1) ELSE cool
           /\ result' = result
        \/ /\ Finish(j, IF repeat THEN "failed" ELSE outcome)
           /\ cool' = IF Op[j] = "public-speed" THEN Most(cool, 1) ELSE cool
    BY DEF Result
  <1> HIDE DEF wait
  <1>5. RestType'
    <2>1. cool' \in Nat
      BY <1>3, <1>4 DEF Most, IInv, RestType
    <2> QED
      BY <2>1 DEF IInv, RestType, Result, workerVars, outsideVars
  <1>6. CASE /\ repeat /\ Retriable(j) /\ result' = result
             /\ job' = [job EXCEPT ![j] =
                    [job[j] EXCEPT !.phase = "queued", !.ttl = QueueTime, !.left = 0,
                                   !.wait = wait, !.tries = job[j].tries + 1]]
    <2>1. /\ job[j].tries + 1 \in 0 .. MaxTries /\ "queued" \in Phases
          /\ QueueTime \in 0 .. QueueTime /\ 0 \in 0 .. Deadline
      BY <1>2, <1>6, Timers DEF Retriable, Phases
    <2>2. /\ job' \in [Jobs -> JobRecord] /\ \A i \in Jobs \ {j} : job'[i] = job[i]
          /\ job'[j].phase = "queued"
          /\ job'[j].tries = job[j].tries + 1 /\ job'[j].leader = job[j].leader
      <3> DEFINE q == job[j]
                 n == job[j].tries + 1
                 r == [q EXCEPT !.phase = "queued", !.ttl = QueueTime, !.left = 0,
                                !.wait = wait, !.tries = n]
      <3>1. job' = [job EXCEPT ![j] = r]
        BY <1>6
      <3>2. q \in JobRecord /\ n \in 0 .. MaxTries
        BY <1>2, <2>1
      <3> HIDE DEF q, n
      <3>3. r \in JobRecord /\ r.phase = "queued" /\ r.tries = n /\ r.leader = q.leader
        BY <1>3, <2>1, <3>2 DEF JobRecord
      <3> HIDE DEF r
      <3>4. job'[j] = r /\ job' \in [Jobs -> JobRecord] /\ \A i \in Jobs \ {j} : job'[i] = job[i]
        BY <1>2, <3>1, <3>3
      <3> QED
        BY <3>3, <3>4 DEF q, n
    <2>3. Retried(j)
      BY <1>1, <1>6, <2>2 DEF Retried, Changed
    <2>4. ~Closed(j) /\ Quiet(j)
      BY <1>1, <2>2 DEF Closed, Blank, Quiet, Elsewhere
    <2>5. Inner' /\ Settled
      BY <1>1, <1>6, <2>2, <2>3, <2>4, OneMoveKeeps DEF Moves
    <2> QED
      BY <1>5, <2>5 DEF IInv, Inner
  <1>7. CASE Finish(j, IF repeat THEN "failed" ELSE outcome)
    <2> DEFINE o == IF repeat THEN "failed" ELSE outcome
    <2>1. o \in Outcomes /\ Finish(j, o)
      BY <1>7 DEF Outcomes
    <2> HIDE DEF o
    <2>2. Inner' /\ Settled
      BY <1>1, <2>1, FinishOne
    <2> QED
      BY <1>5, <2>2 DEF IInv, Inner
  <1> QED
    BY <1>4, <1>6, <1>7

LEMMA LateFullKeeps ==
    ASSUME IInv, NEW w \in Workers, NEW j \in Jobs, LateFull(w, j)
    PROVE  IInv' /\ Settled
  <1>1. RestType'
    BY DEF IInv, RestType, LateFull, workerVars, outsideVars
  <1>2. /\ job' = job /\ runs' = runs /\ created' = created /\ inflight' = inflight
        /\ bgpBusy' = bgpBusy /\ result' = [result EXCEPT ![j] = "late"]
        /\ job[j].phase = "done" /\ result[j] = "expired" /\ Op[j] = "full"
        /\ result \in [Jobs -> Outcomes \cup {"none"}]
    BY DEF LateFull, outsideVars, IInv, JobType
  <1>3. JobType'
    BY <1>2 DEF IInv, JobType, Outcomes
  <1>4. Life'
    <2>1. LeaderIsQueued' /\ LeaseWithinDeadline' /\ Dispatches'
      BY <1>2 DEF IInv, Life, LeaderIsQueued, LeaseWithinDeadline, Dispatches, Queued, Leader, Repeatable
    <2>2. Final'
      BY <1>2 DEF IInv, Life, Final
    <2> QED
      BY <2>1, <2>2 DEF Life
  <1>5. Requests' /\ Submissions'
    BY <1>2 DEF IInv, Requests, Submissions
  <1>6. Settled
    BY <1>2 DEF Settled
  <1> QED
    BY <1>1, <1>3, <1>4, <1>5, <1>6 DEF IInv

LEMMA PassKeeps ==
    ASSUME IInv, Pass
    PROVE  IInv' /\ Settled
  <1>1. \A n \in Nat : \A t \in 0 .. n : Down(t) \in 0 .. n
    BY DEF Down
  <1>2. \A a, b \in Nat : a <= b => Down(a) <= Down(b)
    BY DEF Down
  <1>3. OnlineTime \in Nat /\ LeaseTime \in Nat /\ QueueTime \in Nat /\ Deadline \in Nat
        /\ Backoff * (MaxTries + 1) \in Nat
    BY Timers, Waits
  <1>4. RestType'
    <2>1. fresh' \in [Workers -> 0 .. OnlineTime] /\ lease' \in [Workers -> 0 .. LeaseTime]
      BY <1>1, <1>3 DEF IInv, RestType, Pass
    <2>2. cool' \in Nat
      <3>1. cool \in Nat /\ cool' = Down(cool)
        BY DEF IInv, RestType, Pass
      <3> QED
        BY <3>1 DEF Down
    <2>3. provider' \in [used : 0 .. Quota, blocked : 0 .. LeaseTime]
      <3>1. /\ provider \in [used : 0 .. Quota, blocked : 0 .. LeaseTime]
            /\ provider' = [provider EXCEPT !.blocked = Down(provider.blocked)]
        BY DEF IInv, RestType, Pass
      <3>2. Down(provider.blocked) \in 0 .. LeaseTime
        BY <1>1, <1>3, <3>1
      <3> QED
        BY <3>1, <3>2
    <2> QED
      BY <2>1, <2>2, <2>3 DEF IInv, RestType, Pass
  <1>5. created' = created /\ inflight' = inflight /\ bgpBusy' = bgpBusy /\ runs' = runs
        /\ result' = result
    BY DEF Pass
  <1>6. ASSUME NEW j \in Jobs
        PROVE  /\ job'[j] \in JobRecord
               /\ job'[j].phase = job[j].phase /\ job'[j].tries = job[j].tries
               /\ job'[j].leader = job[j].leader
               /\ job'[j].phase = "running" => job'[j].ttl <= job'[j].left
    <2>1. /\ job[j] \in JobRecord /\ (job[j].phase = "running" => job[j].ttl <= job[j].left)
          /\ job[j].ttl \in 0 .. QueueTime /\ job[j].left \in 0 .. Deadline
          /\ job[j].wait \in 0 .. Backoff * (MaxTries + 1)
      BY DEF IInv, JobType, Life, LeaseWithinDeadline, JobRecord
    <2> DEFINE t == Down(job[j].ttl)
               l == Down(job[j].left)
               a == Down(job[j].wait)
    <2>2. t \in 0 .. QueueTime /\ l \in 0 .. Deadline /\ a \in 0 .. Backoff * (MaxTries + 1)
      BY <1>1, <1>3, <2>1
    <2>3. job[j].phase = "running" => t <= l
      <3>1. job[j].ttl \in Nat /\ job[j].left \in Nat
        BY <2>1
      <3> QED
        BY <1>2, <2>1, <3>1
    <2>4. job'[j] = [job[j] EXCEPT !.ttl = t, !.left = l, !.wait = a]
      BY DEF Pass
    <2> HIDE DEF t, l, a
    <2> QED
      BY <2>1, <2>2, <2>3, <2>4 DEF JobRecord
  <1>7. job' \in [Jobs -> JobRecord]
    BY <1>6 DEF Pass
  <1>8. Inner' /\ Settled
    <2>1. /\ PerJob /\ runs' = [j \in Jobs |-> runs'[j]]
          /\ \A j \in Jobs : Moves(j) /\ Quiet(j)
      BY <1>5, <1>6, <1>7, TimersMove
    <2> QED
      BY <1>5, <2>1, QuietStep
  <1> QED
    BY <1>4, <1>8 DEF IInv, Inner

(* Jobs whose measurements are being created have none yet, and are in the *)
(* phase that tells or ended.                                              *)
LEMMA CreatingJobs ==
    ASSUME IInv, NEW j \in Creating
    PROVE  j \in Jobs /\ created[j] = 0 /\ job[j].phase \in {"submitting", "done"}
  <1>1. PICK r \in inflight : r.create /\ r.id = j
    BY DEF Creating
  <1>2. j \in Jobs
    BY <1>1 DEF IInv, JobType
  <1>3. created[j] = 0
    BY <1>1 DEF IInv, Submissions
  <1>4. job[j].phase \in {"submitting", "done"}
    BY <1>1 DEF IInv, Requests
  <1> QED
    BY <1>2, <1>3, <1>4

LEMMA RestartKeeps ==
    ASSUME IInv, NEW S \in SUBSET Renewable, NEW n \in 0 .. RunTime,
           NEW some \in SUBSET Creating, Restart(S, n, some)
    PROVE  IInv' /\ Settled
  <1>1. RestType'
    <2>1. restarts' \in 0 .. MaxRestarts
      <3>1. MaxRestarts \in Nat /\ restarts \in 0 .. MaxRestarts
        BY LeaseConstants DEF IInv, RestType
      <3> QED
        BY <3>1 DEF Restart
    <2> QED
      BY <2>1 DEF IInv, RestType, Restart, workerVars
  <1>2. /\ inflight' = {} /\ bgpBusy' = NoJob /\ runs' = runs /\ result' = result
        /\ job' = [j \in Jobs |-> IF j \in S
                                  THEN [job[j] EXCEPT !.ttl = Least(n, job[j].left)] ELSE job[j]]
        /\ created' = [j \in Jobs |-> created[j] + IF j \in some THEN 1 ELSE 0]
    BY DEF Restart
  <1>3. ASSUME NEW j \in Jobs
        PROVE  /\ job'[j] \in JobRecord
               /\ job'[j].phase = job[j].phase /\ job'[j].tries = job[j].tries
               /\ job'[j].leader = job[j].leader
               /\ job'[j].phase = "running" => job'[j].ttl <= job'[j].left
    <2>1. /\ job[j] \in JobRecord /\ (job[j].phase = "running" => job[j].ttl <= job[j].left)
          /\ job[j].left \in Nat
      BY Timers DEF IInv, JobType, Life, LeaseWithinDeadline, JobRecord
    <2>2. Least(n, job[j].left) \in 0 .. QueueTime /\ Least(n, job[j].left) <= job[j].left
      <3>1. RunTime \in Nat /\ QueueTime \in Nat /\ RunTime <= QueueTime
        BY Timers
      <3> QED
        BY <2>1, <3>1 DEF Least
    <2>3. job'[j] = job[j] \/ job'[j] = [job[j] EXCEPT !.ttl = Least(n, job[j].left)]
      BY <1>2
    <2> QED
      BY <2>1, <2>2, <2>3 DEF JobRecord
  <1>4. job' \in [Jobs -> JobRecord]
    BY <1>2, <1>3
  <1>5. /\ Life' /\ result' \in [Jobs -> Outcomes \cup {"none"}] /\ runs' \in [Jobs -> Nat]
    <2>1. /\ PerJob /\ runs' = [j \in Jobs |-> runs'[j]]
          /\ \A j \in Jobs : Moves(j) /\ Quiet(j)
      BY <1>2, <1>3, <1>4, TimersMove
    <2> QED
      BY <2>1, LifeGoesOn DEF IInv
  <1>6. ASSUME NEW j \in Jobs
        PROVE  /\ created'[j] \in Nat /\ created'[j] <= 1
               /\ job[j].phase \notin {"submitting", "provider", "done"} => created'[j] = 0
    <2>1. /\ created[j] \in Nat /\ created[j] <= 1
          /\ job[j].phase \notin {"submitting", "provider", "done"} => created[j] = 0
      BY DEF IInv, JobType, Submissions
    <2>2. CASE j \in some
      <3>1. created[j] = 0 /\ job[j].phase \in {"submitting", "done"}
        BY <2>2, CreatingJobs
      <3>2. created'[j] = created[j] + 1
        BY <1>2, <2>2
      <3> QED
        BY <3>1, <3>2
    <2>3. CASE j \notin some
      <3>1. created'[j] = created[j] + 0
        BY <1>2, <2>3
      <3> QED
        BY <2>1, <3>1
    <2> QED
      BY <2>2, <2>3
  <1>7. JobType'
    <2>1. created' \in [Jobs -> Nat]
      BY <1>2, <1>6
    <2> QED
      BY <1>2, <1>4, <1>5, <2>1 DEF JobType
  <1>8. Requests' /\ Submissions'
    BY <1>2, <1>3, <1>6 DEF Requests, Submissions
  <1>9. Settled
    BY <1>2 DEF Settled
  <1> QED
    BY <1>1, <1>5, <1>7, <1>8, <1>9 DEF IInv

LEMMA BgpStartKeeps ==
    ASSUME IInv, BgpStart
    PROVE  IInv' /\ Settled
  <1> DEFINE C == {j \in Queued : Op[j] = "bgp" /\ job[j].phase \in {"queued", "bgp-running"}}
             j == First(C)
  <1>1. /\ C # {} /\ bgpBusy' = j /\ bgpBusy = NoJob /\ inflight = {} /\ inflight' = {}
        /\ job' = [job EXCEPT ![j].phase = "bgp-running", ![j].ttl = RunTime]
        /\ result' = result /\ runs' = runs /\ created' = created
    BY DEF BgpStart
  <1>2. RestType'
    BY DEF IInv, RestType, BgpStart, workerVars
  <1>3. j \in Jobs /\ job[j].phase \in {"queued", "bgp-running"}
    <2>1. C \in SUBSET Jobs
      BY DEF Queued
    <2>2. C \in SUBSET Nat /\ IsFiniteSet(C)
      BY <2>1, Timers, LeaseConstants, FS_Subset
    <2>3. \E i \in C : \A k \in C : i <= k
      BY <1>1, <2>2, Extremes
    <2>4. j \in C
      BY <2>3 DEF First
    <2> QED
      BY <2>1, <2>4
  <1> HIDE DEF j, C
  <1>4. /\ job' \in [Jobs -> JobRecord] /\ \A i \in Jobs \ {j} : job'[i] = job[i]
        /\ job'[j].phase = "bgp-running"
        /\ job'[j].tries = job[j].tries /\ job'[j].leader = job[j].leader
    <2>1. job \in [Jobs -> JobRecord] /\ "bgp-running" \in Phases /\ RunTime \in 0 .. QueueTime
      BY Timers DEF IInv, JobType, Phases
    <2> QED
      BY <1>1, <1>3, <2>1 DEF JobRecord
  <1>5. Advanced(j)
    <2>1. runs \in [Jobs -> Nat]
      BY DEF IInv, JobType
    <2> QED
      BY <1>1, <1>3, <1>4, <2>1 DEF Advanced, Changed, Waiting
  <1>6. ~Closed(j)
    BY <1>4 DEF Closed, Blank
  <1>7. /\ PerJob /\ runs' = [i \in Jobs |-> runs'[i]]
        /\ \A i \in Jobs : Moves(i)
    BY <1>1, <1>3, <1>4, <1>5, <1>6, OneMove DEF Moves
  <1>8. Life' /\ JobType'
    <2>1. Life' /\ result' \in [Jobs -> Outcomes \cup {"none"}] /\ runs' \in [Jobs -> Nat]
      BY <1>7, LifeGoesOn DEF IInv
    <2> QED
      BY <1>1, <1>3, <1>4, <2>1 DEF IInv, JobType
  <1>9. Requests'
    BY <1>1, <1>4 DEF Requests
  <1>10. Submissions'
    <2>1. ASSUME NEW i \in Jobs, job'[i].phase \notin {"submitting", "provider", "done"}
          PROVE  created[i] = 0
      BY <1>3, <1>4, <2>1 DEF IInv, Submissions
    <2> QED
      BY <1>1, <2>1 DEF IInv, Submissions
  <1>11. Settled
    BY <1>1 DEF Settled
  <1> QED
    BY <1>2, <1>8, <1>9, <1>10, <1>11 DEF IInv

LEMMA BgpEndKeeps ==
    ASSUME IInv, NEW outcome \in {"ok", "failed"}, BgpEnd(outcome)
    PROVE  IInv' /\ Settled
  <1>1. RestType'
    BY DEF IInv, RestType, BgpEnd, workerVars
  <1>2. /\ bgpBusy \in Jobs /\ bgpBusy' = NoJob /\ inflight' = inflight /\ created' = created
        /\ runs' = runs /\ outcome \in Outcomes
    BY DEF BgpEnd, IInv, JobType, Outcomes
  <1>3. CASE Gone(bgpBusy)
    <2>1. job' = job /\ result' = result
      BY <1>3 DEF BgpEnd
    <2>2. Inner' /\ Settled
      BY <1>2, <2>1, IdleKeeps
    <2> QED
      BY <1>1, <2>2 DEF IInv, Inner
  <1>4. CASE ~Gone(bgpBusy)
    <2>1. Finish(bgpBusy, outcome) /\ job[bgpBusy].phase # "done"
      BY <1>4 DEF BgpEnd, Gone, Queued
    <2>2. Inner' /\ Settled
      BY <1>2, <2>1, FinishOne
    <2> QED
      BY <1>1, <2>2 DEF IInv, Inner
  <1> QED
    BY <1>3, <1>4

LEMMA PollReplyKeeps ==
    ASSUME IInv, NEW r \in inflight, NEW answer \in {"finished", "limited", "pending"},
           PollReply(r, answer)
    PROVE  IInv' /\ Settled
  <1>1. /\ r.id \in Jobs /\ inflight' \subseteq inflight /\ bgpBusy' = bgpBusy
        /\ created' = created /\ runs' = runs
    BY DEF PollReply, IInv, JobType
  <1>2. \/ ~Gone(r.id) /\ Finish(r.id, "ok") /\ UNCHANGED provider
        \/ /\ job' = job /\ result' = result
           /\ provider' = [provider EXCEPT !.blocked = LeaseTime] \/ provider' = provider
    BY DEF PollReply
  <1>3. RestType'
    <2>1. provider' \in [used : 0 .. Quota, blocked : 0 .. LeaseTime]
      BY <1>2, Timers DEF IInv, RestType
    <2> QED
      BY <2>1 DEF IInv, RestType, PollReply, workerVars
  <1>4. CASE ~Gone(r.id) /\ Finish(r.id, "ok")
    <2>1. job[r.id].phase # "done" /\ "ok" \in Outcomes
      BY <1>4 DEF Gone, Queued, Outcomes
    <2>2. Inner' /\ Settled
      BY <1>1, <1>4, <2>1, FinishOne
    <2> QED
      BY <1>3, <2>2 DEF IInv, Inner
  <1>5. CASE job' = job /\ result' = result
    <2>1. Inner' /\ Settled
      BY <1>1, <1>5, IdleKeeps
    <2> QED
      BY <1>3, <2>1 DEF IInv, Inner
  <1> QED
    BY <1>2, <1>4, <1>5

(* A request to create is the only one for its job.                        *)
LEMMA OneRequest ==
    ASSUME IInv, NEW r \in inflight, r.create, NEW q \in inflight, q # r, q.id = r.id
    PROVE  ~q.create
  <1>1. r = [id |-> r.id, create |-> r.create] /\ q = [id |-> q.id, create |-> q.create]
        /\ r.create = TRUE /\ q.create \in BOOLEAN
    BY DEF IInv, JobType
  <1>2. SUFFICES ASSUME q.create PROVE FALSE
    OBVIOUS
  <1>3. q.create = TRUE
    BY <1>1, <1>2
  <1> QED
    BY <1>1, <1>3

LEMMA CreateReplyKeeps ==
    ASSUME IInv, NEW r \in inflight, NEW answer \in {"accepted", "limited", "failed", "missing"},
           CreateReply(r, answer)
    PROVE  IInv' /\ Settled
  <1> DEFINE j == r.id
  <1>1. /\ r.create /\ inflight' = inflight \ {r} /\ bgpBusy' = bgpBusy /\ runs' = runs
        /\ j \in Jobs /\ created[j] = 0 /\ job[j].phase \in {"submitting", "done"}
    <2>1. r.create
      BY DEF CreateReply
    <2>2. j \in Creating
      BY <2>1 DEF Creating
    <2> QED
      BY <2>1, <2>2, CreatingJobs DEF CreateReply
  <1>2. \/ Gone(j) /\ UNCHANGED <<job, result, provider>>
        \/ /\ answer = "accepted" /\ ~Gone(j) /\ UNCHANGED <<result, provider>>
           /\ job' = [job EXCEPT ![j].phase = "provider", ![j].ttl = RunTime]
        \/ /\ answer = "limited" /\ ~Gone(j) /\ UNCHANGED result
           /\ job' = [job EXCEPT ![j].phase = "queued"]
           /\ provider' = [provider EXCEPT !.blocked = LeaseTime]
        \/ /\ answer \in {"failed", "missing"} /\ ~Gone(j)
           /\ Finish(j, answer) /\ UNCHANGED provider
    BY DEF CreateReply
  <1>3. created' = [created EXCEPT ![j] = IF answer = "accepted" THEN 1 ELSE 0]
        /\ created' \in [Jobs -> Nat]
    <2>1. created \in [Jobs -> Nat]
          /\ created' = IF answer = "accepted" THEN [created EXCEPT ![j] = created[j] + 1] ELSE created
      BY DEF CreateReply, IInv, JobType
    <2> HIDE DEF j
    <2>2. CASE answer = "accepted"
      BY <1>1, <2>1, <2>2
    <2>3. CASE answer # "accepted"
      BY <1>1, <2>1, <2>3
    <2> QED
      BY <2>2, <2>3
  <1>4. RestType'
    <2>1. provider' \in [used : 0 .. Quota, blocked : 0 .. LeaseTime]
      BY <1>2, Timers DEF IInv, RestType
    <2> QED
      BY <2>1 DEF IInv, RestType, CreateReply, workerVars
  <1>5. ASSUME NEW q \in inflight' PROVE q \in inflight /\ (q.id = j => ~q.create)
    BY <1>1, <1>5, OneRequest
  <1>6. /\ \A i \in Jobs : created'[i] <= 1 /\ (i # j => created'[i] = created[i])
        /\ \A q \in inflight' : q.create => created'[q.id] = 0
    <2>1. ASSUME NEW i \in Jobs PROVE created'[i] <= 1 /\ (i # j => created'[i] = created[i])
      BY <1>1, <1>3 DEF IInv, JobType, Submissions
    <2>2. ASSUME NEW q \in inflight', q.create PROVE created'[q.id] = 0
      <3>1. q.id # j /\ q.id \in Jobs /\ created[q.id] = 0
        BY <1>5, <2>2 DEF IInv, JobType, Submissions
      <3> QED
        BY <2>1, <3>1
    <2> QED
      BY <2>1, <2>2
  <1> HIDE DEF j
  <1>7. CASE Gone(j) /\ UNCHANGED <<job, result, provider>>
    <2>1. job[j].phase = "done"
      BY <1>1, <1>7 DEF Gone, Queued
    <2>2. JobType'
      BY <1>1, <1>3, <1>7 DEF IInv, JobType
    <2>3. Life'
      BY <1>1, <1>7 DEF IInv, Life, LeaderIsQueued, LeaseWithinDeadline, Final, Dispatches,
                        Queued, Leader, Repeatable
    <2>4. Requests'
      BY <1>1, <1>7 DEF IInv, Requests
    <2>5. Submissions'
      BY <1>6, <1>7, <2>1 DEF IInv, Submissions
    <2>6. Settled
      BY <1>7 DEF Settled
    <2> QED
      BY <1>4, <2>2, <2>3, <2>4, <2>5, <2>6 DEF IInv
  <1>8. ASSUME NEW next \in {"provider", "queued"}, NEW t \in 0 .. QueueTime,
               ~Gone(j), result' = result, next = "provider" \/ created' = created,
               job' = [job EXCEPT ![j].phase = next, ![j].ttl = t]
        PROVE  Inner' /\ Settled
    <2>1. job[j].phase = "submitting"
      BY <1>1, <1>8 DEF Gone, Queued
    <2>2. /\ job' \in [Jobs -> JobRecord] /\ \A i \in Jobs \ {j} : job'[i] = job[i]
          /\ job'[j].phase = next
          /\ job'[j].tries = job[j].tries /\ job'[j].leader = job[j].leader
      <3> DEFINE q == [job[j] EXCEPT !.phase = next, !.ttl = t]
      <3>1. job \in [Jobs -> JobRecord] /\ next \in Phases /\ job[j] \in JobRecord
        BY <1>1 DEF IInv, JobType, Phases
      <3>2. /\ q \in JobRecord /\ q.phase = next
            /\ q.tries = job[j].tries /\ q.leader = job[j].leader
        BY <3>1 DEF JobRecord
      <3>3. job' = [job EXCEPT ![j] = q]
        BY <1>8
      <3> HIDE DEF q
      <3> QED
        BY <1>1, <3>1, <3>2, <3>3
    <2>3. Advanced(j)
      BY <1>1, <1>8, <2>1, <2>2 DEF Advanced, Changed, Waiting
    <2>4. ~Closed(j)
      BY <2>2 DEF Closed, Blank
    <2>5. /\ PerJob /\ runs' = [i \in Jobs |-> runs'[i]] /\ \A i \in Jobs : Moves(i)
      BY <1>1, <1>8, <2>2, <2>3, <2>4, OneMove DEF Moves
    <2>6. /\ Life' /\ result' \in [Jobs -> Outcomes \cup {"none"}] /\ runs' \in [Jobs -> Nat]
      BY <2>5, LifeGoesOn DEF IInv
    <2>7. JobType'
      BY <1>1, <1>3, <2>2, <2>6 DEF IInv, JobType
    <2>8. Requests'
      <3>1. ASSUME NEW q \in inflight'
            PROVE  job'[q.id].phase \in {"done", IF q.create THEN "submitting" ELSE "provider"}
        <4>1. q.id \in Jobs /\ job[q.id].phase \in {"done", IF q.create THEN "submitting" ELSE "provider"}
          BY <1>5 DEF IInv, JobType, Requests
        <4>2. q.id # j
          BY <1>5, <2>1, <4>1
        <4> QED
          BY <2>2, <4>1, <4>2
      <3>2. ASSUME bgpBusy' # NoJob PROVE job'[bgpBusy'].phase \in {"done", "bgp-running"}
        <4>1. bgpBusy \in Jobs /\ job[bgpBusy].phase \in {"done", "bgp-running"} /\ bgpBusy' = bgpBusy
          BY <1>1, <3>2 DEF IInv, JobType, Requests
        <4> QED
          BY <2>1, <2>2, <4>1
      <3> QED
        BY <3>1, <3>2 DEF Requests
    <2>9. Submissions'
      <3>1. ASSUME NEW i \in Jobs, job'[i].phase \notin {"submitting", "provider", "done"}
            PROVE  created'[i] = 0
        <4>1. CASE i = j
          BY <1>1, <1>8, <2>2, <3>1, <4>1
        <4>2. CASE i # j
          BY <1>6, <2>2, <3>1, <4>2 DEF IInv, Submissions
        <4> QED
          BY <4>1, <4>2
      <3> QED
        BY <1>6, <3>1 DEF Submissions
    <2>10. Settled
      BY <1>8 DEF Settled
    <2> QED
      BY <2>6, <2>7, <2>8, <2>9, <2>10 DEF Inner
  <1>9. CASE /\ answer = "accepted" /\ ~Gone(j) /\ UNCHANGED <<result, provider>>
             /\ job' = [job EXCEPT ![j].phase = "provider", ![j].ttl = RunTime]
    <2>1. RunTime \in 0 .. QueueTime
      BY Timers
    <2>2. Inner' /\ Settled
      BY <1>8, <1>9, <2>1
    <2> QED
      BY <1>4, <2>2 DEF IInv, Inner
  <1>10. CASE /\ answer = "limited" /\ ~Gone(j) /\ UNCHANGED result
              /\ job' = [job EXCEPT ![j].phase = "queued"]
    <2> DEFINE t == job[j].ttl
    <2>1. t \in 0 .. QueueTime /\ job' = [job EXCEPT ![j].phase = "queued", ![j].ttl = t]
      BY <1>1, <1>10 DEF IInv, JobType, JobRecord
    <2>2. created' = created
      BY <1>1, <1>3, <1>10 DEF IInv, JobType
    <2> HIDE DEF t
    <2>3. Inner' /\ Settled
      BY <1>8, <1>10, <2>1, <2>2
    <2> QED
      BY <1>4, <2>3 DEF IInv, Inner
  <1>11. CASE answer \in {"failed", "missing"} /\ ~Gone(j) /\ Finish(j, answer)
    <2>1. created' = created /\ answer \in Outcomes /\ job[j].phase # "done"
      BY <1>1, <1>3, <1>11 DEF IInv, JobType, Outcomes, Gone, Queued
    <2>2. Inner' /\ Settled
      BY <1>1, <1>11, <2>1, FinishOne
    <2> QED
      BY <1>4, <2>2 DEF IInv, Inner
  <1> QED
    BY <1>2, <1>7, <1>9, <1>10, <1>11

(* Requests that are counted in the order of the queue, each against those *)
(* before it, do not exceed the quota together.                            *)
LEMMA QuotaKept ==
    ASSUME NEW D \in SUBSET Jobs, NEW used \in 0 .. Quota, NEW X \in SUBSET D,
           \A j \in X : WithinQuota(used + Cardinality({k \in D : k < j}))
    PROVE  used + Cardinality(X) \in 0 .. Quota
  <1>1. IsFiniteSet(X) /\ Cardinality(X) \in Nat /\ X \in SUBSET Nat /\ IsFiniteSet(D)
        /\ D \in SUBSET Nat /\ Quota \in Nat
    BY LeaseConstants, Timers, SubsetCounted
  <1>2. CASE X = {}
    BY <1>1, <1>2, FS_EmptySet
  <1>3. CASE X # {}
    <2>1. PICK m \in X : \A j \in X : j <= m
      BY <1>1, <1>3, Extremes
    <2> DEFINE B == {k \in D : k < m}
    <2>2. IsFiniteSet(B) /\ Cardinality(B) \in Nat
      BY <1>1, SubsetCounted
    <2>3. used + Cardinality(B) < Quota
      BY <2>1 DEF WithinQuota
    <2>4. X \ {m} \subseteq B
      BY <1>1, <2>1
    <2> HIDE DEF B
    <2>5. Cardinality(X \ {m}) <= Cardinality(B)
      BY <2>2, <2>4, FS_Subset
    <2>6. Cardinality(X \ {m}) = Cardinality(X) - 1
      BY <1>1, <2>1, FS_RemoveElement
    <2> QED
      BY <1>1, <2>2, <2>3, <2>5, <2>6
  <1> QED
    BY <1>2, <1>3

LEMMA TickKeeps ==
    ASSUME IInv, NEW m \in reap \cup Expired \cup {NoJob}, NEW newHour \in BOOLEAN, Tick(m, newHour)
    PROVE  IInv' /\ Settled
  <1> DEFINE list == IF reap = {} THEN Expired ELSE reap
             E == Prefix(list, m)
             data == [j \in E |-> Overdue(j)]
             after == Finished(E, data)
             used == IF newHour THEN 0 ELSE provider.used
             live == {j \in Jobs : Op[j] = "globalping" /\ after[j].ttl > 0}
             polls == {j \in live : after[j].phase = "provider"}
             waiting == {j \in live : Unsent(after[j]) /\ provider.blocked = 0}
             submits == {j \in waiting : WithinQuota(used + Cardinality({k \in waiting : k < j}))}
             batch == {j \in polls \cup submits : Cardinality({k \in polls \cup submits : k < j}) < 3}
             X == submits \cap batch
             D == E \cup Adopted(E, data)
  <1>1. /\ inflight = {} /\ bgpBusy = NoJob
        /\ reap' = IF Rest(list, m) # {} THEN Rest(list, m)
                   ELSE {j \in Expired : after[j].phase # "done"}
        /\ result' = Recorded(E, data)
        /\ job' = [j \in Jobs |-> IF j \in X THEN [after[j] EXCEPT !.phase = "submitting"] ELSE after[j]]
        /\ provider' = [provider EXCEPT !.used = used + Cardinality(X)]
        /\ inflight' = {[id |-> j, create |-> j \in submits] : j \in batch}
        /\ UNCHANGED <<workerVars, cool, bgpBusy, runs, created, restarts>>
    BY DEF Tick
  <1>2. /\ E \in SUBSET Jobs
        /\ \A j \in E : /\ job[j].phase # "done" /\ data[j] \in Outcomes
                        /\ data[j] # "cancelled"
    BY DEF Prefix, Expired, Queued, Overdue, Outcomes
  <1>3. list \in SUBSET Jobs /\ Expired \in SUBSET Jobs
    BY DEF Expired, Queued, IInv, RestType
  <1>4. /\ submits \in SUBSET waiting /\ waiting \in SUBSET Jobs /\ polls \in SUBSET Jobs
        /\ batch \in SUBSET (polls \cup submits) /\ X \in SUBSET Jobs
        /\ \A j \in X : /\ j \in waiting /\ after[j].phase = "queued"
                        /\ WithinQuota(used + Cardinality({k \in waiting : k < j}))
        /\ \A j \in batch \ submits : after[j].phase = "provider" /\ j \in Jobs
    BY DEF Unsent
  <1>5. provider' \in [used : 0 .. Quota, blocked : 0 .. LeaseTime]
    <2>1. provider \in [used : 0 .. Quota, blocked : 0 .. LeaseTime] /\ used \in 0 .. Quota
      BY Timers DEF IInv, RestType
    <2> HIDE DEF used, waiting, X
    <2>2. used + Cardinality(X) \in 0 .. Quota
      <3>1. X \in SUBSET waiting
        BY <1>4
      <3> QED
        BY <1>4, <2>1, <3>1, QuotaKept
    <2> QED
      BY <1>1, <2>1, <2>2
  <1>6. RestType'
    <2>1. reap' \subseteq Jobs
      BY <1>1, <1>3 DEF Rest
    <2> QED
      BY <1>1, <1>5, <2>1 DEF IInv, RestType, workerVars
  <1> HIDE DEF E, data, after, submits, batch, polls, waiting, X
  <1>7. FinishedAsTold(E, data) /\ Released(E, data) = {} /\ D \in SUBSET Jobs
    <2>1. FinishedAsTold(E, data)
      BY <1>2, FinishedJobs DEF IInv
    <2>2. Released(E, data) = {}
      BY <1>2 DEF Released
    <2> QED
      BY <2>1, <2>2 DEF FinishedAsTold
  <1>8. ASSUME NEW j \in D
        PROVE  /\ after[j] = Blank("done") /\ result'[j] \in Outcomes /\ job[j].phase # "done"
               /\ j \notin X
    <2>1. after[j] = Blank("done") /\ result'[j] \in Outcomes /\ job[j].phase # "done"
      BY <1>1, <1>7 DEF FinishedAsTold, after
    <2>2. after[j].phase = "done"
      BY <2>1 DEF Blank
    <2>3. \A i \in X : after[i].phase = "queued"
      BY <1>4
    <2> QED
      BY <2>1, <2>2, <2>3
  <1>9. ASSUME NEW j \in Jobs \ D
        PROVE  /\ after[j] = job[j] /\ result'[j] = result[j]
               /\ job[j].leader # NoJob =>
                    /\ job[j].leader \in Jobs \ D
                    /\ job[job[j].leader].phase \notin {"new", "done"}
                    /\ job[job[j].leader].leader = NoJob
    BY <1>1, <1>7 DEF FinishedAsTold, after
  <1>10. ASSUME NEW j \in Jobs
         PROVE  job'[j] = IF j \in X THEN [after[j] EXCEPT !.phase = "submitting"] ELSE after[j]
    BY <1>1
  <1> HIDE DEF D
  <1>11. ASSUME NEW j \in X
         PROVE  /\ j \in Jobs \ D /\ job[j].phase = "queued"
                /\ job'[j] = [job[j] EXCEPT !.phase = "submitting"]
    BY <1>4, <1>8, <1>9, <1>10
  <1>12. ASSUME NEW j \in Jobs
         PROVE  Moves(j) /\ job'[j] \in JobRecord
    <2>1. /\ job[j] \in JobRecord /\ runs' = runs
          /\ (job[j].phase = "running" => job[j].ttl <= job[j].left)
      BY <1>1 DEF IInv, JobType, Life, LeaseWithinDeadline
    <2>2. CASE j \in D
      <3>1. Closed(j)
        BY <1>8, <1>10, <2>1, <2>2 DEF Closed
      <3> QED
        BY <3>1, BlankType DEF Moves, Closed, Phases
    <2>3. CASE j \in X
      <3>1. /\ job'[j] \in JobRecord /\ job'[j].phase = "submitting"
            /\ job'[j].tries = job[j].tries /\ job'[j].leader = job[j].leader
        <4>1. job'[j] = [job[j] EXCEPT !.phase = "submitting"] /\ "submitting" \in Phases
          BY <1>11, <2>3 DEF Phases
        <4> QED
          BY <2>1, <4>1 DEF JobRecord
      <3>2. result'[j] = result[j] /\ job[j].phase = "queued"
        BY <1>9, <1>11, <2>3
      <3>3. Advanced(j)
        BY <2>1, <3>1, <3>2 DEF Advanced, Changed, Waiting
      <3> QED
        BY <3>1, <3>3 DEF Moves
    <2>4. CASE j \notin D \cup X
      <3>1. job'[j] = job[j] /\ result'[j] = result[j]
        BY <1>9, <1>10, <2>4
      <3>2. ASSUME job[j].leader # NoJob
            PROVE  /\ job'[job[j].leader].phase \notin {"new", "done"}
                   /\ job'[job[j].leader].leader = NoJob
        <4> DEFINE k == job[j].leader
        <4>1. k \in Jobs \ D /\ job[k].phase \notin {"new", "done"} /\ job[k].leader = NoJob
          BY <1>9, <2>4, <3>2
        <4> HIDE DEF k
        <4>2. job[k] \in JobRecord
          BY <4>1 DEF IInv, JobType
        <4>3. job'[k] = [job[k] EXCEPT !.phase = "submitting"] \/ job'[k] = job[k]
          BY <1>9, <1>10, <1>11, <4>1
        <4>4. job'[k].phase \notin {"new", "done"} /\ job'[k].leader = NoJob
          BY <4>1, <4>2, <4>3 DEF JobRecord
        <4> QED
          BY <4>4 DEF k
      <3>3. Kept(j)
        BY <2>1, <3>1, <3>2 DEF Kept, Changed
      <3> QED
        BY <2>1, <3>1, <3>3 DEF Moves
    <2> QED
      BY <2>2, <2>3, <2>4
  <1>13. Life' /\ JobType'
    <2>1. PerJob
      <3>1. result' = [j \in Jobs |-> result'[j]]
        <4>1. PICK f, g : /\ Finished(E, data) = f /\ f = [j \in Jobs |-> f[j]]
                          /\ Recorded(E, data) = g /\ g = [j \in Jobs |-> g[j]]
          BY <1>7 DEF FinishedAsTold
        <4>2. result' = g
          BY <1>1, <4>1
        <4> QED
          BY <4>1, <4>2, Zenon
      <3>2. job' = [j \in Jobs |-> job'[j]]
        BY <1>1, <1>12
      <3> QED
        BY <3>1, <3>2, Zenon DEF PerJob
    <2>2. runs' = [j \in Jobs |-> runs'[j]]
      BY <1>1 DEF IInv, JobType
    <2>3. /\ Life' /\ job' \in [Jobs -> JobRecord]
          /\ result' \in [Jobs -> Outcomes \cup {"none"}] /\ runs' \in [Jobs -> Nat]
      BY <1>12, <2>1, <2>2, LifeGoesOn DEF IInv
    <2>4. inflight' \subseteq [id : Jobs, create : BOOLEAN]
      <3>1. ASSUME NEW j \in batch
            PROVE  [id |-> j, create |-> j \in submits] \in [id : Jobs, create : BOOLEAN]
        <4>1. j \in Jobs
          BY <1>4
        <4> QED
          BY <4>1
      <3> QED
        BY <1>1, <3>1
    <2> QED
      BY <1>1, <2>3, <2>4 DEF IInv, JobType
  <1>14. ASSUME NEW r \in inflight'
         PROVE  /\ r.id \in Jobs
                /\ r.create => r.id \in X
                /\ ~r.create => after[r.id].phase = "provider" /\ r.id \notin X
    <2>1. PICK j \in batch : r = [id |-> j, create |-> j \in submits]
      BY <1>1
    <2>2. r.id = j /\ (r.create <=> j \in submits)
      BY <2>1, Zenon
    <2>3. j \in submits => j \in X
      BY DEF X
    <2>4. j \notin submits => j \notin X
      BY DEF X
    <2> QED
      BY <1>4, <2>2, <2>3, <2>4
  <1>15. Requests'
    <2>1. ASSUME NEW r \in inflight'
          PROVE  job'[r.id].phase \in {"done", IF r.create THEN "submitting" ELSE "provider"}
      <3>1. CASE r.create
        <4>1. job'[r.id] = [job[r.id] EXCEPT !.phase = "submitting"] /\ job[r.id] \in JobRecord
          BY <1>11, <1>14, <3>1 DEF IInv, JobType
        <4> QED
          BY <3>1, <4>1 DEF JobRecord
      <3>2. CASE ~r.create
        BY <1>10, <1>14, <3>2
      <3> QED
        BY <3>1, <3>2
    <2> QED
      BY <1>1, <2>1 DEF Requests
  <1>16. Submissions'
    <2>1. ASSUME NEW j \in Jobs, job'[j].phase \notin {"submitting", "provider", "done"}
          PROVE  created[j] = 0
      <3>1. j \notin D
        <4>1. ASSUME j \in D PROVE job'[j].phase = "done"
          <5>1. job'[j] = Blank("done")
            BY <1>8, <1>10, <4>1
          <5> QED
            BY <5>1 DEF Blank
        <4> QED
          BY <2>1, <4>1
      <3>2. CASE j \in X
        BY <1>11, <3>2 DEF IInv, Submissions
      <3>3. CASE j \notin X
        <4>1. job'[j] = job[j]
          BY <1>9, <1>10, <3>1, <3>3
        <4> QED
          BY <2>1, <4>1 DEF IInv, Submissions
      <3> QED
        BY <3>2, <3>3
    <2>2. ASSUME NEW r \in inflight', r.create PROVE created[r.id] = 0
      BY <1>11, <1>14, <2>2 DEF IInv, Submissions
    <2> QED
      BY <1>1, <2>1, <2>2 DEF IInv, Submissions
  <1>17. Settled
    BY <1>8, <1>9 DEF Settled
  <1> QED
    BY <1>6, <1>13, <1>15, <1>16, <1>17 DEF IInv

-----------------------------------------------------------------------------
(* The invariant holds at first and every step keeps it.                   *)

LEMMA InitInvariant ==
    ASSUME Init
    PROVE  IInv
  <1>1. \A j \in Jobs : job[j] = Blank("new")
    BY DEF Init
  <1>2. \A j \in Jobs : job[j].phase = "new" /\ job[j].leader = NoJob /\ job[j].tries = 0
    BY <1>1 DEF Blank
  <1>3. JobType
    <2>1. Blank("new") \in JobRecord
      BY BlankType DEF Phases
    <2>2. job \in [Jobs -> JobRecord]
      BY <2>1 DEF Init
    <2> QED
      BY <2>2 DEF Init, JobType
  <1>4. RestType
    <2>1. /\ 0 \in 0 .. OnlineTime /\ 0 \in 0 .. LeaseTime /\ 0 \in 0 .. Quota /\ 0 \in Nat
          /\ 0 \in 0 .. MaxRestarts
      BY Timers, LeaseConstants
    <2>2. provider \in [used : 0 .. Quota, blocked : 0 .. LeaseTime]
      BY <2>1 DEF Init
    <2> QED
      BY <2>1, <2>2 DEF Init, RestType
  <1>5. Life
    <2>1. LeaderIsQueued
      BY <1>2 DEF LeaderIsQueued, Leader, Queued
    <2>2. LeaseWithinDeadline /\ Final
      BY <1>2 DEF Init, LeaseWithinDeadline, Final
    <2>3. Dispatches
      BY <1>2, Timers DEF Init, Dispatches
    <2> QED
      BY <2>1, <2>2, <2>3 DEF Life
  <1>6. Requests /\ Submissions
    BY DEF Init, Requests, Submissions
  <1> QED
    BY <1>3, <1>4, <1>5, <1>6 DEF IInv

LEMMA StepInvariant ==
    ASSUME IInv, [Next]_vars
    PROVE  IInv' /\ (Settled \/ UNCHANGED vars)
  <1>1. CASE Administrator
    <2>1. CASE \E j \in Jobs, share \in BOOLEAN : Enqueue(j, share)
      BY <2>1, EnqueueKeeps
    <2>2. CASE \E G \in Groups : Cancel(G)
      BY <2>2, CancelKeeps
    <2>3. CASE \E w \in Resettable, issue \in BOOLEAN : NodeToken(w, issue) \/ ProbeToken(w, issue)
      BY <2>3, NodeTokenKeeps, ProbeTokenKeeps
    <2> QED
      BY <1>1, <2>1, <2>2, <2>3 DEF Administrator
  <1>2. CASE Measuring
    <2>1. CASE \E w \in Workers : Poll(w) \/ Claim(w) \/ Release(w)
      BY <2>1, PollKeeps, ClaimKeeps
    <2>2. CASE \E w \in Workers, equipped \in BOOLEAN :
                 \E active \in SUBSET Running(w) : Heartbeat(w, active, equipped)
      BY <2>2, HeartbeatKeeps
    <2>3. CASE \E w \in Workers, j \in Jobs :
                 \/ LateFull(w, j)
                 \/ \E up \in BOOLEAN : ListenResult(w, j, up)
                 \/ \E outcome \in {"ok", "failed", "busy", "limited"} : Result(w, j, outcome)
      BY <2>3, LateFullKeeps, ListenResultKeeps, ResultKeeps
    <2> QED
      BY <1>2, <2>1, <2>2, <2>3 DEF Measuring
  <1>3. CASE Ticking
    BY <1>3, TickKeeps DEF Ticking
  <1>4. CASE Draining
    BY <1>4, DrainMoreKeeps DEF Draining
  <1>5. CASE Replying
    BY <1>5, CreateReplyKeeps, PollReplyKeeps, BgpEndKeeps DEF Replying
  <1>6. CASE BgpStart
    BY <1>6, BgpStartKeeps
  <1>7. CASE Pass
    BY <1>7, PassKeeps
  <1>8. CASE \E S \in SUBSET Renewable, n \in 0 .. RunTime, some \in SUBSET Creating :
               Restart(S, n, some)
    BY <1>8, RestartKeeps
  <1>9. CASE UNCHANGED vars
    BY <1>9 DEF vars, workerVars, outsideVars, IInv, JobType, RestType, Life, Requests,
                Submissions, LeaderIsQueued, LeaseWithinDeadline, Final, Dispatches,
                Queued, Leader, Repeatable
  <1> QED
    BY <1>1, <1>2, <1>3, <1>4, <1>5, <1>6, <1>7, <1>8, <1>9 DEF Next

THEOREM Invariant == Spec => []IInv
  <1>1. Init => IInv
    BY InitInvariant
  <1>2. IInv /\ [Next]_vars => IInv'
    BY StepInvariant
  <1> QED
    BY <1>1, <1>2, PTL DEF Spec

-----------------------------------------------------------------------------
(* Every timer, counter and reference of the controller stays in range: in *)
(* particular the hourly quota is never exceeded, also when a tick prepares *)
(* several requests at once (native-controller.js 936-972).                *)
THEOREM LeaseTypes == Spec => []TypeOK
  <1>1. IInv => TypeOK
    BY TypeSplit DEF IInv
  <1> QED
    BY <1>1, Invariant, PTL

(* However often its worker renews it, and also after a reload that forgot *)
(* the last renewals, a lease ends at the deadline its dispatch set (514). *)
THEOREM LeasesEnd == Spec => []LeaseWithinDeadline
  <1>1. IInv => LeaseWithinDeadline
    BY DEF IInv, Life
  <1> QED
    BY <1>1, Invariant, PTL

(* A follower waits for a job that is queued and that follows none: no     *)
(* result is awaited from a job that has ended (219-237).                  *)
THEOREM FollowersWaitForLeaders == Spec => []LeaderIsQueued
  <1>1. IInv => LeaderIsQueued
    BY DEF IInv, Life
  <1> QED
    BY <1>1, Invariant, PTL

(* No job is dispatched more often than its retries allow, and none is     *)
(* submitted to the provider twice, whatever replies are lost or late and  *)
(* wherever the plugin is reloaded (790, 968-972).                         *)
THEOREM WorkIsNotRepeated == Spec => []NotRepeated
  <1>1. IInv => NotRepeated
    BY DEF IInv, Life, Dispatches, Submissions, NotRepeated, Repeatable
  <1> QED
    BY <1>1, Invariant, PTL

(* What a slot records is final, but for a full benchmark that outlived    *)
(* its deadline (219-237, 695-716).                                        *)
THEOREM ResultsAreFinal == Spec => ResultIsFinal
  <1> DEFINE Kind == \A j \in Jobs : result[j] # "none" =>
                       \/ result'[j] = result[j]
                       \/ Op[j] = "full" /\ result[j] = "expired" /\ result'[j] = "late"
  <1>1. IInv /\ [Next]_vars => [Kind]_vars
    <2>1. ASSUME IInv, Settled PROVE Kind
      BY <2>1 DEF IInv, Life, Final, Settled
    <2> QED
      BY <2>1, StepInvariant
  <1> QED
    BY <1>1, Invariant, PTL DEF Spec, ResultIsFinal

-----------------------------------------------------------------------------
(* Exclusion: who measures what at the same time.  Only a poll starts work *)
(* and only a claim takes a lease; every other step is calm.               *)

AtWork == {"listening", "ready", "running"}         \* on a worker
Outside == {"submitting", "provider"}               \* at Globalping

(* What a job in these phases measures, and where.                         *)
Placed ==
    \A j \in Jobs :
      /\ job[j].phase \in Outside => Op[j] = "globalping"
      /\ job[j].phase \in {"listening", "ready"} => Op[j] = "benchmark"
      /\ job[j].phase = "running" => Exec[j] \in Workers

Exclusion == ExclusiveWorker /\ SerialSpeed /\ MaintenanceQuiet

(* The jobs that hold worker w.                                            *)
Holding(w) == {j \in Occupied : w \in Ends(j)}

(* What a step may do to a job without starting work on a worker.          *)
Calm(j) ==
    \/ job'[j].phase = job[j].phase
    \/ job'[j].phase \notin AtWork \cup Outside
    \/ job'[j].phase \in Outside /\ Op[j] = "globalping"
    \/ job[j].phase = "listening" /\ job'[j].phase = "ready"
AllCalm == \A j \in Jobs : Calm(j)
NoNewLease == \A w \in Workers : lease'[w] > 0 => lease[w] > 0

(* Worker w, which is not in maintenance, is told to start job j.          *)
Launch(j, w) ==
    /\ lease' = lease /\ lease[w] = 0
    /\ \A i \in Jobs \ {j} : job'[i] = job[i]
    /\ \/ CanStart(j, w) /\ job'[j].phase = "running"
       \/ CanListen(j, w) /\ job'[j].phase = "listening"
       \/ CanConnect(j, w) /\ job'[j].phase = "running"

-----------------------------------------------------------------------------
(* Calm steps.                                                             *)

LEMMA OnWorkers ==
    ASSUME NEW w \in Workers, NEW j \in Jobs, w \in Ends(j)
    PROVE  Op[j] # "globalping"
  BY LeaseConstants, Placement DEF Ends

LEMMA CalmHolds ==
    ASSUME AllCalm, NEW w \in Workers
    PROVE  Holding(w)' \subseteq Holding(w)
  <1>1. ASSUME NEW j \in Holding(w)' PROVE j \in Holding(w)
    <2>1. /\ j \in Jobs /\ w \in Ends(j)
          /\ job'[j].phase \in AtWork \cup Outside
      BY DEF Holding, Occupied, AtWork, Outside, Ends
    <2>2. Calm(j) /\ Op[j] # "globalping"
      BY <2>1, OnWorkers DEF AllCalm
    <2>3. job[j].phase \in AtWork \cup Outside
      BY <2>1, <2>2 DEF Calm, AtWork, Outside
    <2> QED
      BY <2>1, <2>3 DEF Holding, Occupied, AtWork, Outside
  <1> QED
    BY <1>1

LEMMA HoldingCounted ==
    ASSUME NEW w
    PROVE  IsFiniteSet(Holding(w)) /\ Cardinality(Holding(w)) \in Nat
  <1>1. IsFiniteSet(Jobs) /\ Holding(w) \in SUBSET Jobs
    BY LeaseConstants DEF Holding, Occupied
  <1> QED
    BY <1>1, SubsetCounted

(* A worker with fewer jobs is still exclusive.                            *)
LEMMA FewerJobs ==
    ASSUME ExclusiveWorker, NEW w \in Workers, NEW S \in SUBSET Holding(w)
    PROVE  \/ Cardinality(S) <= 1
           \/ Cardinality(S) <= MaxLatency /\ \A j \in S : Op[j] = "latency"
  <1>1. /\ IsFiniteSet(Holding(w)) /\ Cardinality(Holding(w)) \in Nat
        /\ Cardinality(S) \in Nat /\ Cardinality(S) <= Cardinality(Holding(w))
    BY HoldingCounted, FS_Subset, SubsetCounted
  <1>2. \/ Cardinality(Holding(w)) <= 1
        \/ Cardinality(Holding(w)) <= MaxLatency /\ \A j \in Holding(w) : Op[j] = "latency"
    BY DEF ExclusiveWorker, Holding
  <1>3. MaxLatency \in Nat
    BY LeaseConstants
  <1> QED
    BY <1>1, <1>2, <1>3

LEMMA CalmKeeps ==
    ASSUME Placed, ExclusiveWorker, SerialSpeed, AllCalm
    PROVE  Placed' /\ ExclusiveWorker' /\ SerialSpeed'
  <1>1. Placed'
    <2>1. ASSUME NEW j \in Jobs
          PROVE  /\ job'[j].phase \in Outside => Op[j] = "globalping"
                 /\ job'[j].phase \in {"listening", "ready"} => Op[j] = "benchmark"
                 /\ job'[j].phase = "running" => Exec[j] \in Workers
      <3>1. Calm(j)
        BY DEF AllCalm
      <3> QED
        BY <3>1 DEF Placed, Calm, AtWork, Outside
    <2> QED
      BY <2>1 DEF Placed
  <1>2. ExclusiveWorker'
    <2>1. ASSUME NEW w \in Workers
          PROVE  \/ Cardinality(Holding(w)') <= 1
                 \/ /\ Cardinality(Holding(w)') <= MaxLatency
                    /\ \A j \in Holding(w)' : Op[j] = "latency"
      BY CalmHolds, FewerJobs
    <2> QED
      BY <2>1 DEF ExclusiveWorker, Holding, Ends
  <1>3. SerialSpeed'
    <2>1. ASSUME NEW j \in Occupied', Op[j] \in Speed PROVE j \in Occupied
      <3>1. Calm(j) /\ job'[j].phase \in AtWork \cup Outside /\ j \in Jobs
        BY DEF AllCalm, Occupied, AtWork, Outside
      <3> QED
        BY <2>1, <3>1 DEF Calm, Occupied, AtWork, Outside, Speed
    <2> QED
      BY <2>1 DEF SerialSpeed
  <1> QED
    BY <1>1, <1>2, <1>3

LEMMA CalmMaintenance ==
    ASSUME MaintenanceQuiet, AllCalm, NoNewLease
    PROVE  MaintenanceQuiet'
  <1>1. ASSUME NEW w \in Workers, lease'[w] > 0
        PROVE  /\ \A j \in Jobs : Exec[j] = w => job'[j].phase # "running"
               /\ w \notin Probes =>
                    \A j \in Jobs : Exec[j] = w \/ (Op[j] = "benchmark" /\ Node[j] = w)
                                    => job'[j].phase \notin AtWork
    <2>1. lease[w] > 0
      BY <1>1 DEF NoNewLease
    <2>2. /\ \A j \in Jobs : Exec[j] = w => job[j].phase # "running"
          /\ w \notin Probes =>
               \A j \in Jobs : Exec[j] = w \/ (Op[j] = "benchmark" /\ Node[j] = w)
                               => job[j].phase \notin AtWork
      BY <2>1 DEF MaintenanceQuiet, Busy, WorkerJobs, Queued, AtWork
    <2>3. ASSUME NEW j \in Jobs
          PROVE  /\ job'[j].phase = "running" => job[j].phase = "running"
                 /\ job'[j].phase \in AtWork => job[j].phase \in AtWork
      <3>1. Calm(j)
        BY DEF AllCalm
      <3> QED
        BY <3>1 DEF Calm, AtWork, Outside
    <2> QED
      BY <2>2, <2>3
  <1> QED
    BY <1>1 DEF MaintenanceQuiet, Busy, WorkerJobs, Queued, AtWork

-----------------------------------------------------------------------------
(* The poll that starts work.                                              *)

LEMMA LaunchPlaced ==
    ASSUME Placed, NEW w \in Workers, NEW j \in Jobs, Launch(j, w)
    PROVE  Placed'
  <1>1. \A i \in Jobs \ {j} : job'[i] = job[i]
    BY DEF Launch
  <1>2. \/ job'[j].phase = "running" /\ Exec[j] = w
        \/ job'[j].phase = "listening" /\ Op[j] = "benchmark"
    BY DEF Launch, CanStart, CanListen, CanConnect
  <1> QED
    BY <1>1, <1>2 DEF Placed, Outside

LEMMA LaunchHolds ==
    ASSUME NEW w \in Workers, NEW j \in Jobs, Launch(j, w), NEW v \in Workers
    PROVE  /\ Holding(v)' \subseteq Holding(v) \cup {j}
           /\ v \notin Ends(j) \/ j \in Holding(v) => Holding(v)' \subseteq Holding(v)
  <1>1. \A i \in Jobs \ {j} : job'[i] = job[i]
    BY DEF Launch
  <1>2. \A i \in Holding(v)' : i \in Jobs /\ v \in Ends(i)
    BY DEF Holding, Occupied, Ends
  <1>3. \A i \in Holding(v)' : i # j => i \in Holding(v)
    BY <1>1 DEF Holding, Occupied, Ends
  <1> QED
    BY <1>2, <1>3

LEMMA LaunchExclusive ==
    ASSUME ExclusiveWorker, NEW w \in Workers, NEW j \in Jobs, Launch(j, w)
    PROVE  ExclusiveWorker'
  <1>1. ASSUME NEW v \in Workers
        PROVE  \/ Cardinality(Holding(v)') <= 1
               \/ Cardinality(Holding(v)') <= MaxLatency /\ \A i \in Holding(v)' : Op[i] = "latency"
    <2>1. CASE v \notin Ends(j) \/ j \in Holding(v)
      BY <2>1, LaunchHolds, FewerJobs
    <2>2. CASE v \in Ends(j) /\ Holding(v) = {}
      <3>1. Holding(v)' \in SUBSET {j}
        BY <2>2, LaunchHolds
      <3>2. Cardinality({j}) = 1 /\ IsFiniteSet({j})
        BY FS_Singleton
      <3>3. Cardinality(Holding(v)') <= 1
        BY <3>1, <3>2, FS_Subset
      <3> QED
        BY <3>3
    <2>3. CASE /\ CanStart(j, w) /\ v \in Ends(j) /\ Holding(v) # {} /\ j \notin Holding(v)
      <3>1. v = w /\ Exec[j] = w /\ WorkerFree(j, w) /\ (Op[j] = "latency" => LatencyRoom(w))
        BY <2>3 DEF CanStart, Ends
      <3> DEFINE L == {x \in Occupied : Exec[x] = w /\ Op[x] = "latency"}
      <3>2. ASSUME NEW x \in Holding(w) PROVE Op[j] = "latency" /\ x \in L
        BY <3>1 DEF Holding, WorkerFree, Ends
      <3>3. /\ Op[j] = "latency" /\ Cardinality(L) < MaxLatency
            /\ Holding(w) \in SUBSET L
        BY <2>3, <3>1, <3>2 DEF LatencyRoom
      <3>4. IsFiniteSet(L) /\ j \notin L
        <4>1. L \in SUBSET Jobs /\ IsFiniteSet(Jobs)
          BY LeaseConstants DEF Occupied
        <4>2. L \subseteq Holding(w)
          BY DEF Holding, Ends
        <4> QED
          BY <2>3, <3>1, <4>1, <4>2, FS_Subset
      <3> HIDE DEF L
      <3>5. Holding(v)' \in SUBSET (L \cup {j})
        BY <3>1, <3>3, LaunchHolds
      <3>6. IsFiniteSet(L \cup {j}) /\ Cardinality(L \cup {j}) = Cardinality(L) + 1
        BY <3>4, FS_AddElement
      <3>7. /\ Cardinality(Holding(v)') <= Cardinality(L \cup {j})
            /\ Cardinality(Holding(v)') \in Nat /\ Cardinality(L) \in Nat
        BY <3>4, <3>5, <3>6, FS_Subset, FS_CardinalityType
      <3>8. MaxLatency \in Nat
        BY LeaseConstants
      <3>9. \A i \in Holding(v)' : Op[i] = "latency"
        BY <3>3, <3>5 DEF L
      <3> QED
        BY <3>3, <3>6, <3>7, <3>8, <3>9
    <2>4. CASE CanListen(j, w) /\ v \in Ends(j)
      <3>1. /\ v \in {w, Exec[j]} /\ Exec[j] \in Probes /\ EndsFree(j, w)
        BY <2>4, Placement DEF CanListen, Ends
      <3>2. ASSUME NEW x \in Holding(v) PROVE FALSE
        BY <3>1, Placement DEF Holding, Occupied, Ends, EndsFree
      <3> QED
        BY <2>2, <2>4, <3>2
    <2>5. CASE CanConnect(j, w) /\ v \in Ends(j)
      <3>1. j \in Holding(v)
        BY <2>5 DEF CanConnect, Holding, Occupied
      <3> QED
        BY <2>1, <3>1
    <2> QED
      BY <2>1, <2>2, <2>3, <2>4, <2>5 DEF Launch
  <1> QED
    BY <1>1 DEF ExclusiveWorker, Holding, Ends

LEMMA LaunchSerial ==
    ASSUME SerialSpeed, NEW w \in Workers, NEW j \in Jobs, Launch(j, w)
    PROVE  SerialSpeed'
  <1>1. ASSUME NEW i \in Occupied', i # j PROVE i \in Occupied
    BY <1>1 DEF Launch, Occupied
  <1>2. ASSUME NEW i \in Occupied, Op[i] \in Speed, Op[j] \in Speed, i # j
        PROVE  /\ {Op[j], Op[i]} # {"public-speed"} /\ {Op[i], Op[j]} # {"public-speed"}
               /\ Site[j] # Site[i]
    <2>1. CanStart(j, w)
      BY <1>2 DEF Launch, CanListen, CanConnect, Speed
    <2>2. ~(Op[j] = "public-speed" \/ Site[i] = Site[j])
      BY <1>2, <2>1 DEF CanStart, SpeedFree
    <2> QED
      BY <2>2
  <1>3. ASSUME NEW i \in Occupied', NEW k \in Occupied', Op[i] \in Speed, Op[k] \in Speed, i # k
        PROVE  {Op[i], Op[k]} # {"public-speed"} /\ Site[i] # Site[k]
    <2>1. CASE i # j /\ k # j
      BY <1>1, <1>3, <2>1 DEF SerialSpeed
    <2>2. CASE i = j
      BY <1>1, <1>2, <1>3, <2>2
    <2>3. CASE k = j
      BY <1>1, <1>2, <1>3, <2>3
    <2> QED
      BY <2>1, <2>2, <2>3
  <1> QED
    BY <1>3 DEF SerialSpeed

LEMMA LaunchMaintenance ==
    ASSUME MaintenanceQuiet, NEW w \in Workers, NEW j \in Jobs, Launch(j, w)
    PROVE  MaintenanceQuiet'
  <1>1. ASSUME NEW v \in Workers, lease'[v] > 0
        PROVE  /\ \A i \in Jobs : Exec[i] = v => job'[i].phase # "running"
               /\ v \notin Probes =>
                    \A i \in Jobs : Exec[i] = v \/ (Op[i] = "benchmark" /\ Node[i] = v)
                                    => job'[i].phase \notin AtWork
    <2>1. lease[v] > 0 /\ v # w
      BY <1>1 DEF Launch
    <2>2. /\ \A i \in Jobs : Exec[i] = v => job[i].phase # "running"
          /\ v \notin Probes =>
               \A i \in Jobs : Exec[i] = v \/ (Op[i] = "benchmark" /\ Node[i] = v)
                               => job[i].phase \notin AtWork
      BY <2>1 DEF MaintenanceQuiet, Busy, WorkerJobs, Queued, AtWork
    <2>3. \A i \in Jobs \ {j} : job'[i] = job[i]
      BY DEF Launch
    <2>4. Exec[j] = v => job'[j].phase # "running"
      BY <2>1 DEF Launch, CanStart, CanListen, CanConnect
    <2>5. ASSUME v \notin Probes, Exec[j] = v \/ (Op[j] = "benchmark" /\ Node[j] = v)
          PROVE  job'[j].phase \notin AtWork
      <3>1. ~CanStart(j, w)
        BY <2>1, <2>5 DEF CanStart
      <3>2. ~CanListen(j, w)
        BY <2>1, <2>5, Placement DEF CanListen
      <3>3. ~CanConnect(j, w)
        BY <2>1, <2>2, <2>5 DEF CanConnect, AtWork
      <3> QED
        BY <3>1, <3>2, <3>3 DEF Launch
    <2> QED
      BY <2>2, <2>3, <2>4, <2>5
  <1> QED
    BY <1>1 DEF MaintenanceQuiet, Busy, WorkerJobs, Queued, AtWork

-----------------------------------------------------------------------------
(* Which steps are calm.                                                   *)

LEMMA FinishedPhases ==
    ASSUME JobType, NEW S, NEW data, NEW j \in Jobs
    PROVE  Finished(S, data)[j].phase \in {"done", "queued", job[j].phase}
  <1> DEFINE free == [job[j] EXCEPT !.phase = "queued", !.leader = NoJob]
  <1>1. Finished(S, data)[j] =
          CASE j \in S \cup Adopted(S, data) -> Blank("done")
            [] j \in Released(S, data) -> free
            [] OTHER -> job[j]
    BY DEF Finished
  <1>2. free.phase = "queued" /\ Blank("done").phase = "done"
    BY DEF JobType, JobRecord, Blank
  <1> HIDE DEF free
  <1> QED
    BY <1>1, <1>2

LEMMA FinishCalm ==
    ASSUME JobType, NEW S, NEW data, FinishMany(S, data)
    PROVE  AllCalm
  <1>1. \A j \in Jobs : job'[j].phase \in {"done", "queued", job[j].phase}
    BY FinishedPhases DEF FinishMany
  <1> QED
    BY <1>1 DEF AllCalm, Calm, AtWork, Outside

LEMMA FinishOneCalm ==
    ASSUME JobType, NEW j, NEW outcome, Finish(j, outcome)
    PROVE  AllCalm
  BY FinishCalm DEF Finish

LEMMA SamePhases ==
    ASSUME \A j \in Jobs : job'[j].phase = job[j].phase
    PROVE  AllCalm
  BY DEF AllCalm, Calm

(* One job changes, to a phase that nobody measures in.                    *)
LEMMA OneCalm ==
    ASSUME NEW j \in Jobs, \A i \in Jobs \ {j} : job'[i] = job[i], Calm(j)
    PROVE  AllCalm
  BY DEF AllCalm, Calm

LEMMA AdministratorCalm ==
    ASSUME JobType, Administrator
    PROVE  AllCalm /\ lease' = lease
  <1>1. ASSUME NEW j \in Jobs, NEW share \in BOOLEAN, Enqueue(j, share)
        PROVE  AllCalm /\ lease' = lease
    <2>1. lease' = lease
      BY <1>1 DEF Enqueue, workerVars
    <2>2. CASE ~Ready(j)
      BY <1>1, <2>1, <2>2, FinishOneCalm DEF Enqueue
    <2>3. CASE Ready(j)
      <3> DEFINE p == IF share THEN "shared" ELSE "queued"
                 l == IF share THEN CHOOSE k \in Sharable(j) : \A m \in Sharable(j) : m <= k
                      ELSE NoJob
      <3>1. job' = [job EXCEPT ![j] = [Blank(p) EXCEPT !.ttl = QueueTime, !.leader = l]]
        BY <1>1, <2>3 DEF Enqueue
      <3>2. p \notin AtWork \cup Outside
        BY DEF AtWork, Outside
      <3> HIDE DEF p, l
      <3>3. [Blank(p) EXCEPT !.ttl = QueueTime, !.leader = l].phase = p
        BY DEF Blank
      <3>4. /\ \A i \in Jobs \ {j} : job'[i] = job[i]
            /\ job'[j] = [Blank(p) EXCEPT !.ttl = QueueTime, !.leader = l]
        BY <3>1 DEF JobType
      <3>5. Calm(j)
        BY <3>2, <3>3, <3>4 DEF Calm
      <3> QED
        BY <2>1, <3>4, <3>5, OneCalm
    <2> QED
      BY <2>2, <2>3
  <1>2. ASSUME NEW G \in Groups, Cancel(G) PROVE AllCalm /\ lease' = lease
    BY <1>2, FinishCalm DEF Cancel, workerVars
  <1>3. ASSUME NEW w \in Resettable, NEW issue \in BOOLEAN, NodeToken(w, issue)
        PROVE  AllCalm /\ lease' = lease
    BY <1>3, FinishCalm DEF NodeToken
  <1>4. ASSUME NEW w \in Resettable, NEW issue \in BOOLEAN, ProbeToken(w, issue)
        PROVE  AllCalm /\ lease' = lease
    BY <1>4, FinishCalm, SamePhases DEF ProbeToken
  <1> QED
    BY <1>1, <1>2, <1>3, <1>4 DEF Administrator

LEMMA WorkerCalm ==
    ASSUME JobType, NEW w \in Workers, NEW j \in Jobs,
           \/ \E equipped \in BOOLEAN : \E active \in SUBSET Running(w) : Heartbeat(w, active, equipped)
           \/ LateFull(w, j)
           \/ \E up \in BOOLEAN : ListenResult(w, j, up)
           \/ \E outcome \in {"ok", "failed", "busy", "limited"} : Result(w, j, outcome)
    PROVE  AllCalm /\ lease' = lease
  <1>1. /\ job \in [Jobs -> JobRecord] /\ \A i \in Jobs : job[i] \in JobRecord
    BY DEF JobType
  <1>2. ASSUME NEW equipped \in BOOLEAN, NEW active \in SUBSET Running(w),
               Heartbeat(w, active, equipped)
        PROVE  AllCalm /\ lease' = lease
    <2>1. ASSUME NEW i \in Jobs PROVE job'[i].phase = job[i].phase
      <3>1. job'[i] = job[i] \/ job'[i] = [job[i] EXCEPT !.ttl = Renewed(i)]
        BY <1>2 DEF Heartbeat
      <3> QED
        BY <1>1, <3>1 DEF JobRecord
    <2> QED
      BY <1>2, <2>1, SamePhases DEF Heartbeat
  <1>3. CASE LateFull(w, j)
    BY <1>3, SamePhases DEF LateFull, workerVars
  <1>4. ASSUME NEW up \in BOOLEAN, ListenResult(w, j, up)
        PROVE  AllCalm /\ lease' = lease
    <2>1. lease' = lease /\ job[j].phase = "listening"
      BY <1>4 DEF ListenResult, workerVars
    <2>2. CASE ~up
      BY <1>4, <2>1, <2>2, FinishOneCalm DEF ListenResult
    <2>3. CASE up
      <3>1. job' = [job EXCEPT ![j].phase = "ready"]
        BY <1>4, <2>3 DEF ListenResult
      <3>2. job'[j].phase = "ready" /\ \A i \in Jobs \ {j} : job'[i] = job[i]
        BY <1>1, <3>1 DEF JobRecord
      <3> QED
        BY <2>1, <3>2, OneCalm DEF Calm
    <2> QED
      BY <2>2, <2>3
  <1>5. ASSUME NEW outcome \in {"ok", "failed", "busy", "limited"}, Result(w, j, outcome)
        PROVE  AllCalm /\ lease' = lease
    <2>1. lease' = lease
      BY <1>5 DEF Result, workerVars
    <2>2. CASE outcome \in {"busy", "limited"} /\ Retriable(j)
      <3> DEFINE b == Backoff * (job[j].tries + 1)
                 v == [job[j] EXCEPT !.phase = "queued", !.ttl = QueueTime, !.left = 0,
                                     !.wait = b, !.tries = job[j].tries + 1]
      <3>1. job' = [job EXCEPT ![j] = v]
        BY <1>5, <2>2 DEF Result
      <3>2. v.phase = "queued"
        BY <1>1 DEF JobRecord
      <3> HIDE DEF v
      <3>3. job'[j].phase = "queued" /\ \A i \in Jobs \ {j} : job'[i] = job[i]
        BY <1>1, <3>1, <3>2
      <3>4. Calm(j)
        BY <3>3 DEF Calm, AtWork, Outside
      <3> QED
        BY <2>1, <3>3, <3>4, OneCalm
    <2>3. CASE ~(outcome \in {"busy", "limited"} /\ Retriable(j))
      <3>1. Finish(j, IF outcome \in {"busy", "limited"} THEN "failed" ELSE outcome)
        BY <1>5, <2>3 DEF Result
      <3> QED
        BY <2>1, <3>1, FinishOneCalm
    <2> QED
      BY <2>2, <2>3
  <1> QED
    BY <1>2, <1>3, <1>4, <1>5

LEMMA TickCalm ==
    ASSUME JobType, NEW m, NEW newHour, Tick(m, newHour)
    PROVE  AllCalm /\ lease' = lease
  <1> DEFINE list == IF reap = {} THEN Expired ELSE reap
             E == Prefix(list, m)
             data == [j \in E |-> Overdue(j)]
             after == Finished(E, data)
             used == IF newHour THEN 0 ELSE provider.used
             live == {j \in Jobs : Op[j] = "globalping" /\ after[j].ttl > 0}
             polls == {j \in live : after[j].phase = "provider"}
             waiting == {j \in live : Unsent(after[j]) /\ provider.blocked = 0}
             submits == {j \in waiting : WithinQuota(used + Cardinality({k \in waiting : k < j}))}
             batch == {j \in polls \cup submits : Cardinality({k \in polls \cup submits : k < j}) < 3}
             X == submits \cap batch
  <1>1. /\ job' = [j \in Jobs |-> IF j \in X THEN [after[j] EXCEPT !.phase = "submitting"] ELSE after[j]]
        /\ lease' = lease
    BY DEF Tick, workerVars
  <1>2. \A j \in X : Op[j] = "globalping"
    OBVIOUS
  <1> HIDE DEF X
  <1>3. ASSUME NEW j \in Jobs
        PROVE  /\ after[j].phase \in {"done", "queued", job[j].phase}
               /\ [after[j] EXCEPT !.phase = "submitting"].phase = "submitting"
    <2>1. after[j].phase \in {"done", "queued", job[j].phase}
      BY FinishedPhases
    <2>2. [after[j] EXCEPT !.phase = "submitting"].phase = "submitting"
      <3> HIDE DEF after
      <3> QED
        OBVIOUS
    <2> QED
      BY <2>1, <2>2
  <1> HIDE DEF after
  <1>4. ASSUME NEW j \in Jobs PROVE Calm(j)
    BY <1>1, <1>2, <1>3 DEF Calm, AtWork, Outside
  <1> QED
    BY <1>1, <1>4 DEF AllCalm

LEMMA ReplyCalm ==
    ASSUME JobType, Requests, Placed, Replying
    PROVE  AllCalm /\ lease' = lease
  <1>1. job \in [Jobs -> JobRecord] /\ \A i \in Jobs : job[i] \in JobRecord
    BY DEF JobType
  <1>2. ASSUME NEW r \in inflight, NEW a \in {"accepted", "limited", "failed", "missing"},
               CreateReply(r, a)
        PROVE  AllCalm /\ lease' = lease
    <2>1. lease' = lease /\ r.id \in Jobs /\ r.create
      BY <1>2 DEF CreateReply, workerVars, JobType
    <2>2. CASE Gone(r.id)
      BY <1>2, <2>1, <2>2, SamePhases DEF CreateReply
    <2>3. CASE ~Gone(r.id) /\ a \in {"failed", "missing"}
      <3>1. Finish(r.id, a)
        BY <1>2, <2>3 DEF CreateReply
      <3> QED
        BY <2>1, <3>1, FinishOneCalm
    <2>4. CASE ~Gone(r.id) /\ a = "accepted"
      <3>1. job' = [job EXCEPT ![r.id].phase = "provider", ![r.id].ttl = RunTime]
        BY <1>2, <2>4 DEF CreateReply
      <3>2. job'[r.id].phase = "provider" /\ \A i \in Jobs \ {r.id} : job'[i] = job[i]
        BY <1>1, <2>1, <3>1 DEF JobRecord
      <3>3. Op[r.id] = "globalping"
        <4>1. job[r.id].phase = "submitting"
          BY <2>1, <2>4 DEF Requests, Gone, Queued
        <4> QED
          BY <2>1, <4>1 DEF Placed, Outside
      <3> QED
        BY <2>1, <3>2, <3>3, OneCalm DEF Calm, Outside
    <2>5. CASE ~Gone(r.id) /\ a = "limited"
      <3>1. job' = [job EXCEPT ![r.id].phase = "queued"]
        BY <1>2, <2>5 DEF CreateReply
      <3>2. job'[r.id].phase = "queued" /\ \A i \in Jobs \ {r.id} : job'[i] = job[i]
        BY <1>1, <2>1, <3>1 DEF JobRecord
      <3> QED
        BY <2>1, <3>2, OneCalm DEF Calm, AtWork, Outside
    <2> QED
      BY <1>2, <2>2, <2>3, <2>4, <2>5
  <1>3. ASSUME NEW r \in inflight, NEW a \in {"finished", "limited", "pending"}, PollReply(r, a)
        PROVE  AllCalm /\ lease' = lease
    <2>1. lease' = lease
      BY <1>3 DEF PollReply, workerVars
    <2>2. job' = job \/ Finish(r.id, "ok")
      BY <1>3 DEF PollReply
    <2> QED
      BY <2>1, <2>2, SamePhases, FinishOneCalm
  <1>4. ASSUME NEW outcome \in {"ok", "failed"}, BgpEnd(outcome)
        PROVE  AllCalm /\ lease' = lease
    BY <1>4, SamePhases, FinishOneCalm DEF BgpEnd, workerVars
  <1> QED
    BY <1>2, <1>3, <1>4 DEF Replying

LEMMA BgpCalm ==
    ASSUME JobType, BgpStart
    PROVE  AllCalm /\ lease' = lease
  <1> DEFINE C == {j \in Queued : Op[j] = "bgp" /\ job[j].phase \in {"queued", "bgp-running"}}
             b == First(C)
  <1>1. /\ job' = [job EXCEPT ![b].phase = "bgp-running", ![b].ttl = RunTime] /\ lease' = lease
    BY DEF BgpStart, workerVars
  <1>2. \A j \in Jobs : job[j] \in JobRecord
    BY DEF JobType
  <1> HIDE DEF b
  <1>3. ASSUME NEW j \in Jobs PROVE job'[j].phase \in {job[j].phase, "bgp-running"}
    BY <1>1, <1>2 DEF JobType, JobRecord
  <1> QED
    BY <1>1, <1>3 DEF AllCalm, Calm, AtWork, Outside

LEMMA PassCalm ==
    ASSUME JobType, RestType, Pass
    PROVE  AllCalm /\ NoNewLease
  <1>1. ASSUME NEW j \in Jobs PROVE job'[j].phase = job[j].phase
    BY DEF Pass, JobType, JobRecord
  <1>2. ASSUME NEW w \in Workers, lease'[w] > 0 PROVE lease[w] > 0
    <2>1. lease'[w] = Down(lease[w]) /\ lease[w] \in 0 .. LeaseTime
      BY DEF Pass, RestType
    <2> QED
      BY <1>2, <2>1 DEF Down
  <1> QED
    BY <1>1, <1>2, SamePhases DEF NoNewLease

LEMMA RestartCalm ==
    ASSUME JobType, NEW S, NEW n, NEW some, Restart(S, n, some)
    PROVE  AllCalm /\ lease' = lease
  <1>1. ASSUME NEW j \in Jobs PROVE job'[j].phase = job[j].phase
    <2>1. job'[j] = job[j] \/ job'[j] = [job[j] EXCEPT !.ttl = Least(n, job[j].left)]
      BY DEF Restart
    <2> QED
      BY <2>1 DEF JobType, JobRecord
  <1> QED
    BY <1>1, SamePhases DEF Restart, workerVars

(* A poll starts one job for its worker, or is calm.                       *)
LEMMA PollLaunches ==
    ASSUME JobType, NEW w \in Workers, Poll(w)
    PROVE  \/ AllCalm /\ lease' = lease
           \/ \E j \in Jobs : Launch(j, w)
  <1> DEFINE j == First(Dispatchable(w))
  <1>1. j \in Jobs
    <2>1. Dispatchable(w) \in SUBSET Jobs /\ Dispatchable(w) # {}
      BY DEF Poll, Dispatchable
    <2>2. Dispatchable(w) \in SUBSET Nat /\ IsFiniteSet(Dispatchable(w))
      BY <2>1, Timers, LeaseConstants, FS_Subset
    <2>3. \E i \in Dispatchable(w) : \A k \in Dispatchable(w) : i <= k
      BY <2>1, <2>2, Extremes
    <2>4. j \in Dispatchable(w)
      BY <2>3 DEF First
    <2> QED
      BY <2>1, <2>4
  <1>2. /\ lease' = lease /\ lease[w] = 0
        /\ \/ (CanStart(j, w) \/ CanConnect(j, w)) /\ Dispatch(j)
           \/ Finish(j, "missing")
           \/ /\ CanListen(j, w)
              /\ job' = [job EXCEPT ![j].phase = "listening", ![j].ttl = RunTime]
    BY DEF Poll, workerVars
  <1>3. job \in [Jobs -> JobRecord] /\ job[j] \in JobRecord
    BY <1>1 DEF JobType
  <1> HIDE DEF j
  <1>4. CASE Finish(j, "missing")
    BY <1>2, <1>4, FinishOneCalm
  <1>5. CASE (CanStart(j, w) \/ CanConnect(j, w)) /\ Dispatch(j)
    <2> DEFINE t == IF Op[j] = "full" THEN Deadline ELSE RunTime
    <2>1. job' = [job EXCEPT ![j].phase = "running", ![j].ttl = t, ![j].left = Deadline]
      BY <1>5 DEF Dispatch
    <2> HIDE DEF t
    <2>2. job'[j].phase = "running" /\ \A i \in Jobs \ {j} : job'[i] = job[i]
      BY <1>1, <1>3, <2>1 DEF JobRecord
    <2>3. Launch(j, w)
      BY <1>2, <1>5, <2>2 DEF Launch
    <2> QED
      BY <1>1, <2>3
  <1>6. CASE CanListen(j, w) /\ job' = [job EXCEPT ![j].phase = "listening", ![j].ttl = RunTime]
    <2>1. job'[j].phase = "listening" /\ \A i \in Jobs \ {j} : job'[i] = job[i]
      BY <1>1, <1>3, <1>6 DEF JobRecord
    <2>2. Launch(j, w)
      BY <1>2, <1>6, <2>1 DEF Launch
    <2> QED
      BY <1>1, <2>2
  <1> QED
    BY <1>2, <1>4, <1>5, <1>6

LEMMA ClaimQuiet ==
    ASSUME RestType, MaintenanceQuiet, NEW w \in Workers, Claim(w)
    PROVE  MaintenanceQuiet'
  <1>1. /\ job' = job /\ ~Busy(w)
        /\ \A v \in Workers \ {w} : lease'[v] = lease[v]
    BY DEF Claim, RestType
  <1>2. \A j \in Queued : Exec[j] = w => job[j].phase # "running"
    BY <1>1 DEF Busy, WorkerJobs
  <1>3. ASSUME NEW v \in Workers, lease'[v] > 0
        PROVE  /\ \A j \in Queued : Exec[j] = v => job[j].phase # "running"
               /\ v \notin Probes => ~Busy(v)
    BY <1>1, <1>2, <1>3 DEF MaintenanceQuiet
  <1>4. Queued' = Queued /\ \A v : Busy(v)' <=> Busy(v)
    BY <1>1 DEF Queued, Busy, WorkerJobs
  <1> QED
    BY <1>1, <1>3, <1>4 DEF MaintenanceQuiet

-----------------------------------------------------------------------------
(* Every step keeps the three properties.                                  *)

(* A step is calm, starts one job, or takes a lease on an idle worker.     *)
LEMMA CalmOrNot ==
    ASSUME IInv, Placed, Next
    PROVE  \/ AllCalm /\ NoNewLease
           \/ \E w \in Workers, j \in Jobs : Launch(j, w)
           \/ \E w \in Workers : Claim(w)
  <1>0. JobType /\ RestType /\ Requests
    BY DEF IInv
  <1>1. lease' = lease => NoNewLease
    BY DEF NoNewLease
  <1>2. CASE Administrator
    BY <1>0, <1>1, <1>2, AdministratorCalm
  <1>3. ASSUME NEW w \in Workers, Poll(w) \/ Claim(w) \/ Release(w)
        PROVE  \/ AllCalm /\ NoNewLease
               \/ \E v \in Workers, j \in Jobs : Launch(j, v)
               \/ \E v \in Workers : Claim(v)
    <2>1. CASE Poll(w)
      BY <1>0, <1>1, <2>1, PollLaunches
    <2>2. CASE Release(w)
      <3>1. AllCalm
        BY <2>2, SamePhases DEF Release
      <3>2. NoNewLease
        BY <1>0, <2>2 DEF Release, RestType, NoNewLease
      <3> QED
        BY <3>1, <3>2
    <2> QED
      BY <1>3, <2>1, <2>2
  <1>4. CASE Measuring
    <2>1. CASE \E w \in Workers : Poll(w) \/ Claim(w) \/ Release(w)
      BY <1>3, <2>1
    <2>2. CASE \E w \in Workers, equipped \in BOOLEAN :
                 \E active \in SUBSET Running(w) : Heartbeat(w, active, equipped)
      <3>1. PICK w \in Workers, equipped \in BOOLEAN :
                 \E active \in SUBSET Running(w) : Heartbeat(w, active, equipped)
        BY <2>2
      <3>2. CASE Jobs = {}
        BY <1>1, <3>1, <3>2 DEF Heartbeat, AllCalm
      <3>3. CASE Jobs # {}
        BY <1>0, <1>1, <3>1, <3>3, WorkerCalm
      <3> QED
        BY <3>2, <3>3
    <2>3. CASE \E w \in Workers, j \in Jobs :
                 \/ LateFull(w, j)
                 \/ \E up \in BOOLEAN : ListenResult(w, j, up)
                 \/ \E outcome \in {"ok", "failed", "busy", "limited"} : Result(w, j, outcome)
      BY <1>0, <1>1, <2>3, WorkerCalm
    <2> QED
      BY <1>4, <2>1, <2>2, <2>3 DEF Measuring
  <1>5. CASE Ticking
    BY <1>0, <1>1, <1>5, TickCalm DEF Ticking
  <1>6. CASE Draining
    BY <1>0, <1>1, <1>6, FinishCalm DEF Draining, DrainMore, workerVars
  <1>7. CASE Replying
    BY <1>0, <1>1, <1>7, ReplyCalm
  <1>8. CASE BgpStart
    BY <1>0, <1>1, <1>8, BgpCalm
  <1>9. CASE Pass
    BY <1>0, <1>9, PassCalm
  <1>10. CASE \E S \in SUBSET Renewable, n \in 0 .. RunTime, some \in SUBSET Creating :
                Restart(S, n, some)
    BY <1>0, <1>1, <1>10, RestartCalm
  <1> QED
    BY <1>2, <1>4, <1>5, <1>6, <1>7, <1>8, <1>9, <1>10 DEF Next

LEMMA ExclusionStep ==
    ASSUME IInv, Placed, Exclusion, [Next]_vars
    PROVE  Placed' /\ Exclusion'
  <1>1. CASE AllCalm /\ NoNewLease
    BY <1>1, CalmKeeps, CalmMaintenance DEF Exclusion
  <1>2. ASSUME NEW w \in Workers, NEW j \in Jobs, Launch(j, w) PROVE Placed' /\ Exclusion'
    BY <1>2, LaunchPlaced, LaunchExclusive, LaunchSerial, LaunchMaintenance DEF Exclusion
  <1>3. ASSUME NEW w \in Workers, Claim(w) PROVE Placed' /\ Exclusion'
    <2>1. AllCalm
      BY <1>3, SamePhases DEF Claim
    <2> QED
      BY <1>3, <2>1, CalmKeeps, ClaimQuiet DEF Exclusion, IInv
  <1>4. CASE UNCHANGED vars
    BY <1>1, <1>4, SamePhases DEF vars, NoNewLease
  <1> QED
    BY <1>1, <1>2, <1>3, <1>4, CalmOrNot

LEMMA ExclusionStart ==
    ASSUME Init
    PROVE  Placed /\ Exclusion
  <1>1. \A j \in Jobs : job[j].phase = "new"
    BY DEF Init, Blank
  <1>2. Occupied = {}
    BY <1>1 DEF Occupied
  <1>3. ExclusiveWorker
    <2>1. \A w \in Workers : Holding(w) = {}
      BY <1>2 DEF Holding
    <2>2. \A w \in Workers : Cardinality(Holding(w)) <= 1
      BY <2>1, FS_EmptySet
    <2> QED
      BY <2>2 DEF ExclusiveWorker, Holding
  <1>4. SerialSpeed
    BY <1>2 DEF SerialSpeed
  <1>5. MaintenanceQuiet
    BY DEF Init, MaintenanceQuiet
  <1> QED
    BY <1>1, <1>3, <1>4, <1>5 DEF Placed, Exclusion, Outside

LEMMA AlwaysExclusive == Spec => [](Placed /\ Exclusion)
  <1>1. Init => Placed /\ Exclusion
    BY ExclusionStart
  <1>2. IInv /\ (Placed /\ Exclusion) /\ [Next]_vars => (Placed /\ Exclusion)'
    BY ExclusionStep
  <1> QED
    BY <1>1, <1>2, Invariant, PTL DEF Spec

-----------------------------------------------------------------------------
(* However polls, replies, retries, cancellations and reloads interleave, a *)
(* worker measures one thing at a time, or at most MaxLatency latency tests, *)
(* and a benchmark holds both its ends (native-controller.js 556-582,       *)
(* 625-636).                                                               *)
THEOREM WorkersAreExclusive == Spec => []ExclusiveWorker
  BY AlwaysExclusive, PTL DEF Exclusion

(* No two public speed tests run together, and no two HTTP or iperf tests   *)
(* against one server and port, whichever workers run them (556-564).  A    *)
(* test of a server may begin beside a public one.                         *)
THEOREM SpeedTestsAreSerial == Spec => []SerialSpeed
  BY AlwaysExclusive, PTL DEF Exclusion

(* A worker whose maintenance lease is live measures nothing and is told   *)
(* to measure nothing; a probe may still be chosen as the far end of a     *)
(* benchmark, which its VPS starts (444-456, 535, 634).                    *)
THEOREM MaintenanceIsQuiet == Spec => []MaintenanceQuiet
  BY AlwaysExclusive, PTL DEF Exclusion
=============================================================================
