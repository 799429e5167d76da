------------------------------- MODULE JobLease -------------------------------
(***************************************************************************)
(* The controller of the Network Observatory plugin                        *)
(* (network-observatory/plugin/src/native-controller.js): it hands queued  *)
(* measurements to workers that poll it, holds a lease on every running    *)
(* one, reaps the leases that run out, retries busy speed tests, measures  *)
(* through Globalping and BGP itself, and keeps workers in maintenance     *)
(* idle.  Every handler runs under one lock (a promise queue), so a        *)
(* handler is a step; replies of the provider come in steps of their own.  *)
(*                                                                         *)
(* Times are what is left of them: a timer of n runs out after n steps of  *)
(* Pass, and "<= Date.now()" and "< Date.now()" are both 0.                *)
(***************************************************************************)
EXTENDS Integers, FiniteSets

CONSTANTS
    Jobs,           \* numbers; the FIFO order of the queue is their order
    Workers,        \* node:<uuid> and probe:<uuid> keys
    Probes,         \* the workers that are mainland probes
    Op,             \* operation of a job
    Exec,           \* executor of a job: a worker, "globalping" or "bgp"
    Node,           \* the VPS a job measures (its node worker)
    Site,           \* target and port of a job
    Key,            \* measurementKey of a job
    Groups,         \* sets of jobs an administrator cancels together
    Resettable,     \* workers whose credential an administrator changes
    QueueTime,      \* a queued job waits at most this long (6 h)
    RunTime,        \* first lease of a dispatched job (180 s)
    RenewTime,      \* lease after a heartbeat (90 s)
    Deadline,       \* longest a dispatched job may run (300 s)
    OnlineTime,     \* a worker is online this long after a heartbeat (90 s)
    LeaseTime,      \* maintenance lease (10 min)
    Backoff,        \* wait of the first retry, twice as long for the second
    MaxLatency,     \* concurrent latency tests of one worker (4)
    MaxTries,       \* retries of a busy speed test (2)
    Quota,          \* Globalping measurements an hour (120)
    MaxRestarts     \* bound: reloads of the plugin

NoJob == 0
Operations == {"latency", "route", "http-speed", "public-speed", "full",
               "benchmark", "globalping", "bgp"}
Speed == {"http-speed", "public-speed"}

ASSUME LeaseConstants ==
    /\ Jobs \subseteq Nat \ {NoJob} /\ IsFiniteSet(Jobs)
    /\ Probes \subseteq Workers /\ "globalping" \notin Workers /\ "bgp" \notin Workers
    /\ Op \in [Jobs -> Operations] /\ Node \in [Jobs -> Workers]
    /\ Exec \in [Jobs -> Workers \cup {"globalping", "bgp"}]
    /\ Groups \subseteq SUBSET Jobs /\ Resettable \subseteq Workers
    /\ {QueueTime, RunTime, RenewTime, Deadline, OnlineTime, LeaseTime, Backoff} \subseteq Nat
    /\ {MaxLatency, MaxTries, Quota, MaxRestarts} \subseteq Nat
    /\ \A j, k \in Jobs : Key[j] = Key[k] =>
         /\ <<Op[j], Exec[j], Node[j], Site[j]>> = <<Op[k], Exec[k], Node[k], Site[k]>>
         /\ Op[j] = "full" => j = k       \* one full benchmark per VPS
    /\ RenewTime <= RunTime /\ RunTime <= Deadline /\ Deadline <= QueueTime

(* What a plan asks of whom (report-model.js 219-456): probes and VPSes are *)
(* different workers, and a benchmark is run by a probe towards its VPS (a *)
(* plan that names no probe for it is recorded as missing, not queued).    *)
ASSUME Placement == \A j \in Jobs :
    /\ Op[j] = "globalping" <=> Exec[j] = "globalping"
    /\ Op[j] = "bgp" <=> Exec[j] = "bgp"
    /\ Op[j] = "benchmark" => Exec[j] \in Probes
    /\ Node[j] \notin Probes

Phases == {"new", "queued", "shared", "listening", "ready", "running",
           "submitting", "provider", "bgp-running", "done"}
Outcomes == {"ok", "failed", "missing", "cancelled", "expired", "late"}

VARIABLES
    job,        \* per job: phase, ttl (expiresAt), left (deadlineAt), wait
                \* (availableAt), tries (busyAttempts), leader (sharedJobId)
    result,     \* what the round store has recorded for the slot of a job
    known,      \* workers whose credential is valid
    fresh,      \* per worker: what is left of "seenAt is recent"
    tools,      \* workers whose last heartbeat named all they need
    lease,      \* per worker: what is left of its maintenance lease
    cool,       \* publicSpeedBlockedUntil
    provider,   \* used this hour, blocked (blockedUntil)
    inflight,   \* Globalping requests of the running tick
    bgpBusy,    \* the running BGP collection, or NoJob
    reap,       \* expiryJobs from expiryCursor on: a snapshot of expired jobs
    runs,       \* times a worker was told to measure a job
    created,    \* Globalping measurements created for a job
    restarts    \* reloads so far

workerVars == <<known, fresh, tools, lease>>
outsideVars == <<provider, inflight, bgpBusy, created, restarts>>
vars == <<job, result, known, fresh, tools, lease, cool, provider, inflight,
          bgpBusy, reap, runs, created, restarts>>

-----------------------------------------------------------------------------
Blank(phase) == [phase |-> phase, ttl |-> 0, left |-> 0, wait |-> 0, tries |-> 0, leader |-> NoJob]
Queued == {j \in Jobs : job[j].phase \notin {"new", "done"}}     \* s.jobs
Occupied == {j \in Jobs : job[j].phase \in
               {"listening", "ready", "running", "submitting", "provider"}}
First(S) == CHOOSE j \in S : \A k \in S : j <= k
Least(a, b) == IF a < b THEN a ELSE b
Most(a, b) == IF a < b THEN b ELSE a

Online(w) == w \in Workers /\ fresh[w] > 0
WorkerJobs(w) == {j \in Queued : Exec[j] = w \/ (Op[j] = "benchmark" /\ Node[j] = w)}
Busy(w) == \E j \in WorkerJobs(w) : job[j].phase \in {"running", "ready", "listening"}

(* finishMany: the results in data (job -> outcome, for the jobs of S) are *)
(* recorded; a follower takes its leader's result, or goes back to the     *)
(* queue when the leader was cancelled.  A leader queues before its        *)
(* followers and is finished before them.                                  *)
Leader(j) == job[j].leader
Adopted(S, data) == {f \in Queued : Leader(f) \in S /\ data[Leader(f)] # "cancelled"}
ReleasedNever(S, data) == {}      \* mutant
Released(S, data) == {f \in Queued \ S : Leader(f) \in S /\ data[Leader(f)] = "cancelled"}
Finished(S, data) ==
    [j \in Jobs |->
       CASE j \in S \cup Adopted(S, data) -> Blank("done")
         [] j \in Released(S, data) -> [job[j] EXCEPT !.phase = "queued", !.leader = NoJob]
         [] OTHER -> job[j]]
Recorded(S, data) ==
    [j \in Jobs |->
       CASE j \in Adopted(S, data) -> data[Leader(j)]
         [] j \in S \ Adopted(S, data) -> data[j]
         [] OTHER -> result[j]]
FinishMany(S, data) ==
    /\ job' = Finished(S, data)
    /\ result' = Recorded(S, data)
Finish(j, outcome) == FinishMany({j}, [k \in {j} |-> outcome])

-----------------------------------------------------------------------------
(* enqueue of one job.  A job that cannot be measured now is recorded as   *)
(* missing; one that a planned job already measures follows that job.      *)
Ends(j) == IF Op[j] = "benchmark" THEN {Exec[j], Node[j]} ELSE {Exec[j]}
Ready(j) == \A w \in Ends(j) \cap Workers : Online(w) /\ w \in tools
Sharable(j) == {k \in Queued : Key[k] = Key[j] /\ Leader(k) = NoJob}

Enqueue(j, share) ==
    /\ job[j].phase = "new" /\ \A k \in Jobs : k < j => job[k].phase # "new"
    /\ share => Sharable(j) # {}
    /\ IF Ready(j)
       THEN /\ job' = [job EXCEPT ![j] =
                 [Blank(IF share THEN "shared" ELSE "queued") EXCEPT
                    !.ttl = QueueTime,
                    !.leader = IF share THEN CHOOSE k \in Sharable(j) : \A m \in Sharable(j) : m <= k
                               ELSE NoJob]]
            /\ UNCHANGED result
       ELSE Finish(j, "missing")
    /\ UNCHANGED <<workerVars, outsideVars, cool, reap, runs>>

(* Cancelling a round, deleting or narrowing a suite.                      *)
Cancel(G) ==
    /\ G \cap Queued # {}
    /\ FinishMany(G \cap Queued, [j \in G |-> "cancelled"])
    /\ UNCHANGED <<workerVars, outsideVars, cool, reap, runs>>

-----------------------------------------------------------------------------
(* GET poll: the worker is told to start its first job that may start.     *)
SpeedFreePerSite(j) ==      \* mutant
    ~\E x \in Occupied : Op[x] \in Speed /\ Site[x] = Site[j]
SpeedFree(j) ==     \* public tests exclude all speed tests, others the same server
    ~\E x \in Occupied : Op[x] \in Speed /\ (Op[j] = "public-speed" \/ Site[x] = Site[j])

WorkerFree(j, w) ==
    ~\E x \in Occupied :
      \/ Exec[x] = w /\ ~(Op[j] = "latency" /\ Op[x] = "latency")
      \/ Op[x] = "benchmark" /\ Node[x] = w

LatencyRoomOff(w) == Cardinality({x \in Occupied : Exec[x] = w /\ Op[x] = "latency"}) <= MaxLatency \* mutant
LatencyRoom(w) == Cardinality({x \in Occupied : Exec[x] = w /\ Op[x] = "latency"}) < MaxLatency

CanStart(j, w) ==
    /\ job[j].phase = "queued" /\ Exec[j] = w /\ Op[j] # "benchmark"
    /\ job[j].ttl > 0 /\ job[j].wait = 0
    /\ Op[j] = "public-speed" => cool = 0
    /\ Op[j] \in Speed => SpeedFree(j)
    /\ WorkerFree(j, w)
    /\ Op[j] = "latency" => LatencyRoom(w)

EndsFree(j, w) ==
    ~\E x \in Occupied :
      \/ Op[x] = "benchmark" /\ (Node[x] = w \/ Exec[x] = Exec[j])
      \/ Exec[x] \in {w, Exec[j]}

CanListen(j, w) ==
    /\ job[j].phase = "queued" /\ Op[j] = "benchmark" /\ Node[j] = w
    /\ job[j].ttl > 0 /\ job[j].wait = 0
    /\ EndsFree(j, w)
    /\ Online(Exec[j])

CanConnect(j, w) ==
    /\ job[j].phase = "ready" /\ Op[j] = "benchmark" /\ Exec[j] = w /\ job[j].ttl > 0

Dispatchable(w) == {j \in Jobs : CanStart(j, w) \/ CanListen(j, w) \/ CanConnect(j, w)}

Dispatch(j) ==      \* a running job: lease and deadline from now on
    /\ job' = [job EXCEPT ![j].phase = "running",
                          ![j].ttl = IF Op[j] = "full" THEN Deadline ELSE RunTime,
                          ![j].left = Deadline]
    /\ runs' = [runs EXCEPT ![j] = @ + 1]
    /\ UNCHANGED result

Poll(w) ==
    /\ w \in known /\ lease[w] = 0 /\ Dispatchable(w) # {}
    /\ LET j == First(Dispatchable(w))
       IN \/ CanStart(j, w) /\ Online(w) /\ w \in tools /\ Dispatch(j)
          \/ CanStart(j, w) /\ ~(Online(w) /\ w \in tools) /\ Finish(j, "missing") /\ UNCHANGED runs
          \/ /\ CanListen(j, w)
             /\ IF {w, Exec[j]} \subseteq tools
                THEN /\ job' = [job EXCEPT ![j].phase = "listening", ![j].ttl = RunTime]
                     /\ UNCHANGED result
                ELSE Finish(j, "missing")
             /\ UNCHANGED runs
          \/ CanConnect(j, w) /\ Dispatch(j)
    /\ UNCHANGED <<workerVars, outsideVars, cool, reap>>

Running(w) == {j \in Jobs : job[j].phase = "running" /\ Exec[j] = w}

RenewedPastDeadline(j) == RenewTime      \* mutant
Renewed(j) == Least(RenewTime, job[j].left)

(* POST heartbeat: the worker names what it is measuring.                  *)
Heartbeat(w, active, equipped) ==
    /\ w \in known
    /\ fresh' = [fresh EXCEPT ![w] = OnlineTime]
    /\ tools' = IF equipped THEN tools \cup {w} ELSE tools \ {w}
    /\ job' = [j \in Jobs |->
                 IF j \in active \cap Running(w) /\ Op[j] # "full"
                 THEN [job[j] EXCEPT !.ttl = Renewed(j)]
                 ELSE job[j]]
    /\ UNCHANGED <<result, known, lease, cool, outsideVars, reap, runs>>

(* POST result, first case: the listening end of a benchmark reports.      *)
ListenResult(w, j, up) ==
    /\ w \in known /\ job[j].phase = "listening" /\ Node[j] = w
    /\ IF up THEN job' = [job EXCEPT ![j].phase = "ready"] /\ UNCHANGED result
       ELSE Finish(j, "failed")
    /\ UNCHANGED <<workerVars, outsideVars, cool, reap, runs>>

Retriable(j) == job[j].tries < MaxTries

(* POST result of a running job.  "busy" is a speed test that moved no     *)
(* data and may be repeated; "limited" is one whose server said it is busy. *)
Result(w, j, outcome) ==
    /\ w \in known /\ job[j].phase = "running" /\ Exec[j] = w
    /\ outcome \in {"busy", "limited"} => Op[j] \in Speed \cup {"benchmark"}
    /\ LET repeat == outcome \in {"busy", "limited"}
           wait == Backoff * (job[j].tries + 1)
       IN IF repeat /\ Retriable(j)
          THEN /\ job' = [job EXCEPT ![j] =
                    [job[j] EXCEPT !.phase = "queued", !.ttl = QueueTime, !.left = 0,
                                   !.wait = wait, !.tries = job[j].tries + 1]]
               /\ cool' = IF Op[j] = "public-speed"
                          THEN Most(cool, IF outcome = "limited" THEN wait ELSE 1) ELSE cool
               /\ UNCHANGED result
          ELSE /\ Finish(j, IF repeat THEN "failed" ELSE outcome)
               /\ cool' = IF Op[j] = "public-speed" THEN Most(cool, 1) ELSE cool
    /\ UNCHANGED <<workerVars, outsideVars, reap, runs>>

(* POST result of a full benchmark the controller gave up at its deadline. *)
LateFullOverAnything(w, j) ==      \* mutant
    /\ w \in known /\ job[j].phase = "done" /\ Exec[j] = w /\ Op[j] = "full"
    /\ result' = [result EXCEPT ![j] = "late"]
    /\ UNCHANGED <<job, workerVars, outsideVars, cool, reap, runs>>
LateFull(w, j) ==
    /\ w \in known /\ job[j].phase = "done" /\ Exec[j] = w /\ Op[j] = "full"
    /\ result[j] = "expired"
    /\ result' = [result EXCEPT ![j] = "late"]
    /\ UNCHANGED <<job, workerVars, outsideVars, cool, reap, runs>>

-----------------------------------------------------------------------------
(* POST maintenance, claim and release.                                    *)
ClaimWhileBusy(w) ==      \* mutant
    /\ w \in known /\ lease[w] = 0
    /\ lease' = [lease EXCEPT ![w] = LeaseTime]
    /\ UNCHANGED <<job, result, known, fresh, tools, cool, outsideVars, reap, runs>>
Claim(w) ==
    /\ w \in known /\ lease[w] = 0 /\ ~Busy(w)
    /\ lease' = [lease EXCEPT ![w] = LeaseTime]
    /\ UNCHANGED <<job, result, known, fresh, tools, cool, outsideVars, reap, runs>>

Release(w) ==
    /\ w \in known /\ lease[w] > 0
    /\ lease' = [lease EXCEPT ![w] = 0]
    /\ UNCHANGED <<job, result, known, fresh, tools, cool, outsideVars, reap, runs>>

(* POST or DELETE nodes/:uuid/token: either way the worker is forgotten    *)
(* and everything that involves it is cancelled.                           *)
NodeToken(w, issue) ==
    /\ w \in Workers \ Probes
    /\ LET S == {j \in Queued : Exec[j] = w \/ Node[j] = w}
       IN FinishMany(S, [j \in S |-> "cancelled"])
    /\ known' = IF issue THEN known \cup {w} ELSE known \ {w}
    /\ fresh' = [fresh EXCEPT ![w] = 0] /\ tools' = tools \ {w}
    /\ UNCHANGED <<lease, cool, outsideVars, reap, runs>>

(* POST probes gives a probe a new token and keeps its jobs; DELETE        *)
(* records them as missing.                                                *)
ProbeToken(w, issue) ==
    /\ w \in Probes
    /\ IF issue THEN UNCHANGED <<job, result>>
       ELSE LET S == {j \in Queued : Exec[j] = w} IN FinishMany(S, [j \in S |-> "missing"])
    /\ known' = IF issue THEN known \cup {w} ELSE known \ {w}
    /\ fresh' = [fresh EXCEPT ![w] = 0] /\ tools' = tools \ {w}
    /\ UNCHANGED <<lease, cool, outsideVars, reap, runs>>

-----------------------------------------------------------------------------
(* Expirations: a snapshot of the expired jobs is drained a prefix at a    *)
(* time, in queue order; a job revived since the snapshot is passed over.  *)
ExpiredInQueue == {j \in Queued : job[j].ttl = 0 /\ job[j].phase = "queued"}      \* mutant
Expired == {j \in Queued : job[j].ttl = 0}
Overdue(j) ==
    IF job[j].phase = "queued" THEN "missing"
    ELSE IF Op[j] = "full" /\ job[j].phase = "running" THEN "expired" ELSE "failed"

Prefix(list, m) == {j \in list \cap Expired : j <= m}
Rest(list, m) == {j \in list : j > m}
Drains(list, m) == Prefix(list, m) = {} => Rest(list, m) = {}

DrainMore(m) ==     \* continueExpirations, 500 ms after a tick
    /\ reap # {} /\ Drains(reap, m)
    /\ FinishMany(Prefix(reap, m), [j \in Prefix(reap, m) |-> Overdue(j)])
    /\ reap' = Rest(reap, m)
    /\ UNCHANGED <<workerVars, outsideVars, cool, runs>>

UnsentToo(q) == q.phase \in {"queued", "submitting"}      \* mutant
Unsent(q) == q.phase = "queued"
WithinQuotaOff(n) == n <= Quota      \* mutant
WithinQuota(n) == n < Quota

(* tick, under its lock: expirations, then up to three requests to the     *)
(* provider are prepared.  It does not start while one is running.         *)
Tick(m, newHour) ==
    /\ inflight = {} /\ bgpBusy = NoJob
    /\ LET list == IF reap = {} THEN Expired ELSE reap
           E == Prefix(list, m)
           data == [j \in E |-> Overdue(j)]
           after == Finished(E, data)
           used == IF newHour THEN 0 ELSE provider.used
           live == {j \in Jobs : Op[j] = "globalping" /\ after[j].ttl > 0}
           polls == {j \in live : after[j].phase = "provider"}
           waiting == {j \in live : Unsent(after[j]) /\ provider.blocked = 0}
           submits == {j \in waiting : WithinQuota(used + Cardinality({k \in waiting : k < j}))}
           batch == {j \in polls \cup submits : Cardinality({k \in polls \cup submits : k < j}) < 3}
       IN /\ Drains(list, m)
          /\ reap' = IF Rest(list, m) # {} THEN Rest(list, m)
                     ELSE {j \in Expired : after[j].phase # "done"}
          /\ result' = Recorded(E, data)
          /\ job' = [j \in Jobs |-> IF j \in submits \cap batch
                                    THEN [after[j] EXCEPT !.phase = "submitting"] ELSE after[j]]
          /\ provider' = [provider EXCEPT !.used = used + Cardinality(submits \cap batch)]
          /\ inflight' = {[id |-> j, create |-> j \in submits] : j \in batch}
    /\ UNCHANGED <<workerVars, cool, bgpBusy, runs, created, restarts>>

Gone(j) == j \notin Queued

(* The provider answers, or does not, and the job is looked up again.      *)
CreateReply(r, answer) ==
    /\ r \in inflight /\ r.create
    /\ inflight' = inflight \ {r}
    /\ created' = IF answer = "accepted" THEN [created EXCEPT ![r.id] = @ + 1] ELSE created
    /\ IF Gone(r.id) THEN UNCHANGED <<job, result, provider>>
       ELSE CASE answer = "accepted" ->
                   /\ job' = [job EXCEPT ![r.id].phase = "provider", ![r.id].ttl = RunTime]
                   /\ UNCHANGED <<result, provider>>
              [] answer = "limited" ->
                   /\ job' = [job EXCEPT ![r.id].phase = "queued"]
                   /\ provider' = [provider EXCEPT !.blocked = LeaseTime]
                   /\ UNCHANGED result
              [] answer \in {"failed", "missing"} ->
                   Finish(r.id, answer) /\ UNCHANGED provider
    /\ UNCHANGED <<workerVars, cool, bgpBusy, reap, runs, restarts>>

PollReply(r, answer) ==
    /\ r \in inflight /\ ~r.create
    /\ inflight' = inflight \ {r}
    /\ IF Gone(r.id) THEN UNCHANGED <<job, result, provider>>
       ELSE CASE answer = "finished" -> Finish(r.id, "ok") /\ UNCHANGED provider
              [] answer = "limited" ->
                   provider' = [provider EXCEPT !.blocked = LeaseTime] /\ UNCHANGED <<job, result>>
              [] answer = "pending" -> UNCHANGED <<job, result, provider>>
    /\ UNCHANGED <<workerVars, cool, bgpBusy, reap, runs, created, restarts>>

(* publicTick ends every tick: one BGP snapshot, collected off the lock.   *)
BgpStart ==
    LET C == {j \in Queued : Op[j] = "bgp" /\ job[j].phase \in {"queued", "bgp-running"}}
    IN /\ inflight = {} /\ bgpBusy = NoJob /\ C # {}
       /\ bgpBusy' = First(C)
       /\ job' = [job EXCEPT ![First(C)].phase = "bgp-running", ![First(C)].ttl = RunTime]
       /\ UNCHANGED <<result, workerVars, cool, provider, inflight, reap, runs, created, restarts>>

BgpEnd(outcome) ==
    /\ bgpBusy # NoJob
    /\ bgpBusy' = NoJob
    /\ IF Gone(bgpBusy) THEN UNCHANGED <<job, result>> ELSE Finish(bgpBusy, outcome)
    /\ UNCHANGED <<workerVars, cool, provider, inflight, reap, runs, created, restarts>>

-----------------------------------------------------------------------------
Down(n) == IF n = 0 THEN 0 ELSE n - 1
Pass ==     \* time
    /\ job' = [j \in Jobs |-> [job[j] EXCEPT !.ttl = Down(@), !.left = Down(@), !.wait = Down(@)]]
    /\ fresh' = [w \in Workers |-> Down(fresh[w])]
    /\ lease' = [w \in Workers |-> Down(lease[w])]
    /\ cool' = Down(cool)
    /\ provider' = [provider EXCEPT !.blocked = Down(@)]
    /\ UNCHANGED <<result, known, tools, inflight, bgpBusy, reap, runs, created, restarts>>

Renewable == {j \in Jobs : Op[j] # "full" /\ Exec[j] \in Workers /\ j \in Running(Exec[j])}

Creating == {r.id : r \in {q \in inflight : q.create}}

(* The plugin is reloaded: requests under way (which may have created the  *)
(* measurements of some jobs) and the expiry snapshot are forgotten, and so *)
(* may be the last lease renewals of the jobs in S, which heartbeats save  *)
(* at most every 30 s (63-73).                                             *)
Restart(S, n, some) ==
    /\ restarts < MaxRestarts /\ restarts' = restarts + 1
    /\ inflight' = {} /\ bgpBusy' = NoJob /\ reap' = {}
    /\ job' = [j \in Jobs |-> IF j \in S
                              THEN [job[j] EXCEPT !.ttl = Least(n, job[j].left)] ELSE job[j]]
    /\ created' = [j \in Jobs |-> created[j] + IF j \in some THEN 1 ELSE 0]
    /\ UNCHANGED <<result, workerVars, cool, provider, runs>>

-----------------------------------------------------------------------------
Init ==
    /\ job = [j \in Jobs |-> Blank("new")]
    /\ result = [j \in Jobs |-> "none"]
    /\ known = Workers /\ fresh = [w \in Workers |-> 0] /\ tools = {}
    /\ lease = [w \in Workers |-> 0] /\ cool = 0
    /\ provider = [used |-> 0, blocked |-> 0]
    /\ inflight = {} /\ bgpBusy = NoJob
    /\ runs = [j \in Jobs |-> 0] /\ created = [j \in Jobs |-> 0]
    /\ reap = {} /\ restarts = 0

Administrator ==
    \/ \E j \in Jobs, share \in BOOLEAN : Enqueue(j, share)
    \/ \E G \in Groups : Cancel(G)
    \/ \E w \in Resettable, issue \in BOOLEAN : NodeToken(w, issue) \/ ProbeToken(w, issue)

Measuring ==
    \/ \E w \in Workers : Poll(w) \/ Claim(w) \/ Release(w)
    \/ \E w \in Workers, equipped \in BOOLEAN : \E active \in SUBSET Running(w) : Heartbeat(w, active, equipped)
    \/ \E w \in Workers, j \in Jobs :
         \/ LateFull(w, j)
         \/ \E up \in BOOLEAN : ListenResult(w, j, up)
         \/ \E outcome \in {"ok", "failed", "busy", "limited"} : Result(w, j, outcome)

Ticking == \E m \in reap \cup Expired \cup {NoJob}, newHour \in BOOLEAN : Tick(m, newHour)
Draining == \E m \in reap : DrainMore(m)
Replying ==
    \/ \E r \in inflight :
         \/ \E a \in {"accepted", "limited", "failed", "missing"} : CreateReply(r, a)
         \/ \E a \in {"finished", "limited", "pending"} : PollReply(r, a)
    \/ \E outcome \in {"ok", "failed"} : BgpEnd(outcome)

Next ==
    \/ Administrator \/ Measuring \/ Ticking \/ Draining \/ Replying \/ BgpStart \/ Pass
    \/ \E S \in SUBSET Renewable, n \in 0 .. RunTime, some \in SUBSET Creating : Restart(S, n, some)

Spec == Init /\ [][Next]_vars

(* The scheduler runs every minute, outside requests end (they time out),  *)
(* and time passes.  Nothing is asked of workers or administrators.        *)
Fairness == WF_vars(Ticking) /\ WF_vars(Replying) /\ WF_vars(Pass)
FairSpec == Spec /\ Fairness

-----------------------------------------------------------------------------
TypeOK ==
    /\ job \in [Jobs -> [phase : Phases, ttl : 0 .. QueueTime, left : 0 .. Deadline,
                         wait : 0 .. Backoff * (MaxTries + 1), tries : 0 .. MaxTries,
                         leader : Jobs \cup {NoJob}]]
    /\ result \in [Jobs -> Outcomes \cup {"none"}]
    /\ known \subseteq Workers /\ tools \subseteq Workers
    /\ fresh \in [Workers -> 0 .. OnlineTime] /\ lease \in [Workers -> 0 .. LeaseTime]
    /\ cool \in Nat
    /\ provider \in [used : 0 .. Quota, blocked : 0 .. LeaseTime]
    /\ inflight \subseteq [id : Jobs, create : BOOLEAN]
    /\ bgpBusy \in Jobs \cup {NoJob} /\ reap \subseteq Jobs /\ restarts \in 0 .. MaxRestarts
    /\ runs \in [Jobs -> Nat] /\ created \in [Jobs -> Nat]

(* A worker measures one thing at a time; only latency tests share it, at  *)
(* most MaxLatency of them, and a benchmark holds both of its ends         *)
(* (native-controller.js 556-582, 625-636).                                *)
ExclusiveWorker ==
    \A w \in Workers :
      LET here == {j \in Occupied : w \in Ends(j)}
      IN \/ Cardinality(here) <= 1
         \/ Cardinality(here) <= MaxLatency /\ \A j \in here : Op[j] = "latency"

(* One public speed test at a time in the whole fleet, and one speed test  *)
(* at a time against the same server and port (556-564).                   *)
SerialSpeed ==
    \A j, k \in {x \in Occupied : Op[x] \in Speed} : j # k =>
      /\ {Op[j], Op[k]} # {"public-speed"}
      /\ Site[j] # Site[k]

(* A worker whose maintenance lease is live is measuring nothing and is    *)
(* told to measure nothing (444-456, 535).                                 *)
MaintenanceQuiet ==
    \A w \in Workers : lease[w] > 0 =>
      /\ \A j \in Queued : Exec[j] = w => job[j].phase # "running"
      /\ w \notin Probes => ~Busy(w)

(* However often a worker renews a lease, it ends at the deadline the      *)
(* dispatch set (514).                                                     *)
LeaseWithinDeadline ==
    \A j \in Jobs : job[j].phase = "running" => job[j].ttl <= job[j].left

(* A job that waits for another one waits for a job that is still queued   *)
(* and that waits for none (219-237, report-controller.js 21-32).          *)
LeaderIsQueued ==
    /\ \A j \in Jobs : job[j].phase = "shared" <=> job[j].leader # NoJob
    /\ \A j \in Queued : Leader(j) # NoJob => Leader(j) \in Queued /\ Leader(Leader(j)) = NoJob

(* "Cancellation won; never resurrect its result": what a slot records is  *)
(* final, but for a full benchmark that outlived its deadline.             *)
ResultIsFinal ==
    [][\A j \in Jobs : result[j] # "none" =>
         \/ result'[j] = result[j]
         \/ Op[j] = "full" /\ result[j] = "expired" /\ result'[j] = "late"]_vars

(* Intrusive work is not repeated: one dispatch, plus the retries of speed *)
(* tests that moved no data; and "submission is not repeated": at most one *)
(* Globalping measurement per job (790, 968-972).                          *)
NotRepeated ==
    \A j \in Jobs :
      /\ runs[j] <= IF Op[j] \in Speed \cup {"benchmark"} THEN MaxTries + 1 ELSE 1
      /\ created[j] <= 1

(* Every queued job ends, whatever workers, provider and administrators do *)
(* or fail to do, however often a speed test is busy: a behaviour has       *)
(* finitely many jobs, each queued once, so the queue is empty in the end.  *)
EveryJobEnds == []<>(Queued = {})
=============================================================================
