# Komari Aster: verification project

This directory holds TLA+ models of the stateful part of this repository, the
TLC configurations that check them on small instances, and theorems about them
that the TLA+ proof system (tlapm) checks. The repository is a monitoring theme
(`src/src`, React) with an optional plugin, the *Network Observatory*
(`src/network-observatory`): a controller that runs inside the Komari server,
runners on the measured servers, and a static front end. Almost all state that
outlives a function call is in the observatory, so that is where the models are.

All paths below are relative to the repository root; `plugin/` stands for
`src/network-observatory/plugin/src/` and `runner/` for
`src/network-observatory/runner/`.

## 1. The system

### Components, their state, their operations

| Component | State | Operations | Hard behaviour | What makes it correct |
|---|---|---|---|---|
| Durable job queue, `plugin/native-queue-state.js` | root file, 64 bucket files of an epoch, `pending.json`; a cache (records, dirty marks, next FIFO number, the array last seen) | `readNativeStateIn`, `updateNativeState` (write), `recover`, `touchJob`, `forgetJob`, `invalidate` | a save touches several files; a crash or an I/O error between any two; a cached array changed behind the store's back | a save is one atomic step for every later reader; FIFO numbers stay unique; nothing a crash leaves is refused |
| Dispatch and lease controller, `plugin/native-controller.js` | queue, workers' heartbeats, credentials, maintenance leases, Globalping quota, cool-down of public speed tests, expiry cursor | `poll`, `heartbeat`, `result`, `maintenance`, token and probe routes, `tick` | polls, results, expirations and cancellations interleave; leases and deadlines; retries; requests to Globalping outside the lock | a worker measures one thing at a time; leases end; every job ends; what was recorded is final; intrusive work is not repeated |
| Report controller, `plugin/report-controller.js` | plans and suites, dispatch cursor, active rounds | `enqueue`, `cancelRound`, suites, `publicTick` (recovery, dispatch, retention, BGP), shares | the cursor, the manifest of a round and the queue are saved one after the other; a restart between any two | each planned slot is measured once or recorded as missing |
| Round store, `plugin/round-store.js` | manifests, measurements, receipts, daily index, deletion intents | `create`, `complete`, `acceptLateFull`, `deleteFull`, `recover` | several files per completion; late results; resumable deletion | a result is stored once and stays what it was |
| Retention, `plugin/retention-store.js` | cursor over index days, expiry index | `step` | a bounded slice per tick, while rounds complete | nothing younger than its limit is removed, the cursor finishes |
| BGP and Globalping clients, `plugin/bgp.js`, `plugin/globalping.js` | none | one request | answers later than their job | (used by the controller) |
| Runner agent, `runner/agent.py`, `runner/native.py` | outbox of results, helper tasks, active tasks | poll, measure, post, heartbeat, reconcile | lost answers, restarts, orphan results | a result reaches the controller, a cancelled task stops |
| Full-benchmark helper, `runner/tcpquality_helper.py` | a directory per task | start, status, result | a restart of either side | one benchmark at a time |
| Updater, `runner/updater.py` | journal with the replaced files, maintenance leases, services | survey, claim, install, check, roll back, recover | a stop or a reboot between any two commands, failing commands, jobs and administrators beside it | an upgrade is done or undone; the privileged helper never runs beside a mixture |
| Theme data layer, `src/src/services` | socket, pending requests, stores | connect, reconnect, request, fallback | stale sockets, timeouts | answers reach their request |
| Theme UI, hooks, workers, report builders | React state | rendering | | |

`PROJECT.json` lists every component with its status, and every hazard with the
line at which it bites and the properties that would catch it.

### How they interact

    administrator --HTTP--> report controller --enqueue/cancel--> queue (shared object)
    worker (runner) --HTTP poll, heartbeat, result, maintenance--> lease controller
    scheduler, every minute --> lease controller tick --> Globalping (outside the lock)
                                                     --> report controller publicTick --> BGP
    lease controller --finishMany--> round store (result files), then queue store (save)

Every handler of the controller runs inside `lock` (`plugin/native-controller.js`
27-36), a promise queue, so handlers exclude each other; when one throws, the
cached queue is dropped (`invalidate`) and the next handler reads the disk. Only
the requests to Globalping and the BGP collection run with the lock released,
and look their job up again when they return.

## 2. Modules

| Module | Models | Kind |
|---|---|---|
| `NativeQueue` | `plugin/native-queue-state.js`, whole file but `options.replace` | component |
| `AtomicQueue` | what that file promises: rows and metadata change together, FIFO places are kept | abstract specification |
| `MCNativeQueue` | instances of `NativeQueue` | model checking |
| `NativeQueueProofs` | the inductive invariants and theorems of `NativeQueue`, its refinement of `AtomicQueue` among them | proofs |
| `FiniteNaturals` | facts about finite sets and numbers for the proofs | lemmas |
| `JobLease` | `plugin/native-controller.js` with `enqueue`, `cancelRound` and `publicTick`'s BGP loop of `plugin/report-controller.js`, and `acceptLateFull` of `plugin/round-store.js` | component |
| `MCJobLease` | mixes of jobs for `JobLease` | model checking |
| `JobLeaseProofs` | the inductive invariants and theorems of `JobLease` about time, results and retries, and about what may run beside what | proofs |
| `RoundStore` | the files of `plugin/round-store.js`, one write at a time | component |
| `ResultLedger` | what that file promises a reader: a result, once there, stays | abstract specification |
| `MCRoundStore` | four mixes of rounds | model checking |
| `RoundStoreProofs` | the inductive invariant and theorems of `RoundStore`, its refinement of `ResultLedger` among them | proofs |
| `RoundRecovery` | `plugin/report-controller.js` (dispatch, manual rounds, cancellation, recovery) with `finishMany`, `tick` and the worker routes of `plugin/native-controller.js` | composition of rounds, cursor and queue |
| `MCRoundRecovery` | three rounds of two suites | model checking |
| `RoundRecoveryProofs` | the inductive invariant and theorems of `RoundRecovery` | proofs |
| `Retention` | `plugin/retention-store.js` beside rounds that start and finish | component |
| `MCRetention` | two rounds of one index day | model checking |
| `RetentionProofs` | the inductive invariants and theorems of `Retention` | proofs |
| `FullBenchmark` | a full benchmark between the panel, `runner/agent.py` and `runner/tcpquality_helper.py` | composition of three processes |
| `MCFullBenchmark` | one benchmark and every fault, or two | model checking |
| `FullBenchmarkProofs` | the inductive invariant and theorems of `FullBenchmark` | proofs |
| `Updater` | `runner/updater.py` with the maintenance leases and jobs of the panel, the host's service manager and its administrators | component |
| `MCUpdater` | a host with two identities | model checking |
| `UpdaterProofs` | the inductive invariant and theorems of `Updater` | proofs |

The levels fit together: `NativeQueue` shows that a save of the queue is one
atomic step, and `JobLease` and `RoundRecovery` use it as one step;
`RoundStore` shows that a recorded result stays, and `RoundRecovery`,
`Retention` and `FullBenchmark` treat a slot or a recorded result as one piece
of state. `JobLease` has time and no files, `RoundRecovery` files and no time.

### NativeQueue

| State | In the code |
|---|---|
| `root` | `native-state.json`: missing (a new installation), inline (an older version, with its jobs) or sharded |
| `dir` | the directory of the epoch: which bucket files exist and the rows they hold |
| `pending` | `pending.json`, the write-ahead intent: what becomes of each job, the rank of the change, the metadata |
| `queue`, `meta` | the value handed to the callers: `value.jobs` (with positions) and its other fields |
| `recs`, `next`, `dirty`, `synced` | the cache: `records`, `nextOrder`, `dirty`, `syncedJobs`/`syncedLength` |
| `pc`, `todo`, `rootDue` | where the running read or write is: buckets and root still to write |

One action per file operation: `Load` (a read with nothing pending), `Recover`
(the checks of a pending intent), `Save` (up to the rename of `pending.json`,
the commit), `WriteBucket`, `WriteRoot`, `Unlink` (the intent is removed and the
save returns), `Stop` (the process dies, an operation fails, or a caller throws:
all memory is dropped). The callers change the value by `Push`, `Touch`
(`touchJob` with the change), `Finish` (`forgetJob` with the `filter` that
follows it) and `SetMeta`.

Abstractions: job contents and metadata are model values; a bucket file holds
exactly the rows of its jobs; there is one epoch, since a running plugin creates
only one; `checkRecord` and the other checks for files nobody of this program
wrote are left out; `options.replace`, which only tests and tools use, is left
out; a rename is durable once it has happened (the code writes without fsync, so
power loss is out of scope). No caller replaces a slot of the array in place, so
the model has no such step.

### JobLease

| State | In the code |
|---|---|
| `job` | a job's `phase`, `expiresAt` (`ttl`), `deadlineAt` (`left`), `availableAt` (`wait`), `busyAttempts` (`tries`), `sharedJobId` (`leader`) |
| `result` | what the round store has recorded for the slot of the job |
| `known`, `fresh`, `tools`, `lease` | per worker: a valid token, `seenAt` is recent, capabilities suffice, maintenance lease |
| `cool` | `publicSpeedBlockedUntil` |
| `provider`, `inflight` | Globalping's `used` and `blockedUntil`; requests of the running tick |
| `bgpBusy` | the BGP collection under way |
| `reap` | `expiryJobs` from `expiryCursor` on |
| `runs`, `created` | history: dispatches of a job, Globalping measurements created for it |

One action per handler: `Enqueue`, `Cancel`, `Poll`, `Heartbeat`,
`ListenResult`, `Result`, `LateFull`, `Claim`, `Release`, `NodeToken`,
`ProbeToken`, `Tick`, `DrainMore`, `CreateReply`, `PollReply`, `BgpStart`,
`BgpEnd`, `Restart`; `Pass` lets one unit of time go by. All timers count down,
so that comparisons with the clock become comparisons with 0. A job number is
its place in the queue.

Abstractions: workers always report the capability `report-v3`; every job has a
target; the plan's dispatch appears as separate `Enqueue` steps; the listening
lease (240 s) and the BGP lease (120 s) are `RunTime`; a follower is created
whenever `share` says so, which abstracts the comparison of planned times;
catalogue refresh, inventory and update policies are not modelled; the queue is
durable at the end of each handler (that is what `NativeQueue` is about), except
that `Restart` may take back lease renewals, which heartbeats save at most every
30 s.

### RoundStore

| State | In the code |
|---|---|
| `manifest`, `measured` | `manifest.json`, the measurement files |
| `receipt`, `fullReceipt` | the receipts by day (pairs of a slot and a UTC day), those of `full-receipts` with the day they name |
| `index`, `active`, `intent`, `tomb` | the row in the daily index, `active.json`, the deletion intent, the renamed directory of a deletion |
| `dirty`, `trusted`, `mode` | manifests a batch holds back, `recoveredRounds`, inside or outside `batch(fn)` |
| `todo` | the writes the running operation has left, in their order |
| `unscanned` | rounds that the recovery of this process has not seen |
| `queued`, `settled`, `planned` | the controller: jobs in the stored queue, jobs a handler takes out of it, rounds the suites ask for |
| `day`, `recordedOn` | the UTC day of the clock; history: the day of the last receipt of a slot |

The store is synchronous: an operation (`Create`, `Complete`, `Progress`,
`LateFull`, `AddUrl`, `Read`, `Scan`, `DeleteFullRound`,
`ResumeFullDeletion`, `OpenBatch`, `CloseBatch`) looks at files and memory once
and puts its writes into `todo`; `Write` does one of them, `WriteFails` ends the
operation with an error, `Crash` ends the process. `Queue` and `Dequeue` are the
controller's save of the queue before and after. `NextDay` is midnight between two
operations: a `complete` that is repeated after it, because the process ended before
the job left the queue, leaves a receipt in the bucket of each day
(`plugin/retention-store.js` 192-196), and a deletion removes the one it finds
first (`plugin/round-store.js` 550-552).

Abstractions: data of a measurement are its state and three marks (stands for a
missed deadline, replaced one that did, has its URL); every round has an index
file of its own; a behaviour is shorter than the seven days for which
receipts by day are looked up, and removing old ones is `retention-store.js`'s;
`complete` runs inside a batch, as its callers do; evictions
from the LRU caches only shrink `trusted` and are left out; `rebuild` and
`cleanup` have no caller in the controllers. When a late full benchmark is
interrupted between its manifest and its index row, the row stays behind until
the next write of the round; `SettledIsIndexed` therefore leaves out rounds with
a late result.

### RoundRecovery

| State | In the code |
|---|---|
| `slot`, `saved`, `origin` | manifests: the slot of a job, the copy of the job, the occurrence a round was created for |
| `queue`, `cursor`, `planned` | `s.jobs`, `s.reportDispatch` and the suites' `nextAt`, in the cache |
| `disk` | the same as last saved (one step, by `NativeQueue`) |
| `recovered` | `recovered` of the tick: the rounds of before the start have been recovered |
| `todo` | the writes the running handler has left |
| `held`, `executed`, `followed`, `begun`, `calm` | jobs at a worker, and history for the properties |

A handler (`Tick`, `DispatchStep`, `Run`, `Cancel`, `Poll`, `Result`) computes
what it makes of the cache and its writes in order; `Write` does one write,
`SaveQueue` the last one, `Fail` is an error that drops the cache, `Crash` the
end of the process. Dispatch, recovery, sharing (`shareJob`) and `finishMany`
are operators on a record of the handler, as they are functions on the state in
the code.

Abstractions: planned times are always within the minute in which equal
measurements are shared; a job is "unready" when its worker lacks the capability
or its time has passed; a slice of the dispatcher takes up to two members; the
order of the cursor is free, though the code rotates it first in, first out;
retries of a worker and the finer timers are `JobLease`'s.

### Retention

| State | In the code |
|---|---|
| `manifest`, `parts` | `completedAt` and `detailAvailable` of a manifest; how many measurement files are left |
| `queued` | rounds for which `isRoundActive` holds |
| `index`, `expiry` | rows of an index day, `retention.json` |
| `stored`, `cycle`, `cached`, `run` | `maintenance.json`, the cycle in memory, the cached index day, the running slice |
| `todo` | writes left of the running handler |
| `done`, `clock` | when a round was first completed; the time in units longer than the hour between cycles |

`StartRun`, `Steps` and `EndRun` are a slice of maintenance, `Create` and
`Complete` the rounds beside it; `Write`, `Fail` and `Crash` are the files.

Abstractions: one server, one module, one kind of file deletion at a time; the
cache of directory listings and the fingerprint of the configuration are left
out, as are receipts by day, their migration, and the deletions of full
benchmarks with which a cycle begins (`RoundStore` has those). The branch that
abandons an index day whose file vanished is modelled and, as nothing else
removes the file, no state of the model reaches it.

### FullBenchmark

| State | In the code |
|---|---|
| `phase`, `record` | the panel: queued, running or gone; the recorded result |
| `starts`, `outbox`, `orphans` | `<id>.start.json`, `<id>.json`, `<id>.orphan.json` of the agent's outbox |
| `allowed`, `main`, `beat` | `_helper_allowed`, where the main loop is, what the heartbeat thread was told |
| `up`, `task`, `active`, `doomed` | the helper listens; `<id>/task.json`; its threads; those told to cancel |
| `runs`, `faults` | history: how often a job was measured; lost answers and ends so far |

The main loop is `flush_helper_starts` (`BeginStarts`, `StartStep`, `AskStart`,
`NoHelper`, `RemoveStart`), `collect_helper_results` (`Collect`),
`flush_results` (`Post`, `RemoveResult`, `RetainOrphan`, `Acknowledge`) and
`poll` (`Poll`, `Claim`). A step lies between any two file operations and
requests, so `AgentRestart` may come between them; a request or its answer may
be lost (`Lossy`), which ends the pass. The heartbeat is `Beat` and `Reconcile`,
with the answers of both sides growing old in between. The helper is its four
requests, `Finish`, `RetryPending` (the upload tried again), `HelperStop` and
`HelperUp`.

Abstractions: one server; the dispatch has the helper's feature, so that the
branch for a worker without it is left out; a queued benchmark does not expire;
listing the tasks and reading them is one step, as is a heartbeat with its
answer; a NodeQuality run without URL has no later revision; the limit of seven
days on the outbox concerns plain results.

### Updater

| State | In the code |
|---|---|
| `file` | what is installed, per file: the old version, the new one, nothing |
| `journal` | `upgrade-transaction.json`: the replaced files, the services that ran, whether the helper is to be disabled first |
| `worker`, `wanted`, `helper` | the host: which code a worker's process runs, which start at boot, the privileged helper |
| `panel` | per identity whether its lease in `s.maintenance` is live, and its jobs (`workerBusy`): of its own poll, or as the far end of a benchmark that a server's poll began |
| `run` | the running updater: `perform`'s place and its local variables |
| `todo` | the commands of the running installation or recovery that are left, stage after stage |

`Begin` is `perform` with the `recover` it starts with; `Survey` everything
before the download, `Leave` its early returns; `Claim` one POST, whose answer may
be lost; `WriteJournal` the journal. Then one command at a time: `SwitchHelper`,
`StopWorker`, `Place`, `StartWorker`, `Healthy` (with `Reported`, a heartbeat of
the new instance), until `Commit` removes the journal. `Fail` is the `except` of an
installation and the exception of a recovery; `Release` is `finally`. `Crash` ends
the updater (a signal, the timeout of its unit, a lost terminal) and `Reboot` the
host. A recovery stops services without looking whether they stopped, so there
`StopWorker` may leave one running.

Beside it the panel works on (`PanelStep`): `Dispatch` gives a job to a worker that
polls without a live lease, `Reserve` is a server's poll that begins a benchmark
with a probe of the host, whose lease it does not ask for
(`plugin/native-controller.js` 624-667), `Done` ends jobs, and `Expire` is the end of
a lease ten minutes after its claim, whether or not an updater still holds it.

Abstractions: within a stage the order is free, which includes the code's;
download, checks and the candidate's own check are `GiveUp` when they fail; the
two versions are the installed and the panel's; a signal between the removal of
the journal and the end of the `try` (`runner/updater.py` 333-337) is not told from
one after it;
administrators start no worker while an updater runs, but stop any; the OpenRC
and the systemd branch are one, since they do the same in the same order.

## 3. Runs

All bounds are CONSTANTs: `MaxOrder` (FIFO numbers given), `MaxStops`,
`MaxCrashes`, `MaxErrors`, `MaxFaults`, `MaxTroubles` (crashes, failed writes, lost
answers, failing commands), `MaxRestarts` (reloads), `MaxClock`, `MaxDay`. Everything else is finite as in the code.

| Run | Instance | Shows |
|---|---|---|
| `native_queue` | 3 jobs in 2 buckets (two of them in one), 2 metadata values, an inline queue of two jobs or none, one job marked before its first save, 1 crash, fair store | a clean cache equals the disk (`ReaderSeesCommitted`); a save stores the array it was given; only the rename of the intent changes what readers will find (`OnlySavesCommit`); the store implements `AtomicQueue`, FIFO places included; after a crash the queue becomes readable |
| `queue_full` | 3 jobs, capacity 2, 1 crash | **violated**: recovery counts a half-applied epoch against `MAX_JOBS` |
| `worker_jobs` | 1 server with 3 latency tests (two the same measurement), room for 2, cancellation, new tokens, lease renewals and 1 reload; 2 servers with a public and an HTTP speed test each that may be busy, 1 retry, in three mixes; fair scheduler | worker exclusivity, leases within deadlines, followers of live leaders, public tests serial in the fleet and HTTP tests of one server serial, every job ends |
| `jobs` | four mixes: a benchmark, a full benchmark and a latency test of a server and a probe; the first two with a reload; two equal Globalping measurements; a BGP snapshot; maintenance of both ends, quota 2 | workers in maintenance are quiet, nothing is submitted twice, the quota holds, results are final |
| `round_store` | a round of two targets; two rounds that finish in one batch; a round of one target; a full benchmark that may be late, get its URL, be deleted and created again; 1 crash each, and in the last two 1 failed write; midnight in the last | unfinished rounds stay listed, ended ones are indexed, results stay and surface, replays get their answer, deletions leave at most receipts of earlier days, and end |
| `recovery` | two planned rounds that share a target, 1 crash, 1 failed write (also of the queue); two rounds of one suite without faults | no round is forgotten, nothing is measured or dispatched twice, equal measurements are made once, one unfinished round per suite |
| `recovery_ends` | two rounds by hand that share a target, 1 crash, fair handlers | every created slot gets a result |
| `recovery_full` | two jobs, room for one, 1 crash | **violated**: recovery finds more jobs than a save accepts |
| `retention` | two rounds of one day, two measurements each, details kept 1 unit and rounds 3, 5 units, 1 crash or failed write | days are scanned in time, nothing goes early, a manifest that offers details has them, every round goes |
| `full_benchmark` | one benchmark and 3 faults; two benchmarks and 1 | measured at most once, reported unreachable only when it is not measured, copies given up only for a result the panel has, every report delivered or kept |
| `updater` | a server and a probe of one host, the agent's program and the helper's unit, the helper installed, on or absent; 2 crashes, reboots or failing commands; upgrades hourly and by hand; fair timer | an upgrade is done or undone or has its journal, the helper runs only beside the installed version, no worker under upgrade takes a job by its own poll unless its lease ran out, an interrupted upgrade is recovered |
| `full_benchmark_late` | one benchmark, 2 faults | **violated**: a benchmark recorded as failed is started |

Why the bounds are enough. *Queue*: two jobs of one bucket and one of another
give every order of bucket writes and every mix of changes within and across
buckets; one crash can fall between any two file operations, and because a
recovery is itself an apply that starts from the files alone, a second crash
meets a state the first could have left (the theorem `SavesAlone` covers any
number). *Leases*: each mix has two competitors for each exclusion rule plus one
job of another kind; timers keep the order of the code's (renewal <= lease <=
deadline <= queue wait), with one or two units each, which is enough for any of
them to run out before, with or after any other. *Rounds*: the handlers write a
round at a time, so two rounds give every interruption between the files of one
and those of the next; a leader and a follower in different rounds are the
smallest case of sharing. *Retention*: two rounds of one day give a day that
needs scanning again after the first has gone; the clock reaches both limits of
a round that begins at any of the first units. *Full benchmark*: two jobs of a
server give the refusal "another task runs"; three faults allow a lost start, a
restart of the agent and one of the helper in every order. *Updater*: two
identities are the least that can be claimed, stopped or started in part, two
files the least that can be a mixture (the program that workers run and the unit
whose presence the updater looks at); two troubles are a crash of an installation
or a command of its rollback that fails, and one of the recovery after it (an
unhealthy release, with which a rollback begins, costs none); the proofs cover
every number of all of them. *Midnight*: a deletion looks for one receipt per slot, so
two days tell the one it removes from the one it leaves.

`CHECK_DEADLOCK FALSE` in every configuration: the queue store may refuse to
open (that is `NeverRefused`), and the other systems stop when their jobs are
done and their bounds reached.

Fairness. `native_queue`: WF of the store's own steps, which are synchronous
code that runs on unless the process stops; stops are finite by the bound.
`worker_jobs`: WF of `Ticking` (a timer calls the tick every minute), of
`Replying` (outside requests have timeouts, so each ends) and of `Pass`; nothing
is assumed of workers, administrators or the provider's answers: a job ends
because leases run out (`EveryJobEnds`: again and again no job is queued, as
administrators enqueue a bounded number). `round_store`: WF of the writes of the running
operation, of the batch that closes and of the recovery after a start.
`recovery_ends`: a handler ends (WF of `Write` and of `SaveQueue \/ Fail`); the
tick comes between other handlers (SF, since it waits for the lock) and in the
end finds each job past its time; the dispatcher goes on. `retention`: WF of the
steps of a slice and of time; SF of `StartRun`, which the tick calls again and
again, and of a worker that posts its result until it is accepted.
`full_benchmark`: WF of the agent's main loop and heartbeat, of the helper's
restart by its service manager and of the end of a measurement, which has a
timeout; an upload may fail for ever. `updater`: WF of the hourly
`Begin("auto")` and of what it does (commands have timeouts).

### Findings

- **A full queue can become unreadable** (`queue_full`,
  `plugin/native-queue-state.js:62`). `loadEpoch` checks the capacity before the
  pending intent is replayed, so removing a job of one bucket and adding one to
  another at `MAX_JOBS` (10000), with a stop after the adding bucket, makes every
  later read throw.
- **A recovery can overfill the queue** (`recovery_full`,
  `plugin/report-controller.js:486`). `recoverJob` pushes without the capacity
  check of `enqueue` (344-347), so a recovery can find more jobs than any handler
  queued. In TLC's behaviour a run click makes a round that fills the queue and one
  whose worker is not ready, and the process ends before the second is recorded as
  missing and the queue is saved; when that worker is ready again, the first tick
  puts both back. The same happens when the save of a new round is lost and, between
  the restart and the first tick, a run click fills the queue (the dispatcher cannot:
  ticks schedule it after their recovery). The save of the tick is then refused, the
  cache is dropped, and since `recovered` is set before it (line 1096), the jobs are
  lost until the next start.
- **A benchmark recorded as failed can run** (`full_benchmark_late`,
  `runner/agent.py:471`). The file that keeps it from starting is its result in
  the outbox; after a restart that result is delivered and removed before the
  first heartbeat is answered, and the next pass finds the start file alone.

Weaknesses met while modelling that no comment or test of the repository
contradicts, and that no run states: a public speed test that is cancelled or
expires leaves no cool-down, only a worker's result does
(`plugin/native-controller.js:785`); when a leader is ended, its followers can
be recorded as failed while its own later result is good (line 888 and
`plugin/report-controller.js:466`); a recovery whose save fails is not repeated
until the next start (`plugin/report-controller.js:1096`); a click that starts
several rounds can be stored in part (line 346); an array slot replaced in place
beside a marked update would be missed by the short path of `syncStructure`
(`plugin/native-queue-state.js:183`), which no caller does; a helper that ends
between the directory of a task and its `task.json` answers neither start nor
status for it (`runner/tcpquality_helper.py:220`), and the agent's passes end at
that request until the lease is over; a worker that an administrator stops after
the updater looked at it is started again (`runner/updater.py:313`), and an
upgrade that ends between the last check and the removal of its journal is rolled
back by the next run, though it was good; between a reboot and that next run, up
to an hour later, workers may run a mixture of two versions (`HelperTogether`
says that the helper does not); a benchmark that starts to listen for a probe in
maintenance makes it busy during an upgrade (`plugin/native-controller.js:634`), and
a lease that is not renewed may run out under an installation by hand that takes
more than ten minutes (`plugin/native-controller.js:453`), which is why
`UpgradeOfIdle` speaks of jobs of the own poll and of live leases.

One weakness touches a comment. `finalizeDeletedFull` says "The index and receipts
are gone before removing the manifest" (`plugin/round-store.js:556`); after a
`complete` that was repeated on another UTC day the receipt of the earlier day stays
(`plugin/round-store.js` 548-553, `plugin/retention-store.js` 192-200) until
maintenance removes it with its age. It vouches only for the worker that posted the
deleted result, and `DeletionIsWhole` and `AnswerSurvives` state what does hold.

Mutants: for each property of a passing run, `PROJECT.json` names a definition
and a plausible bug of the code in its place (marked `\* mutant` in the
modules); TLC finds the property violated with it.

## 4. Proofs

`NativeQueueProofs` proves for every set of jobs and buckets, every capacity and
any number of crashes, from the assumptions `QueueConstants`, `QueueNulls` and
`NoTxIsNoTx` of `NativeQueue`:

- `TypeCorrect`: `Spec => []TypeOK`.
- `SavesAlone`: `Spec => OnlySavesCommit`. What a later reader will find, the
  committed intent included, changes only when `pending.json` gets its name.

The argument. `StoredRows` is the merge of the pending changes over the bucket
files. Writing a bucket does not change the merge, because what it writes is the
merge already (`MergeAgain`); removing the intent does not change what is
stored, because by then every bucket and the root have been written. So the
inductive invariant `IInv` must say how far an apply has come (`Applied`: the
rows in memory are the merge, buckets outside `todo` hold them, the root is due
or written), what may be pending (`Journal`: a migration carries metadata, an
update meets a sharded root, an epoch without a root is empty) and, so that a
save can leave untouched buckets alone, that memory and disk differ in marked
jobs only (`Cached`). For that last part `SyncMarks` shows that `syncStructure`
leaves no changed job unmarked, on its short path too. `NextOrderAbove` (from
`GreatestValue` of `FiniteNaturals`) shows that `nextOrder` is a natural number
above all orders in use. `IInv` was checked with TLC on the
instance of `native_queue` before it was proved.
- `ReadersSeeCommits`: `Spec => []ReaderSeesCommitted`.
- `SavesStoreTheArray`: `Spec => []SavedIsStored`.
- `QueueIsAtomic`: `Spec => ImplementsAtomicQueue`, the refinement of
  `AtomicQueue`.

These need a second invariant, `Memory`, since what they speak of is the array
in memory and not the files. The array and the cached records are two copies of
the queue that callers and the store change at different times: `Remembers` says
that jobs in both have the same contents and the same order and that newcomers
stand behind them, `Marks` what a dirty mark may say of the array, `Matches` that
a save under way writes the array it was given, and `Numbered` and `Inline` that
FIFO numbers do not change between two saves. Without `Numbered` a reload could
put jobs in another order than the one callers were shown.

`JobLeaseProofs` proves for any finite set of jobs, any workers, executors,
groups, timers, limits and number of reloads, from the assumption
`LeaseConstants` of `JobLease`:

- `LeaseTypes`: `Spec => []TypeOK`. All timers, waits, retry counters and the
  Globalping quota stay in range.
- `LeasesEnd`: `Spec => []LeaseWithinDeadline`.
- `FollowersWaitForLeaders`: `Spec => []LeaderIsQueued`.
- `WorkIsNotRepeated`: `Spec => []NotRepeated`.
- `ResultsAreFinal`: `Spec => ResultIsFinal`.

The argument. What a step does to a job is one of seven moves (`Moves`: kept but
for its timers, closed, freed from a cancelled leader, entered, advanced,
started, retried), and whatever moves a step makes, they keep the invariant of
jobs (`LifeGoesOn`). So each action needs only to be shown to make moves:
`FinishedJobs` does this once for `finishMany`, which most actions call, and
`OneMove` and `TimersMove` for actions that move a single job or only timers.
The invariant `IInv` adds to the properties what they rest on: dispatches are
retries plus one while a job runs (`Dispatches`), only ended jobs have results
(`Final`), a request outside is for a job in the phase that sent it or for an
ended one (`Requests`), and a job being submitted has no measurement yet
(`Submissions`), which is why a reload or a late reply cannot create a second.
`QuotaKept` is the counting argument of a tick that prepares several requests:
each was admitted against those before it, so the last one bounds them all.
`IInv` was checked with TLC on the instances of `JobLease` before it was proved.

Its second part proves, for the same constants and besides from the
assumption `Placement` (probes and servers are different workers, a benchmark is
run by a probe, and only jobs of Globalping and of the BGP collection have no
worker: the plan model builds jobs so, `plugin/report-model.js` 219-456):

- `WorkersAreExclusive`: `Spec => []ExclusiveWorker`.
- `SpeedTestsAreSerial`: `Spec => []SerialSpeed`.
- `MaintenanceIsQuiet`: `Spec => []MaintenanceQuiet`.

The argument. The three properties speak of jobs that run beside each other.
Most steps are `Calm`: they start no work on a worker and give no lease, and
ending jobs or letting timers run adds nobody to those who hold a worker
(`CalmHolds`, `FewerJobs`). `Placed` says what a job in each phase measures and
where. What is left are the poll, which starts at most one job after looking at
all others (`Launch`), and the maintenance claim.

`RetentionProofs` proves for any rounds, days, limits, crashes and failed
writes, from the assumption `RetentionConstants` of `Retention`:

- `ScansAreScheduled`: `Spec => []ExpiryScheduled`.
- `NothingGoesEarly`: `Spec => []NothingEarly`.
- `DetailsAreMarkedFirst`: `Spec => []MarkedFirst`.

The argument. A handler leaves a list of writes, and a crash keeps any beginning
of it, so each invariant has a part about the writes that are left, related to
the files as they will be when their turn comes. `Scheduled` adds to
`ExpiryScheduled` that the cached index is the file (`Cached`) and that an index
is written when its day is scanned in time or an expiry is written before it
(`Planned`). `Careful` adds to `NothingEarly` and `MarkedFirst` when a round ended
(`Completion`), that only ended rounds have rows with a time
(`RowsOfCompleted`), that the deletion a cursor stands at is due (`Cursors`), and
that each write left is rightful (`Rightly`): a manifest goes only when its time
has come, parts only after the manifest has stopped to offer them.
Both were checked with TLC on the instance of `retention`, with two failed
writes and with two days too, before they were proved.

`FullBenchmarkProofs` proves for any jobs of a server and any number of faults,
from the assumptions `FullBenchmarkConstants` and `NoneIsNoRecord` of
`FullBenchmark`:

- `MeasuredAtMostOnce`: `Spec => []StartedOnce`.
- `FailuresAreTrue`: `Spec => []FailureIsTrue`.
- `ReportsAreKept`: `Spec => []ReportKept`.

The argument. The three processes share nothing, so the invariant says what each
of their files implies about the others: a job the panel has not dispatched has
neither a start file nor a task (`Waiting`); a start file marked "new" means
that no request went out, so the helper cannot know the job (`Untried`), which
is what makes a failure saved then true; a data file of the outbox is a failure
of a job without task, or a revision of what the helper has (`Came`); a report
recorded by the panel came from the helper (`Recorded`); and while the main loop
is about to acknowledge a revision, that revision, if it is still the helper's
last, is recorded or the job was ended otherwise (`Settled`). `EndingKeeps`
covers both ways in which measurements end, by themselves and by a restart of
the helper. The theorems are about `Spec`; the run starts from some of its
initial states. `IInv` was checked with TLC on the instance of `full_benchmark`
before it was proved.

`UpdaterProofs` proves for any identities and files of a host and any number of
crashes, reboots and failing commands, from the assumption `UpdaterConstants` of
`Updater`:

- `TypeCorrect`: `Spec => []TypeOK`.
- `DoneOrUndone`: `Spec => []NothingHalfDone`.
- `HelperIsSafe`: `Spec => []HelperTogether`.
- `Undisturbed`: `Spec => []UpgradeOfIdle`.

The argument. While the updater works the journal is there, and what it holds is
of one version, because it was written when no other was (`Journalled`); a file
that is no longer to be placed has its place (`Replaced`) and a worker that is to
run does or is still to be started (`Revived`), so when nothing is left, and only
then, the journal goes. The helper is off when the first file is placed, and
stays off until the end of a healthy upgrade: `Guarded` says that the journal
knows of every helper that may be on and that it is taken from the boot first,
which is why a reboot in between does not bring it back. When it is switched on
again every worker runs the new version (`Renewed`), as each was stopped before
it was started. `Leased` says, from the claims to the release, that a worker whose
lease the updater took is at a job of its own poll only when that lease has run out;
`PanelWork` shows that whoever the panel gives such a job has no live lease.
`IInv` was checked with TLC on the instance of `updater` before it was proved.

`RoundStoreProofs` proves for any rounds and slots, crashes and failed writes,
from the assumptions `StoreConstants` and `RowIsEntry` of `RoundStore` (rounds and
slots are finite, a behaviour has at most seven days; a
manifest, a measurement, a row, no file, a day and a renamed directory are different
things; an index row is the record `Summary` builds, never "no row"):

- `RestartsFindRounds`: `Spec => []UnfinishedIsListed`.
- `HistoryIsIndexed`: `Spec => []SettledIsIndexed`.
- `AnswersSurvive`: `Spec => []AnswerSurvives`.
- `DeletionsAreWhole`: `Spec => []DeletionIsWhole`.
- `StoreIsLedger`: `Spec => ImplementsResultLedger`, the refinement of
  `ResultLedger`.

The argument. All of them are about the order of the writes of an operation, and
none is inductive, as a write may rely on those before it. `Ready(w, D)` says what
has to be so for write `w` when the writes `D` have been made: an entry leaves the
active list only when the round has ended and its row is written
(`ReadyDrop`), a slot is closed in a manifest only with its measurement there
(`Backed`), an answer is settled only with its receipts written (`ReadySettled`),
a receipt by day is removed only for a slot under deletion, and as that of the last
day (`ReadyReceipt`, from `SoundReceipts`: the receipt of `full-receipts`, or without
it the newest by day, is of the day on which the slot was last recorded, but between
the two receipts of a job that is recorded again), and an intent
goes only when directory, row and these receipts have gone (`ReadyIntent`).
`InOrder` asks this of every write of `todo`, after those before it. The
invariant `Sound` is `InOrder(todo, {})` with what the files and the memory say of
each other between two writes. Three parts of the proof: an operation leaves
writes in order (`CreateGood` to `FlushGood`, one lemma per operation); making the
first of them leaves the others in order (`OrderNext`, from one lemma per
condition of `Ready`); and a write that is ready keeps what `Sound` says of the
files (`WriteSound`). A crash or a failed write then needs no argument of its own:
it drops a list of writes, and the files were sound already. The refinement
follows, since of all writes only a measurement and a new intent change what
`ResultLedger` shows, and `Ready` says which change that is. `Sound` was checked
with TLC on the instance of `round_store` before it was proved.

`RoundRecoveryProofs` proves for any jobs, rounds, planned times, capacity of the
queue, crashes and I/O errors, from the assumption `RecoveryConstants` of
`RoundRecovery` (the jobs are finite; "none" is no job, no occurrence and no entry
of the queue):

- `OneMeasurement`: `Spec => []MeasuredOnce`.
- `OneRoundPerOccurrence`: `Spec => []OccurrenceOnce`.
- `OneUnfinishedRound` and `OneMeasurementShared`: `Spec => []OneUnfinished` and
  `Spec => []SharedOnce`, when the queue has room for all jobs.
- `NothingForgotten`: `Spec => []OpenIsQueued`, when every round is the only one
  of its suite and has one planned time (`AllLone`), or when the queue has room
  for all jobs and there are no I/O errors; crashes are free in both.
- `RecordedResultsStay`: a slot with a result keeps it in every step.
- `TypeCorrect`: `Spec => []TypeOK`.

The argument. A handler is a record (cache, slots as it sees them, writes, the
manifests of its batch), and every operator on it keeps what a handler promises:
`Contract` (each round is made and each slot ended at most once and in that order,
`Orderly`; what it sees is what the disk will be, `Views`; a job that a worker has
is never marked as waiting, `Minds`) and `Sound` (no open slot is left without its
job or its occurrence, and without faults the queue is exactly the open slots).
There is one lemma per operator: results, `finishMany`, the recovery of a job,
orphans, `enqueue`, expirations, cancellation. The code repeats them in loops over
jobs; `Fold` stands for such a loop, and `FoldKeeps` is the induction over its
steps: it takes a set for each number of steps instead of a predicate, so it needs
no theorem with an operator as a parameter, and `StepFolds`, `ResultFolds`, `FinishFolds`
and `RecoverFold` show that the folds of the model are these. `BeginKeeps` turns a sound handler and its
last steps into the invariant `IInv`, once for all handlers.

`IInv` speaks of what the slots will be when the steps that are left have been
made (`Opened`, `Unmade`, `Cancelled`), which a write does not change
(`SameInTheEnd`), so that `WriteKeeps` is one lemma for all writes. A crash or an
I/O error drops the steps and reads the saved cache, so `IInv` says separately
what that cache and the slots on the disk have in common (`KnownInv`, the second
half of `MeasuredInv`, the last part of `KeptInv`). `IInv` was checked with TLC
by simulation on five instances (up to four jobs in three rounds, with room or
with capacity 2, two crashes, two errors) before it was proved.

Why the theorems have conditions. A manual run that finds the queue full throws
after it has created the rounds before, and a recovery that finds more jobs than
the queue may hold cannot save (`recovery_full`): without room, rounds stay open
and unqueued. With an I/O error, a round run by hand is created and its save
fails; no cursor replays it, and its jobs come back with the next start. Two
planned times of one suite can do the same: the later one is dispatched first
while the queue is full for the other, its save fails, the reloaded cursor
dispatches the earlier one, and then the later one is dropped as still at work,
though its round is open. In each case the next start of the process recovers
the round. The run `recovery` has its I/O error only in behaviours where each suite
has one planned time to come; `AllLone` asks the same of the constants.

Model-checked only: `NeverRefused` of `NativeQueue` is no theorem: it is
violated at capacity (`queue_full`), and so is `RestartReconstructs` of
`RoundRecovery` (`recovery_full`).
Liveness (`EventuallyReadable`, `EveryJobEnds`, `DeletionEnds`,
`ResultsSurface`, `SlotsEnd`, `RoundsExpire`, `ReportsSettle`,
`InterruptedEnds`) stays with TLC,
since the provers do not handle fairness.

## 5. Plan

Done: the queue store, the leases, the round store, dispatch and recovery,
retention, the full benchmark between its three processes and the updater, all
with proofs of their safety properties. What is left, in this order:

1. Plain results of the agent: a thread per measurement that shares the outbox
   with the main loop, the limit of seven days, listeners of benchmarks.
2. Receipts by day in `Retention`, with their migration.
3. The theme's socket store and request multiplexer.

## 6. Not modelled

The user interface, styles, images and report builders keep no protocol state
(they are most of the repository's lines); the measurement tools and the parsers
of their output are data to the models; catalogues and plan tables are pure
validation; the reader side of rounds (lists, exports, summaries, shares) changes
nothing; the editing of suites, endpoints and resources is one save each; the
socket store and the request multiplexer of the theme serve a browser tab that
keeps nothing and come after the stored state; the installers are shell scripts; build, release and
browser gates are outside the running program.
