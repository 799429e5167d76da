-------------------------------- MODULE Updater --------------------------------
(***************************************************************************)
(* The maintenance updater (network-observatory/runner/updater.py): it     *)
(* replaces the probes of a host by those of the release the panel names,  *)
(* with a journal of what it replaces, and puts the old ones back when a    *)
(* command fails or when it finds the journal of an interrupted run.        *)
(*                                                                         *)
(* It runs hourly and by hand, one at a time (flock).  Around it, the panel *)
(* gives jobs to probes without a maintenance lease, administrators start   *)
(* and stop services, and the host restarts.  A release is one of two       *)
(* versions; downloading and verifying it is what may fail before a claim.  *)
(***************************************************************************)
EXTENDS Naturals

CONSTANTS
    Workers,        \* the identities of the host, a service each
    Probes,         \* of them: probes, the far ends of the servers' benchmarks
    Files,          \* what a release installs
    Agent, Unit,    \* of them: the program of a worker, the helper's service
    MaxTroubles     \* bound: crashes, reboots and failing commands

ASSUME UpdaterConstants ==
    /\ {Agent, Unit} \subseteq Files /\ Agent # Unit /\ Probes \subseteq Workers
    /\ MaxTroubles \in Nat

VARIABLES
    file,       \* per file: "old", "new", or "none"
    journal,    \* upgrade-transaction.json: is it there; files, services, helper
    worker,     \* per worker: the code its process runs, or "down"
    wanted,     \* workers that start with the host
    helper,     \* the privileged helper: runs now, starts with the host (boot)
    panel,      \* per worker: whether a maintenance lease of it is live, and its
                \* work: "own" of its own poll, "far" of a benchmark that a
                \* server's poll began, or "none"
    run,        \* the running updater: at, command (until it claims), services, asked, held
                \* leases, seen: new instances that reported the new version
    todo,       \* what is left of its installation or recovery
    troubles

host == <<file, worker, wanted, helper>>
vars == <<file, journal, worker, wanted, helper, panel, run, todo, troubles>>
-----------------------------------------------------------------------------
Running == {w \in Workers : worker[w] # "down"}
Installed == file[Unit] # "none"
OneVersion(fs) == (\A f \in Files : fs[f] = "new") \/ (\A f \in Files : fs[f] # "new")
Whole == OneVersion(file)
Code == IF Whole THEN file[Agent] ELSE "mixed"      \* of a process started now

NoJournal == [there |-> FALSE, files |-> [f \in Files |-> "none"],
              services |-> {}, helper |-> FALSE]
Off == [at |-> "off", command |-> "none", services |-> {}, asked |-> FALSE,
        held |-> {}, seen |-> {}]
Working == run.at \in {"recover", "upgrade", "undo"}

(* The commands of an installation or a recovery, stage after stage.        *)
Nothing == [again |-> {}, disable |-> {}, stop |-> {}, files |-> {}, start |-> {},
            health |-> {}, enable |-> {}]
HelperOff == todo.again = {} /\ todo.disable = {}
Stopped == HelperOff /\ todo.stop = {}
Placed == Stopped /\ todo.files = {}
Started == Placed /\ todo.start = {}
Trusted == Started /\ todo.health = {}
OverUnstarted == Placed /\ todo.health = {} /\ todo.enable = {}      \* mutant
Over == Trusted /\ todo.enable = {}

DisableForNow == {"halt"}      \* mutant
Disable == {"unboot", "halt"}
Recovery ==
    [Nothing EXCEPT !.disable = IF journal.helper THEN Disable ELSE {},
                    !.stop = journal.services, !.files = Files, !.start = journal.services]
Installation ==
    [Nothing EXCEPT !.disable = IF Installed THEN Disable ELSE {},
                    !.stop = run.services, !.files = Files, !.start = run.services,
                    !.health = {"wait"}, !.enable = IF run.asked THEN {"boot", "launch"} ELSE {}]
Trouble == troubles < MaxTroubles /\ troubles' = troubles + 1
Take(stage, x) ==
    /\ x \in todo[stage]
    /\ todo' = [todo EXCEPT ![stage] = @ \ {x}]

-----------------------------------------------------------------------------
(* The updater is called; what an earlier run left is recovered first.      *)
RecoversOnDemand(command) == journal.there /\ command = "recover"      \* mutant
Recovers(command) == journal.there

Begin(command) ==
    /\ run.at = "off"
    /\ \/ /\ Recovers(command)
          /\ run' = [Off EXCEPT !.at = "recover", !.command = command]
          /\ todo' = Recovery
       \/ /\ ~Recovers(command) /\ command # "recover"
          /\ run' = [Off EXCEPT !.at = "survey", !.command = command]
          /\ UNCHANGED todo
    /\ UNCHANGED <<host, journal, panel, troubles>>

(* It asks the panel, finds every identity idle and looks at the services;  *)
(* by hand, the selected worker is to run afterwards and the helper may be   *)
(* asked for.  The hourly run leaves a host alone on which a worker is down. *)
(* From here on it does not matter how it was called.                       *)
Claiming(services, asked) ==
    run' = [run EXCEPT !.at = "claim", !.command = "none", !.services = services, !.asked = asked]
Survey(selected, asked) ==
    /\ run.at = "survey" /\ \A w \in Workers : panel[w].work = "none"
    /\ \/ /\ run.command = "auto" /\ ~asked
          /\ file[Agent] = "old" /\ Running = Workers
          /\ Claiming(Running, helper.runs)
       \/ /\ run.command = "manual"
          /\ Claiming(Running \cup {selected}, helper.runs \/ asked)
    /\ UNCHANGED <<host, journal, panel, todo, troubles>>

(* Not authorised, nothing to do, busy, or the panel is out of reach.       *)
Leave ==
    /\ run.at = "survey" /\ run' = Off
    /\ UNCHANGED <<host, journal, panel, todo, troubles>>

(* POST maintenance of the panel: a lease for a worker that is idle and has  *)
(* none, or one whose ten minutes are over.                                 *)
Free(w) == ~panel[w].lease /\ panel[w].work = "none"
Claim(w, answered) ==
    /\ run.at = "claim" /\ w \notin run.held /\ Free(w)
    /\ panel' = [panel EXCEPT ![w].lease = TRUE]
    /\ run' = IF answered THEN [run EXCEPT !.held = @ \cup {w}] ELSE [run EXCEPT !.at = "release"]
    /\ UNCHANGED <<host, journal, todo, troubles>>

GiveUp ==       \* the download or its checks fail, or the panel refuses
    /\ run.at = "claim" /\ run' = [run EXCEPT !.at = "release"]
    /\ UNCHANGED <<host, journal, panel, todo, troubles>>

ClaimedOne == run.held # {}      \* mutant
Claimed == run.held = Workers

WriteJournal ==
    /\ run.at = "claim" /\ Claimed
    /\ journal' = [there |-> TRUE, files |-> file, services |-> run.services,
                   helper |-> Installed \/ run.asked]
    /\ run' = [run EXCEPT !.at = "upgrade"]
    /\ todo' = Installation
    /\ UNCHANGED <<host, panel, troubles>>

-----------------------------------------------------------------------------
(* The helper is taken from the boot before it is stopped; at the end of an  *)
(* upgrade it gets both back.                                               *)
SwitchHelper ==
    /\ Working
    /\ \/ /\ todo.again = {}
          /\ Take("disable", "unboot") /\ helper' = [helper EXCEPT !.boot = FALSE]
       \/ /\ todo.again = {} /\ todo.disable = {"halt"}
          /\ Take("disable", "halt") /\ helper' = [helper EXCEPT !.runs = FALSE]
       \/ /\ Trusted
          /\ Take("enable", "boot") /\ helper' = [helper EXCEPT !.boot = TRUE]
       \/ /\ Trusted /\ todo.enable = {"launch"}
          /\ Take("enable", "launch") /\ helper' = [helper EXCEPT !.runs = TRUE]
    /\ UNCHANGED <<file, journal, worker, wanted, panel, run, troubles>>

(* In a rollback nobody looks whether a service stopped.                    *)
StopWorker(w) ==
    /\ Working
    /\ Take("again", w) \/ (HelperOff /\ Take("stop", w))
    /\ \/ worker' = [worker EXCEPT ![w] = "down"] /\ UNCHANGED troubles
       \/ /\ run.at # "upgrade" /\ Trouble
          /\ UNCHANGED worker
    /\ UNCHANGED <<file, journal, wanted, helper, panel, run>>

Place(f) ==
    /\ Working /\ Stopped /\ Take("files", f)
    /\ file' = [file EXCEPT ![f] = IF run.at = "upgrade" THEN "new" ELSE journal.files[f]]
    /\ UNCHANGED <<journal, worker, wanted, helper, panel, run, troubles>>

StartWorker(w) ==
    /\ Working /\ Placed /\ Take("start", w)
    /\ worker' = [worker EXCEPT ![w] = IF @ = "down" THEN Code ELSE @]
    /\ UNCHANGED <<file, journal, wanted, helper, panel, run, troubles>>

(* For 45 seconds each service must run, and an instance that is not the one *)
(* the panel knew before the installation must report the new version.      *)
Reported(w) ==      \* a heartbeat
    /\ run.at = "upgrade" /\ Started /\ todo.health # {}
    /\ worker[w] = "new" /\ w \notin run.seen
    /\ run' = [run EXCEPT !.seen = @ \cup {w}]
    /\ UNCHANGED <<host, journal, panel, todo, troubles>>
Healthy ==
    /\ Working /\ Started /\ Take("health", "wait")
    /\ run.services \subseteq run.seen \cap Running
    /\ UNCHANGED <<host, journal, panel, run, troubles>>

Commit ==
    /\ Working /\ Over /\ journal' = NoJournal
    /\ \/ run.at # "recover" /\ run' = [run EXCEPT !.at = "release"]
       \/ run.at = "recover" /\ run.command = "recover" /\ run' = Off
       \/ run.at = "recover" /\ run.command # "recover" /\ run' = [run EXCEPT !.at = "survey"]
    /\ UNCHANGED <<host, panel, todo, troubles>>

(* A command fails, or the probes are not healthy in time.  An upgrade then  *)
(* stops its services and recovers; a recovery is left to the next run.     *)
Unhealthy == Started /\ todo.health # {} /\ UNCHANGED troubles
Fail ==
    /\ Working /\ (Unhealthy \/ Trouble)
    /\ \/ /\ run.at = "upgrade" /\ run' = [run EXCEPT !.at = "undo"]
          /\ todo' = [Recovery EXCEPT !.again = run.services]
       \/ run.at = "undo" /\ run' = [run EXCEPT !.at = "release"] /\ todo' = Nothing
       \/ run.at = "recover" /\ run' = Off /\ todo' = Nothing
    /\ UNCHANGED <<host, journal, panel>>

Release(lost) ==
    /\ run.at = "release"
    /\ panel' = [w \in Workers |-> IF w \in run.held \ lost THEN [panel[w] EXCEPT !.lease = FALSE]
                                   ELSE panel[w]]
    /\ run' = Off
    /\ UNCHANGED <<host, journal, todo, troubles>>

-----------------------------------------------------------------------------
(* The updater ends anywhere, alone or with the host.                       *)
Crash ==
    /\ run.at # "off" /\ Trouble
    /\ run' = Off /\ todo' = Nothing
    /\ UNCHANGED <<host, journal, panel>>

Reboot ==
    /\ Trouble
    /\ worker' = [w \in Workers |-> IF w \in wanted THEN Code ELSE "down"]
    /\ helper' = [helper EXCEPT !.runs = helper.boot /\ Installed]
    /\ run' = Off /\ todo' = Nothing
    /\ UNCHANGED <<file, journal, wanted, panel>>

(* Administrators stop a worker, or start one while no updater runs.        *)
AdminStop(w) ==
    /\ w \in wanted /\ wanted' = wanted \ {w}
    /\ worker' = [worker EXCEPT ![w] = "down"]
    /\ UNCHANGED <<file, journal, helper, panel, run, todo, troubles>>
AdminStart(w) ==
    /\ w \notin wanted /\ run.at = "off" /\ wanted' = wanted \cup {w}
    /\ worker' = [worker EXCEPT ![w] = IF @ = "down" THEN Code ELSE @]
    /\ UNCHANGED <<file, journal, helper, panel, run, todo, troubles>>

(* The panel.  A worker whose lease is not live is given a job when it polls:  *)
(* one of its own, or the benchmark that waits for it as the far end.        *)
Polls(w) == w \in Running /\ ~panel[w].lease
Dispatch(w) ==
    /\ Polls(w) /\ panel[w].work # "own"
    /\ panel' = [panel EXCEPT ![w].work = "own"]
    /\ UNCHANGED <<host, journal, run, todo, troubles>>

(* A server's poll begins a benchmark with a probe, of which it asks only that *)
(* it was heard of lately and has no job: not whether it has a lease.  The     *)
(* server is one of this host, or (elsewhere) of another.                    *)
Reserve(x, elsewhere) ==
    /\ x \in Probes /\ panel[x].work = "none"
    /\ \/ elsewhere /\ panel' = [panel EXCEPT ![x].work = "far"]
       \/ /\ ~elsewhere
          /\ \E w \in Workers \ Probes :
                /\ Polls(w) /\ panel[w].work = "none"
                /\ panel' = [panel EXCEPT ![w].work = "own", ![x].work = "far"]
    /\ UNCHANGED <<host, journal, run, todo, troubles>>

(* A job ends, for both of its ends; a lease does ten minutes after its claim, *)
(* whoever holds it.                                                        *)
Done(ws) ==
    /\ ws # {} /\ \A w \in ws : panel[w].work # "none"
    /\ panel' = [w \in Workers |-> IF w \in ws THEN [panel[w] EXCEPT !.work = "none"] ELSE panel[w]]
    /\ UNCHANGED <<host, journal, run, todo, troubles>>
Expire(w) ==
    /\ panel[w].lease /\ panel' = [panel EXCEPT ![w].lease = FALSE]
    /\ UNCHANGED <<host, journal, run, todo, troubles>>

-----------------------------------------------------------------------------
Init ==
    /\ \E unit \in {"none", "old"} : file = [f \in Files |-> IF f = Unit THEN unit ELSE "old"]
    /\ journal = NoJournal /\ wanted \in SUBSET Workers
    /\ worker = [w \in Workers |-> IF w \in wanted THEN "old" ELSE "down"]
    /\ \E on \in {FALSE, Installed} : helper = [runs |-> on, boot |-> on]
    /\ panel = [w \in Workers |-> [lease |-> FALSE, work |-> "none"]]
    /\ run = Off /\ todo = Nothing /\ troubles = 0

Command ==
    \/ SwitchHelper \/ Healthy \/ Commit
    \/ \E w \in Workers : StopWorker(w) \/ StartWorker(w)
    \/ \E f \in Files : Place(f)
Updating ==
    \/ \E selected \in Workers, asked \in BOOLEAN : Survey(selected, asked)
    \/ \E w \in Workers, answered \in BOOLEAN : Claim(w, answered)
    \/ Leave \/ GiveUp \/ WriteJournal \/ Command \/ Fail
    \/ \E lost \in SUBSET run.held : Release(lost)
PanelStep ==
    \/ \E w \in Workers : Dispatch(w) \/ Expire(w)
    \/ \E x \in Workers, elsewhere \in BOOLEAN : Reserve(x, elsewhere)
    \/ \E ws \in SUBSET Workers : Done(ws)

Next ==
    \/ \E command \in {"auto", "manual", "recover"} : Begin(command)
    \/ Updating \/ Crash \/ Reboot
    \/ \E w \in Workers : AdminStop(w) \/ AdminStart(w)
    \/ \E w \in Workers : Reported(w)
    \/ PanelStep

(* The timer calls the updater every hour, and what it calls ends.          *)
Spec == Init /\ [][Next]_vars /\ WF_vars(Begin("auto")) /\ WF_vars(Updating)

-----------------------------------------------------------------------------
Versions == {"none", "old", "new"}
Journals == [there : BOOLEAN, files : [Files -> Versions], services : SUBSET Workers, helper : BOOLEAN]
Identity == [lease : BOOLEAN, work : {"none", "own", "far"}]
Runs == [at : {"off", "recover", "survey", "claim", "upgrade", "undo", "release"},
         command : {"none", "auto", "manual", "recover"}, services : SUBSET Workers,
         asked : BOOLEAN, held : SUBSET Workers, seen : SUBSET Workers]
Stages == [again : SUBSET Workers, disable : SUBSET {"unboot", "halt"}, stop : SUBSET Workers,
           files : SUBSET Files, start : SUBSET Workers, health : SUBSET {"wait"},
           enable : SUBSET {"boot", "launch"}]

TypeOK ==
    /\ file \in [Files -> Versions] /\ journal \in Journals
    /\ worker \in [Workers -> Versions \cup {"down", "mixed"}]
    /\ wanted \in SUBSET Workers /\ helper \in [runs : BOOLEAN, boot : BOOLEAN]
    /\ panel \in [Workers -> Identity] /\ run \in Runs /\ todo \in Stages
    /\ troubles \in Nat

(* An upgrade is done or undone: whatever failed or was interrupted, unless  *)
(* the journal is still there to recover by, the installation is of one      *)
(* version and every worker that is to run does (recover, 98-127, and the    *)
(* order of 303-337).                                                       *)
NothingHalfDone ==
    ~journal.there => Whole /\ wanted \subseteq Running

(* "Keep the privileged helper off until all workers are safely upgraded.    *)
(* This is persistent across reboot": it runs, or would start with the host, *)
(* only beside workers of the one version that is installed (58-85).        *)
HelperTogether ==
    helper.runs \/ helper.boot => Whole /\ \A w \in Running : worker[w] = Code

(* From the first stop to the release a worker is at no job of its own poll    *)
(* unless the lease this updater took of it has run out (298-300, 353): an     *)
(* upgrade that ends in time interrupts none, and the version on trial is given *)
(* none.  A probe may wait as the far end of a benchmark that a server began.  *)
RunOut(w) == w \in run.held /\ ~panel[w].lease
UpgradeOfIdle ==
    run.at \in {"upgrade", "undo"} => \A w \in Workers : panel[w].work = "own" => RunOut(w)

(* An upgrade that was interrupted is recovered or finished in the end.      *)
InterruptedEnds == journal.there ~> ~journal.there
=============================================================================
