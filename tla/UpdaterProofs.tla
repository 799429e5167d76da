----------------------------- MODULE UpdaterProofs -----------------------------
(***************************************************************************)
(* Proofs about the maintenance updater, for every number of identities,   *)
(* every set of files and every number of crashes and failures.            *)
(***************************************************************************)
EXTENDS Updater, TLAPS

HelperOn == helper.runs \/ helper.boot

(* What is journalled is of one version, and the journal is there exactly   *)
(* from before the first change to after the last one.                      *)
Journalled ==
    /\ journal.there => OneVersion(journal.files)
    /\ Working => journal.there
    /\ ~Working => todo = Nothing
    /\ run.at \in {"survey", "claim"} => ~journal.there

(* What is no longer to be placed has its place.                            *)
Replaced ==
    /\ run.at \in {"recover", "undo"} =>
         \A f \in Files \ todo.files : file[f] = journal.files[f]
    /\ run.at = "upgrade" => \A f \in Files \ todo.files : file[f] = "new"

(* A worker that is to run does, or is one that the recovery starts.        *)
Revived ==
    /\ journal.there => wanted \subseteq Running \cup journal.services
    /\ Working => wanted \subseteq Running \cup todo.start
    /\ todo.again \cup todo.stop \subseteq todo.start
    /\ todo.start \subseteq journal.services
    /\ run.at = "upgrade" => run.services = journal.services

(* The helper is off before anything of it changes, and whoever finds the   *)
(* journal knows whether it may be on.                                      *)
Guarded ==
    /\ HelperOn => Installed /\ (journal.there => journal.helper)
    /\ todo.disable \in {{}, {"halt"}, Disable}
    /\ todo.disable = {"halt"} => ~helper.boot
    /\ Working /\ todo.disable = {} /\ (todo.health # {} \/ run.at # "upgrade") => ~HelperOn
    /\ run.at = "upgrade" /\ todo.health = {} => Started
    /\ todo.enable # {} => run.at = "upgrade" /\ journal.helper

(* In an upgrade every worker that runs is still to be stopped or new.      *)
Renewed ==
    /\ run.at = "claim" => Running \subseteq run.services
    /\ run.at = "upgrade" => \A w \in Running \ todo.stop : worker[w] = "new"

(* A worker whose lease an updater holds is at a job of its own only when the *)
(* lease has run out.                                                       *)
Leased ==
    /\ run.at \in {"claim", "upgrade", "undo"} =>
         \A w \in run.held : panel[w].work = "own" => ~panel[w].lease
    /\ run.at \in {"upgrade", "undo"} => run.held = Workers
    /\ run.at \in {"recover", "survey"} => run.held = {}

IInv ==
    /\ TypeOK /\ NothingHalfDone /\ HelperTogether
    /\ Journalled /\ Replaced /\ Revived /\ Guarded /\ Renewed /\ Leased

-----------------------------------------------------------------------------
(* A stage of the commands loses one member.                                *)
LEMMA TakeType ==
    ASSUME TypeOK, NEW stage \in {"again", "disable", "stop", "files", "start", "health", "enable"},
           NEW x, Take(stage, x)
    PROVE  /\ x \in todo[stage]
           /\ todo' \in Stages
           /\ todo'[stage] = todo[stage] \ {x}
           /\ stage # "again" => todo'.again = todo.again
           /\ stage # "disable" => todo'.disable = todo.disable
           /\ stage # "stop" => todo'.stop = todo.stop
           /\ stage # "files" => todo'.files = todo.files
           /\ stage # "start" => todo'.start = todo.start
           /\ stage # "health" => todo'.health = todo.health
           /\ stage # "enable" => todo'.enable = todo.enable
BY DEF TypeOK, Take, Stages

LEMMA RecoveryType ==
    ASSUME TypeOK
    PROVE  /\ Recovery \in Stages
           /\ Recovery.again = {} /\ Recovery.health = {} /\ Recovery.enable = {}
           /\ Recovery.disable = IF journal.helper THEN Disable ELSE {}
           /\ Recovery.stop = journal.services /\ Recovery.files = Files
           /\ Recovery.start = journal.services
BY DEF TypeOK, Journals, Recovery, Nothing, Disable, Stages

LEMMA RunTypes ==
    ASSUME TypeOK
    PROVE  /\ Off \in Runs
           /\ [run EXCEPT !.at = "survey"] \in Runs
           /\ [run EXCEPT !.at = "release"] \in Runs
           /\ [run EXCEPT !.at = "undo"] \in Runs
<1>1. Off \in Runs
  BY DEF Off, Runs
<1> QED
  BY <1>1 DEF TypeOK, Runs

(* What the steps that choose among several outcomes do.                    *)
LEMMA BeginStep ==
    ASSUME TypeOK, NEW command, Begin(command)
    PROVE  /\ run.at = "off" /\ run'.held = {}
           /\ UNCHANGED <<host, journal, panel, troubles>>
           /\ \/ run'.at = "recover" /\ journal.there /\ todo' = Recovery
              \/ run'.at = "survey" /\ ~journal.there /\ UNCHANGED todo
BY DEF Begin, Recovers, Off

LEMMA SurveyStep ==
    ASSUME TypeOK, NEW selected, NEW asked, Survey(selected, asked)
    PROVE  /\ run.at = "survey" /\ run'.at = "claim" /\ run'.held = run.held
           /\ Running \subseteq run'.services
           /\ UNCHANGED <<host, journal, panel, todo, troubles>>
<1>1. \A services, a : Claiming(services, a)
        => run'.at = "claim" /\ run'.held = run.held /\ run'.services = services
  BY DEF Claiming, TypeOK, Runs
<1> QED
  BY <1>1 DEF Survey

LEMMA SwitchStep ==
    ASSUME TypeOK, SwitchHelper
    PROVE  /\ Working /\ UNCHANGED <<file, journal, worker, wanted, panel, run, troubles>>
           /\ todo'.stop = todo.stop /\ todo'.files = todo.files /\ todo'.start = todo.start
           /\ todo'.again = todo.again /\ todo'.health = todo.health
           /\ \/ /\ "unboot" \in todo.disable /\ todo'.disable = todo.disable \ {"unboot"}
                 /\ todo'.enable = todo.enable /\ ~helper'.boot /\ (helper'.runs <=> helper.runs)
              \/ /\ todo.disable = {"halt"} /\ todo'.disable = {}
                 /\ todo'.enable = todo.enable /\ (helper'.boot <=> helper.boot) /\ ~helper'.runs
              \/ /\ todo.enable # {} /\ Trusted
                 /\ todo'.disable = todo.disable /\ todo'.enable \subseteq todo.enable
BY DEF SwitchHelper, Take, TypeOK, Stages

LEMMA CommitStep ==
    ASSUME TypeOK, Commit
    PROVE  /\ Working /\ todo = Nothing /\ journal' = NoJournal
           /\ run'.at \in {"release", "off", "survey"}
           /\ run'.at = "survey" => run.at = "recover" /\ run'.held = run.held
           /\ UNCHANGED <<host, panel, todo, troubles>>
<1>1. run' = [run EXCEPT !.at = "release"] => run'.at = "release"
  BY DEF TypeOK, Runs
<1>2. run' = [run EXCEPT !.at = "survey"] => run'.at = "survey" /\ run'.held = run.held
  BY DEF TypeOK, Runs
<1>3. run' = Off => run'.at = "off"
  BY DEF Off
<1>4. todo = Nothing
  BY DEF Commit, Over, Trusted, Started, Placed, Stopped, HelperOff, Nothing, TypeOK, Stages
<1> QED
  BY <1>1, <1>2, <1>3, <1>4 DEF Commit

LEMMA FailStep ==
    ASSUME TypeOK, Fail
    PROVE  /\ UNCHANGED <<host, journal, panel>>
           /\ \/ /\ run.at = "upgrade" /\ run'.at = "undo" /\ run'.held = run.held
                 /\ todo'.again = run.services /\ todo'.disable = Recovery.disable
                 /\ todo'.stop = journal.services /\ todo'.files = Files
                 /\ todo'.start = journal.services /\ todo'.health = {} /\ todo'.enable = {}
              \/ Working /\ run'.at \in {"release", "off"} /\ todo' = Nothing
<1>1. run' = [run EXCEPT !.at = "undo"] => run'.at = "undo" /\ run'.held = run.held
  BY DEF TypeOK, Runs
<1>2. run' = [run EXCEPT !.at = "release"] => run'.at = "release"
  BY DEF TypeOK, Runs
<1>3. run' = Off => run'.at = "off"
  BY DEF Off
<1>4. todo' = [Recovery EXCEPT !.again = run.services]
      => /\ todo'.again = run.services /\ todo'.disable = Recovery.disable
         /\ todo'.stop = journal.services /\ todo'.files = Files
         /\ todo'.start = journal.services /\ todo'.health = {} /\ todo'.enable = {}
  BY RecoveryType DEF Stages
<1> QED
  BY <1>1, <1>2, <1>3, <1>4 DEF Fail

(* The panel changes only what it knows itself; whoever it gives a job of his  *)
(* own has no live lease.                                                   *)
LEMMA PanelKeeps ==
    PanelStep => UNCHANGED <<host, journal, run, todo, troubles>>
BY DEF PanelStep, Dispatch, Expire, Reserve, Done

LEMMA PanelType ==
    ASSUME TypeOK, PanelStep
    PROVE  panel' \in [Workers -> Identity]
<1>1. ASSUME NEW w \in Workers, Dispatch(w)
      PROVE  panel' \in [Workers -> Identity]
  BY <1>1 DEF Dispatch, TypeOK, Identity
<1>2. ASSUME NEW w \in Workers, Expire(w)
      PROVE  panel' \in [Workers -> Identity]
  BY <1>2 DEF Expire, TypeOK, Identity
<1>3. ASSUME NEW x \in Workers, NEW elsewhere \in BOOLEAN, Reserve(x, elsewhere)
      PROVE  panel' \in [Workers -> Identity]
  <2>1. panel' = [panel EXCEPT ![x].work = "far"] => panel' \in [Workers -> Identity]
    BY DEF TypeOK, Identity
  <2>2. ASSUME NEW w \in Workers, panel' = [panel EXCEPT ![w].work = "own", ![x].work = "far"]
        PROVE  panel' \in [Workers -> Identity]
    <3>1. [panel EXCEPT ![w].work = "own"] \in [Workers -> Identity]
      BY DEF TypeOK, Identity
    <3> QED
      BY <2>2, <3>1 DEF Identity
  <2> QED
    BY <1>3, <2>1, <2>2 DEF Reserve
<1>4. ASSUME NEW ws \in SUBSET Workers, Done(ws)
      PROVE  panel' \in [Workers -> Identity]
  BY <1>4 DEF Done, TypeOK, Identity
<1> QED
  BY <1>1, <1>2, <1>3, <1>4 DEF PanelStep

LEMMA PanelWork ==
    ASSUME TypeOK, PanelStep
    PROVE  \A v \in Workers : panel'[v].work = "own" =>
             ~panel'[v].lease \/ (panel[v].work = "own" /\ panel'[v].lease = panel[v].lease)
<1> SUFFICES ASSUME NEW v \in Workers, panel'[v].work = "own"
             PROVE  ~panel'[v].lease \/ (panel[v].work = "own" /\ panel'[v].lease = panel[v].lease)
  OBVIOUS
<1>1. ASSUME NEW w \in Workers, Dispatch(w)
      PROVE  ~panel'[v].lease \/ (panel[v].work = "own" /\ panel'[v].lease = panel[v].lease)
  BY <1>1 DEF Dispatch, Polls, TypeOK, Identity
<1>2. ASSUME NEW w \in Workers, Expire(w)
      PROVE  ~panel'[v].lease \/ (panel[v].work = "own" /\ panel'[v].lease = panel[v].lease)
  BY <1>2 DEF Expire, TypeOK, Identity
<1>3. ASSUME NEW x \in Workers, NEW elsewhere \in BOOLEAN, Reserve(x, elsewhere)
      PROVE  ~panel'[v].lease \/ (panel[v].work = "own" /\ panel'[v].lease = panel[v].lease)
  <2>1. CASE panel' = [panel EXCEPT ![x].work = "far"]
    BY <2>1 DEF TypeOK, Identity
  <2>2. ASSUME NEW w \in Workers, x # w, Polls(w),
               panel' = [panel EXCEPT ![w].work = "own", ![x].work = "far"]
        PROVE  ~panel'[v].lease \/ (panel[v].work = "own" /\ panel'[v].lease = panel[v].lease)
    <3>1. [panel EXCEPT ![w].work = "own"] \in [Workers -> Identity]
      BY DEF TypeOK, Identity
    <3>2. panel'[v] = IF v = x THEN [panel[x] EXCEPT !.work = "far"]
                      ELSE IF v = w THEN [panel[w] EXCEPT !.work = "own"] ELSE panel[v]
      BY <2>2 DEF TypeOK
    <3>3. panel[v] \in Identity
      BY DEF TypeOK
    <3> QED
      BY <2>2, <3>2, <3>3 DEF Polls, Identity
  <2> QED
    BY <1>3, <2>1, <2>2 DEF Reserve
<1>4. ASSUME NEW ws \in SUBSET Workers, Done(ws)
      PROVE  ~panel'[v].lease \/ (panel[v].work = "own" /\ panel'[v].lease = panel[v].lease)
  BY <1>4 DEF Done, TypeOK, Identity
<1> QED
  BY <1>1, <1>2, <1>3, <1>4 DEF PanelStep

(* A process that is started runs some code, so it is not down.             *)
LEMMA CodeType == TypeOK => Code \in Versions \cup {"mixed"} /\ Code # "down"
BY UpdaterConstants DEF Code, TypeOK, Versions

LEMMA Same ==
    /\ UNCHANGED worker => Running' = Running
    /\ UNCHANGED file => Whole' = Whole /\ Code' = Code /\ Installed' = Installed
BY DEF Running, Whole, Code, Installed, OneVersion

LEMMA Starts ==
    ASSUME TypeOK, NEW w \in Workers,
           worker' = [worker EXCEPT ![w] = IF @ = "down" THEN Code ELSE @]
    PROVE  /\ Running' = Running \cup {w}
           /\ worker'[w] = IF worker[w] = "down" THEN Code ELSE worker[w]
           /\ worker'[w] # "down"
           /\ \A v \in Workers \ {w} : worker'[v] = worker[v]
BY CodeType DEF TypeOK, Running

LEMMA Stops ==
    ASSUME TypeOK, NEW w \in Workers, worker' = [worker EXCEPT ![w] = "down"]
    PROVE  /\ Running' = Running \ {w}
           /\ \A v \in Workers \ {w} : worker'[v] = worker[v]
BY DEF TypeOK, Running

LEMMA Restarts ==
    ASSUME TypeOK, Reboot
    PROVE  /\ Running' = wanted /\ \A v \in wanted : worker'[v] = Code
           /\ UNCHANGED <<file, journal, wanted, panel>>
           /\ helper' = [helper EXCEPT !.runs = helper.boot /\ Installed]
           /\ run'.at = "off" /\ todo' = Nothing
BY CodeType DEF Reboot, Off, TypeOK, Running

(* When an updater ends its journal the installation is whole.              *)
LEMMA CommitWhole ==
    ASSUME IInv, Commit
    PROVE  Whole /\ wanted \subseteq Running
<1> USE DEF IInv, TypeOK
<1>1. Working /\ todo = Nothing
  BY CommitStep
<1>2. (\A f \in Files : file[f] = journal.files[f]) \/ (\A f \in Files : file[f] = "new")
  BY <1>1 DEF Working, Nothing, Replaced
<1>3. OneVersion(journal.files)
  BY <1>1 DEF Journalled
<1>4. Whole
  BY <1>2, <1>3 DEF OneVersion, Whole
<1> QED
  BY <1>1, <1>4 DEF Revived, Nothing


LEMMA TypeKept ==
    ASSUME TypeOK, [Next]_vars
    PROVE  TypeOK'
<1>1. ASSUME NEW command \in {"auto", "manual", "recover"}, Begin(command)
      PROVE  TypeOK'
  <2>1. run' \in Runs
    BY <1>1 DEF Begin, TypeOK, Runs, Off
  <2>2. todo' \in Stages
    BY <1>1, RecoveryType DEF Begin, TypeOK
  <2> QED
    BY <1>1, <2>1, <2>2 DEF Begin, TypeOK, host
<1>2. ASSUME NEW selected \in Workers, NEW asked \in BOOLEAN, Survey(selected, asked)
      PROVE  TypeOK'
  <2>1. helper.runs \in BOOLEAN /\ (helper.runs \/ asked) \in BOOLEAN /\ Running \in SUBSET Workers
    BY DEF TypeOK, Running
  <2>2. \A s \in SUBSET Workers, a \in BOOLEAN : Claiming(s, a) => run' \in Runs
    BY DEF Claiming, TypeOK, Runs
  <2>3. Claiming(Running, helper.runs) => run' \in Runs
    BY <2>1, <2>2, Zenon
  <2>4. Claiming(Running \cup {selected}, helper.runs \/ asked) => run' \in Runs
    <3>1. Running \cup {selected} \in SUBSET Workers
      BY <2>1, <1>2
    <3> QED
      BY <2>1, <2>2, <3>1
  <2>5. run' \in Runs
    BY <1>2, <2>3, <2>4 DEF Survey
  <2> QED
    BY <1>2, <2>5 DEF Survey, TypeOK, host
<1>3. CASE Leave
  <2>1. run' \in Runs
    BY <1>3 DEF Leave, Runs, Off
  <2> QED
    BY <1>3, <2>1 DEF Leave, TypeOK, host
<1>4. ASSUME NEW w \in Workers, NEW answered \in BOOLEAN, Claim(w, answered)
      PROVE  TypeOK'
  <2>1. panel' \in [Workers -> Identity]
    BY <1>4 DEF Claim, TypeOK, Identity
  <2>2. run' \in Runs
    BY <1>4 DEF Claim, TypeOK, Runs
  <2> QED
    BY <1>4, <2>1, <2>2 DEF Claim, TypeOK, host
<1>5. CASE GiveUp
  <2>1. run' \in Runs
    BY <1>5 DEF GiveUp, TypeOK, Runs
  <2> QED
    BY <1>5, <2>1 DEF GiveUp, TypeOK, host
<1>6. CASE WriteJournal
  <2>1. journal' \in Journals
    BY <1>6 DEF WriteJournal, TypeOK, Journals, Runs, Installed
  <2>2. run' \in Runs
    BY <1>6 DEF WriteJournal, TypeOK, Runs
  <2>3. todo' \in Stages
    BY <1>6 DEF WriteJournal, Installation, Nothing, Disable, TypeOK, Stages, Runs
  <2> QED
    BY <1>6, <2>1, <2>2, <2>3 DEF WriteJournal, TypeOK, host
<1>7. CASE SwitchHelper
  <2>1. helper' \in [runs : BOOLEAN, boot : BOOLEAN]
    BY <1>7 DEF SwitchHelper, TypeOK
  <2>2. todo' \in Stages
    BY <1>7, TakeType DEF SwitchHelper
  <2> QED
    BY <1>7, <2>1, <2>2 DEF SwitchHelper, TypeOK
<1>8. ASSUME NEW w \in Workers, StopWorker(w)
      PROVE  TypeOK'
  <2>1. todo' \in Stages
    BY <1>8, TakeType DEF StopWorker
  <2> QED
    BY <1>8, <2>1 DEF StopWorker, Trouble, TypeOK
<1>9. ASSUME NEW w \in Workers, StartWorker(w)
      PROVE  TypeOK'
  <2>1. todo' \in Stages
    BY <1>9, TakeType DEF StartWorker
  <2>2. worker' \in [Workers -> Versions \cup {"down", "mixed"}]
    BY <1>9, CodeType DEF StartWorker, TypeOK
  <2> QED
    BY <1>9, <2>1, <2>2 DEF StartWorker, TypeOK
<1>10. ASSUME NEW f \in Files, Place(f)
      PROVE  TypeOK'
  <2>1. todo' \in Stages
    BY <1>10, TakeType DEF Place
  <2>2. file' \in [Files -> Versions]
    BY <1>10 DEF Place, TypeOK, Journals, Versions
  <2> QED
    BY <1>10, <2>1, <2>2 DEF Place, TypeOK
<1>11. CASE Healthy
  <2>1. todo' \in Stages
    BY <1>11, TakeType DEF Healthy
  <2> QED
    BY <1>11, <2>1 DEF Healthy, TypeOK, host
<1>12. CASE Commit
  <2>1. journal' \in Journals
    BY <1>12 DEF Commit, NoJournal, Journals, Versions
  <2>2. run' \in Runs
    BY <1>12, RunTypes DEF Commit
  <2> QED
    BY <1>12, <2>1, <2>2 DEF Commit, TypeOK, host
<1>13. CASE Fail
  <2>1. run' \in Runs
    BY <1>13, RunTypes DEF Fail
  <2>2. todo' \in Stages
    <3>1. run.services \in SUBSET Workers /\ Recovery \in Stages
      BY RecoveryType DEF TypeOK, Runs
    <3>2. [Recovery EXCEPT !.again = run.services] \in Stages
      BY <3>1 DEF Stages
    <3>3. Nothing \in Stages
      BY DEF Nothing, Stages
    <3> QED
      BY <1>13, <3>2, <3>3 DEF Fail
  <2>3. troubles' \in Nat
    BY <1>13 DEF Fail, Unhealthy, Trouble, TypeOK
  <2> QED
    BY <1>13, <2>1, <2>2, <2>3 DEF Fail, TypeOK, host
<1>14. ASSUME NEW lost \in SUBSET run.held, Release(lost)
      PROVE  TypeOK'
  <2>1. panel' \in [Workers -> Identity]
    BY <1>14 DEF Release, TypeOK, Identity
  <2>2. run' \in Runs
    BY <1>14 DEF Release, Runs, Off
  <2> QED
    BY <1>14, <2>1, <2>2 DEF Release, TypeOK, host
<1>15. CASE Crash
  <2>1. run' \in Runs /\ todo' \in Stages
    BY <1>15 DEF Crash, Runs, Off, Stages, Nothing
  <2> QED
    BY <1>15, <2>1 DEF Crash, Trouble, TypeOK, host
<1>16. CASE Reboot
  <2>1. run' \in Runs /\ todo' \in Stages
    BY <1>16 DEF Reboot, Runs, Off, Stages, Nothing
  <2>2. worker' \in [Workers -> Versions \cup {"down", "mixed"}]
    BY <1>16, CodeType DEF Reboot, TypeOK
  <2>3. helper' \in [runs : BOOLEAN, boot : BOOLEAN]
    BY <1>16 DEF Reboot, TypeOK, Installed
  <2> QED
    BY <1>16, <2>1, <2>2, <2>3 DEF Reboot, Trouble, TypeOK
<1>17. ASSUME NEW w \in Workers, AdminStop(w)
      PROVE  TypeOK'
  BY <1>17 DEF AdminStop, TypeOK
<1>18. ASSUME NEW w \in Workers, AdminStart(w)
      PROVE  TypeOK'
  <2>1. worker' \in [Workers -> Versions \cup {"down", "mixed"}]
    BY <1>18, CodeType DEF AdminStart, TypeOK
  <2> QED
    BY <1>18, <2>1 DEF AdminStart, TypeOK
<1>19. ASSUME NEW w \in Workers, Reported(w)
      PROVE  TypeOK'
  <2>1. run' \in Runs
    BY <1>19 DEF Reported, TypeOK, Runs
  <2> QED
    BY <1>19, <2>1 DEF Reported, TypeOK, host
<1>20. CASE PanelStep
  BY <1>20, PanelKeeps, PanelType DEF TypeOK, host
<1>21. CASE UNCHANGED vars
  BY <1>21 DEF vars, TypeOK
<1> QED
  BY <1>1, <1>2, <1>3, <1>4, <1>5, <1>6, <1>7, <1>8, <1>9, <1>10, <1>11, <1>12, <1>13, <1>14, <1>15, <1>16, <1>17, <1>18, <1>19, <1>20, <1>21 DEF Next, Updating, Command

LEMMA JournalledKept ==
    ASSUME IInv, TypeOK', [Next]_vars
    PROVE  Journalled'
<1> USE DEF IInv, TypeOK, host, Journalled, Working, OneVersion, Off, Nothing
<1>1. ASSUME NEW command \in {"auto", "manual", "recover"}, Begin(command)
      PROVE  Journalled'
  BY <1>1, BeginStep
<1>2. ASSUME NEW selected \in Workers, NEW asked \in BOOLEAN, Survey(selected, asked)
      PROVE  Journalled'
  BY <1>2, SurveyStep
<1>3. CASE Leave
  BY <1>3 DEF Leave
<1>4. ASSUME NEW w \in Workers, NEW answered \in BOOLEAN, Claim(w, answered)
      PROVE  Journalled'
  BY <1>4 DEF Claim
<1>5. CASE GiveUp
  BY <1>5 DEF GiveUp
<1>6. CASE WriteJournal
  BY <1>6 DEF WriteJournal, NothingHalfDone, Whole
<1>7. CASE SwitchHelper
  BY <1>7 DEF SwitchHelper
<1>8. ASSUME NEW w \in Workers, StopWorker(w)
      PROVE  Journalled'
  BY <1>8 DEF StopWorker
<1>9. ASSUME NEW w \in Workers, StartWorker(w)
      PROVE  Journalled'
  BY <1>9 DEF StartWorker
<1>10. ASSUME NEW f \in Files, Place(f)
      PROVE  Journalled'
  BY <1>10 DEF Place
<1>11. CASE Healthy
  BY <1>11 DEF Healthy
<1>12. CASE Commit
  BY <1>12, CommitStep DEF NoJournal
<1>13. CASE Fail
  BY <1>13, FailStep
<1>14. ASSUME NEW lost \in SUBSET run.held, Release(lost)
      PROVE  Journalled'
  BY <1>14 DEF Release
<1>15. CASE Crash
  BY <1>15 DEF Crash
<1>16. CASE Reboot
  BY <1>16 DEF Reboot
<1>17. ASSUME NEW w \in Workers, AdminStop(w)
      PROVE  Journalled'
  BY <1>17 DEF AdminStop
<1>18. ASSUME NEW w \in Workers, AdminStart(w)
      PROVE  Journalled'
  BY <1>18 DEF AdminStart
<1>19. CASE PanelStep
  BY <1>19, PanelKeeps
<1>20. ASSUME NEW w \in Workers, Reported(w)
      PROVE  Journalled'
  BY <1>20 DEF Reported
<1>21. CASE UNCHANGED vars
  BY <1>21 DEF vars, host
<1> QED
  BY <1>1, <1>2, <1>3, <1>4, <1>5, <1>6, <1>7, <1>8, <1>9, <1>10, <1>11, <1>12, <1>13, <1>14, <1>15, <1>16, <1>17, <1>18, <1>19, <1>20, <1>21 DEF Next, Updating, Command

LEMMA ReplacedKept ==
    ASSUME IInv, TypeOK', [Next]_vars
    PROVE  Replaced'
<1> USE DEF IInv, TypeOK, host, Replaced, Working, Journalled, Off
<1>1. ASSUME NEW command \in {"auto", "manual", "recover"}, Begin(command)
      PROVE  Replaced'
  BY <1>1, RecoveryType, BeginStep
<1>2. ASSUME NEW selected \in Workers, NEW asked \in BOOLEAN, Survey(selected, asked)
      PROVE  Replaced'
  BY <1>2, SurveyStep
<1>3. CASE Leave
  BY <1>3 DEF Leave
<1>4. ASSUME NEW w \in Workers, NEW answered \in BOOLEAN, Claim(w, answered)
      PROVE  Replaced'
  BY <1>4 DEF Claim
<1>5. CASE GiveUp
  BY <1>5 DEF GiveUp
<1>6. CASE WriteJournal
  BY <1>6 DEF WriteJournal, Installation, Nothing
<1>7. CASE SwitchHelper
  BY <1>7, TakeType DEF SwitchHelper
<1>8. ASSUME NEW w \in Workers, StopWorker(w)
      PROVE  Replaced'
  BY <1>8, TakeType DEF StopWorker
<1>9. ASSUME NEW w \in Workers, StartWorker(w)
      PROVE  Replaced'
  BY <1>9, TakeType DEF StartWorker
<1>10. ASSUME NEW f \in Files, Place(f)
      PROVE  Replaced'
  BY <1>10, TakeType DEF Place
<1>11. CASE Healthy
  BY <1>11, TakeType DEF Healthy
<1>12. CASE Commit
  BY <1>12, CommitStep
<1>13. CASE Fail
  BY <1>13, FailStep
<1>14. ASSUME NEW lost \in SUBSET run.held, Release(lost)
      PROVE  Replaced'
  BY <1>14 DEF Release
<1>15. CASE Crash
  BY <1>15 DEF Crash
<1>16. CASE Reboot
  BY <1>16 DEF Reboot
<1>17. ASSUME NEW w \in Workers, AdminStop(w)
      PROVE  Replaced'
  BY <1>17 DEF AdminStop
<1>18. ASSUME NEW w \in Workers, AdminStart(w)
      PROVE  Replaced'
  BY <1>18 DEF AdminStart
<1>19. CASE PanelStep
  BY <1>19, PanelKeeps
<1>20. ASSUME NEW w \in Workers, Reported(w)
      PROVE  Replaced'
  BY <1>20 DEF Reported
<1>21. CASE UNCHANGED vars
  BY <1>21 DEF vars, host
<1> QED
  BY <1>1, <1>2, <1>3, <1>4, <1>5, <1>6, <1>7, <1>8, <1>9, <1>10, <1>11, <1>12, <1>13, <1>14, <1>15, <1>16, <1>17, <1>18, <1>19, <1>20, <1>21 DEF Next, Updating, Command

LEMMA RevivedKept ==
    ASSUME IInv, TypeOK', [Next]_vars
    PROVE  Revived'
<1> USE DEF IInv, TypeOK, host, Revived, Working, Journalled, Off, Nothing
<1>1. ASSUME NEW command \in {"auto", "manual", "recover"}, Begin(command)
      PROVE  Revived'
  BY <1>1, RecoveryType, Same, BeginStep
<1>2. ASSUME NEW selected \in Workers, NEW asked \in BOOLEAN, Survey(selected, asked)
      PROVE  Revived'
  BY <1>2, SurveyStep
<1>3. CASE Leave
  BY <1>3 DEF Leave
<1>4. ASSUME NEW w \in Workers, NEW answered \in BOOLEAN, Claim(w, answered)
      PROVE  Revived'
  BY <1>4 DEF Claim
<1>5. CASE GiveUp
  BY <1>5 DEF GiveUp
<1>6. CASE WriteJournal
  BY <1>6, Same DEF WriteJournal, Installation, NothingHalfDone
<1>7. CASE SwitchHelper
  BY <1>7, TakeType, Same DEF SwitchHelper
<1>8. ASSUME NEW w \in Workers, StopWorker(w)
      PROVE  Revived'
  BY <1>8, TakeType, Stops, Same DEF StopWorker
<1>9. ASSUME NEW w \in Workers, StartWorker(w)
      PROVE  Revived'
  <2>1. Running' = Running \cup {w}
    BY <1>9, Starts DEF StartWorker
  <2> QED
    BY <1>9, <2>1, TakeType DEF StartWorker, Placed, Stopped, HelperOff
<1>10. ASSUME NEW f \in Files, Place(f)
      PROVE  Revived'
  BY <1>10, TakeType, Same DEF Place
<1>11. CASE Healthy
  BY <1>11, TakeType, Same DEF Healthy
<1>12. CASE Commit
  BY <1>12, CommitStep DEF NoJournal
<1>13. CASE Fail
  BY <1>13, Same, FailStep
<1>14. ASSUME NEW lost \in SUBSET run.held, Release(lost)
      PROVE  Revived'
  BY <1>14, Same DEF Release
<1>15. CASE Crash
  BY <1>15, Same DEF Crash
<1>16. CASE Reboot
  BY <1>16, Restarts DEF Reboot
<1>17. ASSUME NEW w \in Workers, AdminStop(w)
      PROVE  Revived'
  <2>1. Running' = Running \ {w} /\ \A v \in Workers \ {w} : worker'[v] = worker[v]
    BY <1>17, Stops DEF AdminStop
  <2> QED
    BY <1>17, <2>1 DEF AdminStop
<1>18. ASSUME NEW w \in Workers, AdminStart(w)
      PROVE  Revived'
  <2>1. Running' = Running \cup {w} /\ worker'[w] # "down"
        /\ \A v \in Workers \ {w} : worker'[v] = worker[v]
    BY <1>18, Starts DEF AdminStart
  <2> QED
    BY <1>18, <2>1 DEF AdminStart
<1>19. CASE PanelStep
  BY <1>19, PanelKeeps, Same
<1>20. ASSUME NEW w \in Workers, Reported(w)
      PROVE  Revived'
  BY <1>20, Same DEF Reported
<1>21. CASE UNCHANGED vars
  BY <1>21, Same DEF vars, host
<1> QED
  BY <1>1, <1>2, <1>3, <1>4, <1>5, <1>6, <1>7, <1>8, <1>9, <1>10, <1>11, <1>12, <1>13, <1>14, <1>15, <1>16, <1>17, <1>18, <1>19, <1>20, <1>21 DEF Next, Updating, Command

LEMMA GuardedKept ==
    ASSUME IInv, TypeOK', [Next]_vars
    PROVE  Guarded'
<1> USE DEF IInv, TypeOK, host, Guarded, Working, HelperOn, Journalled, Off, Nothing, Started, Placed, Stopped, HelperOff
<1>1. ASSUME NEW command \in {"auto", "manual", "recover"}, Begin(command)
      PROVE  Guarded'
  BY <1>1, RecoveryType, Same, BeginStep DEF Disable
<1>2. ASSUME NEW selected \in Workers, NEW asked \in BOOLEAN, Survey(selected, asked)
      PROVE  Guarded'
  BY <1>2, Same, SurveyStep
<1>3. CASE Leave
  BY <1>3, Same DEF Leave
<1>4. ASSUME NEW w \in Workers, NEW answered \in BOOLEAN, Claim(w, answered)
      PROVE  Guarded'
  BY <1>4, Same DEF Claim
<1>5. CASE GiveUp
  BY <1>5, Same DEF GiveUp
<1>6. CASE WriteJournal
  <2>1. /\ todo'.disable = (IF Installed THEN Disable ELSE {}) /\ todo'.health = {"wait"}
        /\ todo'.enable = (IF run.asked THEN {"boot", "launch"} ELSE {})
    BY <1>6 DEF WriteJournal, Installation
  <2>2. /\ journal'.there /\ run'.at = "upgrade" /\ UNCHANGED <<file, helper>>
        /\ journal'.helper <=> Installed \/ run.asked
    BY <1>6 DEF WriteJournal, Runs
  <2>3. HelperOn => Installed
    OBVIOUS
  <2> QED
    BY <2>1, <2>2, <2>3, Same DEF Disable
<1>7. CASE SwitchHelper
  <2>1. CASE /\ "unboot" \in todo.disable /\ todo'.disable = todo.disable \ {"unboot"}
             /\ todo'.enable = todo.enable /\ ~helper'.boot /\ (helper'.runs <=> helper.runs)
    BY <1>7, <2>1, SwitchStep, Same DEF Disable, Stages
  <2>2. CASE /\ todo.disable = {"halt"} /\ todo'.disable = {}
             /\ todo'.enable = todo.enable /\ (helper'.boot <=> helper.boot) /\ ~helper'.runs
    BY <1>7, <2>2, SwitchStep DEF Disable, Stages
  <2>3. CASE /\ todo.enable # {} /\ Trusted
             /\ todo'.disable = todo.disable /\ todo'.enable \subseteq todo.enable
    <3>1. run.at = "upgrade" /\ Installed /\ journal.there /\ journal.helper
      BY <2>3, UpdaterConstants DEF Trusted, Replaced, Installed
    <3> QED
      BY <1>7, <2>3, <3>1, SwitchStep, Same DEF Trusted
  <2> QED
    BY <1>7, <2>1, <2>2, <2>3, SwitchStep
<1>8. ASSUME NEW w \in Workers, StopWorker(w)
      PROVE  Guarded'
  BY <1>8, TakeType, Same DEF StopWorker
<1>9. ASSUME NEW w \in Workers, StartWorker(w)
      PROVE  Guarded'
  BY <1>9, TakeType DEF StartWorker
<1>10. ASSUME NEW f \in Files, Place(f)
      PROVE  Guarded'
  BY <1>10, TakeType DEF Place, Installed
<1>11. CASE Healthy
  BY <1>11, TakeType DEF Healthy
<1>12. CASE Commit
  BY <1>12, Same, CommitStep DEF NoJournal
<1>13. CASE Fail
  BY <1>13, RecoveryType, Same, FailStep DEF Disable
<1>14. ASSUME NEW lost \in SUBSET run.held, Release(lost)
      PROVE  Guarded'
  BY <1>14, Same DEF Release
<1>15. CASE Crash
  BY <1>15, Same DEF Crash
<1>16. CASE Reboot
  BY <1>16, Same DEF Reboot
<1>17. ASSUME NEW w \in Workers, AdminStop(w)
      PROVE  Guarded'
  BY <1>17, Same DEF AdminStop
<1>18. ASSUME NEW w \in Workers, AdminStart(w)
      PROVE  Guarded'
  BY <1>18, Same DEF AdminStart
<1>19. CASE PanelStep
  BY <1>19, PanelKeeps, Same
<1>20. ASSUME NEW w \in Workers, Reported(w)
      PROVE  Guarded'
  BY <1>20 DEF Reported
<1>21. CASE UNCHANGED vars
  BY <1>21, Same DEF vars, host
<1> QED
  BY <1>1, <1>2, <1>3, <1>4, <1>5, <1>6, <1>7, <1>8, <1>9, <1>10, <1>11, <1>12, <1>13, <1>14, <1>15, <1>16, <1>17, <1>18, <1>19, <1>20, <1>21 DEF Next, Updating, Command

LEMMA RenewedKept ==
    ASSUME IInv, TypeOK', [Next]_vars
    PROVE  Renewed'
<1> USE DEF IInv, TypeOK, host, Renewed, Working, Journalled, Off
<1>1. ASSUME NEW command \in {"auto", "manual", "recover"}, Begin(command)
      PROVE  Renewed'
  BY <1>1, BeginStep
<1>2. ASSUME NEW selected \in Workers, NEW asked \in BOOLEAN, Survey(selected, asked)
      PROVE  Renewed'
  BY <1>2, Same, SurveyStep
<1>3. CASE Leave
  BY <1>3 DEF Leave
<1>4. ASSUME NEW w \in Workers, NEW answered \in BOOLEAN, Claim(w, answered)
      PROVE  Renewed'
  BY <1>4, Same DEF Claim
<1>5. CASE GiveUp
  BY <1>5 DEF GiveUp
<1>6. CASE WriteJournal
  BY <1>6, Same DEF WriteJournal, Installation, Nothing
<1>7. CASE SwitchHelper
  BY <1>7, TakeType, Same DEF SwitchHelper, Trusted, Started
<1>8. ASSUME NEW w \in Workers, StopWorker(w)
      PROVE  Renewed'
  <2>1. /\ UNCHANGED <<file, journal, wanted, helper, run>>
        /\ todo'.stop = todo.stop \/ todo'.stop = todo.stop \ {w}
    BY <1>8, TakeType DEF StopWorker
  <2>2. CASE worker' = [worker EXCEPT ![w] = "down"]
    <3>1. Running' = Running \ {w} /\ \A v \in Workers \ {w} : worker'[v] = worker[v]
      BY <2>2, Stops
    <3> QED
      BY <2>1, <3>1 DEF Running
  <2>3. CASE UNCHANGED worker /\ run.at # "upgrade"
    BY <2>1, <2>3, Same
  <2> QED
    BY <1>8, <2>2, <2>3 DEF StopWorker
<1>9. ASSUME NEW w \in Workers, StartWorker(w)
      PROVE  Renewed'
  <2>1. /\ Running' = Running \cup {w} /\ UNCHANGED <<file, run>>
        /\ worker'[w] = IF worker[w] = "down" THEN Code ELSE worker[w]
        /\ \A v \in Workers \ {w} : worker'[v] = worker[v]
    BY <1>9, Starts DEF StartWorker
  <2>2. run.at = "upgrade" => Code = "new"
    BY <1>9, UpdaterConstants DEF StartWorker, Placed, Replaced, Code, Whole, OneVersion
  <2> QED
    BY <1>9, <2>1, <2>2, TakeType DEF StartWorker, Running
<1>10. ASSUME NEW f \in Files, Place(f)
      PROVE  Renewed'
  BY <1>10, TakeType, Same DEF Place
<1>11. CASE Healthy
  BY <1>11, TakeType, Same DEF Healthy
<1>12. CASE Commit
  BY <1>12, CommitStep
<1>13. CASE Fail
  BY <1>13, FailStep
<1>14. ASSUME NEW lost \in SUBSET run.held, Release(lost)
      PROVE  Renewed'
  BY <1>14 DEF Release
<1>15. CASE Crash
  BY <1>15 DEF Crash
<1>16. CASE Reboot
  BY <1>16 DEF Reboot
<1>17. ASSUME NEW w \in Workers, AdminStop(w)
      PROVE  Renewed'
  <2>1. Running' = Running \ {w} /\ \A v \in Workers \ {w} : worker'[v] = worker[v]
    BY <1>17, Stops DEF AdminStop
  <2> QED
    BY <1>17, <2>1 DEF AdminStop
<1>18. ASSUME NEW w \in Workers, AdminStart(w)
      PROVE  Renewed'
  <2>1. Running' = Running \cup {w} /\ worker'[w] # "down"
        /\ \A v \in Workers \ {w} : worker'[v] = worker[v]
    BY <1>18, Starts DEF AdminStart
  <2> QED
    BY <1>18, <2>1 DEF AdminStart
<1>19. CASE PanelStep
  BY <1>19, PanelKeeps, Same
<1>20. ASSUME NEW w \in Workers, Reported(w)
      PROVE  Renewed'
  BY <1>20, Same DEF Reported
<1>21. CASE UNCHANGED vars
  BY <1>21, Same DEF vars, host
<1> QED
  BY <1>1, <1>2, <1>3, <1>4, <1>5, <1>6, <1>7, <1>8, <1>9, <1>10, <1>11, <1>12, <1>13, <1>14, <1>15, <1>16, <1>17, <1>18, <1>19, <1>20, <1>21 DEF Next, Updating, Command

LEMMA LeasedKept ==
    ASSUME IInv, TypeOK', [Next]_vars
    PROVE  Leased'
<1> USE DEF IInv, TypeOK, host, Leased, Off
<1>1. ASSUME NEW command \in {"auto", "manual", "recover"}, Begin(command)
      PROVE  Leased'
  BY <1>1, BeginStep
<1>2. ASSUME NEW selected \in Workers, NEW asked \in BOOLEAN, Survey(selected, asked)
      PROVE  Leased'
  BY <1>2, SurveyStep
<1>3. CASE Leave
  BY <1>3 DEF Leave
<1>4. ASSUME NEW w \in Workers, NEW answered \in BOOLEAN, Claim(w, answered)
      PROVE  Leased'
  BY <1>4 DEF Claim, Free, Identity
<1>5. CASE GiveUp
  BY <1>5 DEF GiveUp
<1>6. CASE WriteJournal
  BY <1>6 DEF WriteJournal, Claimed
<1>7. CASE SwitchHelper
  BY <1>7 DEF SwitchHelper
<1>8. ASSUME NEW w \in Workers, StopWorker(w)
      PROVE  Leased'
  BY <1>8 DEF StopWorker
<1>9. ASSUME NEW w \in Workers, StartWorker(w)
      PROVE  Leased'
  BY <1>9 DEF StartWorker
<1>10. ASSUME NEW f \in Files, Place(f)
      PROVE  Leased'
  BY <1>10 DEF Place
<1>11. CASE Healthy
  BY <1>11 DEF Healthy
<1>12. CASE Commit
  BY <1>12, CommitStep
<1>13. CASE Fail
  BY <1>13, FailStep
<1>14. ASSUME NEW lost \in SUBSET run.held, Release(lost)
      PROVE  Leased'
  BY <1>14 DEF Release
<1>15. CASE Crash
  BY <1>15 DEF Crash
<1>16. CASE Reboot
  BY <1>16 DEF Reboot
<1>17. ASSUME NEW w \in Workers, AdminStop(w)
      PROVE  Leased'
  BY <1>17 DEF AdminStop
<1>18. ASSUME NEW w \in Workers, AdminStart(w)
      PROVE  Leased'
  BY <1>18 DEF AdminStart
<1>19. CASE PanelStep
  <2>1. \A w \in Workers : panel'[w].work = "own" =>
          ~panel'[w].lease \/ (panel[w].work = "own" /\ panel'[w].lease = panel[w].lease)
    BY <1>19, PanelWork
  <2>2. UNCHANGED run /\ run.held \subseteq Workers
    BY <1>19, PanelKeeps DEF Runs
  <2> QED
    BY <2>1, <2>2
<1>20. ASSUME NEW w \in Workers, Reported(w)
      PROVE  Leased'
  BY <1>20 DEF Reported
<1>21. CASE UNCHANGED vars
  BY <1>21 DEF vars, host
<1> QED
  BY <1>1, <1>2, <1>3, <1>4, <1>5, <1>6, <1>7, <1>8, <1>9, <1>10, <1>11, <1>12, <1>13, <1>14, <1>15, <1>16, <1>17, <1>18, <1>19, <1>20, <1>21 DEF Next, Updating, Command

LEMMA NothingHalfDoneKept ==
    ASSUME IInv, TypeOK', [Next]_vars
    PROVE  NothingHalfDone'
<1> USE DEF IInv, TypeOK, host, NothingHalfDone, Working, Journalled
<1>1. ASSUME NEW command \in {"auto", "manual", "recover"}, Begin(command)
      PROVE  NothingHalfDone'
  BY <1>1, Same, BeginStep
<1>2. ASSUME NEW selected \in Workers, NEW asked \in BOOLEAN, Survey(selected, asked)
      PROVE  NothingHalfDone'
  BY <1>2, Same, SurveyStep
<1>3. CASE Leave
  BY <1>3, Same DEF Leave
<1>4. ASSUME NEW w \in Workers, NEW answered \in BOOLEAN, Claim(w, answered)
      PROVE  NothingHalfDone'
  BY <1>4, Same DEF Claim
<1>5. CASE GiveUp
  BY <1>5, Same DEF GiveUp
<1>6. CASE WriteJournal
  BY <1>6 DEF WriteJournal
<1>7. CASE SwitchHelper
  BY <1>7 DEF SwitchHelper
<1>8. ASSUME NEW w \in Workers, StopWorker(w)
      PROVE  NothingHalfDone'
  BY <1>8 DEF StopWorker
<1>9. ASSUME NEW w \in Workers, StartWorker(w)
      PROVE  NothingHalfDone'
  BY <1>9 DEF StartWorker
<1>10. ASSUME NEW f \in Files, Place(f)
      PROVE  NothingHalfDone'
  BY <1>10 DEF Place
<1>11. CASE Healthy
  BY <1>11 DEF Healthy
<1>12. CASE Commit
  BY <1>12, CommitWhole, Same, CommitStep
<1>13. CASE Fail
  BY <1>13, FailStep
<1>14. ASSUME NEW lost \in SUBSET run.held, Release(lost)
      PROVE  NothingHalfDone'
  BY <1>14, Same DEF Release
<1>15. CASE Crash
  BY <1>15, Same DEF Crash
<1>16. CASE Reboot
  BY <1>16, Restarts, Same DEF Reboot
<1>17. ASSUME NEW w \in Workers, AdminStop(w)
      PROVE  NothingHalfDone'
  <2>1. Running' = Running \ {w} /\ \A v \in Workers \ {w} : worker'[v] = worker[v]
    BY <1>17, Stops DEF AdminStop
  <2> QED
    BY <1>17, <2>1, Same DEF AdminStop
<1>18. ASSUME NEW w \in Workers, AdminStart(w)
      PROVE  NothingHalfDone'
  <2>1. Running' = Running \cup {w} /\ worker'[w] # "down"
        /\ \A v \in Workers \ {w} : worker'[v] = worker[v]
    BY <1>18, Starts DEF AdminStart
  <2> QED
    BY <1>18, <2>1, Same DEF AdminStart
<1>19. CASE PanelStep
  BY <1>19, PanelKeeps, Same
<1>20. ASSUME NEW w \in Workers, Reported(w)
      PROVE  NothingHalfDone'
  BY <1>20 DEF Reported
<1>21. CASE UNCHANGED vars
  BY <1>21, Same DEF vars, host
<1> QED
  BY <1>1, <1>2, <1>3, <1>4, <1>5, <1>6, <1>7, <1>8, <1>9, <1>10, <1>11, <1>12, <1>13, <1>14, <1>15, <1>16, <1>17, <1>18, <1>19, <1>20, <1>21 DEF Next, Updating, Command

LEMMA HelperTogetherKept ==
    ASSUME IInv, TypeOK', [Next]_vars
    PROVE  HelperTogether'
<1> USE DEF IInv, TypeOK, host, HelperTogether, HelperOn, Working
<1>1. ASSUME NEW command \in {"auto", "manual", "recover"}, Begin(command)
      PROVE  HelperTogether'
  BY <1>1, Same, BeginStep
<1>2. ASSUME NEW selected \in Workers, NEW asked \in BOOLEAN, Survey(selected, asked)
      PROVE  HelperTogether'
  BY <1>2, Same, SurveyStep
<1>3. CASE Leave
  BY <1>3, Same DEF Leave
<1>4. ASSUME NEW w \in Workers, NEW answered \in BOOLEAN, Claim(w, answered)
      PROVE  HelperTogether'
  BY <1>4, Same DEF Claim
<1>5. CASE GiveUp
  BY <1>5, Same DEF GiveUp
<1>6. CASE WriteJournal
  BY <1>6, Same DEF WriteJournal
<1>7. CASE SwitchHelper
  <2>1. CASE /\ "unboot" \in todo.disable /\ todo'.disable = todo.disable \ {"unboot"}
             /\ todo'.enable = todo.enable /\ ~helper'.boot /\ (helper'.runs <=> helper.runs)
    BY <1>7, <2>1, SwitchStep, Same DEF Disable
  <2>2. CASE /\ todo.disable = {"halt"} /\ todo'.disable = {}
             /\ todo'.enable = todo.enable /\ (helper'.boot <=> helper.boot) /\ ~helper'.runs
    BY <1>7, <2>2, SwitchStep, Same DEF Disable
  <2>3. CASE /\ todo.enable # {} /\ Trusted
             /\ todo'.disable = todo.disable /\ todo'.enable \subseteq todo.enable
    <3>1. run.at = "upgrade" /\ \A f \in Files : file[f] = "new"
      BY <2>3 DEF Trusted, Started, Placed, Guarded, Replaced
    <3>2. Whole /\ Code = "new"
      BY <3>1, UpdaterConstants DEF Whole, OneVersion, Code
    <3>3. \A w \in Running : worker[w] = "new"
      BY <2>3, <3>1 DEF Trusted, Started, Placed, Stopped, Renewed
    <3> QED
      BY <1>7, <3>2, <3>3, SwitchStep, Same
  <2> QED
    BY <1>7, <2>1, <2>2, <2>3, SwitchStep
<1>8. ASSUME NEW w \in Workers, StopWorker(w)
      PROVE  HelperTogether'
  <2>1. /\ UNCHANGED <<file, journal, wanted, helper, run>>
        /\ todo'.stop = todo.stop \/ todo'.stop = todo.stop \ {w}
    BY <1>8, TakeType DEF StopWorker
  <2>2. CASE worker' = [worker EXCEPT ![w] = "down"]
    <3>1. Running' = Running \ {w} /\ \A v \in Workers \ {w} : worker'[v] = worker[v]
      BY <2>2, Stops
    <3> QED
      BY <2>1, <3>1, Same DEF Running
  <2>3. CASE UNCHANGED worker /\ run.at # "upgrade"
    BY <2>1, <2>3, Same
  <2> QED
    BY <1>8, <2>2, <2>3 DEF StopWorker
<1>9. ASSUME NEW w \in Workers, StartWorker(w)
      PROVE  HelperTogether'
  <2>1. /\ Running' = Running \cup {w} /\ UNCHANGED <<file, run>>
        /\ worker'[w] = IF worker[w] = "down" THEN Code ELSE worker[w]
        /\ \A v \in Workers \ {w} : worker'[v] = worker[v]
    BY <1>9, Starts DEF StartWorker
  <2> QED
    BY <1>9, <2>1, Same DEF StartWorker
<1>10. ASSUME NEW f \in Files, Place(f)
      PROVE  HelperTogether'
  <2>1. ~HelperOn
    BY <1>10 DEF Place, Take, Guarded, Started, Placed, Stopped, HelperOff
  <2> QED
    BY <1>10, <2>1 DEF Place
<1>11. CASE Healthy
  BY <1>11, Same DEF Healthy
<1>12. CASE Commit
  BY <1>12, Same, CommitStep
<1>13. CASE Fail
  BY <1>13, Same, FailStep
<1>14. ASSUME NEW lost \in SUBSET run.held, Release(lost)
      PROVE  HelperTogether'
  BY <1>14, Same DEF Release
<1>15. CASE Crash
  BY <1>15, Same DEF Crash
<1>16. CASE Reboot
  BY <1>16, Restarts, Same DEF Reboot
<1>17. ASSUME NEW w \in Workers, AdminStop(w)
      PROVE  HelperTogether'
  <2>1. Running' = Running \ {w} /\ \A v \in Workers \ {w} : worker'[v] = worker[v]
    BY <1>17, Stops DEF AdminStop
  <2> QED
    BY <1>17, <2>1, Same DEF AdminStop
<1>18. ASSUME NEW w \in Workers, AdminStart(w)
      PROVE  HelperTogether'
  <2>1. Running' = Running \cup {w} /\ worker'[w] # "down"
        /\ \A v \in Workers \ {w} : worker'[v] = worker[v]
    BY <1>18, Starts DEF AdminStart
  <2> QED
    BY <1>18, <2>1, Same DEF AdminStart
<1>19. CASE PanelStep
  BY <1>19, PanelKeeps, Same
<1>20. ASSUME NEW w \in Workers, Reported(w)
      PROVE  HelperTogether'
  BY <1>20, Same DEF Reported
<1>21. CASE UNCHANGED vars
  BY <1>21, Same DEF vars, host
<1> QED
  BY <1>1, <1>2, <1>3, <1>4, <1>5, <1>6, <1>7, <1>8, <1>9, <1>10, <1>11, <1>12, <1>13, <1>14, <1>15, <1>16, <1>17, <1>18, <1>19, <1>20, <1>21 DEF Next, Updating, Command

LEMMA Initially == Init => IInv
<1> SUFFICES ASSUME Init
             PROVE  IInv
  OBVIOUS
<1> USE UpdaterConstants
<1>1. file \in [Files -> Versions] /\ file[Agent] = "old" /\ \A f \in Files : file[f] # "new"
  BY DEF Init, Versions
<1>2. helper \in [runs : BOOLEAN, boot : BOOLEAN] /\ (HelperOn => Installed)
  <2>1. PICK on \in {FALSE, Installed} : helper = [runs |-> on, boot |-> on]
    BY DEF Init
  <2>2. on \in BOOLEAN /\ (on => Installed)
    BY <2>1 DEF Installed
  <2> QED
    BY <2>1, <2>2 DEF HelperOn
<1>3. TypeOK
  <2>1. journal \in Journals
    BY DEF Init, NoJournal, Journals, Versions
  <2>2. run \in Runs /\ todo \in Stages
    BY DEF Init, Off, Runs, Nothing, Stages
  <2>3. panel \in [Workers -> Identity]
    BY DEF Init, Identity
  <2> QED
    BY <1>1, <1>2, <2>1, <2>2, <2>3 DEF Init, TypeOK, Versions
<1>4. Running = wanted /\ Whole /\ Code = "old" /\ \A w \in Running : worker[w] = "old"
  BY <1>1 DEF Init, Running, Whole, OneVersion, Code
<1>5. ~journal.there /\ run.at = "off" /\ run.held = {} /\ todo = Nothing
  BY DEF Init, NoJournal, Off
<1> QED
  BY <1>2, <1>3, <1>4, <1>5
     DEF IInv, NothingHalfDone, HelperTogether, HelperOn, Journalled, Working, Replaced, Revived,
         Guarded, Nothing, Renewed, Leased

LEMMA Inductive == IInv /\ [Next]_vars => IInv'
<1> SUFFICES ASSUME IInv, [Next]_vars
             PROVE  IInv'
  OBVIOUS
<1>1. TypeOK'
  BY TypeKept DEF IInv
<1> QED
  BY <1>1, NothingHalfDoneKept, HelperTogetherKept, JournalledKept, ReplacedKept, RevivedKept,
     GuardedKept, RenewedKept, LeasedKept DEF IInv

THEOREM Invariance == Spec => []IInv
BY Initially, Inductive, PTL DEF Spec

(* Every state of the updater has its types.                                *)
THEOREM TypeCorrect == Spec => []TypeOK
<1>1. IInv => TypeOK
  BY DEF IInv
<1> QED
  BY <1>1, Invariance, PTL

(* An upgrade is done or undone, or its journal is still there, whatever was *)
(* interrupted or failed, and however often.                                *)
THEOREM DoneOrUndone == Spec => []NothingHalfDone
<1>1. IInv => NothingHalfDone
  BY DEF IInv
<1> QED
  BY <1>1, Invariance, PTL

(* The privileged helper is on only beside workers of the installed version. *)
THEOREM HelperIsSafe == Spec => []HelperTogether
<1>1. IInv => HelperTogether
  BY DEF IInv
<1> QED
  BY <1>1, Invariance, PTL

(* During an upgrade or its undoing a worker is at a job of its own poll only  *)
(* when the lease that the updater took of it has run out, however polls, the *)
(* servers' benchmarks and the ends of leases interleave.                   *)
THEOREM Undisturbed == Spec => []UpgradeOfIdle
<1>1. IInv => UpgradeOfIdle
  BY DEF IInv, Leased, UpgradeOfIdle, RunOut
<1> QED
  BY <1>1, Invariance, PTL
=============================================================================
