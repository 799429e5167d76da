------------------------------ MODULE MCJobLease -----------------------------
(***************************************************************************)
(* Instances of JobLease: mixes of jobs, each around one part of the        *)
(* dispatch rules, with timers of a few steps in the order of the code's.  *)
(***************************************************************************)
EXTENDS JobLease

(* One VPS with three latency tests, 1 and 2 of them the same measurement;  *)
(* two VPSes with a public test each and an HTTP test each of one server.   *)
TestOp == <<"latency", "latency", "latency", "public-speed", "public-speed", "http-speed", "http-speed">>
TestExec == <<"n1", "n1", "n1", "n1", "n2", "n1", "n2">>
TestKey == <<"a", "a", "b", "c", "d", "e", "f">>
TestSite == <<"a", "a", "b", "p", "q", "s", "s">>
TestGroups == {{1}, {1, 2}, {4}}

(* A benchmark between a VPS and a probe, a full benchmark and a latency    *)
(* test of the probe; and what nobody polls for: two of Globalping, the     *)
(* same, and BGP.                                                           *)
MixOp == <<"benchmark", "full", "latency", "globalping", "globalping", "bgp">>
MixExec == <<"p1", "n1", "p1", "globalping", "globalping", "bgp">>
MixNode == <<"n1", "n1", "n1", "n1", "n1", "n1">>
MixKey == <<"a", "b", "c", "g", "g", "t">>
MixGroups == {{1, 2}, {4}, {6}}

(* A behaviour uses the jobs of one mix; the others were turned down before  *)
(* it begins, and workers of no mix have no credential.                     *)
Mix(jobs, workers, reloads) ==
    /\ job = [j \in Jobs |-> Blank(IF j \in jobs THEN "new" ELSE "done")]
    /\ result = [j \in Jobs |-> IF j \in jobs THEN "none" ELSE "missing"]
    /\ known = workers /\ restarts = MaxRestarts - reloads
AtRest ==
    /\ fresh = [w \in Workers |-> 0] /\ tools = {} /\ lease = [w \in Workers |-> 0]
    /\ cool = 0 /\ provider = [used |-> 0, blocked |-> 0]
    /\ inflight = {} /\ bgpBusy = NoJob /\ reap = {}
    /\ runs = [j \in Jobs |-> 0] /\ created = [j \in Jobs |-> 0]

TestInit ==
    /\ \/ Mix({1, 2, 3}, {"n1"}, 1)
       \/ Mix({4, 5}, {"n1", "n2"}, 0)
       \/ Mix({6, 7}, {"n1", "n2"}, 0)
       \/ Mix({5, 6}, {"n1", "n2"}, 0)
       \/ Mix({4, 6}, {"n1"}, 1)
    /\ AtRest
TestSpec == TestInit /\ [][Next]_vars /\ Fairness
MixInit ==
    /\ \/ Mix({1, 2, 3}, {"n1", "p1"}, 0)
       \/ Mix({1, 2}, {"n1", "p1"}, 1)
       \/ Mix({4, 5}, {}, 1)
       \/ Mix({6}, {}, 1)
    /\ AtRest
MixSpec == MixInit /\ [][Next]_vars
=============================================================================
