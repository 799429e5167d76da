---------------------------- MODULE MCFullBenchmark ----------------------------
(* Small instances of FullBenchmark for TLC.                                 *)
EXTENDS FullBenchmark

(* One benchmark and every fault, or two benchmarks and none.                *)
McInit ==
    /\ Init
    /\ \/ Queued = {1} /\ faults = 0
       \/ Queued = Jobs /\ faults = MaxFaults - 1
McSpec == McInit /\ [][Next]_vars /\ Fairness
=============================================================================
