---------------------------- MODULE MCDagScheduler ----------------------------
(* Instances of DagScheduler for TLC: the first node may be retried once,   *)
(* the others never.                                                       *)
EXTENDS DagSchedulerInvariant, TLC

Retries == [n \in Node |-> IF n = 1 THEN 1 ELSE 0]

Pool == Permutations(Worker)     \* the workers are interchangeable
===============================================================================
