----------------------------- MODULE MCCycleDetect -----------------------------
(* Every list of at most two dependencies, with repetitions and unknown    *)
(* names.                                                                  *)
EXTENDS CycleDetect

ShortLists == UNION {[1 .. k -> 0 .. N] : k \in 0 .. 2}
===============================================================================
