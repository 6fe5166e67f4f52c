-------------------------------- MODULE DagRun --------------------------------
(***************************************************************************)
(* What a caller of Scheduler.Run relies on, without goroutines, channels, *)
(* contexts or limiters: which calls of the nodes' RunFns it may see, and  *)
(* what the answer says about them.  DagScheduler implements it (theorem   *)
(* Refinement of DagSchedulerProofs, run dag_safety).                      *)
(***************************************************************************)
EXTENDS DagGraph

VARIABLES
  deps,     \* the graph
  ran,      \* the last call of each node's RunFn: uncalled, running, ok, bad
  answer    \* "open" while Run has not returned, then "ok" or "error"

runVars == <<deps, ran, answer>>

RunInit ==
  /\ deps \in [Node -> SUBSET Node]
  /\ ran = [n \in Node |-> "uncalled"]
  /\ answer = "open"

(* A RunFn is called only in a valid graph, after every dependency         *)
(* succeeded, never while the node runs and never after it succeeded.      *)
Call(n) ==
  /\ answer = "open"
  /\ Valid(deps)
  /\ ran[n] \in {"uncalled", "bad"}
  /\ \A d \in deps[n] : ran[d] = "ok"
  /\ ran' = [ran EXCEPT ![n] = "running"]
  /\ UNCHANGED <<deps, answer>>

End(n) ==
  /\ ran[n] = "running"
  /\ \E o \in {"ok", "bad"} : ran' = [ran EXCEPT ![n] = o]
  /\ UNCHANGED <<deps, answer>>

(* Run returns when no RunFn is active; nil means that every node          *)
(* succeeded, and after it no RunFn is called any more.                    *)
Answer(a) ==
  /\ answer = "open"
  /\ \A n \in Node : ran[n] # "running"
  /\ a = "ok" => \A n \in Node : ran[n] = "ok"
  /\ answer' = a
  /\ UNCHANGED <<deps, ran>>

RunNext ==
  \/ \E n \in Node : Call(n) \/ End(n)
  \/ \E a \in {"ok", "error"} : Answer(a)

RunSpec == RunInit /\ [][RunNext]_runVars
===============================================================================
