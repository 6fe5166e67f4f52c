------------------------------- MODULE DagGraph -------------------------------
(***************************************************************************)
(* The dependency graph a scheduler run works on (internal/agent/dag,      *)
(* graph.go).  A node is named by its position in the order of g.Add, so   *)
(* that `for _, n := range nodes` is the numeric order of Node.  A graph   *)
(* is the function from a node to the set of its DependsOn.                *)
(***************************************************************************)
EXTENDS Integers

CONSTANT N      \* how many nodes the graph holds

ASSUME NAssumption == N \in Nat \ {0}

Node == 1 .. N

(* No cycle: every non-empty set of nodes holds one that depends on none   *)
(* of the set.  This is what detectCycle decides (module CycleDetect).     *)
Acyclic(graph) ==
  \A S \in SUBSET Node : S # {} => \E n \in S : graph[n] \cap S = {}

(* Mutant: Validate forgets its last line, the cycle check.                *)
ValidButCyclic(graph) == \A n \in Node : graph[n] \subseteq Node \ {n}

(* Graph.Validate: every dependency is a registered node, none is the node *)
(* itself, and there is no cycle.                                          *)
Valid(graph) ==
  /\ \A n \in Node : graph[n] \subseteq Node \ {n}
  /\ Acyclic(graph)
===============================================================================
