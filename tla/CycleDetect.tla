------------------------------ MODULE CycleDetect ------------------------------
(***************************************************************************)
(* Graph.Validate and Graph.detectCycle (internal/agent/dag/graph.go): the *)
(* check that stands between a plan written by a language model and the    *)
(* scheduler.  detectCycle is a depth-first search on an explicit stack; a *)
(* node may be on the stack several times, because it is pushed by every   *)
(* dependant that finds it white.  One action is one iteration of a loop.  *)
(***************************************************************************)
EXTENDS DagGraph, Sequences, FiniteSets

CONSTANT Lists      \* the DependsOn lists a node may have; 0: an unknown ID

ASSUME ListsAssumption == Lists \subseteq Seq(0 .. N)

VARIABLES
  dependsOn,  \* node -> its DependsOn
  result,     \* open, and then: baddep, cycle or ok
  stage,      \* validate; roots, top, scan: where detectCycle is in its loops
  colour,     \* node -> white, grey or black
  stack,      \* entries [id, finishing]: the slices stack and marker
  root,       \* the node the outer loop looks at
  id,         \* the node the inner loop expands; 0: none yet
  idx,        \* the index in dependsOn[id] it looks at
  finished    \* history: the nodes that have ever been coloured black

vars == <<dependsOn, result, stage, colour, stack, root, id, idx, finished>>

Colour == {"white", "grey", "black"}
Entry  == [id : Node, finishing : BOOLEAN]

TypeOK ==
  /\ dependsOn \in [Node -> Seq(0 .. N)]
  /\ result \in {"open", "baddep", "cycle", "ok"}
  /\ stage \in {"validate", "roots", "top", "scan"}
  /\ colour \in [Node -> Colour]
  /\ stack \in Seq(Entry)
  /\ root \in 1 .. N + 1
  /\ id \in 0 .. N /\ idx \in Nat
  /\ finished \in SUBSET Node

(* The graph the lists stand for.                                          *)
Graph == [n \in Node |-> {dependsOn[n][i] : i \in DOMAIN dependsOn[n]}]

Init ==
  /\ dependsOn \in [Node -> Lists]
  /\ result = "open"
  /\ stage = "validate"
  /\ colour = [n \in Node |-> "white"]
  /\ stack = <<>>
  /\ root = 1
  /\ id = 0 /\ idx = 0
  /\ finished = {}

(* A node depends on itself or on an ID that is not registered.            *)
BadDependency == \E n \in Node : \E i \in DOMAIN dependsOn[n] :
                   dependsOn[n][i] = n \/ dependsOn[n][i] \notin Node

Reject ==
  /\ result = "open" /\ stage = "validate"
  /\ BadDependency
  /\ result' = "baddep"
  /\ UNCHANGED <<dependsOn, stage, colour, stack, root, id, idx, finished>>

Search ==
  /\ result = "open" /\ stage = "validate"
  /\ ~ BadDependency
  /\ stage' = "roots"
  /\ UNCHANGED <<dependsOn, result, colour, stack, root, id, idx, finished>>

(* The outer loop: skip a node that was seen, or search from a white one.  *)
SkipRoot ==
  /\ result = "open" /\ stage = "roots" /\ root <= N
  /\ colour[root] # "white"
  /\ root' = root + 1
  /\ UNCHANGED <<dependsOn, result, stage, colour, stack, id, idx, finished>>

EnterRoot ==
  /\ result = "open" /\ stage = "roots" /\ root <= N
  /\ colour[root] = "white"
  /\ stack' = <<[id |-> root, finishing |-> FALSE]>>
  /\ root' = root + 1
  /\ stage' = "top"
  /\ UNCHANGED <<dependsOn, result, colour, id, idx, finished>>

Accept ==
  /\ result = "open" /\ stage = "roots" /\ root > N
  /\ result' = "ok"
  /\ UNCHANGED <<dependsOn, stage, colour, stack, root, id, idx, finished>>

Top == stack[Len(stack)]

(* Mutants: the popped entry is forgotten on the stack; the visited node   *)
(* is not marked.                                                          *)
NoPop == stack
NoMark == colour

Pop == SubSeq(stack, 1, Len(stack) - 1)

Mark == [colour EXCEPT ![Top.id] = "grey"]

(* The entry on top was visited, and so was everything above it.           *)
Leave ==
  /\ result = "open" /\ stage = "top" /\ stack # <<>>
  /\ Top.finishing
  /\ colour' = [colour EXCEPT ![Top.id] = "black"]
  /\ finished' = finished \cup {Top.id}
  /\ stack' = Pop
  /\ UNCHANGED <<dependsOn, result, stage, root, id, idx>>

Visit ==
  /\ result = "open" /\ stage = "top" /\ stack # <<>>
  /\ ~ Top.finishing
  /\ stack' = [stack EXCEPT ![Len(stack)] = [id |-> Top.id, finishing |-> TRUE]]
  /\ colour' = Mark
  /\ stage' = "scan" /\ id' = Top.id /\ idx' = 1
  /\ UNCHANGED <<dependsOn, result, root, finished>>

SearchDone ==
  /\ result = "open" /\ stage = "top" /\ stack = <<>>
  /\ stage' = "roots"
  /\ UNCHANGED <<dependsOn, result, colour, stack, root, id, idx, finished>>

Dep == dependsOn[id][idx]

Scanning == result = "open" /\ stage = "scan" /\ idx \in DOMAIN dependsOn[id]

(* Mutant: every dependency seen before counts as a back edge.             *)
SeenBefore(d) == colour[d] # "white"

BackEdge(d) == colour[d] = "grey"

FindCycle ==
  /\ Scanning
  /\ BackEdge(Dep)
  /\ result' = "cycle"
  /\ UNCHANGED <<dependsOn, stage, colour, stack, root, id, idx, finished>>

PushDep ==
  /\ Scanning
  /\ ~ BackEdge(Dep) /\ colour[Dep] = "white"
  /\ stack' = Append(stack, [id |-> Dep, finishing |-> FALSE])
  /\ idx' = idx + 1
  /\ UNCHANGED <<dependsOn, result, stage, colour, root, id, finished>>

SkipDep ==
  /\ Scanning
  /\ ~ BackEdge(Dep) /\ colour[Dep] = "black"
  /\ idx' = idx + 1
  /\ UNCHANGED <<dependsOn, result, stage, colour, stack, root, id, finished>>

EndScan ==
  /\ result = "open" /\ stage = "scan"
  /\ idx \notin DOMAIN dependsOn[id]
  /\ stage' = "top"
  /\ UNCHANGED <<dependsOn, result, colour, stack, root, id, idx, finished>>

Terminated == result # "open" /\ UNCHANGED vars

Work ==
  \/ Reject \/ Search \/ SkipRoot \/ EnterRoot \/ Accept \/ Leave \/ Visit
  \/ SearchDone \/ FindCycle \/ PushDep \/ SkipDep \/ EndScan

Next == Work \/ Terminated

Spec == Init /\ [][Next]_vars

FairSpec == Spec /\ WF_vars(Work)

-------------------------------------------------------------------------------
(* Validate answers nil exactly for the graphs the scheduler can finish:   *)
(* known dependencies, none on itself, and no cycle; and it blames a cycle *)
(* only if there is one, although a black node pushed twice turns grey     *)
(* once more.                                                              *)
VerdictRight ==
  /\ result = "ok" => Valid(Graph)
  /\ result = "baddep" => ~ \A n \in Node : Graph[n] \subseteq Node \ {n}
  /\ result = "cycle" => ~ Acyclic(Graph)

Marked(k) == k \in 1 .. Len(stack) /\ stack[k].finishing

(* The grey nodes are those with a marked entry, one each, and form one    *)
(* path: each depends on the next.                                         *)
GreyPath ==
  /\ \A n \in Node : colour[n] = "grey" <=> \E k \in 1 .. Len(stack) : Marked(k) /\ stack[k].id = n
  /\ \A j, k \in 1 .. Len(stack) :
       Marked(j) /\ Marked(k) /\ j < k =>
         /\ stack[j].id # stack[k].id
         /\ (\A l \in (j + 1) .. (k - 1) : ~ Marked(l)) => stack[k].id \in Graph[stack[j].id]

(* The stack holds at most one root and one entry per edge: a tall graph   *)
(* costs memory in proportion to its size, as the comment of detectCycle   *)
(* intends, although nodes are pushed more than once.                      *)
Edges == UNION {{n} \X DOMAIN dependsOn[n] : n \in Node}

StackBound == Len(stack) <= 1 + Cardinality(Edges)

(* The search ends, on every graph.                                        *)
SearchEnds == <>(result # "open")

-------------------------------------------------------------------------------
(* The inductive invariant of the search.                                  *)

(* The last marked entry: the node the inner loop is at.                   *)
LastMarked(k) == Marked(k) /\ \A j \in (k + 1) .. Len(stack) : ~ Marked(j)

(* The search goes only through graphs that passed the first check.        *)
Stages ==
  /\ stage # "validate" => \A n \in Node : Graph[n] \subseteq Node \ {n}
  /\ result \in {"open", "ok"} /\ stage \in {"validate", "roots"} => stack = <<>>
  /\ result = "ok" => stage = "roots" /\ root = N + 1
  /\ result = "baddep" => stage = "validate" /\ BadDependency
  /\ result = "cycle" => stage = "scan" /\ idx \in DOMAIN dependsOn[id] /\ BackEdge(Dep)
  /\ stage = "scan" => id \in Node /\ \E k \in 1 .. Len(stack) : LastMarked(k) /\ stack[k].id = id
  /\ stage = "scan" => idx >= 1

(* Finished nodes lead only to finished nodes, and in no circle.           *)
Finished ==
  /\ \A n \in finished : Graph[n] \subseteq finished
  /\ \A S \in SUBSET finished : S # {} => \E n \in S : Graph[n] \cap S = {}
  /\ \A n \in Node : colour[n] = "black" => n \in finished
  /\ \A n \in 1 .. (root - 1) :
       n \in finished \/ \E k \in 1 .. Len(stack) : stack[k].id = n

(* What a marked entry still waits for is above it on the stack.           *)
Covered ==
  \A k \in 1 .. Len(stack) : Marked(k) =>
    \A i \in DOMAIN dependsOn[stack[k].id] :
      \/ dependsOn[stack[k].id][i] \in finished
      \/ \E j \in (k + 1) .. Len(stack) : stack[j].id = dependsOn[stack[k].id][i]
      \/ stage = "scan" /\ LastMarked(k) /\ i >= idx

(* Grey nodes and marked entries.                                          *)
Greys ==
  /\ \A n \in Node : colour[n] = "grey" <=> \E k \in 1 .. Len(stack) : Marked(k) /\ stack[k].id = n
  /\ \A j, k \in 1 .. Len(stack) : Marked(j) /\ j < k => stack[j].id # stack[k].id

(* Every entry but the root is a dependency of the nearest marked one below. *)
Linked ==
  \A k \in 2 .. Len(stack) : \E j \in 1 .. (k - 1) :
    /\ Marked(j) /\ \A l \in (j + 1) .. (k - 1) : ~ Marked(l)
    /\ stack[k].id \in Graph[stack[j].id]

(* A marked entry is followed by a dependency of it, the next marked one.  *)
Chained ==
  \A j \in 1 .. Len(stack) : Marked(j) /\ ~ LastMarked(j) =>
    \E k \in (j + 1) .. Len(stack) :
      /\ Marked(k) /\ \A l \in (j + 1) .. (k - 1) : ~ Marked(l)
      /\ stack[k].id \in Graph[stack[j].id]

(* Between a marked entry and the next one are only dependencies of it,    *)
(* each pushed at an index of its own.                                     *)
Levels ==
  /\ \A j \in 1 .. Len(stack) : \A k \in (j + 1) .. Len(stack) :
       Marked(j) /\ (\A l \in (j + 1) .. (k - 1) : ~ Marked(l)) =>
         k - j <= Len(dependsOn[stack[j].id])
  /\ stage = "scan" => \A j \in 1 .. Len(stack) : LastMarked(j) => Len(stack) - j < idx

CycleInv == TypeOK /\ Stages /\ Finished /\ Covered /\ Greys /\ Linked /\ Chained /\ Levels
===============================================================================
