-------------------------------- MODULE Planner --------------------------------
(***************************************************************************)
(* The intake of a question: Planner.Plan with its single retry            *)
(* (internal/agent/planner), Engine.Run building the graph from the plan   *)
(* (internal/agent/orchestrator), and the validation with which            *)
(* Scheduler.Run begins (internal/agent/dag).                              *)
(***************************************************************************)
EXTENDS JsonExtract, SequencesExt

CONSTANTS
  MaxSubtasks,  \* subtasks a plan may have: 8
  Name,         \* what an ID and a question may be
  Blank,        \* the empty one
  Replies       \* what the model may write

Subtask == [id : Name, question : Name, deps : SUBSET Name]

(* A reply is an object between prose, with the subtasks the object says,  *)
(* and those that the first object of the text says when it is another     *)
(* one: a draft, in thoughts that leaked, may be a plan as well.           *)
ASSUME RepliesAssumption ==
  /\ MaxSubtasks \in Nat
  /\ Replies \subseteq [before : Seq(Token), object : Seq(Token), after : Seq(Token),
                        subtasks : Seq(Subtask), draft : Seq(Subtask)]

VARIABLES
  phase,    \* where the question is
  replies,  \* history: what the model answered, <<>> if the call failed
  plan,     \* the accepted plan
  graph     \* the nodes of the dag.Graph, in order of registration

vars == <<phase, replies, plan, graph>>

Phase == {"ask", "build", "validate", "run", "planner error", "dag error", "refused"}

TypeOK ==
  /\ phase \in Phase
  /\ replies \in Seq({<<>>} \cup {<<r>> : r \in Replies}) /\ Len(replies) <= 2
  /\ plan \in Seq(Subtask)
  /\ graph \in Seq(Subtask) /\ Len(graph) <= Len(plan)

Init == phase = "ask" /\ replies = <<>> /\ plan = <<>> /\ graph = <<>>

-------------------------------------------------------------------------------
(* Planner.askOnce.                                                        *)

Text(r) == r.before \o r.object \o r.after

Ids(tasks) == {tasks[i].id : i \in DOMAIN tasks}

(* Mutant: nothing looks for a duplicate ID.                               *)
ValidateLoosely(tasks) ==
  /\ Len(tasks) \in 1 .. MaxSubtasks
  /\ \A i \in DOMAIN tasks : tasks[i].id # Blank /\ tasks[i].question # Blank
  /\ \A i \in DOMAIN tasks : tasks[i].deps \subseteq Ids(tasks)

Validate(tasks) ==
  /\ Len(tasks) \in 1 .. MaxSubtasks
  /\ \A i \in DOMAIN tasks : tasks[i].id # Blank /\ tasks[i].question # Blank
  /\ \A i, j \in DOMAIN tasks : tasks[i].id = tasks[j].id => i = j
  /\ \A i \in DOMAIN tasks : tasks[i].deps \subseteq Ids(tasks)

(* json.Unmarshal of what was cut out: the object as it stands, or another *)
(* one, a part of the text in front of it or around it.  A piece of text   *)
(* that is no object is an error; an object that is no plan says <<>>,     *)
(* which is refused all the same.                                          *)
Decode(r) ==
  LET cut == Extract(Text(r))
      whole == cut = r.object /\ FirstOpen(Text(r)) = Len(r.before) + 1
  IN IF ~ IsObject(cut) THEN {} ELSE IF whole THEN {r.subtasks} ELSE {r.draft}

Accepted(r) == {tasks \in Decode(r) : Validate(tasks)}

(* Mutant: the first failure is final.                                     *)
LastTry == TRUE

SecondTry == replies # <<>>

Reply(answer) == replies' = Append(replies, answer)

AskAgain ==
  /\ phase' = IF SecondTry THEN "planner error" ELSE "ask"
  /\ UNCHANGED <<plan, graph>>

Ask ==
  /\ phase = "ask"
  /\ \E r \in Replies :
       /\ Reply(<<r>>)
       /\ IF Accepted(r) = {} THEN AskAgain
          ELSE phase' = "build" /\ plan' \in Accepted(r) /\ UNCHANGED graph

GenerateFails == phase = "ask" /\ Reply(<<>>) /\ AskAgain

-------------------------------------------------------------------------------
(* Engine.Run: the loop over g.Add.                                        *)

Upcoming == plan[Len(graph) + 1]

AddFails == Upcoming.id = Blank \/ Upcoming.id \in Ids(graph)

Add ==
  /\ phase = "build" /\ Len(graph) < Len(plan)
  /\ IF AddFails THEN phase' = "dag error" /\ UNCHANGED graph
     ELSE UNCHANGED phase /\ graph' = Append(graph, Upcoming)
  /\ UNCHANGED <<replies, plan>>

Built ==
  /\ phase = "build" /\ Len(graph) = Len(plan)
  /\ phase' = "validate"
  /\ UNCHANGED <<replies, plan, graph>>

(* Graph.Validate, which CycleDetect models step by step.                  *)
BadDependency ==
  \E i \in DOMAIN graph : graph[i].id \in graph[i].deps \/ ~ graph[i].deps \subseteq Ids(graph)

Circle(nodes) ==
  \E S \in (SUBSET DOMAIN nodes) \ {{}} :
    \A i \in S : \E j \in S : nodes[j].id \in nodes[i].deps

ValidateGraph ==
  /\ phase = "validate"
  /\ phase' = IF BadDependency \/ Circle(graph) THEN "refused" ELSE "run"
  /\ UNCHANGED <<replies, plan, graph>>

Over == phase \in {"run", "planner error", "dag error", "refused"} /\ UNCHANGED vars

Next == Ask \/ GenerateFails \/ Add \/ Built \/ ValidateGraph \/ Over

Spec == Init /\ [][Next]_vars

-------------------------------------------------------------------------------
(* A plan that Planner.validate let pass becomes a graph with its subtasks *)
(* in its order, without an error of Graph.Add; and since every dependency *)
(* is known by then, only a circle can make Scheduler.Run refuse it.       *)
IntakeSound ==
  /\ phase # "dag error"
  /\ phase \in {"validate", "run", "refused"} => graph = plan
  /\ phase = "refused" => Circle(plan)

(* The reply holds a plan that is fit to be run.                           *)
Fit(r) == IsObject(r.object) /\ Validate(r.subtasks)

(* Nothing in the reply can mislead a scan for braces.                     *)
Plain(r) == "open" \notin ToSet(r.before) /\ PlainStrings(r.object)

Planning == phase \in {"ask", "planner error"}

(* The planner gives up only after two calls, and neither it nor a second  *)
(* call passes over a fit plan without misleading braces.  The plan it     *)
(* accepts comes from the last reply and is fit; and it is the one the     *)
(* reply's object says, unless a brace in the prose or in a string misled  *)
(* the scan: then it may be a draft the model wrote before its answer.     *)
GoodReplyWins ==
  /\ phase = "planner error" => Len(replies) = 2
  /\ \A k \in DOMAIN replies : Planning \/ k < Len(replies) =>
       \A r \in ToSet(replies[k]) : ~ (Fit(r) /\ Plain(r))
  /\ ~ Planning => \E r \in ToSet(Last(replies)) :
       /\ Validate(plan) /\ plan \in {r.subtasks, r.draft}
       /\ IsObject(r.object) /\ Plain(r) => plan = r.subtasks

-------------------------------------------------------------------------------
(* The inductive invariant.                                                *)

(* No answer brought a plan, but the last once there is one.               *)
Answered ==
  /\ phase = "ask" => Len(replies) <= 1
  /\ phase = "planner error" => Len(replies) = 2
  /\ \A k \in DOMAIN replies : Planning \/ k < Len(replies) =>
       \A r \in ToSet(replies[k]) : Accepted(r) = {}
  /\ ~ Planning => replies # <<>> /\ \E r \in ToSet(Last(replies)) : plan \in Accepted(r)

(* The graph is the beginning of the plan.                                 *)
Copied ==
  /\ Planning => graph = <<>>
  /\ \A i \in DOMAIN graph : graph[i] = plan[i]
  /\ phase \in {"validate", "run", "refused"} => Len(graph) = Len(plan)
  /\ phase # "dag error"
  /\ phase = "refused" => Circle(plan)

IInv == TypeOK /\ Answered /\ Copied

-------------------------------------------------------------------------------
(* What a comment says, and the program does not do.                       *)

(* planner.go: extractJSON "finds the outermost {...} block.  Tolerates    *)
(* surrounding prose": no prose turns a fit plan into an error.            *)
ToleratesProse ==
  phase = "planner error" => \A k \in 1 .. 2 : \A r \in ToSet(replies[k]) : ~ Fit(r)
===============================================================================
