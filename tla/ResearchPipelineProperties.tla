---------------------- MODULE ResearchPipelineProperties ----------------------
(***************************************************************************)
(* What the client, the operator and the history pages rely on.            *)
(***************************************************************************)
EXTENDS ResearchPipeline

Sent(t) == {e \in emitted : e.type = t}

Finished(n) == \E e \in Sent("node_finished") : e.id = n

Verdict == Sent("done") \cup Sent("error")

(* Nothing is sent on a closed channel (a panic that ends the process):    *)
(* when the pipeline goroutine closes events, no node and no bridge is     *)
(* left that could still emit.                                             *)
NoSendOnClosed == closed => dagEvents = <<>> /\ \A n \in Node : ran[n] # "running"

(* The 256 places of dagEvents are enough for every plan of eight subtasks *)
(* with one retry, however slow the client is: five places for each.       *)
NoDagEventLost == ~ dropped

(* The order of Engine.Run's events: the plan first, a subtask only after  *)
(* the results it depends on were announced, its outcome after its start,  *)
(* its progress before its outcome, the report after every result, chunk   *)
(* by chunk, and nothing after the verdict.  Starts and outcomes come from *)
(* the bridge, progress from the nodes, the report from Run itself, and    *)
(* progress may overtake the start it follows.                             *)
SentInOrder(e) ==
  /\ Verdict = {} /\ ~ closed
  /\ e.type \notin {"plan", "error"} => Sent("plan") # {}
  /\ e.type = "node_started" => \A d \in deps[e.id] : Finished(d)
  /\ e.type \in {"node_finished", "node_failed"} =>
       Event("node_started", e.id, e.k) \in emitted
  /\ e.type = "progress" =>
       \A f \in Sent("node_finished") \cup Sent("node_failed") : f.id # e.id
  /\ e.type \in {"writer_token", "done"} => \A n \in Node : Finished(n)
  /\ e.type = "writer_token" => Cardinality(Sent("writer_token")) = e.k - 1

OrderedStream == [][\A e \in emitted' \ emitted : SentInOrder(e)]_vars

(* A session that is recorded as completed has the whole report, every     *)
(* subtask succeeded, and unless a statement failed every subtask's row    *)
(* says so, with its question, at its place in the plan.                   *)
CompletedIsWhole ==
  session.status = "completed" =>
    /\ answer = "ok"
    /\ session.report = [i \in 1 .. tokens |-> i]
    /\ ~ unsaved => \A n \in Node :
         n \in DOMAIN tasks /\ tasks[n] = [status |-> "done", question |-> TRUE, sortOrder |-> n - 1]

(* A session that is recorded as failed says why, except when the client   *)
(* hung up on a run that then succeeded.                                   *)
FailureExplained ==
  session.status = "failed" => session.message \/ (draining /\ pipelineErr = "nil")

(* The rows evolve as the readers of the history expect (SessionLog): a    *)
(* task's status never goes back, a late event of the scheduler or a retry *)
(* never undoes an outcome, nothing is written after the session's verdict *)
(* and a completed session has no unfinished row but for a lost statement. *)
Rows ==
  INSTANCE SessionLog WITH
    Task <- Node,
    log <- [status |-> session.status,
            rows |-> [n \in Node |-> IF n \in DOMAIN tasks THEN tasks[n].status ELSE "absent"],
            lost |-> unsaved]

ImplementsSessionLog == Rows!Spec

(* The client never stalls for good: every write of an event returns,      *)
(* because the client reads on or because it has hung up.                  *)
WritesReturn == []<>(handler # "write")

(* If the client reads on or hangs up, whenever it does, and whenever the  *)
(* deadline strikes, the handler returns, every goroutine it started ends, *)
(* and the session is closed.  A client that stalls without closing holds  *)
(* them all for ever: the deadline ends pipelineCtx, not the write.        *)
Concluded ==
  WritesReturn => (stage = "planner" ~> Over /\ session.status \in {"completed", "failed"})

-------------------------------------------------------------------------------
(* What a comment says, and the program does not do.                       *)

(* orchestrator.go: between plan and verdict the stream is a sequence      *)
(* "(node_started, node_finished | node_failed)*".                         *)
EveryStartAnswered ==
  Verdict # {} => \A e \in Sent("node_started") :
    Finished(e.id) \/ \E f \in Sent("node_failed") : f.id = e.id
===============================================================================
