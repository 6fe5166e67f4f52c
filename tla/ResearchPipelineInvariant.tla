----------------------- MODULE ResearchPipelineInvariant -----------------------
(***************************************************************************)
(* The inductive invariant behind the properties of ResearchPipeline, in   *)
(* parts that the proofs establish one after the other: the engine, the    *)
(* channel to the bridge, what the bridge has announced, the channel to    *)
(* the handler, and what the handler has recorded.                         *)
(***************************************************************************)
EXTENDS ResearchPipelineProperties

(* A plan has at most 8 subtasks, a subtask at most two attempts, and      *)
(* dagEvents 256 places: every attempt begins and ends, and a subtask may  *)
(* be cancelled once more.                                                 *)
Places == 2 * MaxRetry + 3

ASSUME RoomAssumption == DagEventCap >= N * Places

-------------------------------------------------------------------------------
(* The stages of Engine.Run.                                               *)

Early == {"idle", "planner", "tools"}      \* before the scheduler
Late  == {"done", "failed", "sent", "closed"}     \* after the verdict

Done == Event("done", 0, 0)
ThePlan == Event("plan", 0, 0)
Chunk(i) == Event("writer_token", 0, i)

(* What each stage has done.                                               *)
Stages ==
  /\ stage \in {"idle", "planner"} => emitted = {}
  /\ stage \in Early =>
       answer = "open" /\ dagEvents = <<>> /\ \A n \in Node : ran[n] = "uncalled"
  /\ stage = "run" => answer = "open"
  /\ stage # "run" => \A n \in Node : ran[n] # "running"
  /\ stage = "bridge" => answer # "open"
  /\ stage \notin {"run", "bridge"} => dagEvents = <<>>
  /\ stage \in {"writer", "check", "finish", "done"} => answer = "ok"
  /\ answer = "ok" => \A n \in Node : ran[n] = "ok"
  /\ stage \in {"tools", "run", "bridge", "writer", "check", "finish"} => ThePlan \in emitted
  /\ answer = "ok" => ThePlan \in emitted
  /\ stage \in Early \cup {"run", "bridge"} => tokens = 0
  /\ tokens > 0 => answer = "ok"
  /\ closed <=> stage = "closed"

(* Who has progress to send is in an attempt.                              *)
Reporting == \A n \in reporting : ran[n] = "running"

(* The verdict comes last, and says what Run returned.                     *)
Verdicts ==
  /\ Sent("plan") \subseteq {ThePlan}
  /\ Sent("done") \subseteq {Done}
  /\ Sent("writer_token") = {Chunk(i) : i \in 1 .. tokens}
  /\ stage \notin Late => Verdict = {}
  /\ Done \in emitted => answer = "ok" /\ Sent("error") = {}
  /\ stage = "done" => Done \in emitted
  /\ stage = "failed" => Done \notin emitted
  /\ pipelineErr = "open" <=> stage \notin {"sent", "closed"}
  /\ pipelineErr = "nil" => Done \in emitted
  /\ pipelineErr = "err" => Done \notin emitted

-------------------------------------------------------------------------------
(* The channel to the bridge.                                              *)

(* The place of an event in the life of its subtask, and of the last one.  *)
Pos(e) ==
  IF e.type = "started" THEN 2 * e.k - 1
  ELSE IF e.type = "cancelled" THEN Places ELSE 2 * e.k

LastPos(n) == IF ran[n] = "running" THEN 2 * attempts[n] - 1 ELSE 2 * attempts[n]

(* A scheduler's event says what has become of the subtask.                *)
Sound(e) ==
  /\ e.type # "cancelled" => e.k \in 1 .. attempts[e.id] /\ Pos(e) <= LastPos(e.id)
  /\ e.type = "cancelled" => answer # "open"
  /\ e.type = "succeeded" => ran[e.id] = "ok" /\ e.k = attempts[e.id]
  /\ e.type = "failed" => Exhausted(e.id) /\ e.k = attempts[e.id]

(* Events of a subtask are in the order of its life.                       *)
InOrder(q) == \A i, j \in 1 .. Len(q) : i < j /\ q[i].id = q[j].id => Pos(q[i]) < Pos(q[j])

DagOrder ==
  /\ ~ dropped
  /\ InOrder(dagEvents)
  /\ \A i \in 1 .. Len(dagEvents) : Sound(dagEvents[i])
  /\ \A n \in Node : ran[n] # "uncalled" <=> attempts[n] > 0

-------------------------------------------------------------------------------
(* What the client was told, or will be by the first m events of dagEvents. *)

StartKnown(n, k, m) ==
  \/ Event("node_started", n, k) \in emitted
  \/ \E j \in 1 .. m : dagEvents[j] = Event("started", n, k)

SuccessKnown(n, m) ==
  \/ Finished(n)
  \/ \E j \in 1 .. m : dagEvents[j].type = "succeeded" /\ dagEvents[j].id = n

Told(n) ==
  /\ ran[n] = "running" => StartKnown(n, attempts[n], Len(dagEvents))
  /\ ran[n] = "ok" => SuccessKnown(n, Len(dagEvents))

(* What must be known before the i-th event is passed on.                  *)
Preceded(i) ==
  LET de == dagEvents[i]
  IN  /\ de.type \in {"succeeded", "failed"} => StartKnown(de.id, de.k, i - 1)
      /\ de.type = "started" => \A d \in deps[de.id] : SuccessKnown(d, i - 1)

Announced ==
  /\ \A n \in Node : Told(n)
  /\ \A i \in 1 .. Len(dagEvents) : Preceded(i)

-------------------------------------------------------------------------------
(* The channel to the handler.                                             *)

Steps == {"node_started", "node_finished", "node_failed"}

Outcomes == {"node_finished", "node_failed"}

Waiting(e) == \E i \in 1 .. Len(events) : events[i] = e

(* Nothing more comes for subtask n from the scheduler.                    *)
NoMore(n) ==
  /\ ran[n] = "ok" \/ Exhausted(n)
  /\ \A j \in 1 .. Len(dagEvents) : dagEvents[j].id = n => dagEvents[j].type = "cancelled"

(* An outcome that was announced stands.                                   *)
Ended == \A e \in emitted : e.type \in Outcomes => e.id \in Node /\ NoMore(e.id)

(* The i-th event of the channel, and an earlier one beside a later one.   *)
SentAt(i) ==
  /\ events[i] \in emitted
  /\ events[i].type \in Steps => events[i].id \in Node
  /\ events[i].type = "plan" => i = 1
  /\ events[i].type \in {"done", "error"} => i = Len(events)
  /\ events[i].type \in Outcomes => NoMore(events[i].id)

InTurn(i, j) ==
  /\ events[i].type \in Outcomes /\ events[j].id = events[i].id => events[j].type \notin Steps
  /\ events[i].type = "writer_token" /\ events[j].type = "writer_token" =>
       events[i].k < events[j].k

Streamed ==
  /\ \A i \in 1 .. Len(events) : SentAt(i)
  /\ \A i, j \in 1 .. Len(events) : i < j => InTurn(i, j)
  /\ ThePlan \in emitted \/ \A e \in emitted : e.type = "error"

-------------------------------------------------------------------------------
(* The recorder, and the handler around it.                                *)

Listening == handler \in {"recv", "write"}

(* Nothing more comes for subtask n, not even from the handler's channel.  *)
Settled(n) ==
  /\ NoMore(n)
  /\ \A i \in 1 .. Len(events) : events[i].id = n => events[i].type \notin Steps

(* Of the subtask's result the row says so, or will, or could not.         *)
ResultKept(n) ==
  \/ \E i \in 1 .. Len(events) : events[i].type = "node_finished" /\ events[i].id = n
  \/ unsaved
  \/ n \in DOMAIN tasks /\ tasks[n].status = "done" /\ tasks[n].question

PlanAhead == handler = "begin" \/ (Listening /\ (ThePlan \notin emitted \/ Waiting(ThePlan)))

PlanSaved == Listening /\ ThePlan \in emitted /\ ~ Waiting(ThePlan) /\ ~ unsaved

(* The rows follow the events that were received.                          *)
Recorded ==
  /\ \A n \in DOMAIN tasks : tasks[n].status \in {"done", "failed"} => Settled(n)
  /\ handler = "begin" => recorder.report = <<>> /\ ~ recorder.pipelineOK
  /\ PlanAhead => tasks = <<>> /\ ~ unsaved
  /\ PlanSaved => DOMAIN tasks = Node /\ \A n \in Node : tasks[n].sortOrder = n - 1
  /\ Listening => \A n \in Node : Finished(n) => ResultKept(n)

(* The report is the chunks received; the others wait in their order.      *)
Reported ==
  Listening =>
    /\ Len(recorder.report) <= tokens
    /\ recorder.report = [i \in 1 .. Len(recorder.report) |-> i]
    /\ \A k \in 1 .. tokens : k > Len(recorder.report) <=> Waiting(Chunk(k))

(* All that a completed session shows is there.                            *)
Complete ==
  /\ Done \in emitted /\ events = <<>>
  /\ recorder.report = [i \in 1 .. tokens |-> i]
  /\ unsaved \/ \A n \in Node :
       n \in DOMAIN tasks /\ tasks[n] = [status |-> "done", question |-> TRUE, sortOrder |-> n - 1]

Handled ==
  /\ recorder.pipelineOK => Complete
  /\ handler = "begin" => stage = "idle" /\ session.status = "none"
  /\ stage = "idle" <=> session.status = "none"
  /\ handler \in {"recv", "write", "await", "finalize"} => session.status = "running"
  /\ draining => handler \in {"await", "finalize", "returned"}
  /\ Listening /\ Done \in emitted => Waiting(Done) \/ recorder.pipelineOK
  /\ handler \in {"await", "finalize"} /\ ~ draining =>
       closed /\ (Done \in emitted => recorder.pipelineOK)
  /\ handler = "finalize" => pipelineErr # "open"
  /\ session.status \in {"completed", "failed"} => handler = "returned"
  /\ session.status = "completed" =>
       recorder.pipelineOK /\ pipelineErr = "nil" /\ session.report = recorder.report
  /\ session.status = "failed" /\ ~ session.message => draining /\ pipelineErr = "nil"

IInv ==
  /\ TypeOK /\ Stages /\ Reporting /\ Verdicts /\ DagOrder /\ Announced /\ Ended /\ Streamed
  /\ Recorded /\ Reported /\ Handled
===============================================================================
