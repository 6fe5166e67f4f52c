--------------------------- MODULE ResearchPipeline ---------------------------
(***************************************************************************)
(* One POST /api/research: the HTTP handler and its recorder               *)
(* (internal/server), Engine.Run with the goroutine that bridges the       *)
(* scheduler's events (internal/agent/orchestrator), the node goroutines,  *)
(* and the rows the recorder leaves in Postgres.  The scheduler is DagRun, *)
(* the specification DagScheduler implements, joined with the events it    *)
(* emits.                                                                  *)
(***************************************************************************)
EXTENDS DagRun, Sequences, SequencesExt

CONSTANTS
  MaxRetry,       \* additional attempts of a subtask
  EventCap,       \* capacity of the channel events
  DagEventCap,    \* capacity of the channel dagEvents
  MaxProgress,    \* bound: search_round and critic_review events of a subtask
  MaxTokens,      \* bound: chunks the writer streams
  StoreMayFail,   \* may a statement fail although its context is live?
  Plans           \* the dependencies a plan may have

ASSUME CapAssumption ==
  /\ MaxRetry \in Nat /\ MaxProgress \in Nat /\ MaxTokens \in Nat
  /\ EventCap \in Nat \ {0} /\ DagEventCap \in Nat \ {0}
  /\ StoreMayFail \in BOOLEAN
  /\ Plans \subseteq [Node -> SUBSET Node]

VARIABLES
  stage,       \* where Engine.Run is
  attempts,    \* node -> attempts begun
  progress,    \* node -> progress events begun
  reporting,   \* the nodes that have a progress event to send
  dagEvents,   \* the channel from the scheduler to the bridge
  dropped,     \* history: an event found dagEvents full
  events,      \* the channel from the engine to the handler
  closed,      \* events is closed
  emitted,     \* history: the events ever sent on events
  tokens,      \* chunks streamed
  pipelineErr, \* the channel pipelineErr: open, nil or err
  ctxDone,     \* pipelineCtx is done
  clientGone,  \* the client hung up
  handler,     \* where handleResearch is
  current,     \* the event it has received
  draining,    \* the goroutine that drains events runs
  recorder,    \* the researchRecorder: report, pipelineOK, failMsg
  session,     \* the row of research_sessions: status, report, message
  tasks,       \* the rows of research_tasks, by node
  unsaved      \* history: a statement on research_tasks failed

engineVars  == <<stage, tokens, pipelineErr>>
nodeVars    == <<runVars, attempts, progress, reporting>>
dagChan     == <<dagEvents, dropped>>
eventChan   == <<events, closed, emitted>>
handlerVars == <<handler, current, draining>>
storeVars   == <<recorder, session, tasks, unsaved>>
vars == <<engineVars, nodeVars, dagChan, eventChan, ctxDone, clientGone,
          handlerVars, storeVars>>

Stage == {"idle", "planner", "tools", "run", "bridge", "writer", "check",
          "finish", "error", "failed", "done", "sent", "closed"}

EventTypes == {"plan", "node_started", "progress", "node_finished",
               "node_failed", "writer_token", "done", "error"}

Event(t, n, k) == [type |-> t, id |-> n, k |-> k]

Events == [type : EventTypes, id : 0 .. N, k : Nat]

DagEvents == [type : {"started", "succeeded", "retrying", "failed", "cancelled"},
              id : Node, k : Nat]

NoEvent == Event("error", 0, 0)

TaskRow == [status : {"pending", "running", "done", "failed"},
            question : BOOLEAN, sortOrder : Nat]

TypeOK ==
  /\ deps \in [Node -> SUBSET Node]
  /\ ran \in [Node -> {"uncalled", "running", "ok", "bad"}]
  /\ answer \in {"open", "ok", "error"}
  /\ stage \in Stage
  /\ attempts \in [Node -> 0 .. MaxRetry + 1]
  /\ progress \in [Node -> 0 .. MaxProgress] /\ reporting \subseteq Node
  /\ dagEvents \in Seq(DagEvents) /\ Len(dagEvents) <= DagEventCap
  /\ events \in Seq(Events) /\ Len(events) <= EventCap
  /\ emitted \subseteq Events
  /\ tokens \in 0 .. MaxTokens
  /\ pipelineErr \in {"open", "nil", "err"}
  /\ {dropped, closed, ctxDone, clientGone, draining, unsaved} \subseteq BOOLEAN
  /\ handler \in {"begin", "recv", "write", "await", "finalize", "returned"}
  /\ current \in Events
  /\ recorder \in [report : Seq(1 .. MaxTokens), pipelineOK : BOOLEAN, failMsg : BOOLEAN]
  /\ session \in [status : {"none", "running", "completed", "failed"},
                  report : Seq(1 .. MaxTokens), message : BOOLEAN]
  /\ DOMAIN tasks \subseteq Node /\ Range(tasks) \subseteq TaskRow

Init ==
  /\ RunInit /\ deps \in Plans
  /\ stage = "idle"
  /\ attempts = [n \in Node |-> 0] /\ progress = [n \in Node |-> 0] /\ reporting = {}
  /\ dagEvents = <<>> /\ dropped = FALSE
  /\ events = <<>> /\ closed = FALSE /\ emitted = {}
  /\ tokens = 0 /\ pipelineErr = "open"
  /\ ctxDone = FALSE /\ clientGone = FALSE
  /\ handler = "begin" /\ current = NoEvent /\ draining = FALSE
  /\ recorder = [report |-> <<>>, pipelineOK |-> FALSE, failMsg |-> FALSE]
  /\ session = [status |-> "none", report |-> <<>>, message |-> FALSE]
  /\ tasks = <<>> /\ unsaved = FALSE

-------------------------------------------------------------------------------
(* Engine.Run.                                                             *)

(* The blocking emit on events.                                            *)
Emit(e) ==
  /\ Len(events) < EventCap
  /\ events' = Append(events, e)
  /\ emitted' = emitted \cup {e}
  /\ UNCHANGED closed

(* The non-blocking emit on dagEvents: what does not fit is lost.          *)
EmitDag(s) ==
  LET room == DagEventCap - Len(dagEvents)
  IN  /\ dagEvents' = dagEvents \o SubSeq(s, 1, IF Len(s) < room THEN Len(s) ELSE room)
      /\ dropped' = (dropped \/ Len(s) > room)

GoTo(a, b) == stage = a /\ stage' = b

(* What the engine's own steps, and those of nobody else, leave alone.     *)
EngineOnly == UNCHANGED <<ctxDone, clientGone, handlerVars, storeVars>>

PlanFails ==
  /\ GoTo("planner", "error")
  /\ UNCHANGED <<tokens, pipelineErr, nodeVars, dagChan, eventChan>> /\ EngineOnly

PlanMade ==
  /\ GoTo("planner", "tools")
  /\ Emit(Event("plan", 0, 0))
  /\ UNCHANGED <<tokens, pipelineErr, nodeVars, dagChan>> /\ EngineOnly

(* Is web_search registered?                                               *)
LookUpTool ==
  /\ \E s \in {"run", "error"} : GoTo("tools", s)
  /\ UNCHANGED <<tokens, pipelineErr, nodeVars, dagChan, eventChan>> /\ EngineOnly

Exhausted(n) == ran[n] = "bad" /\ attempts[n] > MaxRetry

(* Mutant: one attempt too many.                                           *)
TryOnceMore(n) == attempts[n] <= MaxRetry + 1

MayTry(n) == attempts[n] <= MaxRetry

(* Scheduler.execute: an attempt begins, reports progress through the      *)
(* researcher's hook, and ends.  The hook emits on events: it returns when *)
(* there is room, whatever becomes of the context, and the attempt cannot  *)
(* end before.                                                             *)
StartNode(n) ==
  /\ stage = "run" /\ ~ ctxDone
  /\ MayTry(n)
  /\ Call(n)
  /\ attempts' = [attempts EXCEPT ![n] = @ + 1]
  /\ EmitDag(<<Event("started", n, attempts'[n])>>)
  /\ UNCHANGED <<progress, reporting, engineVars, eventChan>> /\ EngineOnly

BeginReport(n) ==
  /\ ran[n] = "running" /\ n \notin reporting /\ progress[n] < MaxProgress
  /\ progress' = [progress EXCEPT ![n] = @ + 1]
  /\ reporting' = reporting \cup {n}
  /\ UNCHANGED <<runVars, attempts, engineVars, dagChan, eventChan>> /\ EngineOnly

Report(n) ==
  /\ n \in reporting
  /\ Emit(Event("progress", n, progress[n]))
  /\ reporting' = reporting \ {n}
  /\ UNCHANGED <<runVars, attempts, progress, engineVars, dagChan>> /\ EngineOnly

(* Mutant: every failure is reported as the last one.                      *)
AlwaysFailed(n) == "failed"

(* How a failed attempt is announced.                                      *)
FailureEvent(n) == IF attempts[n] > MaxRetry THEN "failed" ELSE "retrying"

(* Mutant: the hook emits from a goroutine of its own.                     *)
NotWaited(n) == TRUE

HookReturned(n) == n \notin reporting

EndNode(n) ==
  /\ End(n) /\ HookReturned(n)
  /\ EmitDag(<<Event(IF ran'[n] = "ok" THEN "succeeded" ELSE FailureEvent(n),
                     n, attempts[n])>>)
  /\ UNCHANGED <<attempts, progress, reporting, engineVars, eventChan>> /\ EngineOnly

(* Scheduler.Run returns, with an error if the graph is invalid, a node    *)
(* used up its attempts or the context is done; then dagEvents is closed.  *)
(* What it had not yet seen finished by then it announced as cancelled.    *)
SchedulerReturns ==
  /\ GoTo("run", "bridge")
  /\ \/ Answer("ok") /\ UNCHANGED dagChan
     \/ Answer("error") /\ ~ Valid(deps) /\ UNCHANGED dagChan
     \/ /\ Answer("error") /\ Valid(deps)
        /\ ctxDone \/ \E n \in Node : Exhausted(n)
        /\ \E S \in SUBSET Node : EmitDag(SetToSeq({Event("cancelled", n, 0) : n \in S}))
  /\ UNCHANGED <<attempts, progress, reporting, tokens, pipelineErr, eventChan>> /\ EngineOnly

(* The bridge translates what the client is to see and skips the rest.     *)
Translation ==
  [started |-> "node_started", succeeded |-> "node_finished", failed |-> "node_failed"]

Bridge ==
  /\ dagEvents # <<>>
  /\ dagEvents' = Tail(dagEvents)
  /\ LET de == Head(dagEvents)
     IN  IF de.type \in DOMAIN Translation
         THEN Emit(Event(Translation[de.type], de.id, de.k))
         ELSE UNCHANGED eventChan
  /\ UNCHANGED <<engineVars, nodeVars, dropped>> /\ EngineOnly

(* Mutant: Run goes on without waiting for bridgeDone.                     *)
NotAwaited == TRUE

BridgeDone == dagEvents = <<>>

CollectFindings ==
  /\ BridgeDone
  /\ GoTo("bridge", IF answer = "ok" THEN "writer" ELSE "error")
  /\ UNCHANGED <<tokens, pipelineErr, nodeVars, dagChan, eventChan>> /\ EngineOnly

(* A chunk of the report; then the handler of the stream asks the context. *)
Token ==
  /\ GoTo("writer", "check") /\ tokens < MaxTokens
  /\ tokens' = tokens + 1
  /\ Emit(Event("writer_token", 0, tokens'))
  /\ UNCHANGED <<pipelineErr, nodeVars, dagChan>> /\ EngineOnly

CheckToken ==
  /\ GoTo("check", IF ctxDone THEN "error" ELSE "writer")
  /\ UNCHANGED <<tokens, pipelineErr, nodeVars, dagChan, eventChan>> /\ EngineOnly

(* The stream ends, or breaks.                                             *)
StreamEnds ==
  /\ \E s \in {"finish", "error"} : GoTo("writer", s)
  /\ UNCHANGED <<tokens, pipelineErr, nodeVars, dagChan, eventChan>> /\ EngineOnly

EmitVerdict ==
  /\ \/ GoTo("finish", "done") /\ Emit(Event("done", 0, 0))
     \/ GoTo("error", "failed") /\ Emit(Event("error", 0, 0))
  /\ UNCHANGED <<tokens, pipelineErr, nodeVars, dagChan>> /\ EngineOnly

(* The pipeline goroutine delivers what Run returned and closes events.    *)
SendErr ==
  /\ \/ GoTo("done", "sent") /\ pipelineErr' = "nil"
     \/ GoTo("failed", "sent") /\ pipelineErr' = "err"
  /\ UNCHANGED <<tokens, nodeVars, dagChan, eventChan>> /\ EngineOnly

CloseEvents ==
  /\ GoTo("sent", "closed")
  /\ closed' = TRUE
  /\ UNCHANGED <<tokens, pipelineErr, nodeVars, dagChan, events, emitted>> /\ EngineOnly

-------------------------------------------------------------------------------
(* handleResearch, its recorder and the store.                             *)

(* How a statement may end: TRUE if it fails.  One under a done context    *)
(* always does.                                                            *)
Outcome(dead) == IF dead THEN {TRUE} ELSE IF StoreMayFail THEN BOOLEAN ELSE {FALSE}

CreateSession ==
  /\ handler = "begin"
  /\ \E failed \in Outcome(FALSE) :
       IF failed
       THEN handler' = "returned" /\ UNCHANGED <<stage, session>>
       ELSE /\ handler' = "recv" /\ stage' = "planner"
            /\ session' = [session EXCEPT !.status = "running"]
  /\ UNCHANGED <<tokens, pipelineErr, nodeVars, dagChan, eventChan, ctxDone, clientGone,
                 current, draining, recorder, tasks, unsaved>>

(* Mutant: the zero sort_order of the later upserts overwrites the seeded one. *)
Overwrite(rows, n, row) ==
  [m \in DOMAIN rows \cup {n} |-> IF m = n THEN row ELSE rows[m]]

(* INSERT ... ON CONFLICT DO UPDATE, which leaves sort_order alone.        *)
Upsert(rows, n, row) ==
  [m \in DOMAIN rows \cup {n} |->
     IF m # n THEN rows[m]
     ELSE IF n \in DOMAIN rows THEN [row EXCEPT !.sortOrder = rows[n].sortOrder]
     ELSE row]

(* SavePlan touches only the plan column; the plan's i-th task is seeded   *)
(* with sort_order i, and any of the INSERTs may fail on its own.          *)
SeedTasks ==
  \E F \in SUBSET Node :
    /\ \A n \in Node : (n \in F) \in Outcome(ctxDone)
    /\ tasks' = [n \in Node \ F |->
                   [status |-> "pending", question |-> TRUE, sortOrder |-> n - 1]]
    /\ unsaved' = (F # {})

SaveTask(n, status, question) ==
  \E failed \in Outcome(ctxDone) :
    /\ tasks' = IF failed THEN tasks
                ELSE Upsert(tasks, n, [status |-> status, question |-> question, sortOrder |-> 0])
    /\ unsaved' = (unsaved \/ failed)

(* researchRecorder.OnEvent.                                               *)
OnEvent(e) ==
  \/ e.type = "plan" /\ SeedTasks /\ UNCHANGED recorder
  \/ e.type = "node_started" /\ SaveTask(e.id, "running", TRUE) /\ UNCHANGED recorder
  \/ e.type = "node_finished" /\ SaveTask(e.id, "done", TRUE) /\ UNCHANGED recorder
  \/ e.type = "node_failed" /\ SaveTask(e.id, "failed", FALSE) /\ UNCHANGED recorder
  \/ /\ e.type = "writer_token"
     /\ recorder' = [recorder EXCEPT !.report = Append(@, e.k)]
     /\ UNCHANGED <<tasks, unsaved>>
  \/ /\ e.type = "done"
     /\ recorder' = [recorder EXCEPT !.pipelineOK = TRUE]
     /\ UNCHANGED <<tasks, unsaved>>
  \/ /\ e.type = "error"
     /\ recorder' = [recorder EXCEPT !.failMsg = TRUE]
     /\ UNCHANGED <<tasks, unsaved>>
  \/ e.type = "progress" /\ UNCHANGED <<recorder, tasks, unsaved>>

Receive ==
  /\ handler = "recv" /\ events # <<>>
  /\ handler' = "write"
  /\ current' = Head(events) /\ events' = Tail(events)
  /\ OnEvent(current')
  /\ UNCHANGED <<engineVars, nodeVars, dagChan, closed, emitted, ctxDone, clientGone,
                 draining, session>>

(* The write has no timeout: it returns when the client reads, or with an  *)
(* error when the client is gone, and not while the client stalls.         *)
WriteEvent ==
  /\ handler = "write"
  /\ handler' = "recv"
  /\ UNCHANGED <<engineVars, nodeVars, dagChan, eventChan, ctxDone, clientGone,
                 current, draining, storeVars>>

(* Mutant: nobody drains the channel after the handler stopped pulling.    *)
LeaveFull == FALSE

StartDrain == TRUE

(* The client is gone: cancel the pipeline, drain, stop pulling.           *)
WriteFails ==
  /\ handler = "write" /\ clientGone
  /\ handler' = "await"
  /\ ctxDone' = TRUE
  /\ draining' = StartDrain
  /\ UNCHANGED <<engineVars, nodeVars, dagChan, eventChan, clientGone, current, storeVars>>

Drain ==
  /\ draining /\ events # <<>>
  /\ events' = Tail(events)
  /\ UNCHANGED <<engineVars, nodeVars, dagChan, closed, emitted, ctxDone, clientGone,
                 handlerVars, storeVars>>

EndOfStream ==
  /\ handler = "recv" /\ events = <<>> /\ closed
  /\ handler' = "await"
  /\ UNCHANGED <<engineVars, nodeVars, dagChan, eventChan, ctxDone, clientGone,
                 current, draining, storeVars>>

AwaitErr ==
  /\ handler = "await" /\ pipelineErr # "open"
  /\ handler' = "finalize"
  /\ UNCHANGED <<engineVars, nodeVars, dagChan, eventChan, ctxDone, clientGone,
                 current, draining, storeVars>>

(* Mutants: only the error counts; only the error event explains it.       *)
ErrDecides == pipelineErr = "nil"
EventMessage == recorder.failMsg

Succeeded == recorder.pipelineOK /\ pipelineErr = "nil"

FailMessage == recorder.failMsg \/ pipelineErr = "err"

(* One UPDATE writes the verdict, the report and the message.              *)
CompleteSession(status, report, message) ==
  \E failed \in Outcome(FALSE) :
    session' = IF failed THEN session
               ELSE [status |-> status, report |-> report, message |-> message]

(* researchRecorder.Finalize, under the context of the request; then the   *)
(* deferred cancel.                                                        *)
Finalize ==
  /\ handler = "finalize"
  /\ handler' = "returned" /\ ctxDone' = TRUE
  /\ CompleteSession(IF Succeeded THEN "completed" ELSE "failed", recorder.report, FailMessage)
  /\ UNCHANGED <<engineVars, nodeVars, dagChan, eventChan, clientGone,
                 current, draining, recorder, tasks, unsaved>>

-------------------------------------------------------------------------------
(* The environment: the total deadline, and a client that hangs up.        *)
Deadline ==
  /\ handler \notin {"begin", "returned"} /\ ~ ctxDone
  /\ ctxDone' = TRUE
  /\ UNCHANGED <<engineVars, nodeVars, dagChan, eventChan, clientGone, handlerVars, storeVars>>

HangUp ==
  /\ handler # "returned" /\ ~ clientGone
  /\ clientGone' = TRUE
  /\ UNCHANGED <<engineVars, nodeVars, dagChan, eventChan, ctxDone, handlerVars, storeVars>>

Engine ==
  \/ PlanFails \/ PlanMade \/ LookUpTool \/ SchedulerReturns \/ CollectFindings
  \/ Token \/ CheckToken \/ StreamEnds \/ EmitVerdict \/ SendErr \/ CloseEvents

Attempt(n) == StartNode(n) \/ EndNode(n)

Progress(n) == BeginReport(n) \/ Report(n)

Handler ==
  \/ CreateSession \/ Receive \/ WriteFails \/ EndOfStream \/ AwaitErr \/ Finalize

(* Every goroutine of the request has ended.                               *)
Over == handler = "returned" /\ stage \in {"idle", "closed"} /\ events = <<>>

Terminated == Over /\ UNCHANGED vars

Next ==
  \/ Engine \/ Bridge \/ Handler \/ WriteEvent \/ Drain
  \/ \E n \in Node : Attempt(n) \/ Progress(n)
  \/ Deadline \/ HangUp \/ Terminated

Spec == Init /\ [][Next]_vars

(* The goroutines run; planner, nodes, writer and store answer.  The       *)
(* deadline and the client's hanging up need not happen, a node need not   *)
(* report, and the client need not read: WriteEvent is left out.           *)
FairSpec ==
  /\ Spec
  /\ WF_vars(Engine) /\ WF_vars(Bridge) /\ WF_vars(Handler) /\ WF_vars(Drain)
  /\ \A n \in Node : WF_vars(Attempt(n)) /\ WF_vars(Report(n))
===============================================================================
