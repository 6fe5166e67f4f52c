----------------------------- MODULE DagScheduler -----------------------------
(***************************************************************************)
(* One call of Scheduler.Run (internal/agent/dag/scheduler.go): a single   *)
(* coordinator goroutine that owns all bookkeeping, a pool of workers that *)
(* only execute, two buffered channels between them, a context that the    *)
(* caller or the first failure cancels, an optional limiter and a lossy    *)
(* event channel.                                                          *)
(*                                                                         *)
(* Atomicity.  Every operation on a channel between the goroutines, every  *)
(* poll of the context and every call or return of a node's RunFn is a     *)
(* step of its own.  What no other goroutine can see is joined to such a   *)
(* step: the coordinator's bookkeeping to the receive that precedes it,    *)
(* and emit, which never blocks, to the step it announces.                 *)
(*                                                                         *)
(* A definition that a comment calls a mutant is not part of the model: it *)
(* is the form a bug would give to the definition that follows it.         *)
(***************************************************************************)
EXTENDS DagGraph, FiniteSets, Sequences

CONSTANTS
  Worker,       \* the goroutines of the pool (WithConcurrency)
  MaxRetry,     \* Node.MaxRetry: further attempts after the first failure
  MaxInFlight,  \* slots of the limiter's semaphore; 0: no limiter
  EventCap      \* buffer of the events channel; 0: nil or never read

ASSUME SchedulerAssumption ==
  /\ IsFiniteSet(Worker) /\ Worker # {}
  /\ MaxRetry \in [Node -> Nat]
  /\ MaxInFlight \in Nat
  /\ EventCap \in Nat

VARIABLES
  deps,        \* the graph: node -> set of the nodes it depends on
  extDone,     \* the caller's context is done (cancelled or past deadline)
  cancelled,   \* cancel() of the run's own context was called
  phase,       \* where the coordinator is in Run
  states,      \* states[n]
  outputs,     \* outputs[n]: the attempt that produced it; 0: no entry
  pending,     \* pending[n]: dependencies not resolved yet
  remaining,   \* done messages still expected
  firstErr,    \* the error Run will return
  toSend,      \* nodes made ready by the current loop, not dispatched yet
  taskCh,      \* tasks waiting for a worker
  closed,      \* taskCh is closed
  doneCh,      \* done messages waiting for the coordinator
  pc,          \* where each worker is in execute
  job,         \* the task each worker holds
  attempt,     \* the attempt each worker is at
  verdict,     \* the error of the worker's last attempt
  inFlight,    \* slots of the limiter in use
  outcome,     \* history: the last call of each node's RunFn
  events       \* events emitted and not consumed yet

book       == <<states, outputs, pending, remaining, firstErr>>
coordVars  == <<deps, cancelled, phase, book, toSend, closed>>
workerVars == <<pc, job, attempt, verdict, inFlight, outcome>>
vars == <<coordVars, extDone, taskCh, doneCh, workerVars, events>>

-------------------------------------------------------------------------------
Error == {"none", "fault", "ctx"}     \* nil, the node's own error, ctx.Err()
Task   == [node : Node, deps : [Node -> Nat]]
NoTask == [node |-> 0, deps |-> [d \in Node |-> 0]]
Done   == [node : Node, err : Error, out : Nat]
Event  == [type : {"started", "succeeded", "failed", "retrying", "cancelled"},
           node : Node, attempt : Nat]

(* The type of every variable; outputs and attempts are attempt numbers.   *)
TypeOK ==
  /\ deps \in [Node -> SUBSET Node]
  /\ extDone \in BOOLEAN /\ cancelled \in BOOLEAN
  /\ phase \in {"new", "seed", "select", "promote", "cancelling", "closing",
                "waiting", "returned"}
  /\ states \in [Node -> {"pending", "ready", "succeeded", "failed", "cancelled"}]
  /\ outputs \in [Node -> Nat]
  /\ pending \in [Node -> SUBSET Node]
  /\ remaining \in Int
  /\ firstErr \in Error \cup {"invalid"}
  /\ toSend \in SUBSET Node
  /\ taskCh \in Seq(Task) /\ closed \in BOOLEAN /\ doneCh \in Seq(Done)
  /\ pc \in [Worker -> {"idle", "check", "acquire", "running", "report",
                        "backoff", "gone"}]
  /\ job \in [Worker -> Task \cup {NoTask}]
  /\ attempt \in [Worker -> Nat]
  /\ verdict \in [Worker -> Error]
  /\ inFlight \in Int
  /\ outcome \in [Node -> {"uncalled", "running", "ok", "bad"}]
  /\ events \in Seq(Event)

Init ==
  /\ deps \in [Node -> SUBSET Node]
  /\ extDone = FALSE /\ cancelled = FALSE
  /\ phase = "new"
  /\ states = [n \in Node |-> "pending"]
  /\ outputs = [n \in Node |-> 0]
  /\ pending = deps
  /\ remaining = N
  /\ firstErr = "none"
  /\ toSend = {}
  /\ taskCh = <<>> /\ closed = FALSE /\ doneCh = <<>>
  /\ pc = [w \in Worker |-> "gone"]
  /\ job = [w \in Worker |-> NoTask]
  /\ attempt = [w \in Worker |-> 0]
  /\ verdict = [w \in Worker |-> "none"]
  /\ inFlight = 0
  /\ outcome = [n \in Node |-> "uncalled"]
  /\ events = <<>>

ctxDone == extDone \/ cancelled

(* emit: a send that gives up when the buffer is full.                     *)
Emit(type, n, k) ==
  events' = IF Len(events) < EventCap
            THEN Append(events, [type |-> type, node |-> n, attempt |-> k])
            ELSE events

-------------------------------------------------------------------------------
(* The coordinator.                                                        *)

(* Validate fails: Run returns before it starts a worker.                  *)
Reject ==
  /\ phase = "new"
  /\ ~ Valid(deps)
  /\ phase' = "returned"
  /\ firstErr' = "invalid"
  /\ UNCHANGED <<deps, extDone, cancelled, states, outputs, pending, remaining,
                 toSend, taskCh, closed, doneCh, workerVars, events>>

(* Validate succeeds: the bookkeeping is set up, the workers are started    *)
(* and the nodes without dependencies are ready.                           *)
Start ==
  /\ phase = "new"
  /\ Valid(deps)
  /\ phase' = "seed"
  /\ toSend' = {n \in Node : pending[n] = {}}
  /\ states' = [n \in Node |-> IF pending[n] = {} THEN "ready" ELSE "pending"]
  /\ pc' = [w \in Worker |-> "idle"]
  /\ UNCHANGED <<deps, extDone, cancelled, outputs, pending, remaining, firstErr,
                 taskCh, closed, doneCh, job, attempt, verdict, inFlight, outcome,
                 events>>

(* The loops over nodes go in registration order.                          *)
NextToSend(n) == n \in toSend /\ \A m \in toSend : n <= m

EndOfBody(n) ==
  /\ toSend' = toSend \ {n}
  /\ phase' = IF toSend' = {} THEN "select" ELSE phase
  /\ UNCHANGED <<deps, extDone, cancelled, book, closed, doneCh, workerVars, events>>

(* The outputs of the node's dependencies, copied for its task.            *)
Snapshot(n) == [d \in Node |-> IF d \in deps[n] THEN outputs[d] ELSE 0]

(* One ready node is put on taskCh, by the seed loop or the promotion loop. *)
Dispatch(n) ==
  /\ phase \in {"seed", "promote"}
  /\ NextToSend(n)
  /\ Len(taskCh) < N
  /\ taskCh' = Append(taskCh, [node |-> n, deps |-> Snapshot(n)])
  /\ EndOfBody(n)

(* The select of the promotion loop takes its ctx.Done() case: the node    *)
(* stays ready and no worker ever gets it.                                 *)
SkipDispatch(n) ==
  /\ phase = "promote"
  /\ NextToSend(n)
  /\ ctxDone
  /\ EndOfBody(n)
  /\ UNCHANGED taskCh

(* Mutant: a node is ready as soon as any of its dependencies has finished. *)
UnlockedByAny(n) ==
  {m \in Node : states[m] = "pending" /\ m # n /\ (n \in pending[m] \/ pending[m] = {})}

(* Mutant: the promotion loop forgets to skip nodes that are not pending.  *)
UnlockedAgain(n) == {m \in Node : m # n /\ pending[m] \subseteq {n}}

(* The nodes whose last unresolved dependency is n.                        *)
Unlocked(n) ==
  {m \in Node : states[m] = "pending" /\ m # n /\ pending[m] \subseteq {n}}

(* Mutant: the loop ends one message early.                                *)
AllDoneEarly(r) == r <= 1

(* The condition of the coordinator's loop, negated.                       *)
AllDone(r) == r = 0

RecvOk ==
  /\ phase = "select"
  /\ doneCh # <<>>
  /\ LET m == Head(doneCh) IN
       /\ m.err = "none"
       /\ doneCh' = Tail(doneCh)
       /\ remaining' = remaining - 1
       /\ outputs' = [outputs EXCEPT ![m.node] = m.out]
       /\ toSend' = Unlocked(m.node)
       /\ pending' = [n \in Node |-> IF states[n] = "pending"
                                     THEN pending[n] \ {m.node} ELSE pending[n]]
       /\ states' = [n \in Node |-> IF n = m.node THEN "succeeded"
                                    ELSE IF n \in Unlocked(m.node) THEN "ready"
                                    ELSE states[n]]
  /\ phase' = IF toSend' # {} THEN "promote"
              ELSE IF AllDone(remaining') THEN "closing" ELSE "select"
  /\ UNCHANGED <<deps, extDone, cancelled, firstErr, taskCh, closed, workerVars,
                 events>>

(* Mutants: the last error wins; an error is noted only in the states map. *)
LastError(err) == err
NoError(err) == firstErr

FirstError(err) == IF firstErr = "none" THEN err ELSE firstErr

(* Mutant: a failure does not stop the rest of the run.                    *)
KeepGoing == UNCHANGED cancelled

FailFast == cancelled' = TRUE

RecvErr ==
  /\ phase = "select"
  /\ doneCh # <<>>
  /\ LET m == Head(doneCh) IN
       /\ m.err # "none"
       /\ doneCh' = Tail(doneCh)
       /\ remaining' = remaining - 1
       /\ states' = [states EXCEPT ![m.node] = "failed"]
       /\ firstErr' = FirstError(m.err)
  /\ FailFast
  /\ phase' = IF AllDone(remaining') THEN "closing" ELSE "select"
  /\ UNCHANGED <<deps, extDone, outputs, pending, toSend, taskCh, closed,
                 workerVars, events>>

(* The ctx.Done() case of the coordinator's select: Go takes any ready     *)
(* case, so done messages may still be waiting.                            *)
SeeCancel ==
  /\ phase = "select"
  /\ ctxDone
  /\ phase' = "cancelling"
  /\ firstErr' = FirstError("ctx")
  /\ UNCHANGED <<deps, extDone, cancelled, states, outputs, pending, remaining,
                 toSend, taskCh, closed, doneCh, workerVars, events>>

Unfinished == {n \in Node : states[n] \in {"pending", "ready"}}

(* Ranging over the states map: one unfinished node after the other, in    *)
(* any order, becomes cancelled.                                           *)
CancelNode(n) ==
  /\ phase = "cancelling"
  /\ n \in Unfinished
  /\ states' = [states EXCEPT ![n] = "cancelled"]
  /\ Emit("cancelled", n, 0)
  /\ phase' = IF Unfinished = {n} THEN "closing" ELSE phase
  /\ UNCHANGED <<deps, extDone, cancelled, outputs, pending, remaining, firstErr,
                 toSend, taskCh, closed, doneCh, workerVars>>

(* The deferred calls, last registered first: close(taskCh) ...            *)
Close ==
  /\ phase = "closing"
  /\ closed' = TRUE
  /\ phase' = "waiting"
  /\ UNCHANGED <<deps, extDone, cancelled, book, toSend, taskCh, doneCh, workerVars,
                 events>>

(* Mutant: Run returns without workerWg.Wait().                            *)
NoWait == TRUE

Wait == \A w \in Worker : pc[w] = "gone"

(* ... workerWg.Wait(), and cancel() last.                                 *)
Return ==
  /\ phase = "waiting"
  /\ Wait
  /\ cancelled' = TRUE
  /\ phase' = "returned"
  /\ UNCHANGED <<deps, extDone, book, toSend, taskCh, closed, doneCh, workerVars,
                 events>>

Coordinator ==
  \/ Reject \/ Start \/ RecvOk \/ RecvErr \/ SeeCancel \/ Close \/ Return
  \/ \E n \in Node : Dispatch(n) \/ SkipDispatch(n) \/ CancelNode(n)

-------------------------------------------------------------------------------
(* A worker; "gone" is a goroutine not started yet, or ended.              *)

Pick(w) ==
  /\ pc[w] = "idle"
  /\ taskCh # <<>>
  /\ taskCh' = Tail(taskCh)
  /\ job' = [job EXCEPT ![w] = Head(taskCh)]
  /\ attempt' = [attempt EXCEPT ![w] = 1]
  /\ pc' = [pc EXCEPT ![w] = "check"]
  /\ UNCHANGED <<coordVars, extDone, doneCh, verdict, inFlight, outcome, events>>

(* range over a closed and empty channel ends.                             *)
Exit(w) ==
  /\ pc[w] = "idle"
  /\ taskCh = <<>> /\ closed
  /\ pc' = [pc EXCEPT ![w] = "gone"]
  /\ UNCHANGED <<coordVars, extDone, taskCh, doneCh, job, attempt, verdict, inFlight,
                 outcome, events>>

(* The one done message of execute, after which the worker is idle again.  *)
Send(w, err) ==
  /\ Len(doneCh) < N
  /\ doneCh' = Append(doneCh, [node |-> job[w].node, err |-> err,
                               out |-> IF err = "none" THEN attempt[w] ELSE 0])
  /\ pc' = [pc EXCEPT ![w] = "idle"]
  /\ job' = [job EXCEPT ![w] = NoTask]
  /\ attempt' = [attempt EXCEPT ![w] = 0]
  /\ verdict' = [verdict EXCEPT ![w] = "none"]
  /\ UNCHANGED <<coordVars, extDone, taskCh, inFlight, outcome>>

(* The three places where execute gives up on a done context: before an    *)
(* attempt, waiting for a slot, and in the backoff sleep.                  *)
Abort(w) ==
  /\ ctxDone
  /\ \/ pc[w] \in {"check", "backoff"}
     \/ pc[w] = "acquire" /\ MaxInFlight > 0
  /\ Send(w, "ctx")
  /\ UNCHANGED events

(* The limiter refuses with an error of its own: the wait for a token      *)
(* would outlast the context's deadline (Acquire, limiter.go).             *)
Refused(w) ==
  /\ pc[w] = "acquire"
  /\ MaxInFlight > 0
  /\ Send(w, "fault")
  /\ UNCHANGED events

Proceed(w) ==
  /\ pc[w] = "check"
  /\ ~ ctxDone
  /\ pc' = [pc EXCEPT ![w] = "acquire"]
  /\ UNCHANGED <<coordVars, extDone, taskCh, doneCh, job, attempt, verdict, inFlight,
                 outcome, events>>

(* A slot is free, and the RunFn of the node is called.                    *)
Begin(w) ==
  /\ pc[w] = "acquire"
  /\ MaxInFlight > 0 => inFlight < MaxInFlight
  /\ inFlight' = inFlight + 1
  /\ pc' = [pc EXCEPT ![w] = "running"]
  /\ outcome' = [outcome EXCEPT ![job[w].node] = "running"]
  /\ Emit("started", job[w].node, attempt[w])
  /\ UNCHANGED <<coordVars, extDone, taskCh, doneCh, job, attempt, verdict>>

(* Mutant: release is called only when the attempt succeeded.              *)
ReleaseOnSuccess(err) == inFlight' = IF err = "none" THEN inFlight - 1 ELSE inFlight

Release(err) == inFlight' = inFlight - 1

(* The RunFn returns err; a panic or a timeout of the attempt is a fault.  *)
(* The slot is released before anything is reported.                       *)
Finish(w, err) ==
  /\ pc[w] = "running"
  /\ err = "ctx" => ctxDone
  /\ verdict' = [verdict EXCEPT ![w] = err]
  /\ Release(err)
  /\ outcome' = [outcome EXCEPT ![job[w].node] =
                   IF err = "none" THEN "ok" ELSE "bad"]
  /\ pc' = [pc EXCEPT ![w] = "report"]
  /\ UNCHANGED <<coordVars, extDone, taskCh, doneCh, job, attempt, events>>

ReportOk(w) ==
  /\ pc[w] = "report"
  /\ verdict[w] = "none"
  /\ Emit("succeeded", job[w].node, attempt[w])
  /\ Send(w, "none")

(* Mutant: one attempt too many.                                           *)
OneMoreAttempt(w) == attempt[w] <= MaxRetry[job[w].node] + 1

MayRetry(w) == attempt[w] <= MaxRetry[job[w].node]

ReportFailed(w) ==
  /\ pc[w] = "report"
  /\ verdict[w] # "none"
  /\ ~ MayRetry(w)
  /\ Emit("failed", job[w].node, attempt[w])
  /\ Send(w, verdict[w])

ReportRetry(w) ==
  /\ pc[w] = "report"
  /\ verdict[w] # "none"
  /\ MayRetry(w)
  /\ Emit("retrying", job[w].node, attempt[w])
  /\ pc' = [pc EXCEPT ![w] = "backoff"]
  /\ UNCHANGED <<coordVars, extDone, taskCh, doneCh, job, attempt, verdict, inFlight,
                 outcome>>

(* The backoff timer fires.                                                *)
Retry(w) ==
  /\ pc[w] = "backoff"
  /\ attempt' = [attempt EXCEPT ![w] = @ + 1]
  /\ verdict' = [verdict EXCEPT ![w] = "none"]
  /\ pc' = [pc EXCEPT ![w] = "check"]
  /\ UNCHANGED <<coordVars, extDone, taskCh, doneCh, job, inFlight, outcome, events>>

Step(w) ==
  \/ Pick(w) \/ Exit(w) \/ Abort(w) \/ Refused(w) \/ Proceed(w) \/ Begin(w)
  \/ ReportOk(w) \/ ReportFailed(w) \/ ReportRetry(w) \/ Retry(w)

-------------------------------------------------------------------------------
(* The environment: the caller's context ends, the consumer takes an event. *)

CallerCancels ==
  /\ ~ extDone
  /\ phase # "returned"
  /\ extDone' = TRUE
  /\ UNCHANGED <<coordVars, taskCh, doneCh, workerVars, events>>

Consume ==
  /\ events # <<>>
  /\ events' = Tail(events)
  /\ UNCHANGED <<coordVars, extDone, taskCh, doneCh, workerVars>>

Terminated == phase = "returned" /\ UNCHANGED vars

Next ==
  \/ Coordinator
  \/ \E w \in Worker : Step(w) \/ \E err \in Error : Finish(w, err)
  \/ CallerCancels \/ Consume \/ Terminated

Spec == Init /\ [][Next]_vars

(* Goroutines make progress, and a RunFn returns once its context is done; *)
(* without a Timeout it may hang for ever otherwise.                       *)
HangingSpec ==
  /\ Spec
  /\ WF_vars(Coordinator)
  /\ \A w \in Worker :
       /\ WF_vars(Step(w))
       /\ WF_vars(ctxDone /\ \E err \in Error : Finish(w, err))
===============================================================================
