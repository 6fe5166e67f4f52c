------------------------ MODULE DagSchedulerProperties ------------------------
(***************************************************************************)
(* What a run of the scheduler promises.                                   *)
(***************************************************************************)
EXTENDS DagScheduler

Elems(s) == {s[i] : i \in DOMAIN s}
Nodes(s) == {t.node : t \in Elems(s)}
Distinct(s) == \A i, j \in DOMAIN s : s[i].node = s[j].node => i = j

Busy(w) == pc[w] \notin {"idle", "gone"}     \* inside execute, with a task
Held    == {job[w].node : w \in {v \in Worker : Busy(v)}}
Settled == {n \in Node : states[n] \in {"succeeded", "failed"}}

(* A dispatched node is in exactly one place: waiting in taskCh, held by   *)
(* one worker, or reported in doneCh; never twice in one of them, and in   *)
(* none of them once its result was received.  So execute writes exactly   *)
(* one doneMsg per node, no RunFn is ever active twice, and neither        *)
(* buffered channel (capacity len(nodes)) can block its sender.            *)
OneTicket ==
  /\ Distinct(taskCh) /\ Distinct(doneCh)
  /\ \A v, w \in Worker : Busy(v) /\ Busy(w) /\ job[v].node = job[w].node => v = w
  /\ Nodes(taskCh) \cap Held = {}
  /\ Nodes(taskCh) \cap Nodes(doneCh) = {}
  /\ Held \cap Nodes(doneCh) = {}
  /\ (Nodes(taskCh) \cup Held \cup Nodes(doneCh)) \cap Settled = {}

(* remaining, which ends the coordinator's loop, counts the nodes whose    *)
(* result was not received yet, although messages and cancellation race.   *)
RemainingExact ==
  phase \in {"seed", "promote", "select"} => remaining = Cardinality(Unfinished)

(* A task that reached a worker's hands saw all its dependencies succeed,  *)
(* and the snapshot it carries is what the coordinator recorded for them:  *)
(* no worker reads an output before it was written, or a later one.        *)
SnapshotSound ==
  \A t \in Elems(taskCh) \cup {job[w] : w \in {v \in Worker : Busy(v)}} :
    /\ \A d \in deps[t.node] : states[d] = "succeeded" /\ t.deps[d] > 0
    /\ t.deps = Snapshot(t.node)

(* Run blames the context only if the caller's context ended: a fail-fast  *)
(* cancellation, after which workers report ctx.Err() for the other nodes, *)
(* never hides the error of the node that failed first.                    *)
RootCause == firstErr = "ctx" => extDone

(* While Run is active, only a recorded error cancels its context.         *)
CancelledForCause == cancelled /\ phase # "returned" => firstErr # "none"

(* A nil error means every node succeeded and has its output; with any     *)
(* answer, outputs holds the succeeded nodes and no others, and the RunFn  *)
(* of a node with an output did return nil.                                *)
ResultSound ==
  /\ phase = "returned" /\ firstErr = "none" =>
       \A n \in Node : states[n] = "succeeded" /\ outputs[n] > 0
  /\ phase = "returned" /\ firstErr # "invalid" => Unfinished = {}
  /\ \A n \in Node : /\ outputs[n] > 0 <=> states[n] = "succeeded"
                     /\ states[n] = "succeeded" => outcome[n] = "ok"

(* The deferred cancel() comes after Wait(), so nothing but the task       *)
(* channel can end a worker of a successful run: when the channel is       *)
(* closed and the context is not done, no worker may hold a task or find   *)
(* one, or Run would wait for a node nobody is waiting for.                *)
NothingStranded ==
  closed /\ ~ ctxDone => Held = {} /\ taskCh = <<>>

(* A slot of the limiter is held by exactly the workers inside a RunFn,    *)
(* so an attempt that fails, panics or is aborted leaks none, the cap      *)
(* holds, and Run returns every slot.                                      *)
SlotsMatchHolders ==
  /\ inFlight = Cardinality({w \in Worker : pc[w] = "running"})
  /\ MaxInFlight > 0 => inFlight <= MaxInFlight
  /\ phase = "returned" => inFlight = 0

(* No node is attempted more than 1 + MaxRetry times.                      *)
RetryBudget ==
  \A w \in Worker : Busy(w) => attempt[w] \in 1 .. (1 + MaxRetry[job[w].node])

(* Run emits nothing and calls nothing once it returned: its caller closes *)
(* the event channel next, and a send on a closed channel panics.          *)
QuietAfterReturn ==
  [][phase = "returned" => /\ UNCHANGED <<workerVars, states, outputs>>
                           /\ events' \in {events, IF events = <<>> THEN <<>> ELSE Tail(events)}]_vars

(* The calls of the RunFns and the answer are those of DagRun.             *)
Abstract ==
  INSTANCE DagRun WITH
    ran <- outcome,
    answer <- IF phase # "returned" THEN "open"
              ELSE IF firstErr = "none" THEN "ok" ELSE "error"

ImplementsDagRun == Abstract!RunSpec

-------------------------------------------------------------------------------
(* In this program every attempt has a Timeout and every blocking call      *)
(* takes ctx, so every RunFn eventually returns.                           *)
RunFnsReturn == \A w \in Worker : WF_vars(\E err \in Error : Finish(w, err))

(* If every RunFn returns, Run returns: no graph that Validate accepts,    *)
(* and no interleaving of failures, retries and cancellation, leaves       *)
(* coordinator and workers waiting for each other.                         *)
Termination == RunFnsReturn => <>(phase = "returned")

(* Even if RunFns hang until their context is done, the first failure and  *)
(* the end of the caller's context both make Run return.                   *)
FailFastReturns == firstErr # "none" \/ extDone ~> phase = "returned"

===============================================================================
