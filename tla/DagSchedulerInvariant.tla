------------------------- MODULE DagSchedulerInvariant -------------------------
(***************************************************************************)
(* The inductive invariant behind the properties of DagScheduler, in parts *)
(* that the proofs establish one after the other.                          *)
(***************************************************************************)
EXTENDS DagSchedulerProperties

(* A worker inside execute holds a task.                                   *)
BusyHolds == \A w \in Worker : Busy(w) => job[w] \in Task

(* What each phase of Run is known to have done.                           *)
Phases ==
  /\ phase = "new" =>
       /\ firstErr = "none" /\ ~ cancelled
       /\ pending = deps /\ remaining = N
       /\ \A n \in Node : states[n] = "pending" /\ outcome[n] = "uncalled"
  /\ phase = "new" \/ firstErr = "invalid" => toSend = {} /\ taskCh = <<>> /\ doneCh = <<>>
  /\ phase \in {"new", "returned"} => \A w \in Worker : pc[w] = "gone"
  /\ phase # "new" /\ firstErr # "invalid" => Valid(deps)
  /\ firstErr = "invalid" => phase = "returned" /\ ~ cancelled /\ ~ closed
  /\ closed => phase \in {"waiting", "returned"}
  /\ \A n \in Node : states[n] = "cancelled" =>
       phase \in {"cancelling", "closing", "waiting", "returned"}

(* A node without a result, dispatched or about to be.                     *)
Open(n) == states[n] \in {"ready", "cancelled"}

(* Every open node is in at most one place: to be sent, queued, held by a  *)
(* worker or reported.                                                     *)
Tickets ==
  /\ Distinct(taskCh) /\ Distinct(doneCh)
  /\ \A v, w \in Worker : Busy(v) /\ Busy(w) /\ job[v].node = job[w].node => v = w
  /\ \A t \in Elems(taskCh) : Open(t.node) /\ t.node \notin toSend
  /\ \A m \in Elems(doneCh) : Open(m.node) /\ m.node \notin toSend
  /\ \A w \in Worker : Busy(w) => Open(job[w].node) /\ job[w].node \notin toSend
  /\ \A n \in toSend : Open(n)
  /\ \A t \in Elems(taskCh), m \in Elems(doneCh) : t.node # m.node
  /\ \A t \in Elems(taskCh), w \in Worker : Busy(w) => t.node # job[w].node
  /\ \A m \in Elems(doneCh), w \in Worker : Busy(w) => m.node # job[w].node

(* The history of a node's RunFn agrees with the place the node is in.     *)
Outcomes ==
  /\ \A n \in Node :
       /\ states[n] = "pending" => outcome[n] = "uncalled"
       /\ states[n] = "succeeded" => outcome[n] = "ok"
       /\ outcome[n] = "running" =>
            \E w \in Worker : pc[w] = "running" /\ job[w].node = n
  /\ \A n \in toSend : outcome[n] = "uncalled"
  /\ \A t \in Elems(taskCh) : outcome[t.node] = "uncalled"
  /\ \A m \in Elems(doneCh) : m.err = "none" => outcome[m.node] = "ok" /\ m.out > 0
  /\ \A w \in Worker :
       /\ Busy(w) => attempt[w] > 0
       /\ pc[w] \in {"check", "acquire", "backoff"} =>
            outcome[job[w].node] \in {"uncalled", "bad"}
       /\ pc[w] = "running" => outcome[job[w].node] = "running"
       /\ pc[w] = "report" =>
            outcome[job[w].node] = IF verdict[w] = "none" THEN "ok" ELSE "bad"

(* A node is dispatched after its dependencies, with their outputs.        *)
Satisfied(n) == \A d \in deps[n] : states[d] = "succeeded"

Dependencies ==
  /\ \A n \in Node :
       /\ outputs[n] > 0 <=> states[n] = "succeeded"
       /\ states[n] = "pending" =>
            \A d \in deps[n] : d \in pending[n] \/ states[d] = "succeeded"
  /\ \A n \in toSend : Satisfied(n)
  /\ \A t \in Elems(taskCh) : Satisfied(t.node) /\ t.deps = Snapshot(t.node)
  /\ \A w \in Worker :
       Busy(w) => Satisfied(job[w].node) /\ job[w].deps = Snapshot(job[w].node)

(* Who may have cancelled the context, and what that leaves in messages.   *)
Causes ==
  /\ firstErr = "ctx" => extDone
  /\ firstErr = "fault" => cancelled
  /\ cancelled /\ phase # "returned" => firstErr # "none"
  /\ \A m \in Elems(doneCh) : m.err = "ctx" => ctxDone
  /\ \A w \in Worker : verdict[w] = "ctx" => ctxDone

(* What is still to come, and what the answer says.                        *)
Results ==
  /\ phase \in {"new", "seed", "promote", "select"} =>
       remaining = Cardinality(Unfinished)
  /\ phase \in {"closing", "waiting", "returned"} /\ firstErr # "invalid" =>
       Unfinished = {}
  /\ phase = "cancelling" => firstErr # "none"
  /\ firstErr = "none" => \A n \in Node : states[n] \notin {"failed", "cancelled"}

(* The attempts a worker may still make.                                   *)
Attempts ==
  \A w \in Worker :
    /\ Busy(w) => attempt[w] \in 1 .. (1 + MaxRetry[job[w].node])
    /\ pc[w] = "backoff" => attempt[w] <= MaxRetry[job[w].node]

(* Slots taken and slots held.                                             *)
Slots ==
  /\ inFlight = Cardinality({w \in Worker : pc[w] = "running"})
  /\ MaxInFlight > 0 => inFlight <= MaxInFlight

IInv ==
  /\ TypeOK /\ BusyHolds /\ Phases /\ Tickets /\ Outcomes /\ Dependencies
  /\ Causes /\ Results /\ Attempts /\ Slots
===============================================================================
