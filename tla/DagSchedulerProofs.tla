-------------------------- MODULE DagSchedulerProofs --------------------------
(***************************************************************************)
(* Proofs about DagScheduler, for every graph size, pool, retry budget and *)
(* limiter.  First lemmas on channels seen as sets of messages and on the  *)
(* operators of the model; then the parts of IInv in the order in which    *)
(* they support each other, each preserved by every action; then the       *)
(* properties, the refinement of DagRun, and last the delays of Backoff,   *)
(* whose state is no part of the scheduler's.                              *)
(***************************************************************************)
EXTENDS DagSchedulerInvariant, Backoff, RecursionLemmas, FiniteSetTheorems, SequenceTheorems, TLAPS

-------------------------------------------------------------------------------
(* Channels as sets of messages.                                           *)

LEMMA ElemsType ==
  ASSUME NEW S, NEW s \in Seq(S)
  PROVE  Elems(s) \subseteq S
BY DEF Elems

LEMMA ElemsEmpty == Elems(<<>>) = {} /\ Distinct(<<>>)
BY DEF Elems, Distinct

LEMMA ElemsAppend ==
  ASSUME NEW S, NEW s \in Seq(S), NEW e \in S
  PROVE  Elems(Append(s, e)) = Elems(s) \cup {e}
<1>1. /\ DOMAIN s = 1 .. Len(s) /\ Len(s) \in Nat
      /\ DOMAIN Append(s, e) = 1 .. (Len(s) + 1)
      /\ \A i \in 1 .. Len(s) : Append(s, e)[i] = s[i]
      /\ Append(s, e)[Len(s) + 1] = e
  OBVIOUS
<1>2. \A x \in Elems(s) : x \in Elems(Append(s, e))
  BY <1>1 DEF Elems
<1>3. e \in Elems(Append(s, e))
  BY <1>1 DEF Elems
<1>4. \A x \in Elems(Append(s, e)) : x \in Elems(s) \/ x = e
  BY <1>1 DEF Elems
<1> QED BY <1>2, <1>3, <1>4

LEMMA DistinctAppend ==
  ASSUME NEW S, NEW s \in Seq(S), NEW e \in S, Distinct(s),
         \A t \in Elems(s) : t.node # e.node
  PROVE  Distinct(Append(s, e))
<1>1. /\ DOMAIN s = 1 .. Len(s) /\ Len(s) \in Nat
      /\ DOMAIN Append(s, e) = 1 .. (Len(s) + 1)
      /\ \A i \in 1 .. Len(s) : Append(s, e)[i] = s[i]
      /\ Append(s, e)[Len(s) + 1] = e
  OBVIOUS
<1>2. \A i \in 1 .. Len(s) : s[i].node # e.node
  BY <1>1 DEF Elems
<1> QED BY <1>1, <1>2 DEF Distinct

LEMMA ElemsTail ==
  ASSUME NEW S, NEW s \in Seq(S), s # <<>>
  PROVE  Elems(s) = Elems(Tail(s)) \cup {Head(s)}
<1>1. /\ DOMAIN s = 1 .. Len(s) /\ Len(s) \in Nat \ {0}
      /\ DOMAIN Tail(s) = 1 .. (Len(s) - 1)
      /\ \A i \in 1 .. (Len(s) - 1) : Tail(s)[i] = s[i + 1]
      /\ Head(s) = s[1]
  OBVIOUS
<1>2. \A x \in Elems(Tail(s)) : x \in Elems(s)
  BY <1>1 DEF Elems
<1>3. Head(s) \in Elems(s)
  BY <1>1 DEF Elems
<1>4. ASSUME NEW i \in DOMAIN s PROVE s[i] \in Elems(Tail(s)) \cup {Head(s)}
  <2>1. CASE i = 1
    BY <2>1, <1>1
  <2>2. CASE i # 1
    <3>1. i - 1 \in 1 .. (Len(s) - 1) /\ s[i] = Tail(s)[i - 1]
      BY <2>2, <1>1
    <3> QED BY <3>1, <1>1 DEF Elems
  <2> QED BY <2>1, <2>2
<1> QED BY <1>2, <1>3, <1>4 DEF Elems

LEMMA DistinctTail ==
  ASSUME NEW S, NEW s \in Seq(S), s # <<>>, Distinct(s)
  PROVE  /\ Distinct(Tail(s))
         /\ \A t \in Elems(Tail(s)) : t.node # Head(s).node
<1>1. /\ DOMAIN s = 1 .. Len(s) /\ Len(s) \in Nat \ {0}
      /\ DOMAIN Tail(s) = 1 .. (Len(s) - 1)
      /\ \A i \in 1 .. (Len(s) - 1) : Tail(s)[i] = s[i + 1] /\ i + 1 \in DOMAIN s
      /\ Head(s) = s[1] /\ 1 \in DOMAIN s
  OBVIOUS
<1> QED BY <1>1 DEF Distinct, Elems

-------------------------------------------------------------------------------
(* Types.                                                                  *)

(* A snapshot is a function from the nodes to outputs.                     *)
LEMMA SnapshotType ==
  ASSUME TypeOK, NEW n \in Node
  PROVE  Snapshot(n) \in [Node -> Nat]
BY DEF TypeOK, Snapshot

(* What emit leaves in the event channel.                                  *)
LEMMA EmitType ==
  ASSUME TypeOK, NEW type, NEW n \in Node, NEW k \in Nat,
         type \in {"started", "succeeded", "failed", "retrying", "cancelled"},
         Emit(type, n, k)
  PROVE  events' \in Seq(Event)
<1> DEFINE e == [type |-> type, node |-> n, attempt |-> k]
<1>1. e \in Event
  BY DEF Event
<1>2. events \in Seq(Event)
  BY DEF TypeOK
<1> HIDE DEF e
<1>3. Append(events, e) \in Seq(Event)
  BY <1>1, <1>2
<1> QED BY <1>2, <1>3 DEF Emit, e

LEMMA SendType ==
  ASSUME TypeOK, BusyHolds, NEW w \in Worker, NEW err \in Error, Busy(w), Send(w, err),
         events' \in Seq(Event)
  PROVE  TypeOK' /\ BusyHolds'
<1>1. job[w].node \in Node
  BY DEF BusyHolds, Task
<1>2. doneCh' \in Seq(Done)
  BY <1>1 DEF TypeOK, Send, Done
<1>3. TypeOK'
  BY <1>2 DEF TypeOK, Send, coordVars, book, Error, NoTask
<1>4. BusyHolds'
  BY DEF TypeOK, Send, BusyHolds, Busy, coordVars
<1> QED BY <1>3, <1>4

(* TypeOK is inductive together with BusyHolds.                            *)
LEMMA TypeInit ==
  ASSUME Init
  PROVE  TypeOK /\ BusyHolds
<1>1. BusyHolds
  BY DEF Init, BusyHolds, Busy
<1>2. job \in [Worker -> Task \cup {NoTask}]
  BY DEF Init
<1>3. remaining \in Int
  BY NAssumption DEF Init
<1>4. /\ deps \in [Node -> SUBSET Node]
      /\ pending \in [Node -> SUBSET Node]
      /\ taskCh \in Seq(Task) /\ doneCh \in Seq(Done) /\ events \in Seq(Event)
  BY DEF Init
<1>5. /\ states \in [Node -> {"pending", "ready", "succeeded", "failed", "cancelled"}]
      /\ outcome \in [Node -> {"uncalled", "running", "ok", "bad"}]
      /\ outputs \in [Node -> Nat] /\ toSend \in SUBSET Node
      /\ attempt \in [Worker -> Nat] /\ inFlight \in Int
  BY DEF Init
<1>6. /\ verdict \in [Worker -> Error] /\ firstErr \in Error \cup {"invalid"}
      /\ pc \in [Worker -> {"idle", "check", "acquire", "running", "report",
                           "backoff", "gone"}]
  BY DEF Init, Error
<1>7. /\ extDone \in BOOLEAN /\ cancelled \in BOOLEAN /\ closed \in BOOLEAN
      /\ phase \in {"new", "seed", "select", "promote", "cancelling", "closing",
                     "waiting", "returned"}
  BY DEF Init
<1> QED BY <1>1, <1>2, <1>3, <1>4, <1>5, <1>6, <1>7 DEF TypeOK

LEMMA TypeStep ==
  ASSUME TypeOK, BusyHolds, [Next]_vars
  PROVE  TypeOK' /\ BusyHolds'
<1> USE SchedulerAssumption
<1>1. CASE Reject
  BY <1>1 DEF Reject, TypeOK, BusyHolds, Busy, workerVars
<1>2. CASE Start
  BY <1>2 DEF Start, TypeOK, BusyHolds, Busy, workerVars
<1>3. CASE RecvOk
  <2>1. Head(doneCh) \in Done /\ doneCh' \in Seq(Done)
    BY <1>3 DEF RecvOk, TypeOK
  <2>2. states' \in [Node -> {"pending", "ready", "succeeded", "failed", "cancelled"}]
    BY <1>3, <2>1 DEF RecvOk, TypeOK
  <2>3. pending' \in [Node -> SUBSET Node]
    BY <1>3, <2>1 DEF RecvOk, TypeOK
  <2>4. toSend' \in SUBSET Node
    BY <1>3 DEF RecvOk, Unlocked
  <2>5. outputs' \in [Node -> Nat] /\ remaining' \in Int
    BY <1>3, <2>1 DEF RecvOk, TypeOK, Done
  <2>6. phase' \in {"promote", "closing", "select"}
    BY <1>3 DEF RecvOk
  <2>7. TypeOK'
    BY <1>3, <2>1, <2>2, <2>3, <2>4, <2>5, <2>6 DEF RecvOk, TypeOK, workerVars
  <2> QED BY <2>7, <1>3 DEF RecvOk, BusyHolds, Busy, workerVars
<1>4. CASE RecvErr
  <2>1. Head(doneCh) \in Done /\ doneCh' \in Seq(Done)
    BY <1>4 DEF RecvErr, TypeOK
  <2>2. states' \in [Node -> {"pending", "ready", "succeeded", "failed", "cancelled"}]
    BY <1>4, <2>1 DEF RecvErr, TypeOK
  <2>3. firstErr' \in Error \cup {"invalid"}
    BY <1>4, <2>1 DEF RecvErr, TypeOK, FirstError, Done
  <2>4. cancelled' = TRUE /\ remaining' \in Int
    BY <1>4 DEF RecvErr, FailFast, TypeOK
  <2>5. phase' \in {"closing", "select"}
    BY <1>4 DEF RecvErr
  <2>6. TypeOK'
    BY <1>4, <2>1, <2>2, <2>3, <2>4, <2>5 DEF RecvErr, TypeOK, workerVars
  <2> QED BY <2>6, <1>4 DEF RecvErr, BusyHolds, Busy, workerVars
<1>5. CASE SeeCancel
  BY <1>5 DEF SeeCancel, TypeOK, BusyHolds, Busy, workerVars, FirstError, Error
<1>6. CASE Close
  BY <1>6 DEF Close, TypeOK, BusyHolds, Busy, workerVars, book
<1>7. CASE Return
  BY <1>7 DEF Return, TypeOK, BusyHolds, Busy, workerVars, book
<1>8. ASSUME NEW n \in Node, Dispatch(n) PROVE TypeOK' /\ BusyHolds'
  <2>1. [node |-> n, deps |-> Snapshot(n)] \in Task
    BY SnapshotType DEF Task
  <2>2. taskCh' \in Seq(Task)
    BY <1>8, <2>1 DEF Dispatch, TypeOK
  <2> QED BY <1>8, <2>2 DEF Dispatch, EndOfBody, TypeOK, BusyHolds, Busy, workerVars, book
<1>9. ASSUME NEW n \in Node, SkipDispatch(n) PROVE TypeOK' /\ BusyHolds'
  BY <1>9 DEF SkipDispatch, EndOfBody, TypeOK, BusyHolds, Busy, workerVars, book
<1>10. ASSUME NEW n \in Node, CancelNode(n) PROVE TypeOK' /\ BusyHolds'
  <2>1. events' \in Seq(Event)
    BY <1>10, EmitType DEF CancelNode
  <2> QED BY <1>10, <2>1 DEF CancelNode, TypeOK, BusyHolds, Busy, workerVars
<1>11. ASSUME NEW w \in Worker, Pick(w) PROVE TypeOK' /\ BusyHolds'
  <2>1. Head(taskCh) \in Task /\ taskCh' \in Seq(Task)
    BY <1>11 DEF Pick, TypeOK
  <2> QED BY <1>11, <2>1 DEF Pick, TypeOK, BusyHolds, Busy, coordVars, book
<1>12. ASSUME NEW w \in Worker, Exit(w) PROVE TypeOK' /\ BusyHolds'
  BY <1>12 DEF Exit, TypeOK, BusyHolds, Busy, coordVars, book
<1>13. ASSUME NEW w \in Worker, Abort(w) PROVE TypeOK' /\ BusyHolds'
  <2>1. Busy(w) /\ Send(w, "ctx") /\ events' \in Seq(Event) /\ "ctx" \in Error
    BY <1>13 DEF Abort, Busy, TypeOK, Error
  <2> QED BY <2>1, SendType
<1>14. ASSUME NEW w \in Worker, Refused(w) PROVE TypeOK' /\ BusyHolds'
  <2>1. Busy(w) /\ Send(w, "fault") /\ events' \in Seq(Event) /\ "fault" \in Error
    BY <1>14 DEF Refused, Busy, TypeOK, Error
  <2> QED BY <2>1, SendType
<1>15. ASSUME NEW w \in Worker, Proceed(w) PROVE TypeOK' /\ BusyHolds'
  BY <1>15 DEF Proceed, TypeOK, BusyHolds, Busy, coordVars, book
<1>16. ASSUME NEW w \in Worker, Begin(w) PROVE TypeOK' /\ BusyHolds'
  <2>1. Busy(w) /\ job[w].node \in Node /\ attempt[w] \in Nat
    BY <1>16 DEF Begin, Busy, BusyHolds, TypeOK, Task
  <2>2. events' \in Seq(Event)
    BY <1>16, <2>1, EmitType DEF Begin
  <2> QED BY <1>16, <2>1, <2>2 DEF Begin, TypeOK, BusyHolds, Busy, coordVars, book
<1>17. ASSUME NEW w \in Worker, NEW err \in Error, Finish(w, err)
       PROVE  TypeOK' /\ BusyHolds'
  <2>1. outcome' \in [Node -> {"uncalled", "running", "ok", "bad"}]
    BY <1>17 DEF Finish, TypeOK
  <2>2. verdict' \in [Worker -> Error] /\ inFlight' \in Int
    BY <1>17 DEF Finish, Release, TypeOK
  <2> QED BY <1>17, <2>1, <2>2 DEF Finish, TypeOK, BusyHolds, Busy, coordVars, book
<1>18. ASSUME NEW w \in Worker, ReportOk(w) PROVE TypeOK' /\ BusyHolds'
  <2>1. Busy(w) /\ job[w].node \in Node /\ attempt[w] \in Nat /\ "none" \in Error
    BY <1>18 DEF ReportOk, Busy, BusyHolds, TypeOK, Task, Error
  <2>2. events' \in Seq(Event)
    BY <1>18, <2>1, EmitType DEF ReportOk
  <2> QED BY <1>18, <2>1, <2>2, SendType DEF ReportOk
<1>19. ASSUME NEW w \in Worker, ReportFailed(w) PROVE TypeOK' /\ BusyHolds'
  <2>1. Busy(w) /\ job[w].node \in Node /\ attempt[w] \in Nat /\ verdict[w] \in Error
    BY <1>19 DEF ReportFailed, Busy, BusyHolds, TypeOK, Task
  <2>2. events' \in Seq(Event)
    BY <1>19, <2>1, EmitType DEF ReportFailed
  <2> QED BY <1>19, <2>1, <2>2, SendType DEF ReportFailed
<1>20. ASSUME NEW w \in Worker, ReportRetry(w) PROVE TypeOK' /\ BusyHolds'
  <2>1. Busy(w) /\ job[w].node \in Node /\ attempt[w] \in Nat
    BY <1>20 DEF ReportRetry, Busy, BusyHolds, TypeOK, Task
  <2>2. events' \in Seq(Event)
    BY <1>20, <2>1, EmitType DEF ReportRetry
  <2> QED BY <1>20, <2>1, <2>2 DEF ReportRetry, TypeOK, BusyHolds, Busy, coordVars, book
<1>21. ASSUME NEW w \in Worker, Retry(w) PROVE TypeOK' /\ BusyHolds'
  BY <1>21 DEF Retry, TypeOK, BusyHolds, Busy, coordVars, book, Error
<1>22. CASE CallerCancels
  BY <1>22 DEF CallerCancels, TypeOK, BusyHolds, Busy, coordVars, book, workerVars
<1>23. CASE Consume
  BY <1>23 DEF Consume, TypeOK, BusyHolds, Busy, coordVars, book, workerVars
<1>24. CASE UNCHANGED vars
  BY <1>24 DEF vars, TypeOK, BusyHolds, Busy, coordVars, book, workerVars
<1> QED
  BY <1>1, <1>2, <1>3, <1>4, <1>5, <1>6, <1>7, <1>8, <1>9, <1>10, <1>11, <1>12,
     <1>13, <1>14, <1>15, <1>16, <1>17, <1>18, <1>19, <1>20, <1>21, <1>22, <1>23,
     <1>24
  DEF Next, Coordinator, Step, Terminated

(* Every variable of every reachable state is in its type, for any graph,  *)
(* pool, retry counts and limits; so in particular no message names a node *)
(* outside the graph and an attempt number stays a natural number.         *)
THEOREM TypeInvariant == Spec => [](TypeOK /\ BusyHolds)
<1>1. Init => TypeOK /\ BusyHolds
  BY TypeInit
<1>2. TypeOK /\ BusyHolds /\ [Next]_vars => (TypeOK /\ BusyHolds)'
  BY TypeStep
<1> QED BY <1>1, <1>2, PTL DEF Spec

-------------------------------------------------------------------------------
(* Phases of the coordinator.                                              *)

(* A worker's step leaves the coordinator's variables alone, and is taken  *)
(* by a goroutine that runs.                                               *)
WorkerStep(w) == Step(w) \/ \E err \in Error : Finish(w, err)

LEMMA WorkerFrame ==
  ASSUME NEW w \in Worker, WorkerStep(w)
  PROVE  UNCHANGED <<coordVars, extDone>> /\ pc[w] # "gone"
BY DEF WorkerStep, Step, Pick, Exit, Abort, Refused, Proceed, Begin, Finish, ReportOk,
       ReportFailed, ReportRetry, Retry, Send

LEMMA PhasesStep ==
  ASSUME TypeOK, Phases, [Next]_vars
  PROVE  Phases'
<1>1. CASE Reject
  BY <1>1 DEF Reject, Phases, workerVars
<1>2. CASE Start
  BY <1>2 DEF Start, Phases
<1>3. CASE RecvOk
  BY <1>3 DEF RecvOk, Phases, workerVars
<1>4. CASE RecvErr
  <2>1. Head(doneCh) \in Done
    BY <1>4 DEF RecvErr, TypeOK
  <2>2. Head(doneCh).err # "invalid"
    BY <2>1 DEF Done, Error
  <2> QED BY <2>2, <1>4 DEF RecvErr, Phases, workerVars, FirstError, FailFast
<1>5. CASE SeeCancel
  BY <1>5 DEF SeeCancel, Phases, workerVars, FirstError
<1>6. CASE Close
  BY <1>6 DEF Close, Phases, workerVars, book
<1>7. CASE Return
  BY <1>7 DEF Return, Phases, workerVars, book, Wait
<1>8. ASSUME NEW n \in Node, Dispatch(n) \/ SkipDispatch(n) PROVE Phases'
  BY <1>8 DEF Dispatch, SkipDispatch, EndOfBody, Phases, workerVars, book
<1>9. ASSUME NEW n \in Node, CancelNode(n) PROVE Phases'
  BY <1>9 DEF CancelNode, Phases, workerVars, TypeOK
<1>10. ASSUME NEW w \in Worker, WorkerStep(w) PROVE Phases'
  BY <1>10, WorkerFrame DEF Phases, coordVars, book
<1>11. CASE CallerCancels \/ Consume \/ UNCHANGED vars
  BY <1>11 DEF CallerCancels, Consume, vars, Phases, coordVars, book, workerVars
<1> QED
  BY <1>1, <1>2, <1>3, <1>4, <1>5, <1>6, <1>7, <1>8, <1>9, <1>10, <1>11
  DEF Next, Coordinator, WorkerStep, Terminated
-------------------------------------------------------------------------------
(* Every open node has at most one ticket.                                 *)

(* What a worker reports is about the node it held.                        *)
LEMMA SendFrame ==
  ASSUME TypeOK, BusyHolds, NEW w \in Worker, NEW err \in Error, Busy(w), Send(w, err)
  PROVE  \E m \in Done :
           /\ m.node = job[w].node /\ m.err = err
           /\ m.out = IF err = "none" THEN attempt[w] ELSE 0
           /\ doneCh' = Append(doneCh, m)
           /\ Elems(doneCh') = Elems(doneCh) \cup {m}
           /\ ~ Busy(w)'
           /\ \A v \in Worker \ {w} : pc'[v] = pc[v] /\ job'[v] = job[v]
           /\ UNCHANGED <<coordVars, extDone, taskCh, inFlight, outcome>>
<1> DEFINE m == [node |-> job[w].node, err |-> err,
                 out |-> IF err = "none" THEN attempt[w] ELSE 0]
<1>1. job[w].node \in Node /\ attempt[w] \in Nat
  BY DEF BusyHolds, Task, TypeOK
<1>2. m \in Done
  BY <1>1 DEF Done
<1>3. doneCh' = Append(doneCh, m) /\ doneCh \in Seq(Done)
  BY DEF Send, TypeOK
<1>4. Elems(doneCh') = Elems(doneCh) \cup {m}
  BY <1>2, <1>3, ElemsAppend
<1>5. ~ Busy(w)' /\ \A v \in Worker \ {w} : pc'[v] = pc[v] /\ job'[v] = job[v]
  BY DEF Send, Busy, TypeOK
<1> QED BY <1>2, <1>3, <1>4, <1>5 DEF Send

LEMMA SendTickets ==
  ASSUME TypeOK, BusyHolds, Tickets, NEW w \in Worker, NEW err \in Error, Busy(w),
         Send(w, err)
  PROVE  Tickets'
<1>1. PICK m \in Done :
           /\ m.node = job[w].node
           /\ doneCh' = Append(doneCh, m)
           /\ Elems(doneCh') = Elems(doneCh) \cup {m}
           /\ ~ Busy(w)'
           /\ \A v \in Worker \ {w} : pc'[v] = pc[v] /\ job'[v] = job[v]
           /\ UNCHANGED <<coordVars, taskCh>>
  BY SendFrame
<1>2. \A v \in Worker : Busy(v)' => v # w /\ Busy(v) /\ job'[v] = job[v]
  BY <1>1 DEF Busy
<1>3. Distinct(doneCh)'
  <2>1. Distinct(doneCh) /\ doneCh \in Seq(Done) /\ \A t \in Elems(doneCh) : t.node # m.node
    BY <1>1 DEF Tickets, TypeOK
  <2> QED BY <2>1, <1>1, DistinctAppend
<1> QED BY <1>1, <1>2, <1>3 DEF Tickets, Open, coordVars, book

LEMMA TicketsStep ==
  ASSUME TypeOK, BusyHolds, Phases, Tickets, [Next]_vars
  PROVE  Tickets'
<1>1. CASE Reject \/ SeeCancel \/ Close \/ Return
  BY <1>1 DEF Reject, SeeCancel, Close, Return, Tickets, Open, Busy, workerVars, book
<1>2. CASE Start
  BY <1>2, ElemsEmpty DEF Start, Phases, Tickets, Open, Busy, TypeOK
<1>3. CASE RecvOk \/ RecvErr
  <2> DEFINE m == Head(doneCh)
  <2>0. doneCh # <<>> /\ doneCh \in Seq(Done) /\ doneCh' = Tail(doneCh)
    BY <1>3 DEF RecvOk, RecvErr, TypeOK
  <2>1. /\ Elems(doneCh) = Elems(doneCh') \cup {m}
        /\ m \in Elems(doneCh) /\ m \in Done
    BY <2>0, ElemsTail
  <2>2. Distinct(doneCh') /\ \A t \in Elems(doneCh') : t.node # m.node
    BY <2>0, DistinctTail DEF Tickets
  <2>3. /\ \A n \in Node : n # m.node /\ Open(n) => states'[n] = states[n]
        /\ \A n \in toSend' : states'[n] = "ready" /\ n # m.node
        /\ \A n \in toSend' : n \in toSend \/ states[n] = "pending"
    <3>1. m.node \in Node /\ m.node \notin toSend
      BY <2>1 DEF Done, Tickets
    <3>2. CASE RecvOk
      BY <3>1, <3>2 DEF RecvOk, Open, Unlocked, TypeOK
    <3>3. CASE RecvErr
      <4>1. toSend' = toSend /\ states' = [states EXCEPT ![m.node] = "failed"]
        BY <3>3 DEF RecvErr
      <4>2. \A n \in toSend : n \in Node /\ states[n] = "ready"
        BY <3>3 DEF RecvErr, Tickets, Open, Phases, TypeOK
      <4> QED BY <4>1, <4>2, <3>1 DEF TypeOK
    <3> QED BY <3>2, <3>3, <1>3
  <2>4. \A t \in Elems(taskCh) : t.node # m.node /\ t.node \in Node
    <3>1. Elems(taskCh) \subseteq Task
      BY ElemsType DEF TypeOK
    <3> QED BY <3>1, <2>1 DEF Tickets, Task
  <2>5. \A w \in Worker : Busy(w) => job[w].node # m.node /\ job[w].node \in Node
    BY <2>1 DEF Tickets, BusyHolds, Task
  <2>6. \A t \in Elems(doneCh') : t.node \in Node
    <3>1. Elems(doneCh) \subseteq Done
      BY <2>0, ElemsType
    <3> QED BY <3>1, <2>1 DEF Done
  <2>7. UNCHANGED <<taskCh, pc, job>>
    BY <1>3 DEF RecvOk, RecvErr, workerVars
  <2> HIDE DEF m
  <2> QED BY <2>1, <2>2, <2>3, <2>4, <2>5, <2>6, <2>7 DEF Tickets, Open, Busy
<1>4. ASSUME NEW n \in Node, Dispatch(n) PROVE Tickets'
  <2> DEFINE t == [node |-> n, deps |-> Snapshot(n)]
  <2>1. t \in Task /\ taskCh \in Seq(Task) /\ taskCh' = Append(taskCh, t) /\ t.node = n
    BY <1>4, SnapshotType DEF Task, Dispatch, TypeOK
  <2> HIDE DEF t
  <2>2. Elems(taskCh') = Elems(taskCh) \cup {t}
    BY <2>1, ElemsAppend
  <2>3. n \in toSend /\ toSend' = toSend \ {n} /\ UNCHANGED <<doneCh, states, pc, job>>
    BY <1>4 DEF Dispatch, NextToSend, EndOfBody, book, workerVars
  <2>4. Distinct(taskCh')
    <3>1. Distinct(taskCh) /\ \A x \in Elems(taskCh) : x.node # t.node
      BY <2>1, <2>3 DEF Tickets
    <3> QED BY <3>1, <2>1, DistinctAppend
  <2> QED BY <2>1, <2>2, <2>3, <2>4 DEF Tickets, Open, Busy
<1>5. ASSUME NEW n \in Node, SkipDispatch(n) PROVE Tickets'
  BY <1>5 DEF SkipDispatch, EndOfBody, Tickets, Open, Busy, workerVars, book
<1>6. ASSUME NEW n \in Node, CancelNode(n) PROVE Tickets'
  BY <1>6 DEF CancelNode, Tickets, Open, Busy, workerVars, TypeOK
<1>7. ASSUME NEW w \in Worker, Pick(w) PROVE Tickets'
  <2> DEFINE t == Head(taskCh)
  <2>1. /\ taskCh # <<>> /\ taskCh \in Seq(Task) /\ taskCh' = Tail(taskCh)
        /\ Elems(taskCh) = Elems(taskCh') \cup {t}
    BY <1>7, ElemsTail DEF Pick, TypeOK
  <2>2. Distinct(taskCh') /\ \A x \in Elems(taskCh') : x.node # t.node
    BY <2>1, DistinctTail DEF Tickets
  <2>3. /\ job'[w] = t /\ ~ Busy(w)
        /\ \A v \in Worker \ {w} : job'[v] = job[v] /\ pc'[v] = pc[v]
        /\ UNCHANGED <<doneCh, states, toSend>>
    BY <1>7 DEF Pick, Busy, TypeOK, coordVars, book
  <2> HIDE DEF t
  <2> QED BY <2>1, <2>2, <2>3 DEF Tickets, Open, Busy
<1>8. ASSUME NEW w \in Worker, Abort(w) \/ Refused(w) \/ ReportOk(w) \/ ReportFailed(w)
      PROVE  Tickets'
  <2>1. Busy(w) /\ \E err \in Error : Send(w, err)
    BY <1>8 DEF Abort, Refused, ReportOk, ReportFailed, Busy, Error, TypeOK
  <2> QED BY <2>1, SendTickets
<1>9. ASSUME NEW w \in Worker,
             \/ Exit(w) \/ Proceed(w) \/ Begin(w) \/ ReportRetry(w) \/ Retry(w)
             \/ \E err \in Error : Finish(w, err)
      PROVE  Tickets'
  <2>1. /\ Busy(w)' => Busy(w)
        /\ \A v \in Worker \ {w} : pc'[v] = pc[v]
        /\ UNCHANGED <<taskCh, doneCh, job, states, toSend>>
    BY <1>9 DEF Exit, Proceed, Begin, ReportRetry, Retry, Finish, Busy, TypeOK, coordVars, book
  <2> QED BY <2>1 DEF Tickets, Open, Busy
<1>10. CASE CallerCancels \/ Consume \/ UNCHANGED vars
  BY <1>10 DEF CallerCancels, Consume, vars, Tickets, Open, Busy, coordVars, book, workerVars
<1> QED
  BY <1>1, <1>2, <1>3, <1>4, <1>5, <1>6, <1>7, <1>8, <1>9, <1>10
  DEF Next, Coordinator, Step, Terminated
-------------------------------------------------------------------------------
(* The history of every RunFn agrees with the bookkeeping.                 *)

(* The nodes named by tickets are nodes of the graph.                      *)
LEMMA TicketNodes ==
  ASSUME TypeOK, BusyHolds
  PROVE  /\ \A t \in Elems(taskCh) : t.node \in Node
         /\ \A m \in Elems(doneCh) : m.node \in Node
         /\ \A w \in Worker : Busy(w) => job[w].node \in Node
         /\ \A n \in toSend : n \in Node
<1>1. Elems(taskCh) \subseteq Task /\ Elems(doneCh) \subseteq Done
  BY ElemsType DEF TypeOK
<1> QED BY <1>1 DEF TypeOK, BusyHolds, Task, Done

(* The message the coordinator takes.                                      *)
LEMMA Received ==
  ASSUME TypeOK, Tickets, RecvOk \/ RecvErr
  PROVE  LET m == Head(doneCh) IN
         /\ m \in Done /\ m \in Elems(doneCh)
         /\ doneCh' = Tail(doneCh)
         /\ Elems(doneCh) = Elems(doneCh') \cup {m}
         /\ \A t \in Elems(doneCh') : t.node # m.node
<1>1. doneCh # <<>> /\ doneCh \in Seq(Done) /\ doneCh' = Tail(doneCh) /\ Distinct(doneCh)
  BY DEF RecvOk, RecvErr, TypeOK, Tickets
<1> QED BY <1>1, ElemsTail, DistinctTail

(* The task a worker takes.                                                *)
LEMMA Picked ==
  ASSUME TypeOK, BusyHolds, NEW w \in Worker, Pick(w)
  PROVE  /\ Elems(taskCh) = Elems(taskCh') \cup {job'[w]}
         /\ job'[w] \in Task /\ pc'[w] = "check" /\ attempt'[w] = 1
         /\ ~ Busy(w) /\ Busy(w)'
         /\ \A v \in Worker \ {w} : /\ job'[v] = job[v] /\ pc'[v] = pc[v]
                                    /\ attempt'[v] = attempt[v]
<1>1. taskCh # <<>> /\ taskCh \in Seq(Task) /\ taskCh' = Tail(taskCh) /\ job'[w] = Head(taskCh)
  BY DEF Pick, TypeOK
<1>2. Elems(taskCh) = Elems(taskCh') \cup {job'[w]} /\ job'[w] \in Task
  BY <1>1, ElemsTail
<1> QED BY <1>2 DEF Pick, TypeOK, Busy

(* The task the coordinator sends.                                         *)
LEMMA Dispatched ==
  ASSUME TypeOK, NEW n \in Node, Dispatch(n)
  PROVE  /\ Elems(taskCh') = Elems(taskCh) \cup {[node |-> n, deps |-> Snapshot(n)]}
         /\ n \in toSend /\ toSend' = toSend \ {n}
<1>1. /\ [node |-> n, deps |-> Snapshot(n)] \in Task /\ taskCh \in Seq(Task)
      /\ taskCh' = Append(taskCh, [node |-> n, deps |-> Snapshot(n)])
  BY SnapshotType DEF Task, Dispatch, TypeOK
<1> QED BY <1>1, ElemsAppend DEF Dispatch, NextToSend, EndOfBody

LEMMA OutcomesStep ==
  ASSUME TypeOK, BusyHolds, Phases, Tickets, Outcomes, [Next]_vars
  PROVE  Outcomes'
<1> USE DEF Busy
<1>1. CASE Reject \/ SeeCancel \/ Close \/ Return
  BY <1>1 DEF Reject, SeeCancel, Close, Return, Outcomes, workerVars, book
<1>2. CASE Start
  BY <1>2, ElemsEmpty DEF Start, Phases, Outcomes, TypeOK
<1>3. CASE RecvOk
  <2> DEFINE m == Head(doneCh)
  <2>1. m \in Done /\ m \in Elems(doneCh) /\ Elems(doneCh) = Elems(doneCh') \cup {m}
    BY <1>3, Received
  <2>2. outcome[m.node] = "ok"
    BY <1>3, <2>1 DEF RecvOk, Outcomes
  <2>3. \A n \in toSend' : states[n] = "pending" /\ n \in Node
    BY <1>3 DEF RecvOk, Unlocked
  <2>4. \A n \in Node : /\ states'[n] = "pending" => states[n] = "pending"
                        /\ states'[n] = "succeeded" => n = m.node \/ states[n] = "succeeded"
    BY <1>3 DEF RecvOk, TypeOK
  <2>5. UNCHANGED <<taskCh, pc, job, attempt, verdict, outcome>>
    BY <1>3 DEF RecvOk, workerVars
  <2> HIDE DEF m
  <2>6. \A n \in Node :
          /\ states'[n] = "pending" => outcome'[n] = "uncalled"
          /\ states'[n] = "succeeded" => outcome'[n] = "ok"
          /\ outcome'[n] = "running" =>
               \E w \in Worker : pc'[w] = "running" /\ job'[w].node = n
    BY <2>2, <2>4, <2>5 DEF Outcomes
  <2>7. \A n \in toSend' : outcome'[n] = "uncalled"
    BY <2>3, <2>5 DEF Outcomes
  <2> QED BY <2>1, <2>5, <2>6, <2>7 DEF Outcomes
<1>4. CASE RecvErr
  <2> DEFINE m == Head(doneCh)
  <2>1. m \in Done /\ m \in Elems(doneCh) /\ Elems(doneCh) = Elems(doneCh') \cup {m}
    BY <1>4, Received
  <2>2. \A n \in Node : states'[n] \in {"pending", "succeeded"} => states'[n] = states[n]
    BY <1>4 DEF RecvErr, TypeOK
  <2>3. UNCHANGED <<taskCh, toSend, workerVars>>
    BY <1>4 DEF RecvErr
  <2> QED BY <2>1, <2>2, <2>3 DEF Outcomes, workerVars
<1>5. ASSUME NEW n \in Node, Dispatch(n) PROVE Outcomes'
  BY <1>5, Dispatched DEF Dispatch, EndOfBody, Outcomes, workerVars, book
<1>6. ASSUME NEW n \in Node, SkipDispatch(n) PROVE Outcomes'
  BY <1>6 DEF SkipDispatch, EndOfBody, Outcomes, workerVars, book
<1>7. ASSUME NEW n \in Node, CancelNode(n) PROVE Outcomes'
  BY <1>7 DEF CancelNode, Outcomes, workerVars, TypeOK
<1>8. ASSUME NEW w \in Worker, Pick(w) PROVE Outcomes'
  <2>1. UNCHANGED <<doneCh, verdict, outcome, states, toSend>>
    BY <1>8 DEF Pick, coordVars, book
  <2> QED BY <2>1, <1>8, Picked DEF Outcomes
<1>9. ASSUME NEW w \in Worker, NEW err \in Error, Busy(w), Send(w, err),
             err = "none" => pc[w] = "report" /\ verdict[w] = "none",
             pc[w] # "running"
      PROVE  Outcomes'
  <2>1. PICK m \in Done :
           /\ m.node = job[w].node /\ m.err = err
           /\ m.out = IF err = "none" THEN attempt[w] ELSE 0
           /\ Elems(doneCh') = Elems(doneCh) \cup {m}
           /\ ~ Busy(w)'
           /\ \A v \in Worker \ {w} : pc'[v] = pc[v] /\ job'[v] = job[v]
           /\ UNCHANGED <<coordVars, taskCh, outcome>>
    BY <1>9, SendFrame
  <2>2. \A v \in Worker \ {w} : attempt'[v] = attempt[v] /\ verdict'[v] = verdict[v]
    BY <1>9 DEF Send, TypeOK
  <2>3. UNCHANGED <<states, toSend>>
    BY <2>1 DEF coordVars, book
  <2> QED BY <1>9, <2>1, <2>2, <2>3 DEF Outcomes
<1>10. ASSUME NEW w \in Worker, Abort(w) \/ Refused(w) \/ ReportOk(w) \/ ReportFailed(w)
       PROVE  Outcomes'
  <2>1. \E err \in Error : /\ Send(w, err)
                           /\ err = "none" => pc[w] = "report" /\ verdict[w] = "none"
    BY <1>10 DEF Abort, Refused, ReportOk, ReportFailed, Error, TypeOK
  <2>2. Busy(w) /\ pc[w] # "running"
    BY <1>10 DEF Abort, Refused, ReportOk, ReportFailed
  <2> QED BY <2>1, <2>2, <1>9
<1>11. ASSUME NEW w \in Worker, Exit(w) \/ Proceed(w) \/ ReportRetry(w) \/ Retry(w)
       PROVE  Outcomes'
  <2>1. UNCHANGED <<doneCh, taskCh, outcome, states, toSend, job>>
    BY <1>11 DEF Exit, Proceed, ReportRetry, Retry, coordVars, book
  <2>2. \A v \in Worker \ {w} :
          pc'[v] = pc[v] /\ attempt'[v] = attempt[v] /\ verdict'[v] = verdict[v]
    BY <1>11 DEF Exit, Proceed, ReportRetry, Retry, TypeOK
  <2>3. /\ pc'[w] \in {"gone", "acquire", "backoff", "check"}
        /\ pc[w] # "running"
        /\ pc'[w] # "gone" => Busy(w) /\ attempt'[w] \in {attempt[w], attempt[w] + 1}
        /\ pc[w] = "report" => verdict[w] # "none"
        /\ pc'[w] # "gone" => pc[w] \in {"check", "report", "backoff"}
    BY <1>11 DEF Exit, Proceed, ReportRetry, Retry, TypeOK
  <2>4. pc'[w] # "gone" => attempt'[w] > 0
    BY <2>3 DEF Outcomes, TypeOK
  <2> QED BY <2>1, <2>2, <2>3, <2>4 DEF Outcomes
<1>12. ASSUME NEW w \in Worker, NEW o \in {"running", "ok", "bad"},
              NEW q \in {"running", "report"},
              pc[w] \in {"acquire", "running"},
              outcome' = [outcome EXCEPT ![job[w].node] = o],
              pc' = [pc EXCEPT ![w] = q],
              UNCHANGED <<doneCh, taskCh, states, toSend, job, attempt>>,
              \A v \in Worker \ {w} : verdict'[v] = verdict[v],
              \/ q = "running" /\ o = "running"
              \/ q = "report" /\ o = "ok" /\ verdict'[w] = "none"
              \/ q = "report" /\ o = "bad" /\ verdict'[w] # "none"
       PROVE  Outcomes'
  <2> DEFINE n == job[w].node
  <2>1. n \in Node /\ Open(n) /\ n \notin toSend
    BY <1>12, TicketNodes DEF Tickets
  <2>2. /\ \A v \in Worker \ {w} : Busy(v) => job[v].node # n /\ job[v].node \in Node
        /\ \A t \in Elems(taskCh) : t.node # n /\ t.node \in Node
        /\ \A m \in Elems(doneCh) : m.node # n /\ m.node \in Node
    BY <1>12, TicketNodes DEF Tickets
  <2>3. /\ \A k \in Node \ {n} : outcome'[k] = outcome[k]
        /\ outcome'[n] = o
        /\ pc'[w] = q /\ \A v \in Worker \ {w} : pc'[v] = pc[v]
    BY <1>12, <2>1 DEF TypeOK
  <2>4. ASSUME NEW k \in Node
        PROVE  /\ states[k] = "pending" => outcome'[k] = "uncalled"
               /\ states[k] = "succeeded" => outcome'[k] = "ok"
               /\ outcome'[k] = "running" =>
                    \E v \in Worker : pc'[v] = "running" /\ job[v].node = k
    <3>1. CASE k = n
      BY <3>1, <2>1, <2>3, <1>12 DEF Open
    <3>2. CASE k # n
      BY <3>2, <2>3, <1>12 DEF Outcomes
    <3> QED BY <3>1, <3>2
  <2>5. /\ \A k \in toSend : outcome'[k] = "uncalled"
        /\ \A t \in Elems(taskCh) : outcome'[t.node] = "uncalled"
        /\ \A m \in Elems(doneCh) : m.err = "none" => outcome'[m.node] = "ok" /\ m.out > 0
    BY <2>1, <2>2, <2>3, TicketNodes DEF Outcomes
  <2>6. ASSUME NEW v \in Worker
        PROVE  /\ Busy(v)' => attempt[v] > 0
               /\ pc'[v] \in {"check", "acquire", "backoff"} =>
                    outcome'[job[v].node] \in {"uncalled", "bad"}
               /\ pc'[v] = "running" => outcome'[job[v].node] = "running"
               /\ pc'[v] = "report" =>
                    outcome'[job[v].node] = IF verdict'[v] = "none" THEN "ok" ELSE "bad"
    <3>1. CASE v = w
      BY <3>1, <2>3, <1>12 DEF Outcomes
    <3>2. CASE v # w
      BY <3>2, <2>2, <2>3, <1>12 DEF Outcomes
    <3> QED BY <3>1, <3>2
  <2> QED BY <2>4, <2>5, <2>6, <1>12 DEF Outcomes
<1>13. ASSUME NEW w \in Worker, Begin(w) PROVE Outcomes'
  BY <1>12, <1>13 DEF Begin, coordVars, book
<1>14. ASSUME NEW w \in Worker, NEW err \in Error, Finish(w, err) PROVE Outcomes'
  <2>1. verdict'[w] = err /\ \A v \in Worker \ {w} : verdict'[v] = verdict[v]
    BY <1>14 DEF Finish, TypeOK
  <2>2. /\ pc[w] = "running" /\ pc' = [pc EXCEPT ![w] = "report"]
        /\ UNCHANGED <<doneCh, taskCh, states, toSend, job, attempt>>
    BY <1>14 DEF Finish, coordVars, book
  <2> HIDE DEF Busy
  <2>3. CASE err = "none"
    <3>1. outcome' = [outcome EXCEPT ![job[w].node] = "ok"]
      BY <2>3, <1>14 DEF Finish
    <3> QED BY <1>12, <2>1, <2>2, <2>3, <3>1
  <2>4. CASE err # "none"
    <3>1. outcome' = [outcome EXCEPT ![job[w].node] = "bad"]
      BY <2>4, <1>14 DEF Finish
    <3> QED BY <1>12, <2>1, <2>2, <2>4, <3>1
  <2> QED BY <2>3, <2>4
<1>15. CASE CallerCancels \/ Consume \/ UNCHANGED vars
  BY <1>15 DEF CallerCancels, Consume, vars, Outcomes, coordVars, book, workerVars
<1> QED
  BY <1>1, <1>2, <1>3, <1>4, <1>5, <1>6, <1>7, <1>8, <1>10, <1>11, <1>13, <1>14, <1>15
  DEF Next, Coordinator, Step, Terminated

-------------------------------------------------------------------------------
(* Tasks carry the outputs of succeeded dependencies.                      *)

LEMMA DependenciesStep ==
  ASSUME TypeOK, BusyHolds, Phases, Tickets, Outcomes, Dependencies, [Next]_vars
  PROVE  Dependencies'
<1>1. CASE Reject \/ SeeCancel \/ Close \/ Return
  BY <1>1 DEF Reject, SeeCancel, Close, Return, Dependencies, Satisfied, Snapshot, Busy,
              workerVars, book
<1>2. CASE Start
  <2>1. /\ \A n \in Node : states[n] = "pending" /\ pending[n] = deps[n]
        /\ taskCh' = <<>> /\ UNCHANGED <<deps, outputs, pending>>
    BY <1>2 DEF Start, Phases
  <2>2. /\ \A n \in Node : states'[n] = IF pending[n] = {} THEN "ready" ELSE "pending"
        /\ \A n \in toSend' : n \in Node /\ pending[n] = {}
        /\ \A w \in Worker : ~ Busy(w)'
    BY <1>2 DEF Start, Busy
  <2> QED BY <2>1, <2>2, ElemsEmpty DEF Dependencies, Satisfied
<1>3. CASE RecvOk
  <2> DEFINE m == Head(doneCh)
  <2>1. m \in Done /\ m \in Elems(doneCh) /\ m.err = "none"
    BY <1>3, Received DEF RecvOk
  <2>2. m.node \in Node /\ states[m.node] = "ready" /\ m.out > 0
    BY <1>3, <2>1 DEF RecvOk, Done, Tickets, Open, Phases, Outcomes
  <2>3. /\ UNCHANGED <<deps, taskCh, pc, job>>
        /\ outputs' = [outputs EXCEPT ![m.node] = m.out]
        /\ toSend' = Unlocked(m.node)
        /\ pending' = [n \in Node |-> IF states[n] = "pending"
                                      THEN pending[n] \ {m.node} ELSE pending[n]]
        /\ states' = [n \in Node |-> IF n = m.node THEN "succeeded"
                                     ELSE IF n \in Unlocked(m.node) THEN "ready"
                                     ELSE states[n]]
    BY <1>3 DEF RecvOk, workerVars
  <2> HIDE DEF m
  <2>4. \A n \in Node : states'[n] = "succeeded" <=> n = m.node \/ states[n] = "succeeded"
    BY <2>3 DEF Unlocked
  <2>5. \A n \in Node : outputs'[n] > 0 <=> states'[n] = "succeeded"
    BY <2>2, <2>3, <2>4 DEF TypeOK, Dependencies
  <2>6. \A n \in Node : Satisfied(n) => Satisfied(n)' /\ Snapshot(n)' = Snapshot(n)
    BY <2>2, <2>3, <2>4 DEF Satisfied, Snapshot, TypeOK
  <2>7. ASSUME NEW n \in Node, states'[n] = "pending", NEW d \in deps[n]
        PROVE  d \in pending'[n] \/ states'[d] = "succeeded"
    <3>1. states[n] = "pending" /\ d \in Node
      BY <2>3, <2>7 DEF TypeOK
    <3> QED BY <3>1, <2>3, <2>4 DEF Dependencies
  <2>8. \A n \in toSend' : Satisfied(n)'
    <3> SUFFICES ASSUME NEW n \in Unlocked(m.node), NEW d \in deps[n]
                 PROVE  states'[d] = "succeeded"
      BY <2>3 DEF Satisfied
    <3>1. n \in Node /\ states[n] = "pending" /\ pending[n] \subseteq {m.node} /\ d \in Node
      BY DEF Unlocked, TypeOK
    <3>2. d = m.node \/ states[d] = "succeeded"
      BY <3>1 DEF Dependencies
    <3> QED BY <3>1, <3>2, <2>4
  <2>9. \A t \in Elems(taskCh) : Satisfied(t.node)' /\ t.deps = Snapshot(t.node)'
    BY <2>6, TicketNodes DEF Dependencies
  <2>10. \A w \in Worker, n \in Node :
           Busy(w) /\ job[w].node = n => Satisfied(n)' /\ job[w].deps = Snapshot(n)'
    BY <2>6 DEF Dependencies
  <2>11. \A w \in Worker : Busy(w) => job[w].node \in Node
    BY TicketNodes
  <2> QED BY <2>11, <2>3, <2>5, <2>7, <2>8, <2>9, <2>10 DEF Dependencies, Busy, Satisfied, Snapshot
<1>4. CASE RecvErr
  <2> DEFINE m == Head(doneCh)
  <2>1. m \in Done /\ m \in Elems(doneCh)
    BY <1>4, Received
  <2>2. m.node \in Node /\ states[m.node] = "ready"
    BY <1>4, <2>1 DEF RecvErr, Done, Tickets, Open, Phases
  <2>3. /\ UNCHANGED <<deps, outputs, pending, toSend, taskCh, pc, job>>
        /\ states' = [states EXCEPT ![m.node] = "failed"]
    BY <1>4 DEF RecvErr, workerVars
  <2> HIDE DEF m
  <2>4. \A n \in Node : /\ states'[n] = "succeeded" <=> states[n] = "succeeded"
                        /\ states'[n] = "pending" => states[n] = "pending"
    BY <2>2, <2>3 DEF TypeOK
  <2>5. \A n \in Node : \A d \in deps[n] : d \in Node
    BY DEF TypeOK
  <2>6. \A n \in Node : Satisfied(n) => Satisfied(n)' /\ Snapshot(n)' = Snapshot(n)
    BY <2>3, <2>4, <2>5 DEF Satisfied, Snapshot
  <2>7. \A n \in Node : outputs'[n] > 0 <=> states'[n] = "succeeded"
    BY <2>3, <2>4 DEF Dependencies
  <2>8. \A n \in Node : states'[n] = "pending" =>
          \A d \in deps[n] : d \in pending[n] \/ states'[d] = "succeeded"
    BY <2>4, <2>5 DEF Dependencies
  <2> QED BY <2>3, <2>6, <2>7, <2>8, TicketNodes DEF Dependencies, Busy, Satisfied, Snapshot
<1>5. ASSUME NEW n \in Node, Dispatch(n) PROVE Dependencies'
  <2>1. UNCHANGED <<deps, outputs, pending, states, pc, job>>
    BY <1>5 DEF Dispatch, EndOfBody, book, workerVars
  <2>2. /\ Elems(taskCh') = Elems(taskCh) \cup {[node |-> n, deps |-> Snapshot(n)]}
        /\ n \in toSend /\ toSend' = toSend \ {n}
    BY <1>5, Dispatched
  <2> QED BY <2>1, <2>2 DEF Dependencies, Satisfied, Snapshot, Busy
<1>6. ASSUME NEW n \in Node, SkipDispatch(n) PROVE Dependencies'
  BY <1>6 DEF SkipDispatch, EndOfBody, Dependencies, Satisfied, Snapshot, Busy, workerVars, book
<1>7. ASSUME NEW n \in Node, CancelNode(n) PROVE Dependencies'
  <2>1. /\ UNCHANGED <<deps, outputs, pending, toSend, taskCh, pc, job>>
        /\ states' = [states EXCEPT ![n] = "cancelled"]
        /\ states[n] # "succeeded"
    BY <1>7 DEF CancelNode, Unfinished, workerVars
  <2>2. \A k \in Node : /\ states'[k] = "succeeded" <=> states[k] = "succeeded"
                        /\ states'[k] = "pending" => states[k] = "pending"
    BY <2>1 DEF TypeOK
  <2>3. \A k \in Node : \A d \in deps[k] : d \in Node
    BY DEF TypeOK
  <2>4. \A k \in Node : Satisfied(k) => Satisfied(k)' /\ Snapshot(k)' = Snapshot(k)
    BY <2>1, <2>2, <2>3 DEF Satisfied, Snapshot
  <2>5. \A k \in Node : outputs'[k] > 0 <=> states'[k] = "succeeded"
    BY <2>1, <2>2 DEF Dependencies
  <2>6. \A k \in Node : states'[k] = "pending" =>
          \A d \in deps[k] : d \in pending[k] \/ states'[d] = "succeeded"
    BY <2>2, <2>3 DEF Dependencies
  <2> QED BY <2>1, <2>4, <2>5, <2>6, TicketNodes DEF Dependencies, Busy, Satisfied, Snapshot
<1>8. ASSUME NEW w \in Worker, Pick(w) PROVE Dependencies'
  <2>1. UNCHANGED <<deps, outputs, pending, states, toSend>>
    BY <1>8 DEF Pick, coordVars, book
  <2> QED BY <2>1, <1>8, Picked DEF Dependencies, Satisfied, Snapshot, Busy
<1>9. ASSUME NEW w \in Worker, WorkerStep(w), ~ Pick(w) PROVE Dependencies'
  <2>1. UNCHANGED <<deps, outputs, pending, states, toSend, taskCh>>
    BY <1>9 DEF WorkerStep, Step, Exit, Abort, Refused, Proceed, Begin, Finish, ReportOk,
                ReportFailed, ReportRetry, Retry, Send, coordVars, book
  <2>2. \A v \in Worker : Busy(v)' => Busy(v) /\ job'[v] = job[v]
    BY <1>9 DEF WorkerStep, Step, Exit, Abort, Refused, Proceed, Begin, Finish, ReportOk,
                ReportFailed, ReportRetry, Retry, Send, Busy, TypeOK
  <2> QED BY <2>1, <2>2 DEF Dependencies, Satisfied, Snapshot
<1>10. CASE CallerCancels \/ Consume \/ UNCHANGED vars
  BY <1>10 DEF CallerCancels, Consume, vars, Dependencies, Satisfied, Snapshot, Busy,
               coordVars, book, workerVars
<1> QED
  BY <1>1, <1>2, <1>3, <1>4, <1>5, <1>6, <1>7, <1>8, <1>9, <1>10
  DEF Next, Coordinator, WorkerStep, Terminated

-------------------------------------------------------------------------------
(* Who cancels.                                                            *)

LEMMA CausesStep ==
  ASSUME TypeOK, BusyHolds, Phases, Tickets, Causes, [Next]_vars
  PROVE  Causes'
<1> USE DEF ctxDone
<1>1. CASE Reject \/ Start \/ Close \/ Return
  BY <1>1 DEF Reject, Start, Close, Return, Causes, Phases, workerVars, book
<1>2. CASE RecvOk
  <2>1. Elems(doneCh') \subseteq Elems(doneCh)
    BY <1>2, Received
  <2> QED BY <2>1, <1>2 DEF RecvOk, Causes, workerVars
<1>3. CASE RecvErr
  <2> DEFINE m == Head(doneCh)
  <2>1. m \in Done /\ m \in Elems(doneCh) /\ Elems(doneCh') \subseteq Elems(doneCh)
    BY <1>3, Received
  <2>2. m.err \in {"fault", "ctx"}
    BY <2>1, <1>3 DEF RecvErr, Done, Error
  <2>3. /\ firstErr' = IF firstErr = "none" THEN m.err ELSE firstErr
        /\ cancelled' /\ phase # "returned" /\ phase # "new"
        /\ UNCHANGED <<extDone, verdict>>
    BY <1>3 DEF RecvErr, FirstError, FailFast, workerVars
  <2> HIDE DEF m
  <2> QED BY <2>1, <2>2, <2>3 DEF Causes, TypeOK
<1>4. CASE SeeCancel
  BY <1>4 DEF SeeCancel, Causes, FirstError, workerVars
<1>5. ASSUME NEW n \in Node, Dispatch(n) \/ SkipDispatch(n) \/ CancelNode(n) PROVE Causes'
  BY <1>5 DEF Dispatch, SkipDispatch, CancelNode, EndOfBody, Causes, Phases, book, workerVars
<1>6. ASSUME NEW w \in Worker, Pick(w) \/ Exit(w) \/ Proceed(w) \/ Begin(w) \/ ReportRetry(w)
                               \/ Retry(w) \/ \E err \in Error : Finish(w, err)
      PROVE  Causes'
  <2>1. UNCHANGED <<firstErr, extDone, cancelled, phase, doneCh>>
    BY <1>6 DEF Pick, Exit, Proceed, Begin, ReportRetry, Retry, Finish, coordVars, book
  <2>2. \A v \in Worker : verdict'[v] = "ctx" => verdict[v] = "ctx" \/ ctxDone
    BY <1>6 DEF Pick, Exit, Proceed, Begin, ReportRetry, Retry, Finish, TypeOK
  <2> QED BY <2>1, <2>2 DEF Causes
<1>7. ASSUME NEW w \in Worker, Abort(w) \/ Refused(w) \/ ReportOk(w) \/ ReportFailed(w)
      PROVE  Causes'
  <2>1. PICK err \in Error : Send(w, err) /\ (err = "ctx" => ctxDone \/ verdict[w] = "ctx")
    BY <1>7 DEF Abort, Refused, ReportOk, ReportFailed, Error, TypeOK
  <2>2. Busy(w)
    BY <1>7 DEF Abort, Refused, ReportOk, ReportFailed, Busy
  <2>3. PICK m \in Done : m.err = err /\ Elems(doneCh') = Elems(doneCh) \cup {m}
    BY <2>1, <2>2, SendFrame
  <2>4. UNCHANGED <<firstErr, extDone, cancelled, phase>>
    BY <2>1 DEF Send, coordVars, book
  <2>5. \A v \in Worker : verdict'[v] = "ctx" => verdict[v] = "ctx"
    BY <2>1 DEF Send, TypeOK
  <2> QED BY <2>1, <2>3, <2>4, <2>5 DEF Causes
<1>8. CASE CallerCancels \/ Consume \/ UNCHANGED vars
  BY <1>8 DEF CallerCancels, Consume, vars, Causes, coordVars, book, workerVars
<1> QED
  BY <1>1, <1>2, <1>3, <1>4, <1>5, <1>6, <1>7, <1>8
  DEF Next, Coordinator, Step, Terminated

-------------------------------------------------------------------------------
(* What is still to come.                                                  *)

LEMMA NodeFinite == IsFiniteSet(Node) /\ Cardinality(Node) = N
BY NAssumption, FS_Interval DEF Node

LEMMA UnfinishedFinite == IsFiniteSet(Unfinished) /\ Cardinality(Unfinished) \in Nat
<1>1. Unfinished \in SUBSET Node
  BY DEF Unfinished
<1> QED BY <1>1, NodeFinite, FS_Subset, FS_CardinalityType

(* A received message accounts for one node.                               *)
LEMMA OneFewer ==
  ASSUME TypeOK, Phases, Tickets, Results, RecvOk \/ RecvErr
  PROVE  /\ remaining' = Cardinality(Unfinished')
         /\ remaining' = 0 => Unfinished' = {}
<1> DEFINE m == Head(doneCh)
<1>1. m \in Done /\ m \in Elems(doneCh)
  BY Received
<1>2. m.node \in Unfinished
  BY <1>1 DEF Tickets, Open, Phases, RecvOk, RecvErr, Unfinished, Done
<1>3. Unfinished' = Unfinished \ {m.node}
  BY DEF RecvOk, RecvErr, Unfinished, Unlocked, TypeOK
<1>4. remaining = Cardinality(Unfinished) /\ remaining' = remaining - 1
  BY DEF RecvOk, RecvErr, Results
<1>5. remaining' = Cardinality(Unfinished') /\ IsFiniteSet(Unfinished')
  BY <1>2, <1>3, <1>4, UnfinishedFinite, FS_RemoveElement
<1> QED BY <1>5, FS_EmptySet

LEMMA ResultsStep ==
  ASSUME TypeOK, BusyHolds, Phases, Tickets, Causes, Results, [Next]_vars
  PROVE  Results'
<1>1. CASE Reject
  BY <1>1 DEF Reject, Results, Phases
<1>2. CASE Start
  <2>1. Unfinished' = Unfinished
    BY <1>2 DEF Start, Phases, Unfinished
  <2>2. /\ \A n \in Node : states'[n] \in {"ready", "pending"}
        /\ phase = "new" /\ phase' = "seed" /\ remaining' = remaining
    BY <1>2 DEF Start
  <2> QED BY <2>1, <2>2 DEF Results
<1>3. CASE RecvOk
  <2>1. remaining' = Cardinality(Unfinished') /\ (remaining' = 0 => Unfinished' = {})
    BY <1>3, OneFewer
  <2>2. phase' = "closing" => remaining' = 0
    BY <1>3 DEF RecvOk, AllDone
  <2>3. /\ phase' \in {"promote", "closing", "select"} /\ firstErr' = firstErr
        /\ \A n \in Node : states'[n] \in {"failed", "cancelled"} => states'[n] = states[n]
    BY <1>3 DEF RecvOk
  <2> QED BY <2>1, <2>2, <2>3 DEF Results
<1>4. CASE RecvErr
  <2>1. remaining' = Cardinality(Unfinished') /\ (remaining' = 0 => Unfinished' = {})
    BY <1>4, OneFewer
  <2>2. Head(doneCh) \in Done
    BY <1>4, Received
  <2>3. firstErr' # "none"
    BY <1>4, <2>2 DEF RecvErr, FirstError
  <2>4. phase' \in {"closing", "select"} /\ (phase' = "closing" => remaining' = 0)
    BY <1>4 DEF RecvErr, AllDone
  <2> QED BY <2>1, <2>3, <2>4 DEF Results
<1>5. CASE SeeCancel
  BY <1>5 DEF SeeCancel, Results, FirstError
<1>6. CASE Close \/ Return
  BY <1>6 DEF Close, Return, Results, Unfinished, book
<1>7. ASSUME NEW n \in Node, Dispatch(n) \/ SkipDispatch(n) PROVE Results'
  BY <1>7 DEF Dispatch, SkipDispatch, EndOfBody, Results, Unfinished, book
<1>8. ASSUME NEW n \in Node, CancelNode(n) PROVE Results'
  <2>1. phase' = "closing" => Unfinished' = {}
    BY <1>8 DEF CancelNode, Unfinished, TypeOK
  <2>2. phase' \in {"cancelling", "closing"} /\ firstErr' = firstErr /\ firstErr # "none"
    BY <1>8 DEF CancelNode, Results, Causes
  <2> QED BY <2>1, <2>2 DEF Results
<1>9. ASSUME NEW w \in Worker, WorkerStep(w) PROVE Results'
  BY <1>9, WorkerFrame DEF Results, Unfinished, coordVars, book
<1>10. CASE CallerCancels \/ Consume \/ UNCHANGED vars
  BY <1>10 DEF CallerCancels, Consume, vars, Results, Unfinished, coordVars, book
<1> QED
  BY <1>1, <1>2, <1>3, <1>4, <1>5, <1>6, <1>7, <1>8, <1>9, <1>10
  DEF Next, Coordinator, WorkerStep, Terminated

-------------------------------------------------------------------------------
(* Attempts and slots.                                                     *)

LEMMA AttemptsStep ==
  ASSUME TypeOK, BusyHolds, Phases, Attempts, [Next]_vars
  PROVE  Attempts'
<1> USE SchedulerAssumption DEF Busy
<1>1. CASE Coordinator
  <2>1. (pc' = pc /\ UNCHANGED <<job, attempt>>) \/ \A w \in Worker : pc'[w] = "idle"
    BY <1>1 DEF Coordinator, Reject, Start, RecvOk, RecvErr, SeeCancel, Close, Return,
                Dispatch, SkipDispatch, EndOfBody, CancelNode, workerVars
  <2> QED BY <2>1 DEF Attempts
<1>2. ASSUME NEW w \in Worker, WorkerStep(w) PROVE Attempts'
  <2>1. \A v \in Worker \ {w} : pc'[v] = pc[v] /\ job'[v] = job[v] /\ attempt'[v] = attempt[v]
    BY <1>2 DEF WorkerStep, Step, Pick, Exit, Abort, Refused, Proceed, Begin, Finish, ReportOk,
                ReportFailed, ReportRetry, Retry, Send, TypeOK
  <2>2. /\ Busy(w)' => attempt'[w] \in 1 .. (1 + MaxRetry[job'[w].node])
        /\ pc'[w] = "backoff" => attempt'[w] <= MaxRetry[job'[w].node]
    <3>1. CASE Pick(w)
      <4>1. job'[w].node \in Node /\ attempt'[w] = 1 /\ pc'[w] = "check"
        BY <3>1, Picked DEF Task
      <4> QED BY <4>1
    <3>2. CASE Abort(w) \/ Refused(w) \/ ReportOk(w) \/ ReportFailed(w) \/ Exit(w)
      BY <3>2 DEF Abort, Refused, ReportOk, ReportFailed, Send, Exit, TypeOK
    <3>3. CASE Proceed(w) \/ Begin(w) \/ \E err \in Error : Finish(w, err)
      BY <3>3 DEF Proceed, Begin, Finish, TypeOK, Attempts
    <3>4. CASE ReportRetry(w)
      BY <3>4 DEF ReportRetry, MayRetry, TypeOK, Attempts
    <3>5. CASE Retry(w)
      <4>1. job[w].node \in Node
        BY <3>5 DEF Retry, BusyHolds, Task
      <4>2. pc[w] = "backoff" /\ attempt'[w] = attempt[w] + 1 /\ job' = job /\ pc'[w] = "check"
        BY <3>5 DEF Retry, TypeOK
      <4> QED BY <4>1, <4>2 DEF Attempts, TypeOK
    <3> QED BY <1>2, <3>1, <3>2, <3>3, <3>4, <3>5 DEF WorkerStep, Step
  <2> QED BY <2>1, <2>2 DEF Attempts
<1>3. CASE CallerCancels \/ Consume \/ UNCHANGED vars
  BY <1>3 DEF CallerCancels, Consume, vars, Attempts, workerVars
<1> QED BY <1>1, <1>2, <1>3 DEF Next, WorkerStep, Terminated

(* The workers that hold a slot.                                           *)
Runners == {w \in Worker : pc[w] = "running"}

LEMMA RunnersFinite ==
  IsFiniteSet(Runners) /\ Cardinality(Runners) \in Nat
<1>1. Runners \in SUBSET Worker
  BY DEF Runners
<1> QED BY <1>1, SchedulerAssumption, FS_Subset, FS_CardinalityType

LEMMA SlotsStep ==
  ASSUME TypeOK, Phases, Slots, [Next]_vars
  PROVE  Slots'
<1> USE SchedulerAssumption
<1>1. inFlight = Cardinality(Runners)
  BY DEF Slots, Runners
<1>2. ASSUME NEW w \in Worker, Begin(w) PROVE Slots'
  <2>1. Runners' = Runners \cup {w} /\ w \notin Runners
    BY <1>2 DEF Begin, Runners, TypeOK
  <2>2. Cardinality(Runners') = Cardinality(Runners) + 1
    BY <2>1, RunnersFinite, FS_AddElement
  <2> QED BY <1>1, <1>2, <2>2, RunnersFinite DEF Begin, Slots, Runners
<1>3. ASSUME NEW w \in Worker, NEW err \in Error, Finish(w, err) PROVE Slots'
  <2>1. Runners' = Runners \ {w} /\ w \in Runners
    BY <1>3 DEF Finish, Runners, TypeOK
  <2>2. Cardinality(Runners') = Cardinality(Runners) - 1
    BY <2>1, RunnersFinite, FS_RemoveElement
  <2> QED BY <1>1, <1>3, <2>2, RunnersFinite DEF Finish, Release, Slots, Runners
<1>4. ASSUME NEW w \in Worker, Step(w), ~ Begin(w) PROVE Slots'
  <2>1. inFlight' = inFlight /\ \A v \in Worker : pc'[v] = "running" <=> pc[v] = "running"
    BY <1>4 DEF Step, Pick, Exit, Abort, Refused, Proceed, ReportOk, ReportFailed, ReportRetry,
                Retry, Send, TypeOK
  <2> QED BY <2>1 DEF Slots
<1>5. CASE Start
  <2>1. inFlight' = inFlight /\ \A v \in Worker : pc'[v] = "running" <=> pc[v] = "running"
    BY <1>5 DEF Start, Phases
  <2> QED BY <2>1 DEF Slots
<1>6. CASE Coordinator /\ ~ Start
  BY <1>6 DEF Coordinator, Reject, RecvOk, RecvErr, SeeCancel, Close, Return, Dispatch,
              SkipDispatch, EndOfBody, CancelNode, workerVars, Slots
<1>7. CASE CallerCancels \/ Consume \/ UNCHANGED vars
  BY <1>7 DEF CallerCancels, Consume, vars, Slots, workerVars
<1> QED BY <1>2, <1>3, <1>4, <1>5, <1>6, <1>7 DEF Next, Terminated

-------------------------------------------------------------------------------
(* The inductive invariant and what follows from it.                       *)

LEMMA InvariantInit ==
  ASSUME Init
  PROVE  IInv
<1> USE DEF Busy
<1>1. TypeOK /\ BusyHolds
  BY TypeInit
<1>2. Phases
  BY DEF Init, Phases
<1>3. Tickets /\ Outcomes /\ Dependencies /\ Causes /\ Attempts
  BY ElemsEmpty DEF Init, Tickets, Outcomes, Dependencies, Causes, Attempts, Satisfied
<1>4. Results
  <2>1. Unfinished = Node
    BY DEF Init, Unfinished
  <2> QED BY <2>1, NodeFinite DEF Init, Results
<1>5. Slots
  <2>1. {w \in Worker : pc[w] = "running"} = {}
    BY DEF Init
  <2>2. Cardinality({w \in Worker : pc[w] = "running"}) = 0
    BY <2>1, FS_EmptySet
  <2> QED BY <2>2, SchedulerAssumption DEF Init, Slots
<1> QED BY <1>1, <1>2, <1>3, <1>4, <1>5 DEF IInv

LEMMA InvariantStep ==
  ASSUME IInv, [Next]_vars
  PROVE  IInv'
<1> USE DEF IInv
<1>1. TypeOK' /\ BusyHolds'
  BY TypeStep
<1>2. Phases' /\ Tickets'
  BY PhasesStep, TicketsStep
<1>3. Outcomes' /\ Dependencies' /\ Causes'
  BY OutcomesStep, DependenciesStep, CausesStep
<1>4. Results' /\ Attempts' /\ Slots'
  BY ResultsStep, AttemptsStep, SlotsStep
<1> QED BY <1>1, <1>2, <1>3, <1>4

(* The invariant of the whole protocol between coordinator and workers.    *)
THEOREM Invariance == Spec => []IInv
<1>1. Init => IInv
  BY InvariantInit
<1>2. IInv /\ [Next]_vars => IInv'
  BY InvariantStep
<1> QED BY <1>1, <1>2, PTL DEF Spec

(* For every graph, pool and retry count: no node has two tickets.  (The   *)
(* coordinator and its workers hand each node around exactly once.)        *)
THEOREM OneTicketHolds == Spec => []OneTicket
<1>1. IInv => OneTicket
  <2> SUFFICES ASSUME IInv PROVE OneTicket
    OBVIOUS
  <2>1. /\ Distinct(taskCh) /\ Distinct(doneCh)
        /\ \A v, w \in Worker : Busy(v) /\ Busy(w) /\ job[v].node = job[w].node => v = w
    BY DEF IInv, Tickets
  <2>2. /\ Nodes(taskCh) \cap Held = {} /\ Nodes(taskCh) \cap Nodes(doneCh) = {}
        /\ Held \cap Nodes(doneCh) = {}
    BY DEF IInv, Tickets, Nodes, Held
  <2>3. (Nodes(taskCh) \cup Held \cup Nodes(doneCh)) \cap Settled = {}
    BY DEF IInv, Tickets, Nodes, Held, Settled, Open
  <2> QED BY <2>1, <2>2, <2>3 DEF OneTicket
<1> QED BY <1>1, Invariance, PTL

(* remaining never loses count of the nodes without a result.              *)
THEOREM RemainingExactHolds == Spec => []RemainingExact
<1>1. IInv => RemainingExact
  BY DEF IInv, Results, RemainingExact
<1> QED BY <1>1, Invariance, PTL

(* Every task carries exactly the recorded outputs of its dependencies,    *)
(* all of which succeeded.                                                 *)
THEOREM SnapshotSoundHolds == Spec => []SnapshotSound
<1>1. IInv => SnapshotSound
  <2> SUFFICES ASSUME IInv,
                      NEW t \in Elems(taskCh) \cup {job[w] : w \in {v \in Worker : Busy(v)}}
               PROVE  /\ \A d \in deps[t.node] : states[d] = "succeeded" /\ t.deps[d] > 0
                      /\ t.deps = Snapshot(t.node)
    BY DEF SnapshotSound
  <2>1. Satisfied(t.node) /\ t.deps = Snapshot(t.node) /\ t.node \in Node
    BY TicketNodes DEF IInv, Dependencies
  <2>2. \A d \in deps[t.node] : d \in Node /\ states[d] = "succeeded" /\ outputs[d] > 0
    BY <2>1 DEF IInv, TypeOK, Dependencies, Satisfied
  <2> QED BY <2>1, <2>2 DEF Snapshot
<1> QED BY <1>1, Invariance, PTL

(* A fail-fast cancellation never masks the first error with ctx.Err().    *)
THEOREM RootCauseHolds == Spec => [](RootCause /\ CancelledForCause)
<1>1. IInv => RootCause /\ CancelledForCause
  BY DEF IInv, Causes, RootCause, CancelledForCause
<1> QED BY <1>1, Invariance, PTL

(* The Result and the error that Run returns agree with what happened.     *)
THEOREM ResultSoundHolds == Spec => []ResultSound
<1>1. IInv => ResultSound
  <2> SUFFICES ASSUME IInv PROVE ResultSound
    OBVIOUS
  <2>1. \A n \in Node : /\ outputs[n] > 0 <=> states[n] = "succeeded"
                        /\ states[n] = "succeeded" => outcome[n] = "ok"
    BY DEF IInv, Dependencies, Outcomes
  <2>2. phase = "returned" /\ firstErr # "invalid" => Unfinished = {}
    BY DEF IInv, Results
  <2>3. ASSUME phase = "returned", firstErr = "none", NEW n \in Node
        PROVE  states[n] = "succeeded"
    <3>1. n \notin Unfinished /\ states[n] \notin {"failed", "cancelled"}
      BY <2>2, <2>3 DEF IInv, Results
    <3> QED BY <3>1 DEF IInv, TypeOK, Unfinished
  <2> QED BY <2>1, <2>2, <2>3 DEF ResultSound
<1> QED BY <1>1, Invariance, PTL

(* On the way out of a run that succeeded there is nothing left to do, so  *)
(* closing the task channel ends every worker without a cancel().          *)
THEOREM NothingStrandedHolds == Spec => []NothingStranded
<1>1. IInv => NothingStranded
  <2> SUFFICES ASSUME IInv, closed, ~ ctxDone PROVE Held = {} /\ taskCh = <<>>
    BY DEF NothingStranded
  <2>1. firstErr = "none" /\ phase \in {"waiting", "returned"}
    BY DEF IInv, TypeOK, Error, Causes, Phases, ctxDone
  <2>2. \A n \in Node : ~ Open(n)
    BY <2>1 DEF IInv, Results, Unfinished, Open
  <2>3. Held = {}
    BY <2>2, TicketNodes DEF IInv, Tickets, Held
  <2>4. Elems(taskCh) = {}
    BY <2>2, TicketNodes DEF IInv, Tickets
  <2>5. taskCh = <<>>
    <3>1. taskCh \in Seq(Task)
      BY DEF IInv, TypeOK
    <3> QED BY <2>4, <3>1, ElemsTail
  <2> QED BY <2>3, <2>5
<1> QED BY <1>1, Invariance, PTL

(* The limiter's slots are held by the running attempts and by no other.   *)
THEOREM SlotsMatchHoldersHolds == Spec => []SlotsMatchHolders
<1>1. IInv => SlotsMatchHolders
  <2> SUFFICES ASSUME IInv PROVE SlotsMatchHolders
    OBVIOUS
  <2>1. phase = "returned" => {w \in Worker : pc[w] = "running"} = {}
    BY DEF IInv, Phases
  <2> QED BY <2>1, FS_EmptySet DEF IInv, Slots, SlotsMatchHolders
<1> QED BY <1>1, Invariance, PTL

(* No node gets more attempts than its budget.                             *)
THEOREM RetryBudgetHolds == Spec => []RetryBudget
<1>1. IInv => RetryBudget
  BY DEF IInv, Attempts, RetryBudget
<1> QED BY <1>1, Invariance, PTL

(* After Run returned it does nothing any more, so its caller may close    *)
(* the event channel.                                                      *)
THEOREM Quiet == Spec => QuietAfterReturn
<1> DEFINE Still ==
      phase = "returned" =>
        /\ UNCHANGED <<workerVars, states, outputs>>
        /\ events' \in {events, IF events = <<>> THEN <<>> ELSE Tail(events)}
<1>1. IInv /\ [Next]_vars => [Still]_vars
  <2> SUFFICES ASSUME IInv, Next, phase = "returned"
               PROVE  /\ UNCHANGED <<workerVars, states, outputs>>
                      /\ events' \in {events, IF events = <<>> THEN <<>> ELSE Tail(events)}
    BY DEF vars
  <2>1. \A w \in Worker : pc[w] = "gone"
    BY DEF IInv, Phases
  <2>2. ~ Coordinator
    BY DEF Coordinator, Reject, Start, RecvOk, RecvErr, SeeCancel, Close, Return, Dispatch,
           SkipDispatch, CancelNode
  <2>3. \A w \in Worker : ~ WorkerStep(w)
    BY <2>1, WorkerFrame
  <2>4. CallerCancels \/ Consume \/ Terminated
    BY <2>2, <2>3 DEF Next, WorkerStep
  <2> QED BY <2>4 DEF CallerCancels, Consume, Terminated, vars, coordVars, book
<1> QED BY <1>1, Invariance, PTL DEF Spec, QuietAfterReturn

-------------------------------------------------------------------------------
(* DagScheduler implements DagRun.                                         *)

TheAnswer == IF phase # "returned" THEN "open"
             ELSE IF firstErr = "none" THEN "ok" ELSE "error"

LEMMA RefinementInit ==
  ASSUME Init
  PROVE  Abstract!RunInit
BY DEF Init, Abstract!RunInit, Abstract!Node, Node

LEMMA RefinementStep ==
  ASSUME IInv, [Next]_vars
  PROVE  [Abstract!RunNext]_<<deps, outcome, TheAnswer>>
<1> SUFFICES ASSUME Next
             PROVE  Abstract!RunNext \/ UNCHANGED <<deps, outcome, TheAnswer>>
  BY DEF vars, coordVars, workerVars, book, TheAnswer
<1> USE DEF TheAnswer
<1>1. CASE Reject
  <2>1. Abstract!Answer("error")
    BY <1>1 DEF Reject, Abstract!Answer, Abstract!Node, Node, IInv, Phases, workerVars
  <2> QED BY <2>1 DEF Abstract!RunNext
<1>2. CASE Return
  <2>1. \A n \in Node : outcome[n] # "running"
    BY <1>2 DEF Return, Wait, IInv, Outcomes
  <2>2. firstErr = "none" => \A n \in Node : outcome[n] = "ok"
    <3> SUFFICES ASSUME firstErr = "none", NEW n \in Node PROVE outcome[n] = "ok"
      OBVIOUS
    <3>1. n \notin Unfinished /\ states[n] \notin {"failed", "cancelled"}
      BY <1>2 DEF Return, IInv, Results
    <3>2. states[n] = "succeeded"
      BY <3>1 DEF Unfinished, IInv, TypeOK
    <3> QED BY <3>2 DEF IInv, Outcomes
  <2>3. \E a \in {"ok", "error"} : Abstract!Answer(a)
    BY <1>2, <2>1, <2>2 DEF Return, Abstract!Answer, Abstract!Node, Node, workerVars, book
  <2> QED BY <2>3 DEF Abstract!RunNext
<1>3. CASE Coordinator /\ ~ Reject /\ ~ Return
  BY <1>3 DEF Coordinator, Start, RecvOk, RecvErr, SeeCancel, Close, Dispatch, SkipDispatch,
              EndOfBody, CancelNode, workerVars, book
<1>4. ASSUME NEW w \in Worker, Begin(w) PROVE Abstract!RunNext
  <2> DEFINE n == job[w].node
  <2>1. Busy(w) /\ n \in Node
    BY <1>4, TicketNodes DEF Begin, Busy, IInv
  <2>2. /\ outcome[n] \in {"uncalled", "bad"}
        /\ outcome' = [outcome EXCEPT ![n] = "running"]
        /\ UNCHANGED <<deps, phase, firstErr>>
    BY <1>4 DEF Begin, IInv, Outcomes, coordVars, book
  <2>3. phase # "returned" /\ Valid(deps)
    BY <1>4 DEF Begin, IInv, Phases
  <2>4. \A d \in deps[n] : outcome[d] = "ok"
    BY <2>1 DEF IInv, Dependencies, Satisfied, Outcomes, TypeOK
  <2> HIDE DEF n
  <2>5. Abstract!Call(n)
    BY <2>1, <2>2, <2>3, <2>4
    DEF Abstract!Call, Abstract!Valid, Valid, Abstract!Acyclic, Acyclic, Abstract!Node, Node
  <2> QED BY <2>1, <2>5 DEF Abstract!RunNext, Abstract!Node, Node
<1>5. ASSUME NEW w \in Worker, NEW err \in Error, Finish(w, err) PROVE Abstract!RunNext
  <2> DEFINE n == job[w].node
  <2>1. Busy(w) /\ n \in Node
    BY <1>5, TicketNodes DEF Finish, Busy, IInv
  <2>2. /\ outcome[n] = "running"
        /\ \E o \in {"ok", "bad"} : outcome' = [outcome EXCEPT ![n] = o]
        /\ UNCHANGED <<deps, phase, firstErr>>
    BY <1>5 DEF Finish, IInv, Outcomes, coordVars, book
  <2> HIDE DEF n
  <2>3. Abstract!End(n)
    BY <2>2 DEF Abstract!End
  <2> QED BY <2>1, <2>3 DEF Abstract!RunNext, Abstract!Node, Node
<1>6. ASSUME NEW w \in Worker, Step(w), ~ Begin(w)
      PROVE  UNCHANGED <<deps, outcome, TheAnswer>>
  BY <1>6 DEF Step, Pick, Exit, Abort, Refused, Proceed, ReportOk, ReportFailed, ReportRetry,
              Retry, Send, coordVars, book
<1>7. CASE CallerCancels \/ Consume \/ Terminated
  BY <1>7 DEF CallerCancels, Consume, Terminated, vars, coordVars, workerVars, book
<1> QED BY <1>1, <1>2, <1>3, <1>4, <1>5, <1>6, <1>7 DEF Next

(* Whatever the interleaving, a caller sees only what DagRun allows: every *)
(* RunFn is called after its dependencies succeeded, one call at a time    *)
(* and never again after a success, Run answers when none is active, and a *)
(* nil error means that all of them succeeded.                             *)
THEOREM Refinement == Spec => ImplementsDagRun
<1>1. Init => Abstract!RunInit
  BY RefinementInit
<1>2. IInv /\ [Next]_vars => [Abstract!RunNext]_<<deps, outcome, TheAnswer>>
  BY RefinementStep
<1>3. Abstract!RunSpec <=> Abstract!RunInit /\ [][Abstract!RunNext]_<<deps, outcome, TheAnswer>>
  BY DEF Abstract!RunSpec, Abstract!runVars, TheAnswer
<1> QED BY <1>1, <1>2, <1>3, Invariance, PTL DEF Spec, ImplementsDagRun

-------------------------------------------------------------------------------
(* The delays between the attempts.                                        *)

(* The first powers of two, ...                                            *)
LEMMA PowerRun ==
  ASSUME NEW n \in Nat
  PROVE  {h \in [0 .. n -> Nat] : h[0] = 1 /\ \A k \in 1 .. n : h[k] = 2 * h[k - 1]} # {}
<1> DEFINE V == Nat
<1> DEFINE one == 1
<1> DEFINE step == [k \in 1 .. n |-> [x \in Nat |-> 2 * x]]
<1>1. one \in V /\ step \in [1 .. n -> [V -> V]]
  OBVIOUS
<1>2. Runs(V, one, n, step) # {}
  <2> HIDE DEF V, one, step
  <2> QED BY <1>1, RunExists
<1>3. PICK h \in [0 .. n -> Nat] : h[0] = 1 /\ \A k \in 1 .. n : h[k] = step[k][h[k - 1]]
  BY <1>2 DEF Runs
<1>4. ASSUME NEW k \in 1 .. n PROVE h[k] = 2 * h[k - 1]
  <2>1. k - 1 \in 0 .. n
    OBVIOUS
  <2>2. h[k - 1] \in Nat
    BY <2>1
  <2> QED BY <1>3, <2>2
<1> QED BY <1>3, <1>4

(* ... all of them, ...                                                    *)
LEMMA PowerExists ==
  \E f : f = [n \in Nat |-> IF n = 0 THEN 1 ELSE 2 * f[n - 1]]
<1> DEFINE R(n) == {h \in [0 .. n -> Nat] : h[0] = 1 /\ \A k \in 1 .. n : h[k] = 2 * h[k - 1]}
<1> DEFINE H(n) == CHOOSE h : h \in R(n)
<1>1. \A n \in Nat : H(n) \in R(n)
  <2> SUFFICES ASSUME NEW n \in Nat PROVE H(n) \in R(n)
    OBVIOUS
  <2>1. R(n) # {}
    BY PowerRun
  <2> HIDE DEF R
  <2> QED BY <2>1, Zenon
<1>2. ASSUME NEW n \in Nat, NEW g \in R(n), NEW m \in Nat, NEW h \in R(m), n <= m
      PROVE  \A k \in 0 .. n : h[k] = g[k]
  <2> DEFINE S == {k \in 0 .. n : h[k] = g[k]}
  <2>1. 0 \in S
    OBVIOUS
  <2>2. ASSUME NEW k \in 1 .. n, k - 1 \in S PROVE k \in S
    <3>1. h[k - 1] = g[k - 1] /\ k \in 1 .. m
      BY <1>2, <2>2
    <3>2. h[k] = 2 * h[k - 1] /\ g[k] = 2 * g[k - 1]
      BY <3>1
    <3> QED BY <3>1, <3>2
  <2>3. 0 .. n \subseteq S
    <3> HIDE DEF S
    <3> QED BY <2>1, <2>2, SegmentInduction
  <2> QED BY <2>3
<1> DEFINE f == [n \in Nat |-> H(n)[n]]
<1>3. ASSUME NEW n \in Nat PROVE f[n] = IF n = 0 THEN 1 ELSE 2 * f[n - 1]
  <2>1. CASE n = 0
    <3>1. H(0) \in R(0)
      BY <1>1
    <3>2. H(0)[0] = 1
      <4> HIDE DEF H
      <4> QED BY <3>1
    <3> QED BY <2>1, <3>2
  <2>2. CASE n # 0
    <3>1. n - 1 \in Nat /\ n \in 1 .. n /\ n - 1 <= n
      BY <2>2
    <3>2. H(n) \in R(n) /\ H(n - 1) \in R(n - 1)
      BY <1>1, <3>1
    <3>3. H(n)[n] = 2 * H(n)[n - 1]
      <4> HIDE DEF H
      <4> QED BY <3>1, <3>2
    <3>4. H(n)[n - 1] = H(n - 1)[n - 1]
      <4> HIDE DEF H, R
      <4> QED BY <1>2, <3>1, <3>2
    <3>5. f[n] = H(n)[n] /\ f[n - 1] = H(n - 1)[n - 1]
      <4> HIDE DEF H
      <4> QED BY <3>1
    <3> HIDE DEF f, H
    <3> QED BY <2>2, <3>3, <3>4, <3>5
  <2> QED BY <2>1, <2>2
<1>4. f = [n \in Nat |-> IF n = 0 THEN 1 ELSE 2 * f[n - 1]]
  <2>1. DOMAIN f = Nat
    OBVIOUS
  <2>2. f = [n \in Nat |-> f[n]]
    OBVIOUS
  <2> HIDE DEF f
  <2> QED BY <1>3, <2>1, <2>2
<1> HIDE DEF f
<1> QED BY <1>4

(* ... and so what the definition of Power says.                           *)
LEMMA PowerIs ==
  /\ Power \in [Nat -> Nat \ {0}]
  /\ Power[0] = 1
  /\ \A n \in Nat : Power[n + 1] = 2 * Power[n]
<1>1. Power = [n \in Nat |-> IF n = 0 THEN 1 ELSE 2 * Power[n - 1]]
  BY PowerExists, Zenon DEF Power
<1>2. \A n \in Nat : Power[n] = IF n = 0 THEN 1 ELSE 2 * Power[n - 1]
  BY <1>1
<1>3. Power[0] = 1
  BY <1>2
<1>4. ASSUME NEW n \in Nat PROVE Power[n + 1] = 2 * Power[n]
  <2>1. n + 1 \in Nat /\ n + 1 # 0 /\ (n + 1) - 1 = n
    OBVIOUS
  <2> QED BY <1>2, <2>1
<1> DEFINE S == {n \in Nat : Power[n] \in Nat \ {0}}
<1>5. 0 \in S
  BY <1>3
<1>6. \A n \in Nat : n \in S => n + 1 \in S
  BY <1>4
<1>7. Nat \subseteq S
  <2> HIDE DEF S
  <2> QED BY <1>5, <1>6, SetInduction
<1> QED BY <1>1, <1>3, <1>4, <1>7

(* A power divides the later ones.                                         *)
LEMMA PowerDivides ==
  ASSUME NEW a \in Nat, NEW b \in Nat, a <= b
  PROVE  \E c \in Nat \ {0} : Power[b] = Power[a] * c
<1> DEFINE S == {n \in Nat : \E c \in Nat \ {0} : Power[a + n] = Power[a] * c}
<1>1. 0 \in S
  <2>1. Power[a + 0] = Power[a] * 1
    BY PowerIs
  <2> QED BY <2>1
<1>2. ASSUME NEW n \in Nat, n \in S PROVE n + 1 \in S
  <2>1. PICK c \in Nat \ {0} : Power[a + n] = Power[a] * c
    BY <1>2
  <2>2. a + n \in Nat /\ (a + n) + 1 = a + (n + 1) /\ Power[a] \in Nat
    BY PowerIs
  <2>3. Power[a + (n + 1)] = 2 * Power[a + n]
    BY <2>2, PowerIs
  <2>4. Power[a + (n + 1)] = Power[a] * (2 * c)
    BY <2>1, <2>2, <2>3
  <2> QED BY <2>4
<1>3. Nat \subseteq S
  <2> HIDE DEF S
  <2> QED BY <1>1, <1>2, SetInduction
<1>4. b - a \in S /\ a + (b - a) = b
  BY <1>3
<1> QED BY <1>4

(* What % leaves.                                                          *)
LEMMA Remainder ==
  ASSUME NEW x \in Nat, NEW m \in Nat \ {0}
  PROVE  /\ x % m \in 0 .. (m - 1)
         /\ x < m => x % m = x
         /\ \E q \in Nat : x = (m * q) + (x % m)
<1>1. x % m \in 0 .. (m - 1)
  OBVIOUS
<1>2. x \div m \in Nat
  OBVIOUS
<1>3. x = (m * (x \div m)) + (x % m)
  OBVIOUS
<1>4. x < m => x % m = x
  OBVIOUS
<1> QED BY <1>1, <1>2, <1>3, <1>4

(* A positive multiple of a is not below a.                                *)
LEMMA Factor ==
  ASSUME NEW a \in Nat \ {0}, NEW z \in Int, a * z > 0
  PROVE  a * z >= a
<1>1. z >= 1
  <2> SUFFICES ASSUME z <= 0 PROVE FALSE
    OBVIOUS
  <2>1. a * z <= 0
    OBVIOUS
  <2> QED BY <2>1
<1>2. PICK y \in Nat : z = y + 1
  <2>1. z - 1 \in Nat /\ z = (z - 1) + 1
    BY <1>1
  <2> QED BY <2>1
<1>3. a * z = a * y + a /\ a * y \in Nat
  BY <1>2
<1> QED BY <1>3

(* Below a mild cap the shift is exact.  A product that loses its high     *)
(* bits has a power above the cap in it, and what is left after the wrap   *)
(* is a multiple of that power or of the modulus: not between 0 and the    *)
(* cap.                                                                    *)
LEMMA DelayIs ==
  ASSUME Width \in Nat \ {0}, NEW base \in Nat, NEW max \in Nat, NEW a \in Nat,
         base \in 1 .. max, max < Power[Width - 1], max * max < Power[Width - 1]
  PROVE  ExponentialBackoff(base, max, a) =
           IF base * Power[Shift(a)] < max
             THEN base * Power[Shift(a)]
             ELSE max
<1> DEFINE k == Shift(a)
<1>1. k \in Nat
  BY DEF Shift
<1>2. PICK h \in Nat \ {0} : h = Power[Width - 1]
  BY PowerIs
<1>3. PICK m \in Nat \ {0} : m = Power[Width]
  BY PowerIs
<1>4. PICK p \in Nat \ {0} : p = Power[k]
  BY <1>1, PowerIs
<1>5. PICK e \in Nat : e = base * p
  OBVIOUS
<1>6. PICK w \in Int : w = ((e + h) % m) - h
  <2>1. PICK x \in Nat : x = e + h
    OBVIOUS
  <2>2. x % m \in 0 .. (m - 1)
    BY Remainder
  <2>3. \A r \in 0 .. (m - 1) : r - h \in Int
    OBVIOUS
  <2>4. (x % m) - h \in Int
    BY <2>2, <2>3, Zenon
  <2> QED BY <2>1, <2>4, Zenon
<1>7. m = 2 * h
  <2>1. Width - 1 \in Nat /\ (Width - 1) + 1 = Width
    OBVIOUS
  <2> QED BY <1>2, <1>3, <2>1, PowerIs
<1>8. PICK c \in Nat \ {0} : m = p * c \/ p = m * c
  <2>1. k <= Width \/ Width <= k
    BY <1>1
  <2> HIDE DEF k
  <2> QED BY <1>1, <1>3, <1>4, <2>1, PowerDivides
<1>9. (w = e /\ e > 0) \/ ((w <= 0 \/ w > max) /\ e > max)
  <2>0. base \in Nat \ {0} /\ base <= max /\ max < h /\ max * max < h
    BY <1>2
  <2>1. e + h \in Nat /\ e > 0
    <3>1. base * p > 0
      BY <2>0
    <3> QED BY <1>5, <3>1
  <2>2. CASE e < h
    <3>1. (e + h) % m = e + h
      <4>1. e + h < m
        BY <1>7, <2>2
      <4> QED BY <2>1, <4>1, Remainder
    <3> QED BY <1>6, <2>1, <3>1
  <2>3. CASE e >= h
    <3>1. p > max
      <4> SUFFICES ASSUME p <= max PROVE FALSE
        OBVIOUS
      <4>1. base * p <= max * p /\ max * p <= max * max
        BY <2>0
      <4>2. base * p \in Nat /\ max * p \in Nat /\ max * max \in Nat
        OBVIOUS
      <4> QED BY <1>5, <2>0, <2>3, <4>1, <4>2
    <3>2. e > max
      BY <2>0, <2>3
    <3>3. SUFFICES ASSUME w > 0, w <= max PROVE FALSE
      BY <3>2
    <3>4. PICK q \in Nat : e + h = (m * q) + ((e + h) % m)
      BY <2>1, Remainder
    <3>5. w = e - m * q
      <4>1. m * q \in Nat
        OBVIOUS
      <4>2. (e + h) % m \in Nat
        BY <2>1, Remainder
      <4> QED BY <1>6, <3>4, <4>1, <4>2
    <3>6. CASE m = p * c
      <4>1. PICK z \in Int : z = base - c * q
        OBVIOUS
      <4>2. w = p * z
        <5>1. w = base * p - (p * c) * q
          BY <1>5, <3>5, <3>6
        <5>2. base * p - (p * c) * q = p * (base - c * q)
          OBVIOUS
        <5> QED BY <4>1, <5>1, <5>2
      <4>3. w >= p
        BY <3>3, <4>2, Factor
      <4> QED BY <3>1, <3>3, <4>3
    <3>7. CASE p = m * c
      <4>1. PICK z \in Int : z = base * c - q
        OBVIOUS
      <4>2. w = m * z
        <5>1. w = base * (m * c) - m * q
          BY <1>5, <3>5, <3>7
        <5>2. base * (m * c) - m * q = m * (base * c - q)
          OBVIOUS
        <5> QED BY <4>1, <5>1, <5>2
      <4>3. w >= m
        BY <3>3, <4>2, Factor
      <4> QED BY <1>7, <2>0, <3>3, <4>3
    <3> QED BY <1>8, <3>6, <3>7
  <2> QED BY <2>2, <2>3
<1>10. ExponentialBackoff(base, max, a) = IF w <= 0 \/ w > max THEN max ELSE w
  BY <1>2, <1>3, <1>4, <1>5, <1>6 DEF ExponentialBackoff, Overflowed, Wrap
<1>11. base * Power[Shift(a)] = e
  BY <1>4, <1>5
<1> HIDE DEF k
<1> QED BY <1>9, <1>10, <1>11

(* What holds of the delay in every state.                                 *)
DelayInv ==
  /\ setting \in Settings /\ failures \in Nat
  /\ delay = ExponentialBackoff(setting.base, setting.max, failures)

(* The delays of ExponentialBackoff are exact powers of two times the base *)
(* or the cap, for integers of any width, any mild cap and any number of   *)
(* failures.                                                               *)
THEOREM DelayExactHolds == DelaySpec => []DelayExact
<1>1. DelayInit => DelayInv
  BY DEF DelayInit, DelayInv
<1>2. DelayInv /\ [DelayNext]_delayVars => DelayInv'
  <2> SUFFICES ASSUME DelayInv, [DelayNext]_delayVars PROVE DelayInv'
    OBVIOUS
  <2>1. CASE Fail
    <3>1. setting' = setting /\ failures' = failures + 1
      BY <2>1 DEF Fail
    <3>2. delay' = ExponentialBackoff(setting.base, setting.max, failures')
      BY <2>1 DEF Fail
    <3> QED BY <3>1, <3>2 DEF DelayInv
  <2>2. CASE GaveUp \/ UNCHANGED delayVars
    <3>1. setting' = setting /\ failures' = failures /\ delay' = delay
      BY <2>2 DEF GaveUp, delayVars
    <3> QED BY <3>1 DEF DelayInv
  <2> QED BY <2>1, <2>2 DEF DelayNext
<1>3. DelayInv => DelayExact
  <2> SUFFICES ASSUME DelayInv, Mild PROVE DelayExact
    BY DEF DelayExact
  <2>1. PICK base \in Nat : base = setting.base
    BY SettingsAssumption DEF DelayInv
  <2>2. PICK max \in Nat : max = setting.max
    BY SettingsAssumption DEF DelayInv
  <2> QED BY <2>1, <2>2, SettingsAssumption, DelayIs
          DEF DelayInv, DelayExact, Mild
<1> QED BY <1>1, <1>2, <1>3, PTL DEF DelaySpec
===============================================================================
