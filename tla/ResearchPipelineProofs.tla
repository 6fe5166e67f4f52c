------------------------ MODULE ResearchPipelineProofs ------------------------
(***************************************************************************)
(* Proofs about ResearchPipeline, for every plan, every number of          *)
(* subtasks, every capacity of the handler's channel, every failure of a   *)
(* statement and every behaviour of the client.  First lemmas on the       *)
(* channels and the room that dagEvents needs; then one lemma for each     *)
(* part of IInv, the engine's parts and then the handler's; then the       *)
(* theorems about the stream and the session, and last the refinement of   *)
(* SessionLog.                                                             *)
(***************************************************************************)
EXTENDS ResearchPipelineInvariant, FiniteSetTheorems, SequenceTheorems, TLAPS

-------------------------------------------------------------------------------
(* Sequences.                                                              *)

LEMMA TailFacts ==
  ASSUME NEW S, NEW s \in Seq(S), s # <<>>
  PROVE  /\ Tail(s) \in Seq(S) /\ Head(s) \in S /\ Head(s) = s[1]
         /\ Len(s) \in Nat \ {0} /\ Len(Tail(s)) = Len(s) - 1
         /\ \A i \in 1 .. Len(Tail(s)) : Tail(s)[i] = s[i + 1]
  OBVIOUS

(* Appending one event is concatenation with the sequence of it.           *)
LEMMA ConcatOne ==
  ASSUME NEW S, NEW s \in Seq(S), NEW e \in S
  PROVE  s \o <<e>> = Append(s, e)
  BY AppendIsConcat

(* SetToSeq lists a finite set without repetition.                         *)
LEMMA SetToSeqFacts ==
  ASSUME NEW S, IsFiniteSet(S)
  PROVE  /\ SetToSeq(S) \in Seq(S)
         /\ \A i, j \in 1 .. Len(SetToSeq(S)) :
              SetToSeq(S)[i] = SetToSeq(S)[j] => i = j
<1> DEFINE Lists == {f \in [1 .. Cardinality(S) -> S] : IsInjective(f)}
<1>1. Cardinality(S) \in Nat /\ \E f \in Bijection(1 .. Cardinality(S), S) : TRUE
  BY FS_CardinalityType DEF ExistsBijection
<1>2. PICK f : f \in Bijection(1 .. Cardinality(S), S)
  BY <1>1
<1>3. f \in [1 .. Cardinality(S) -> S] /\ IsInjective(f)
  BY <1>2 DEF Bijection, Injection
<1>4. SetToSeq(S) \in [1 .. Cardinality(S) -> S] /\ IsInjective(SetToSeq(S))
  BY <1>3 DEF SetToSeq
<1> HIDE DEF Lists
<1>5. SetToSeq(S) \in Seq(S) /\ Len(SetToSeq(S)) = Cardinality(S)
  BY <1>1, <1>4
<1> QED
  BY <1>4, <1>5 DEF IsInjective

-------------------------------------------------------------------------------
(* Sending.                                                                *)

LEMMA EventParts ==
  \A t, n, k : Event(t, n, k).type = t /\ Event(t, n, k).id = n /\ Event(t, n, k).k = k
  BY DEF Event

LEMMA EventType ==
  ASSUME NEW t \in EventTypes, NEW n \in 0 .. N, NEW k \in Nat
  PROVE  Event(t, n, k) \in Events
  BY DEF Event, Events

LEMMA DagEventType ==
  ASSUME NEW t \in {"started", "succeeded", "retrying", "failed", "cancelled"},
         NEW n \in Node, NEW k \in Nat
  PROVE  Event(t, n, k) \in DagEvents
  BY DEF Event, DagEvents

(* What a send on events leaves there.                                     *)
LEMMA EmitFacts ==
  ASSUME TypeOK, NEW e \in Events, Emit(e)
  PROVE  /\ events' \in Seq(Events) /\ Len(events') <= EventCap
         /\ Len(events') = Len(events) + 1 /\ Len(events) \in Nat
         /\ \A i \in 1 .. Len(events) : events'[i] = events[i]
         /\ events'[Len(events')] = e
         /\ emitted' = emitted \cup {e} /\ closed' = closed
<1>1. events \in Seq(Events) /\ Len(events) \in Nat /\ EventCap \in Nat /\ Len(events) < EventCap
  BY CapAssumption DEF TypeOK, Emit
<1>2. events' = Append(events, e) /\ emitted' = emitted \cup {e} /\ closed' = closed
  BY DEF Emit
<1> QED
  BY <1>1, <1>2, AppendProperties

(* What a send on dagEvents leaves there, if there is room.                *)
LEMMA EmitDagFacts ==
  ASSUME TypeOK, NEW s \in Seq(DagEvents), Len(dagEvents) + Len(s) <= DagEventCap, EmitDag(s)
  PROVE  dagEvents' = dagEvents \o s /\ dropped' = dropped
<1>1. dagEvents \in Seq(DagEvents) /\ Len(dagEvents) \in Nat /\ Len(s) \in Nat /\ DagEventCap \in Nat
  BY CapAssumption DEF TypeOK
<1>2. ~ (Len(s) > DagEventCap - Len(dagEvents))
  BY <1>1
<1>3. dropped' = dropped
  BY <1>2 DEF EmitDag, TypeOK
<1>4. dagEvents' = dagEvents \o SubSeq(s, 1, Len(s))
  <2>1. CASE Len(s) < DagEventCap - Len(dagEvents)
    BY <2>1 DEF EmitDag
  <2>2. CASE Len(s) = DagEventCap - Len(dagEvents)
    BY <2>2 DEF EmitDag
  <2> QED
    BY <1>1, <2>1, <2>2
<1> QED
  BY <1>3, <1>4, SubSeqFull

-------------------------------------------------------------------------------
(* Room.                                                                   *)

(* A sequence of scheduler's events that is in order has at most Places    *)
(* events of each subtask.                                                 *)
LEMMA OrderedFits ==
  ASSUME NEW q \in Seq(DagEvents), InOrder(q), \A i \in 1 .. Len(q) : Pos(q[i]) \in 1 .. Places
  PROVE  Len(q) <= DagEventCap
<1> DEFINE Slots == Node \X (1 .. Places)
           f == [i \in 1 .. Len(q) |-> <<q[i].id, Pos(q[i])>>]
<1>1. N \in Nat /\ Places \in Nat /\ Len(q) \in Nat /\ DagEventCap \in Nat
  BY NAssumption, CapAssumption DEF Places
<1>2. \A i \in 1 .. Len(q) : q[i] \in DagEvents /\ q[i].id \in Node
  <2>1. \A i \in 1 .. Len(q) : q[i] \in DagEvents
    OBVIOUS
  <2> QED
    BY <2>1 DEF DagEvents
<1>3. f \in [1 .. Len(q) -> Slots]
  BY <1>2
<1>4. \A i, j \in 1 .. Len(q) : i # j => f[i] # f[j]
  <2>1. ASSUME NEW i \in 1 .. Len(q), NEW j \in 1 .. Len(q), i < j PROVE f[i] # f[j]
    <3>1. q[i].id = q[j].id => Pos(q[i]) < Pos(q[j])
      BY <2>1 DEF InOrder
    <3>2. Pos(q[i]) \in Int
      OBVIOUS
    <3> QED
      BY <3>1, <3>2
  <2> HIDE DEF f
  <2> QED
    BY <2>1, <1>1
<1>5. f \in Injection(1 .. Len(q), Slots)
  BY <1>3, <1>4 DEF Injection, IsInjective
<1>6. \A n \in Nat : IsFiniteSet(1 .. n) /\ Cardinality(1 .. n) = n
  BY FS_Interval
<1>7. IsFiniteSet(Slots) /\ Cardinality(Slots) = N * Places
  <2>1. IsFiniteSet(Node) /\ Cardinality(Node) = N
    BY <1>1, <1>6 DEF Node
  <2>2. IsFiniteSet(1 .. Places) /\ Cardinality(1 .. Places) = Places
    BY <1>1, <1>6
  <2> QED
    BY <2>1, <2>2, FS_Product, Zenon
<1> HIDE DEF Slots, f
<1>8. Cardinality(1 .. Len(q)) <= Cardinality(Slots)
  BY <1>5, <1>7, FS_Injection
<1> QED
  BY <1>1, <1>6, <1>7, <1>8, RoomAssumption

-------------------------------------------------------------------------------
(* Types.                                                                  *)

LEMMA EmitDagType ==
  ASSUME TypeOK, NEW s \in Seq(DagEvents), EmitDag(s)
  PROVE  dagEvents' \in Seq(DagEvents) /\ Len(dagEvents') <= DagEventCap /\ dropped' \in BOOLEAN
<1> DEFINE room == DagEventCap - Len(dagEvents)
           m == IF Len(s) < room THEN Len(s) ELSE room
<1>1. /\ dagEvents \in Seq(DagEvents) /\ Len(dagEvents) \in Nat /\ Len(s) \in Nat
      /\ DagEventCap \in Nat /\ Len(dagEvents) <= DagEventCap /\ dropped \in BOOLEAN
  BY CapAssumption DEF TypeOK
<1>2. m \in 0 .. Len(s) /\ m <= room
  BY <1>1
<1>3. dagEvents' = dagEvents \o SubSeq(s, 1, m) /\ dropped' \in BOOLEAN
  BY <1>1 DEF EmitDag
<1> HIDE DEF m
<1>4. SubSeq(s, 1, m) \in Seq(DagEvents) /\ Len(SubSeq(s, 1, m)) = m
  BY <1>2
<1> QED
  BY <1>1, <1>2, <1>3, <1>4, ConcatProperties

(* The events of the subtasks that are cancelled together.                 *)
LEMMA CancelledFacts ==
  ASSUME NEW S \in SUBSET Node
  PROVE  LET s == SetToSeq({Event("cancelled", n, 0) : n \in S})
         IN  /\ s \in Seq(DagEvents)
             /\ \A i \in 1 .. Len(s) : s[i].type = "cancelled"
             /\ \A i, j \in 1 .. Len(s) : s[i].id = s[j].id => i = j
<1> DEFINE C == {Event("cancelled", n, 0) : n \in S}
           s == SetToSeq(C)
           f == [n \in S |-> Event("cancelled", n, 0)]
<1>1. IsFiniteSet(S)
  <2>1. IsFiniteSet(Node)
    BY NAssumption, FS_Interval DEF Node
  <2> QED
    BY <2>1, FS_Subset
<1>2. IsFiniteSet(C)
  <2>1. f \in Surjection(S, C)
    BY DEF Surjection
  <2> QED
    BY <1>1, <2>1, FS_Surjection
<1>3. /\ s \in Seq(C)
      /\ \A i, j \in 1 .. Len(s) : s[i] = s[j] => i = j
  BY <1>2, SetToSeqFacts
<1>4. C \subseteq DagEvents
  BY DagEventType
<1> HIDE DEF s
<1>5. s \in Seq(DagEvents)
  BY <1>3, <1>4
<1>6. \A i \in 1 .. Len(s) : \E n \in S : s[i] = Event("cancelled", n, 0)
  BY <1>3
<1>7. \A i \in 1 .. Len(s) : s[i].type = "cancelled" /\ s[i] = Event("cancelled", s[i].id, 0)
  BY <1>6, EventParts
<1>8. \A i, j \in 1 .. Len(s) : s[i].id = s[j].id => i = j
  BY <1>3, <1>7
<1> QED
  BY <1>5, <1>7, <1>8 DEF s

(* The event that is next for the bridge, and for the handler.             *)
LEMMA Heads ==
  ASSUME TypeOK
  PROVE  /\ dagEvents # <<>> =>
              /\ Head(dagEvents) \in DagEvents /\ Head(dagEvents) = dagEvents[1]
              /\ Tail(dagEvents) \in Seq(DagEvents)
              /\ Len(dagEvents) \in Nat \ {0} /\ Len(Tail(dagEvents)) = Len(dagEvents) - 1
              /\ \A i \in 1 .. Len(Tail(dagEvents)) : Tail(dagEvents)[i] = dagEvents[i + 1]
         /\ events # <<>> =>
              /\ Head(events) \in Events /\ Head(events) = events[1]
              /\ Tail(events) \in Seq(Events)
              /\ Len(events) \in Nat \ {0} /\ Len(Tail(events)) = Len(events) - 1
              /\ \A i \in 1 .. Len(Tail(events)) : Tail(events)[i] = events[i + 1]
  BY TailFacts DEF TypeOK

(* What the bridge passes on.                                              *)
LEMMA BridgeFacts ==
  ASSUME TypeOK, Bridge
  PROVE  LET de == dagEvents[1]
             e == Event(Translation[de.type], de.id, de.k)
         IN  /\ dagEvents # <<>> /\ dagEvents' = Tail(dagEvents) /\ de \in DagEvents
             /\ \/ de.type \in {"started", "succeeded", "failed"} /\ Emit(e) /\ e \in Events
                \/ de.type \in {"retrying", "cancelled"} /\ UNCHANGED eventChan
             /\ de.type = "started" => e = Event("node_started", de.id, de.k)
             /\ de.type = "succeeded" => e = Event("node_finished", de.id, de.k)
             /\ de.type = "failed" => e = Event("node_failed", de.id, de.k)
             /\ UNCHANGED <<engineVars, nodeVars, dropped, ctxDone, clientGone,
                            handlerVars, storeVars>>
<1> DEFINE de == dagEvents[1]
           e == Event(Translation[de.type], de.id, de.k)
<1>1. /\ dagEvents # <<>> /\ dagEvents' = Tail(dagEvents) /\ Head(dagEvents) = de
      /\ de \in DagEvents
  BY Heads DEF Bridge
<1>2. /\ DOMAIN Translation = {"started", "succeeded", "failed"}
      /\ Translation["started"] = "node_started"
      /\ Translation["succeeded"] = "node_finished"
      /\ Translation["failed"] = "node_failed"
  BY DEF Translation
<1>3. /\ de.type \in {"started", "succeeded", "retrying", "failed", "cancelled"}
      /\ de.id \in Node /\ de.k \in Nat
  BY <1>1 DEF DagEvents
<1>4. IF de.type \in DOMAIN Translation THEN Emit(e) ELSE UNCHANGED eventChan
  BY <1>1 DEF Bridge
<1>5. de.type \in {"started", "succeeded", "failed"} => e \in Events
  BY <1>2, <1>3, EventType, NAssumption DEF Node, EventTypes
<1>6. UNCHANGED <<engineVars, nodeVars, dropped, ctxDone, clientGone, handlerVars, storeVars>>
  BY DEF Bridge, EngineOnly
<1> QED
  BY <1>1, <1>2, <1>3, <1>4, <1>5, <1>6

LEMMA TypeInit == Init => TypeOK
<1> SUFFICES ASSUME Init PROVE TypeOK
  OBVIOUS
<1>1. /\ deps \in [Node -> SUBSET Node] /\ ran \in [Node -> {"uncalled", "running", "ok", "bad"}]
      /\ answer \in {"open", "ok", "error"}
  BY DEF Init, RunInit
<1>2. /\ attempts \in [Node -> 0 .. MaxRetry + 1] /\ progress \in [Node -> 0 .. MaxProgress]
      /\ reporting \subseteq Node /\ tokens \in 0 .. MaxTokens
  BY CapAssumption DEF Init
<1>3. /\ dagEvents \in Seq(DagEvents) /\ Len(dagEvents) <= DagEventCap
      /\ events \in Seq(Events) /\ Len(events) <= EventCap /\ emitted \subseteq Events
  BY CapAssumption DEF Init
<1>4. /\ {dropped, closed, ctxDone, clientGone, draining, unsaved} \subseteq BOOLEAN
      /\ stage \in Stage /\ pipelineErr \in {"open", "nil", "err"}
      /\ handler \in {"begin", "recv", "write", "await", "finalize", "returned"}
  BY DEF Init, Stage
<1>5. current \in Events
  BY EventType, NAssumption DEF Init, NoEvent, EventTypes
<1>6. /\ recorder \in [report : Seq(1 .. MaxTokens), pipelineOK : BOOLEAN, failMsg : BOOLEAN]
      /\ session \in [status : {"none", "running", "completed", "failed"},
                      report : Seq(1 .. MaxTokens), message : BOOLEAN]
  BY DEF Init
<1>7. DOMAIN tasks \subseteq Node /\ Range(tasks) \subseteq TaskRow
  BY DEF Init, Range
<1> QED
  BY <1>1, <1>2, <1>3, <1>4, <1>5, <1>6, <1>7 DEF TypeOK

(* An upsert keeps the rows of the other subtasks, and the row it touches  *)
(* stays where it is in the plan.                                          *)
LEMMA SaveTaskFacts ==
  ASSUME TypeOK, NEW n \in Node, NEW s \in {"running", "done", "failed"}, NEW q \in BOOLEAN,
         SaveTask(n, s, q)
  PROVE  \/ tasks' = tasks /\ unsaved'
         \/ /\ DOMAIN tasks' = DOMAIN tasks \cup {n} /\ Range(tasks') \subseteq TaskRow
            /\ \A m \in DOMAIN tasks \ {n} : tasks'[m] = tasks[m]
            /\ tasks'[n] \in TaskRow /\ tasks'[n].status = s /\ tasks'[n].question = q
            /\ n \in DOMAIN tasks => tasks'[n].sortOrder = tasks[n].sortOrder
            /\ unsaved' = unsaved
<1> DEFINE row == [status |-> s, question |-> q, sortOrder |-> 0]
           rows == Upsert(tasks, n, row)
<1>0. DOMAIN tasks \subseteq Node /\ Range(tasks) \subseteq TaskRow /\ unsaved \in BOOLEAN
      /\ ctxDone \in BOOLEAN
  BY DEF TypeOK
<1>1. \A m \in DOMAIN tasks : tasks[m] \in TaskRow
  BY <1>0 DEF Range
<1>2. row \in TaskRow
  BY DEF TaskRow
<1>3. /\ DOMAIN rows = DOMAIN tasks \cup {n}
      /\ \A m \in DOMAIN tasks \ {n} : rows[m] = tasks[m]
      /\ rows[n] = IF n \in DOMAIN tasks THEN [row EXCEPT !.sortOrder = tasks[n].sortOrder] ELSE row
  BY DEF Upsert
<1>4. n \in DOMAIN tasks => rows[n] = [status |-> s, question |-> q, sortOrder |-> tasks[n].sortOrder]
  BY <1>3
<1>5. n \notin DOMAIN tasks => rows[n] = row
  BY <1>3
<1> HIDE DEF rows
<1>6. rows[n] \in TaskRow
  <2>1. CASE n \in DOMAIN tasks
    BY <1>1, <1>4, <2>1 DEF TaskRow
  <2> QED
    BY <1>2, <1>5, <2>1
<1>7. rows[n].status = s /\ rows[n].question = q
  BY <1>4, <1>5
<1>8. n \in DOMAIN tasks => rows[n].sortOrder = tasks[n].sortOrder
  BY <1>4
<1>9. Range(rows) \subseteq TaskRow
  BY <1>1, <1>3, <1>6 DEF Range
<1>10. \/ tasks' = tasks /\ unsaved'
       \/ tasks' = rows /\ unsaved' = unsaved
  BY <1>0 DEF SaveTask, Outcome, rows
<1> QED
  BY <1>3, <1>6, <1>7, <1>8, <1>9, <1>10

(* What the recorder may do at one event.                                  *)
LEMMA OnEventType ==
  ASSUME TypeOK, Verdicts, NEW e \in emitted, e.type \in Steps => e.id \in Node, OnEvent(e)
  PROVE  /\ recorder' \in [report : Seq(1 .. MaxTokens), pipelineOK : BOOLEAN, failMsg : BOOLEAN]
         /\ DOMAIN tasks' \subseteq Node /\ Range(tasks') \subseteq TaskRow
         /\ unsaved' \in BOOLEAN
<1> DEFINE Recorder == [report : Seq(1 .. MaxTokens), pipelineOK : BOOLEAN, failMsg : BOOLEAN]
<1>1. recorder \in Recorder /\ DOMAIN tasks \subseteq Node /\ Range(tasks) \subseteq TaskRow
      /\ unsaved \in BOOLEAN /\ tokens \in 0 .. MaxTokens /\ ctxDone \in BOOLEAN
  BY DEF TypeOK
<1>2. CASE e.type = "plan"
  <2>1. recorder' = recorder /\ SeedTasks
    BY <1>2 DEF OnEvent
  <2>2. PICK F \in SUBSET Node :
          /\ tasks' = [n \in Node \ F |-> [status |-> "pending", question |-> TRUE, sortOrder |-> n - 1]]
          /\ unsaved' = (F # {})
    BY <2>1 DEF SeedTasks
  <2>3. \A n \in Node : [status |-> "pending", question |-> TRUE, sortOrder |-> n - 1] \in TaskRow
    BY NAssumption DEF TaskRow, Node
  <2> QED
    BY <1>1, <2>1, <2>2, <2>3 DEF Range
<1>3. CASE e.type \in Steps
  <2>1. recorder' = recorder /\ e.id \in Node
    BY <1>3 DEF OnEvent, Steps
  <2>2. \E s \in {"running", "done", "failed"}, q \in BOOLEAN : SaveTask(e.id, s, q)
    BY <1>3 DEF OnEvent, Steps
  <2>3. PICK s \in {"running", "done", "failed"}, q \in BOOLEAN : SaveTask(e.id, s, q)
    BY <2>2
  <2>4. DOMAIN tasks' \subseteq Node /\ Range(tasks') \subseteq TaskRow /\ unsaved' \in BOOLEAN
    BY <1>1, <2>1, <2>3, SaveTaskFacts
  <2> QED
    BY <1>1, <2>1, <2>4
<1>4. CASE e.type = "writer_token"
  <2>1. PICK i \in 1 .. tokens : e = Chunk(i)
    BY <1>4 DEF Verdicts, Sent
  <2>2. e.k \in 1 .. MaxTokens
    BY <1>1, <2>1, CapAssumption DEF Chunk, Event
  <2>3. recorder' = [recorder EXCEPT !.report = Append(@, e.k)] /\ UNCHANGED <<tasks, unsaved>>
    BY <1>4 DEF OnEvent, Steps
  <2>4. Append(recorder.report, e.k) \in Seq(1 .. MaxTokens)
    BY <1>1, <2>2
  <2> QED
    BY <1>1, <2>3, <2>4
<1>5. CASE e.type \in {"done", "error", "progress"}
  BY <1>1, <1>5 DEF OnEvent
<1>6. e.type \in EventTypes
  BY DEF TypeOK, Events
<1> QED
  BY <1>2, <1>3, <1>4, <1>5, <1>6 DEF EventTypes, Steps

LEMMA TypeStep ==
  ASSUME IInv, [Next]_vars
  PROVE  TypeOK'
<1> USE DEF engineVars, nodeVars, runVars, dagChan, eventChan, handlerVars, storeVars, EngineOnly,
            GoTo
<1>0. TypeOK
  BY DEF IInv
<1>1. CASE PlanFails
  BY <1>0, <1>1 DEF PlanFails, TypeOK, Stage
<1>2. CASE PlanMade
  <2>1. Event("plan", 0, 0) \in Events
    BY EventType, NAssumption DEF EventTypes
  <2> QED
    BY <1>0, <1>2, <2>1, EmitFacts DEF PlanMade, TypeOK, Stage
<1>3. CASE LookUpTool
  BY <1>0, <1>3 DEF LookUpTool, TypeOK, Stage
<1>4. CASE SchedulerReturns
  <2>1. dagEvents' \in Seq(DagEvents) /\ Len(dagEvents') <= DagEventCap /\ dropped' \in BOOLEAN
    <3>1. CASE UNCHANGED dagChan
      BY <1>0, <3>1 DEF TypeOK
    <3>2. CASE ~ UNCHANGED dagChan
      <4>1. PICK S \in SUBSET Node : EmitDag(SetToSeq({Event("cancelled", n, 0) : n \in S}))
        BY <1>4, <3>2 DEF SchedulerReturns
      <4>2. SetToSeq({Event("cancelled", n, 0) : n \in S}) \in Seq(DagEvents)
        BY CancelledFacts
      <4> QED
        BY <1>0, <4>1, <4>2, EmitDagType
    <3> QED
      BY <3>1, <3>2
  <2>2. answer' \in {"ok", "error"} /\ UNCHANGED <<deps, ran>>
    BY <1>4 DEF SchedulerReturns, Answer
  <2> QED
    BY <1>0, <1>4, <2>1, <2>2 DEF SchedulerReturns, TypeOK, Stage
<1>5. CASE CollectFindings
  BY <1>0, <1>5 DEF CollectFindings, TypeOK, Stage
<1>6. CASE Token
  <2>1. tokens' \in 1 .. MaxTokens
    BY <1>0, <1>6, CapAssumption DEF Token, TypeOK
  <2>2. Event("writer_token", 0, tokens') \in Events
    BY <2>1, EventType, NAssumption, CapAssumption DEF EventTypes
  <2> QED
    BY <1>0, <1>6, <2>1, <2>2, EmitFacts DEF Token, TypeOK, Stage
<1>7. CASE CheckToken
  BY <1>0, <1>7 DEF CheckToken, TypeOK, Stage
<1>8. CASE StreamEnds
  BY <1>0, <1>8 DEF StreamEnds, TypeOK, Stage
<1>9. CASE EmitVerdict
  <2>1. Event("done", 0, 0) \in Events /\ Event("error", 0, 0) \in Events
    BY EventType, NAssumption DEF EventTypes
  <2> QED
    BY <1>0, <1>9, <2>1, EmitFacts DEF EmitVerdict, TypeOK, Stage
<1>10. CASE SendErr
  BY <1>0, <1>10 DEF SendErr, TypeOK, Stage
<1>11. CASE CloseEvents
  BY <1>0, <1>11 DEF CloseEvents, TypeOK, Stage
<1>12. CASE Bridge
  <2>1. dagEvents' \in Seq(DagEvents) /\ Len(dagEvents') <= DagEventCap
    <3>1. dagEvents # <<>> /\ dagEvents' = Tail(dagEvents)
      BY <1>0, <1>12, BridgeFacts
    <3>2. Len(dagEvents) <= DagEventCap /\ DagEventCap \in Nat
      BY <1>0, CapAssumption DEF TypeOK
    <3> QED
      BY <1>0, <3>1, <3>2, Heads
  <2>2. /\ events' \in Seq(Events) /\ Len(events') <= EventCap /\ emitted' \subseteq Events
        /\ closed' = closed
    BY <1>0, <1>12, BridgeFacts, EmitFacts DEF TypeOK
  <2> QED
    BY <1>0, <1>12, <2>1, <2>2, BridgeFacts DEF TypeOK
<1>13. ASSUME NEW n \in Node, StartNode(n) PROVE TypeOK'
  <2>1. attempts[n] + 1 \in 0 .. MaxRetry + 1 /\ attempts[n] + 1 \in Nat
    BY <1>0, <1>13, CapAssumption DEF StartNode, MayTry, TypeOK
  <2>2. attempts' \in [Node -> 0 .. MaxRetry + 1] /\ attempts'[n] \in Nat
    BY <1>0, <1>13, <2>1 DEF StartNode, TypeOK
  <2>3. <<Event("started", n, attempts'[n])>> \in Seq(DagEvents)
    BY <2>2, DagEventType
  <2>4. ran' \in [Node -> {"uncalled", "running", "ok", "bad"}] /\ UNCHANGED <<deps, answer>>
    BY <1>0, <1>13 DEF StartNode, Call, TypeOK
  <2>5. dagEvents' \in Seq(DagEvents) /\ Len(dagEvents') <= DagEventCap /\ dropped' \in BOOLEAN
    BY <1>0, <1>13, <2>3, EmitDagType DEF StartNode
  <2> QED
    BY <1>0, <1>13, <2>2, <2>4, <2>5 DEF StartNode, TypeOK
<1>14. ASSUME NEW n \in Node, EndNode(n) PROVE TypeOK'
  <2>1. \A t \in {"succeeded", "retrying", "failed"} : <<Event(t, n, attempts[n])>> \in Seq(DagEvents)
    BY <1>0, DagEventType, CapAssumption DEF TypeOK
  <2>2. \E t \in {"succeeded", "retrying", "failed"} : EmitDag(<<Event(t, n, attempts[n])>>)
    BY <1>14 DEF EndNode, FailureEvent
  <2>3. ran' \in [Node -> {"uncalled", "running", "ok", "bad"}] /\ UNCHANGED <<deps, answer>>
    BY <1>0, <1>14 DEF EndNode, End, TypeOK
  <2>4. dagEvents' \in Seq(DagEvents) /\ Len(dagEvents') <= DagEventCap /\ dropped' \in BOOLEAN
    BY <1>0, <2>1, <2>2, EmitDagType
  <2> QED
    BY <1>0, <1>14, <2>3, <2>4 DEF EndNode, TypeOK
<1>15. ASSUME NEW n \in Node, Report(n) PROVE TypeOK'
  <2>1. progress[n] \in Nat /\ reporting' \subseteq Node
    BY <1>0, <1>15, CapAssumption DEF Report, TypeOK
  <2>2. Event("progress", n, progress[n]) \in Events
    BY <2>1, EventType, NAssumption DEF EventTypes, Node
  <2>3. events' \in Seq(Events) /\ Len(events') <= EventCap /\ emitted' \subseteq Events
        /\ closed' = closed
    BY <1>0, <1>15, <2>2, EmitFacts DEF Report, TypeOK
  <2> QED
    BY <1>0, <1>15, <2>1, <2>3 DEF Report, TypeOK
<1>22. ASSUME NEW n \in Node, BeginReport(n) PROVE TypeOK'
  <2>1. progress[n] + 1 \in 0 .. MaxProgress
    BY <1>0, <1>22, CapAssumption DEF BeginReport, TypeOK
  <2>2. progress' \in [Node -> 0 .. MaxProgress] /\ reporting' \subseteq Node
    BY <1>0, <1>22, <2>1 DEF BeginReport, TypeOK
  <2> QED
    BY <1>0, <1>22, <2>2 DEF BeginReport, TypeOK
<1>16. CASE CreateSession
  <2>1. \/ handler' = "returned" /\ UNCHANGED <<stage, session>>
        \/ /\ handler' = "recv" /\ stage' = "planner"
           /\ session' = [session EXCEPT !.status = "running"]
    BY <1>16 DEF CreateSession
  <2>2. session' \in [status : {"none", "running", "completed", "failed"},
                      report : Seq(1 .. MaxTokens), message : BOOLEAN]
    BY <1>0, <2>1 DEF TypeOK
  <2> QED
    BY <1>0, <1>16, <2>1, <2>2 DEF CreateSession, TypeOK, Stage
<1>17. CASE Receive
  <2>1. current' = events[1] /\ events # <<>> /\ 1 \in 1 .. Len(events) /\ events' = Tail(events)
    BY <1>0, <1>17, Heads DEF Receive
  <2>2. current' \in emitted /\ (current'.type \in Steps => current'.id \in Node)
    BY <2>1 DEF IInv, Streamed, SentAt
  <2>3. /\ recorder' \in [report : Seq(1 .. MaxTokens), pipelineOK : BOOLEAN, failMsg : BOOLEAN]
        /\ DOMAIN tasks' \subseteq Node /\ Range(tasks') \subseteq TaskRow
        /\ unsaved' \in BOOLEAN
    BY <1>17, <2>2, OnEventType DEF Receive, IInv
  <2>4. events' \in Seq(Events) /\ Len(events') <= EventCap
    BY <1>0, <2>1, Heads, CapAssumption DEF TypeOK
  <2>5. current' \in Events
    BY <1>0, <2>2 DEF TypeOK
  <2> QED
    BY <1>0, <1>17, <2>3, <2>4, <2>5 DEF Receive, TypeOK
<1>18. CASE WriteEvent \/ WriteFails \/ EndOfStream \/ AwaitErr
  <2>1. CASE WriteEvent
    BY <1>0, <2>1 DEF WriteEvent, TypeOK
  <2>2. CASE WriteFails
    BY <1>0, <2>2 DEF WriteFails, StartDrain, TypeOK
  <2>3. CASE EndOfStream
    BY <1>0, <2>3 DEF EndOfStream, TypeOK
  <2>4. CASE AwaitErr
    BY <1>0, <2>4 DEF AwaitErr, TypeOK
  <2> QED
    BY <1>18, <2>1, <2>2, <2>3, <2>4
<1>19. CASE Drain
  <2>1. events' \in Seq(Events) /\ Len(events') <= EventCap
    BY <1>0, <1>19, Heads, CapAssumption DEF Drain, TypeOK
  <2> QED
    BY <1>0, <1>19, <2>1 DEF Drain, TypeOK
<1>20. CASE Finalize
  <2>1. recorder.report \in Seq(1 .. MaxTokens) /\ recorder.failMsg \in BOOLEAN
    BY <1>0 DEF TypeOK
  <2>2. session' \in [status : {"none", "running", "completed", "failed"},
                      report : Seq(1 .. MaxTokens), message : BOOLEAN]
    BY <1>0, <1>20, <2>1 DEF Finalize, CompleteSession, FailMessage, TypeOK
  <2> QED
    BY <1>0, <1>20, <2>2 DEF Finalize, TypeOK
<1>21. CASE Deadline \/ HangUp \/ UNCHANGED vars
  BY <1>0, <1>21 DEF Deadline, HangUp, vars, TypeOK
<1> QED
  BY <1>1, <1>2, <1>3, <1>4, <1>5, <1>6, <1>7, <1>8, <1>9, <1>10, <1>11, <1>12, <1>13, <1>14,
     <1>15, <1>16, <1>17, <1>18, <1>19, <1>20, <1>21, <1>22
  DEF Next, Engine, Handler, Attempt, Progress, Terminated

-------------------------------------------------------------------------------
(* Who touches what.                                                       *)

LEMMA EngineFrame ==
  ASSUME [Next]_vars
  PROVE  \/ UNCHANGED engineVars
         \/ PlanFails \/ PlanMade \/ LookUpTool \/ SchedulerReturns \/ CollectFindings
         \/ Token \/ CheckToken \/ StreamEnds \/ EmitVerdict \/ SendErr \/ CloseEvents
         \/ CreateSession
<1> USE DEF engineVars, EngineOnly
<1>1. ASSUME NEW n \in Node, Attempt(n) \/ Progress(n) PROVE UNCHANGED engineVars
  BY <1>1 DEF Attempt, Progress, StartNode, EndNode, BeginReport, Report
<1>2. CASE Bridge \/ Drain \/ Deadline \/ HangUp \/ Terminated \/ UNCHANGED vars
  BY <1>2 DEF Bridge, Drain, Deadline, HangUp, Terminated, vars
<1>3. CASE Receive \/ WriteEvent \/ WriteFails \/ EndOfStream \/ AwaitErr \/ Finalize
  BY <1>3 DEF Receive, WriteEvent, WriteFails, EndOfStream, AwaitErr, Finalize
<1> QED
  BY <1>1, <1>2, <1>3 DEF Next, Engine, Handler

LEMMA NodeFrame ==
  ASSUME [Next]_vars
  PROVE  \/ UNCHANGED <<runVars, attempts, dagChan>>
         \/ SchedulerReturns
         \/ Bridge
         \/ \E n \in Node : StartNode(n)
         \/ \E n \in Node : EndNode(n)
<1> USE DEF nodeVars, runVars, dagChan
<1>1. ASSUME NEW n \in Node, Progress(n) PROVE UNCHANGED <<runVars, attempts, dagChan>>
  BY <1>1 DEF Progress, BeginReport, Report
<1>2. CASE \/ PlanFails \/ PlanMade \/ LookUpTool \/ CollectFindings \/ Token \/ CheckToken
           \/ StreamEnds \/ EmitVerdict \/ SendErr \/ CloseEvents
  BY <1>2 DEF PlanFails, PlanMade, LookUpTool, CollectFindings, Token, CheckToken, StreamEnds,
              EmitVerdict, SendErr, CloseEvents
<1>3. CASE Drain \/ Deadline \/ HangUp \/ Terminated \/ UNCHANGED vars
  BY <1>3 DEF Drain, Deadline, HangUp, Terminated, vars
<1>4. CASE CreateSession \/ Receive \/ WriteEvent \/ WriteFails \/ EndOfStream \/ AwaitErr \/ Finalize
  BY <1>4 DEF CreateSession, Receive, WriteEvent, WriteFails, EndOfStream, AwaitErr, Finalize
<1> QED
  BY <1>1, <1>2, <1>3, <1>4 DEF Next, Engine, Handler, Attempt

LEMMA ReportingInit == Init => Reporting
  BY DEF Init, Reporting

LEMMA ReportingStep ==
  ASSUME IInv, [Next]_vars
  PROVE  Reporting'
<1> USE DEF nodeVars, runVars
<1>0. TypeOK /\ Reporting
  BY DEF IInv
<1>1. CASE UNCHANGED <<ran, reporting>>
  BY <1>0, <1>1 DEF Reporting
<1>2. ASSUME NEW n \in Node, StartNode(n) PROVE Reporting'
  <2>1. ran' = [ran EXCEPT ![n] = "running"] /\ reporting' = reporting
    BY <1>2 DEF StartNode, Call
  <2> QED
    BY <1>0, <2>1 DEF Reporting, TypeOK
<1>3. ASSUME NEW n \in Node, EndNode(n) PROVE Reporting'
  <2>1. /\ n \notin reporting /\ reporting' = reporting
        /\ \E o \in {"ok", "bad"} : ran' = [ran EXCEPT ![n] = o]
    BY <1>3 DEF EndNode, HookReturned, End
  <2> QED
    BY <1>0, <2>1 DEF Reporting, TypeOK
<1>4. ASSUME NEW n \in Node, Progress(n) PROVE Reporting'
  BY <1>0, <1>4 DEF Progress, BeginReport, Report, Reporting
<1>5. CASE Bridge \/ SchedulerReturns
  BY <1>1, <1>5 DEF Bridge, SchedulerReturns, Answer
<1>6. CASE \/ PlanFails \/ PlanMade \/ LookUpTool \/ CollectFindings \/ Token \/ CheckToken
           \/ StreamEnds \/ EmitVerdict \/ SendErr \/ CloseEvents
  BY <1>1, <1>6 DEF PlanFails, PlanMade, LookUpTool, CollectFindings, Token, CheckToken,
                    StreamEnds, EmitVerdict, SendErr, CloseEvents
<1>7. CASE Drain \/ Deadline \/ HangUp \/ Terminated \/ UNCHANGED vars
  BY <1>1, <1>7 DEF Drain, Deadline, HangUp, Terminated, vars
<1>8. CASE CreateSession \/ Receive \/ WriteEvent \/ WriteFails \/ EndOfStream \/ AwaitErr \/ Finalize
  BY <1>1, <1>8 DEF CreateSession, Receive, WriteEvent, WriteFails, EndOfStream, AwaitErr, Finalize
<1> QED
  BY <1>2, <1>3, <1>4, <1>5, <1>6, <1>7, <1>8 DEF Next, Engine, Handler, Attempt

LEMMA EventFrame ==
  ASSUME [Next]_vars
  PROVE  \/ UNCHANGED eventChan
         \/ PlanMade \/ Token \/ EmitVerdict \/ CloseEvents
         \/ Bridge \/ Receive \/ Drain
         \/ \E n \in Node : Report(n)
<1> USE DEF eventChan
<1>1. ASSUME NEW n \in Node, Attempt(n) \/ BeginReport(n) PROVE UNCHANGED eventChan
  BY <1>1 DEF Attempt, StartNode, EndNode, BeginReport
<1>2. CASE \/ PlanFails \/ LookUpTool \/ SchedulerReturns \/ CollectFindings \/ CheckToken
           \/ StreamEnds \/ SendErr
  BY <1>2 DEF PlanFails, LookUpTool, SchedulerReturns, CollectFindings, CheckToken, StreamEnds,
              SendErr
<1>3. CASE Deadline \/ HangUp \/ Terminated \/ UNCHANGED vars
  BY <1>3 DEF Deadline, HangUp, Terminated, vars
<1>4. CASE CreateSession \/ WriteEvent \/ WriteFails \/ EndOfStream \/ AwaitErr \/ Finalize
  BY <1>4 DEF CreateSession, WriteEvent, WriteFails, EndOfStream, AwaitErr, Finalize
<1> QED
  BY <1>1, <1>2, <1>3, <1>4 DEF Next, Engine, Handler, Progress

(* What an event is that a step sends, and when.                           *)
LEMMA Sending ==
  ASSUME IInv, [Next]_vars
  PROVE  \/ emitted' = emitted /\ (events' = events \/ Receive \/ Drain)
         \/ \E e \in Events :
              /\ Emit(e) /\ emitted' = emitted \cup {e}
              /\ \/ PlanMade /\ e = ThePlan
                 \/ Token /\ e = Chunk(tokens')
                 \/ EmitVerdict /\ stage = "finish" /\ stage' = "done" /\ e = Done
                 \/ EmitVerdict /\ stage = "error" /\ stage' = "failed" /\ e.type = "error"
                 \/ Bridge /\ e.type \in Steps
                 \/ stage = "run" /\ UNCHANGED engineVars /\ e.type = "progress"
                    /\ (\E n \in Node : Report(n) /\ e.id = n)
<1>0. TypeOK
  BY DEF IInv
<1>1. CASE PlanMade
  <2>1. ThePlan \in Events /\ Emit(ThePlan)
    BY <1>1, EventType, NAssumption DEF EventTypes, PlanMade, ThePlan
  <2> QED
    BY <1>1, <2>1 DEF Emit
<1>2. CASE Token
  <2>1. tokens' \in Nat
    BY <1>0, <1>2 DEF Token, TypeOK
  <2>2. Chunk(tokens') \in Events /\ Emit(Chunk(tokens'))
    BY <1>2, <2>1, EventType, NAssumption DEF EventTypes, Token, Chunk
  <2> QED
    BY <1>2, <2>2 DEF Emit
<1>3. CASE EmitVerdict
  <2>1. Event("done", 0, 0) \in Events /\ Event("error", 0, 0) \in Events
    BY EventType, NAssumption DEF EventTypes
  <2>2. CASE stage = "finish" /\ stage' = "done" /\ Emit(Done)
    BY <1>3, <2>1, <2>2 DEF Emit, Done
  <2>3. CASE stage = "error" /\ stage' = "failed" /\ Emit(Event("error", 0, 0))
    <3>1. Event("error", 0, 0).type = "error"
      BY EventParts
    <3> QED
      BY <1>3, <2>1, <2>3, <3>1 DEF Emit
  <2> QED
    BY <1>3, <2>2, <2>3 DEF EmitVerdict, GoTo, Done
<1>4. CASE Bridge
  <2> DEFINE de == dagEvents[1]
             e == Event(Translation[de.type], de.id, de.k)
  <2>1. CASE UNCHANGED eventChan
    BY <2>1 DEF eventChan
  <2>2. CASE Emit(e) /\ e \in Events /\ de.type \in {"started", "succeeded", "failed"}
    <3>1. e.type \in Steps
      BY <1>0, <1>4, <2>2, BridgeFacts, EventParts DEF Steps
    <3> QED
      BY <1>4, <2>2, <3>1 DEF Emit
  <2> QED
    BY <1>0, <1>4, <2>1, <2>2, BridgeFacts
<1>5. ASSUME NEW n \in Node, Report(n)
      PROVE  \E e \in Events :
               /\ Emit(e) /\ emitted' = emitted \cup {e} /\ e.type = "progress" /\ e.id = n
               /\ stage = "run" /\ UNCHANGED engineVars
  <2>1. Event("progress", n, progress[n]) \in Events
    <3>1. progress[n] \in Nat /\ n \in 0 .. N
      BY <1>0, CapAssumption, NAssumption DEF TypeOK, Node
    <3> QED
      BY <3>1, EventType DEF EventTypes
  <2>2. stage = "run" /\ UNCHANGED engineVars
    BY <1>5 DEF Report, IInv, Stages, Reporting
  <2> QED
    BY <1>5, <2>1, <2>2, EventParts DEF Report, Emit
<1>6. CASE UNCHANGED eventChan \/ CloseEvents \/ Receive \/ Drain
  BY <1>6 DEF CloseEvents, Receive, Drain, eventChan
<1> QED
  BY <1>1, <1>2, <1>3, <1>4, <1>5, <1>6, EventFrame

-------------------------------------------------------------------------------
(* The stages of Engine.Run.                                               *)

LEMMA StagesInit == Init => Stages
  BY DEF Init, RunInit, Stages, Early

LEMMA StagesStep ==
  ASSUME IInv, [Next]_vars
  PROVE  Stages'
<1> USE DEF engineVars, runVars, nodeVars, dagChan, eventChan, GoTo, Early
<1>0. Stages /\ TypeOK
  BY DEF IInv
<1>1. emitted \subseteq emitted'
  BY Sending
<1>2. CASE PlanFails \/ CollectFindings \/ CheckToken \/ LookUpTool \/ StreamEnds \/ SendErr
  BY <1>0, <1>2 DEF Stages, PlanFails, CollectFindings, CheckToken, LookUpTool, StreamEnds, SendErr,
                    BridgeDone
<1>3. CASE PlanMade
  BY <1>0, <1>3 DEF Stages, PlanMade, Emit, ThePlan
<1>4. CASE SchedulerReturns
  BY <1>0, <1>4 DEF Stages, SchedulerReturns, Answer
<1>5. CASE Token
  BY <1>0, <1>5 DEF Stages, Token, Emit
<1>6. CASE EmitVerdict
  BY <1>0, <1>6 DEF Stages, EmitVerdict, Emit
<1>7. CASE CloseEvents
  BY <1>0, <1>7 DEF Stages, CloseEvents
<1>8. CASE CreateSession
  BY <1>0, <1>8 DEF Stages, CreateSession, IInv, Handled
<1>9. CASE Bridge
  <2>1. /\ dagEvents # <<>> /\ UNCHANGED <<stage, tokens, answer, ran>> /\ closed' = closed
    BY <1>0, <1>9 DEF Bridge, Emit
  <2>2. stage \in {"run", "bridge"}
    BY <1>0, <2>1 DEF Stages
  <2> QED
    BY <1>0, <1>1, <2>1, <2>2 DEF Stages
<1>10. ASSUME NEW n \in Node, StartNode(n) PROVE Stages'
  <2>1. stage = "run" /\ answer = "open" /\ UNCHANGED <<stage, tokens, answer, emitted, closed>>
    BY <1>10 DEF StartNode, Call
  <2> QED
    BY <1>0, <2>1 DEF Stages
<1>11. ASSUME NEW n \in Node, EndNode(n) PROVE Stages'
  <2>1. /\ ran[n] = "running" /\ UNCHANGED <<stage, tokens, answer, emitted, closed>>
    BY <1>11 DEF EndNode, End
  <2>2. stage = "run" /\ answer = "open"
    BY <1>0, <2>1 DEF Stages
  <2> QED
    BY <1>0, <2>1, <2>2 DEF Stages
<1>12. ASSUME NEW n \in Node, Report(n) PROVE Stages'
  <2>1. /\ ran[n] = "running" /\ UNCHANGED <<stage, tokens, answer, closed, dagEvents, ran>>
    BY <1>12 DEF Report, Emit, IInv, Reporting
  <2>2. stage = "run"
    BY <1>0, <2>1 DEF Stages
  <2> QED
    BY <1>0, <1>1, <2>1, <2>2 DEF Stages
<1>13. CASE Receive \/ Drain
  BY <1>0, <1>13 DEF Stages, Receive, Drain
<1>14. CASE UNCHANGED <<engineVars, runVars, attempts, dagChan, eventChan>>
  BY <1>0, <1>14 DEF Stages
<1> QED
  BY <1>2, <1>3, <1>4, <1>5, <1>6, <1>7, <1>8, <1>9, <1>10, <1>11, <1>12, <1>13, <1>14,
     EngineFrame, NodeFrame, EventFrame

(* The subtasks never run behind the scheduler's back.                     *)
LEMMA Idle ==
  ASSUME Stages
  PROVE  /\ stage \in Late \cup {"writer", "check", "finish", "error"} =>
              dagEvents = <<>> /\ \A n \in Node : ran[n] # "running"
  BY DEF Stages, Late

LEMMA VerdictsInit == Init => Verdicts
<1> SUFFICES ASSUME Init PROVE Verdicts
  OBVIOUS
<1>1. emitted = {} /\ stage = "idle" /\ pipelineErr = "open" /\ tokens = 0
  BY DEF Init
<1> QED
  BY <1>1 DEF Verdicts, Verdict, Sent, Late

LEMMA VerdictsStep ==
  ASSUME IInv, [Next]_vars
  PROVE  Verdicts'
<1> USE DEF engineVars, GoTo, Late
<1>0. Stages /\ Verdicts /\ TypeOK
  BY DEF IInv
<1>1. CASE emitted' = emitted
  <2>1. /\ (Sent("plan"))' = Sent("plan") /\ (Sent("done"))' = Sent("done")
        /\ (Sent("writer_token"))' = Sent("writer_token") /\ (Sent("error"))' = Sent("error")
        /\ Verdict' = Verdict
    BY <1>1 DEF Sent, Verdict
  <2>2. CASE UNCHANGED engineVars
    <3>1. answer = "ok" => answer' = "ok"
      BY <1>0, NodeFrame DEF SchedulerReturns, Answer, runVars, Bridge, nodeVars, StartNode, Call,
                             EndNode, End
    <3> QED
      BY <1>0, <1>1, <2>1, <2>2, <3>1 DEF Verdicts
  <2>3. ~ PlanMade /\ ~ Token /\ ~ EmitVerdict
    <3>1. ThePlan \notin emitted \/ ~ PlanMade
      BY <1>0 DEF Stages, PlanMade
    <3>2. Chunk(tokens + 1) \notin emitted
      <4>1. Chunk(tokens + 1) \notin Sent("writer_token")
        <5>1. \A i \in 1 .. tokens : Chunk(i) # Chunk(tokens + 1)
          <6>1. \A i : Chunk(i).k = i
            BY EventParts DEF Chunk
          <6>2. tokens \in Nat
            BY <1>0 DEF TypeOK
          <6> QED
            BY <6>1, <6>2
        <5> QED
          BY <1>0, <5>1 DEF Verdicts
      <4> QED
        BY <4>1, EventParts DEF Sent, Chunk
    <3>3. EmitVerdict => Verdict = {}
      BY <1>0 DEF Verdicts, EmitVerdict
    <3>4. \A t \in {"done", "error"} : Emit(Event(t, 0, 0)) => Event(t, 0, 0) \in emitted
      BY <1>1 DEF Emit
    <3> QED
      BY <1>1, <3>1, <3>2, <3>3, <3>4, EventParts
      DEF Emit, PlanMade, Token, EmitVerdict, ThePlan, Chunk, Verdict, Sent
  <2>4. CASE PlanFails \/ CollectFindings \/ CheckToken \/ LookUpTool \/ StreamEnds
    BY <1>0, <1>1, <2>1, <2>4 DEF Verdicts, PlanFails, CollectFindings, CheckToken, LookUpTool,
                                  StreamEnds, nodeVars, runVars
  <2>5. CASE SendErr \/ CloseEvents
    BY <1>0, <1>1, <2>1, <2>5 DEF Verdicts, SendErr, CloseEvents, nodeVars, runVars
  <2>6. ASSUME stage \in {"run", "idle"}, stage' \in {"idle", "planner", "bridge"},
               UNCHANGED <<tokens, pipelineErr>>
        PROVE  Verdicts'
    <3>1. Done \notin emitted
      BY <1>0, <2>6, EventParts DEF Verdicts, Verdict, Sent, Done
    <3> QED
      BY <1>0, <1>1, <2>1, <2>6, <3>1 DEF Verdicts
  <2>7. CASE SchedulerReturns
    BY <2>6, <2>7 DEF SchedulerReturns
  <2>8. CASE CreateSession
    <3>1. stage = "idle"
      BY <2>8 DEF CreateSession, IInv, Handled
    <3>2. stage' \in {"idle", "planner"} /\ UNCHANGED <<tokens, pipelineErr>>
      BY <2>8, <3>1 DEF CreateSession
    <3> QED
      BY <2>6, <3>1, <3>2
  <2> QED
    BY <2>2, <2>3, <2>4, <2>5, <2>7, <2>8, EngineFrame
<1>2. CASE emitted' # emitted
  <2>1. PICK e \in Events :
          /\ Emit(e) /\ emitted' = emitted \cup {e}
          /\ \/ PlanMade /\ e = ThePlan
             \/ Token /\ e = Chunk(tokens')
             \/ EmitVerdict /\ stage = "finish" /\ stage' = "done" /\ e = Done
             \/ EmitVerdict /\ stage = "error" /\ stage' = "failed" /\ e.type = "error"
             \/ Bridge /\ e.type \in Steps
             \/ stage = "run" /\ UNCHANGED engineVars /\ e.type = "progress"
                /\ (\E n \in Node : Report(n) /\ e.id = n)
    BY <1>2, Sending
  <2>2. \A t : (Sent(t))' = IF e.type = t THEN Sent(t) \cup {e} ELSE Sent(t)
    BY <2>1 DEF Sent
  <2>3. CASE PlanMade /\ e = ThePlan
    <3>1. e.type = "plan" /\ Done.type = "done"
      BY <2>3, EventParts DEF ThePlan, Done
    <3>2. stage = "planner" /\ stage' = "tools" /\ UNCHANGED <<tokens, pipelineErr>> /\ emitted = {}
      BY <1>0, <2>3 DEF PlanMade, Stages
    <3> QED
      BY <1>0, <2>1, <2>2, <2>3, <3>1, <3>2 DEF Verdicts, Verdict
  <2>4. CASE Token /\ e = Chunk(tokens')
    <3>1. e.type = "writer_token" /\ Done.type = "done"
      BY <2>4, EventParts DEF Chunk, Done
    <3>2. stage = "writer" /\ stage' = "check" /\ tokens' = tokens + 1 /\ pipelineErr' = pipelineErr
          /\ tokens \in Nat
      BY <1>0, <2>4, CapAssumption DEF Token, TypeOK
    <3>3. (Sent("writer_token"))' = {Chunk(i) : i \in 1 .. tokens'}
      <4>1. 1 .. tokens' = (1 .. tokens) \cup {tokens'}
        BY <3>2
      <4> QED
        BY <1>0, <2>2, <2>4, <3>1, <4>1 DEF Verdicts
    <3>4. Done \notin emitted
      BY <1>0, <3>1, <3>2 DEF Verdicts, Verdict, Sent
    <3> QED
      BY <1>0, <2>1, <2>2, <2>4, <3>1, <3>2, <3>3, <3>4 DEF Verdicts, Verdict
  <2>5. CASE EmitVerdict /\ stage = "finish" /\ stage' = "done" /\ e = Done
    <3>1. e.type = "done"
      BY <2>5, EventParts DEF Done
    <3>2. answer' = "ok" /\ UNCHANGED <<tokens, pipelineErr>>
      BY <1>0, <2>5 DEF EmitVerdict, nodeVars, runVars, Stages
    <3> QED
      BY <1>0, <2>1, <2>2, <2>5, <3>1, <3>2 DEF Verdicts, Verdict
  <2>6. CASE EmitVerdict /\ stage = "error" /\ stage' = "failed" /\ e.type = "error"
    <3>1. UNCHANGED <<tokens, pipelineErr, answer>> /\ Done.type = "done"
      BY <2>6, EventParts DEF EmitVerdict, nodeVars, runVars, Done
    <3>2. Done \notin emitted
      BY <1>0, <2>6, <3>1 DEF Verdicts, Verdict, Sent
    <3> QED
      BY <1>0, <2>1, <2>2, <2>6, <3>1, <3>2 DEF Verdicts, Verdict
  <2>7. CASE e.type \in Steps \cup {"progress"} /\ stage \in {"run", "bridge"} /\ UNCHANGED engineVars
    <3>1. Done.type = "done"
      BY EventParts DEF Done
    <3>2. Done \notin emitted
      BY <1>0, <2>7, <3>1 DEF Verdicts, Verdict, Sent
    <3> QED
      BY <1>0, <2>1, <2>2, <2>7, <3>1, <3>2 DEF Verdicts, Verdict, Steps
  <2>8. Bridge => stage \in {"run", "bridge"} /\ UNCHANGED engineVars
    BY <1>0 DEF Bridge, Stages
  <2> QED
    BY <2>1, <2>3, <2>4, <2>5, <2>6, <2>7, <2>8
<1> QED
  BY <1>1, <1>2

-------------------------------------------------------------------------------
(* The channel to the bridge.                                              *)

LEMMA PosFacts ==
  ASSUME TypeOK, NEW e \in DagEvents, Sound(e)
  PROVE  /\ Pos(e) \in 1 .. Places
         /\ e.type # "cancelled" => Pos(e) < Places
<1>1. /\ MaxRetry \in Nat /\ attempts[e.id] \in 0 .. MaxRetry + 1 /\ e.k \in Nat /\ e.id \in Node
  BY CapAssumption DEF TypeOK, DagEvents
<1>2. CASE e.type = "cancelled"
  BY <1>1, <1>2 DEF Pos, Places
<1>3. CASE e.type # "cancelled"
  <2>1. e.k \in 1 .. attempts[e.id]
    BY <1>3 DEF Sound
  <2>2. e.k \in 1 .. MaxRetry + 1
    BY <1>1, <2>1
  <2> QED
    BY <1>1, <1>3, <2>2 DEF Pos, Places
<1> QED
  BY <1>2, <1>3

(* An event that comes after those of its subtask finds room.              *)
LEMMA SendOne ==
  ASSUME TypeOK, DagOrder, NEW e \in DagEvents, EmitDag(<<e>>), Pos(e) \in 1 .. Places,
         \A i \in 1 .. Len(dagEvents) : dagEvents[i].id = e.id => Pos(dagEvents[i]) < Pos(e)
  PROVE  /\ dagEvents' = Append(dagEvents, e) /\ dropped' = dropped /\ InOrder(dagEvents')
         /\ Len(dagEvents) \in Nat /\ Len(dagEvents') = Len(dagEvents) + 1
         /\ \A i \in 1 .. Len(dagEvents) : dagEvents'[i] = dagEvents[i]
         /\ dagEvents'[Len(dagEvents) + 1] = e
<1> DEFINE q == Append(dagEvents, e)
<1>1. /\ dagEvents \in Seq(DagEvents) /\ Len(dagEvents) \in Nat
      /\ \A i \in 1 .. Len(dagEvents) : dagEvents[i] \in DagEvents
  BY DEF TypeOK
<1>2. /\ q \in Seq(DagEvents) /\ Len(q) = Len(dagEvents) + 1
      /\ \A i \in 1 .. Len(dagEvents) : q[i] = dagEvents[i]
      /\ q[Len(dagEvents) + 1] = e
  BY <1>1, AppendProperties
<1>3. dagEvents \o <<e>> = q /\ Len(<<e>>) = 1 /\ <<e>> \in Seq(DagEvents)
  BY <1>1, ConcatOne
<1> HIDE DEF q
<1>4. \A i \in 1 .. Len(q) : i \in 1 .. Len(dagEvents) \/ i = Len(dagEvents) + 1
  BY <1>1, <1>2
<1>5. InOrder(q)
  <2> SUFFICES ASSUME NEW i \in 1 .. Len(q), NEW j \in 1 .. Len(q), i < j, q[i].id = q[j].id
               PROVE  Pos(q[i]) < Pos(q[j])
    BY DEF InOrder
  <2>1. CASE j \in 1 .. Len(dagEvents)
    BY <1>1, <1>2, <2>1 DEF DagOrder, InOrder
  <2>2. CASE j = Len(dagEvents) + 1
    <3>1. i \in 1 .. Len(dagEvents)
      BY <1>1, <2>2
    <3> QED
      BY <1>2, <2>2, <3>1
  <2> QED
    BY <1>4, <2>1, <2>2
<1>6. \A i \in 1 .. Len(q) : Pos(q[i]) \in 1 .. Places
  BY <1>1, <1>2, <1>4, PosFacts DEF DagOrder
<1>7. Len(q) <= DagEventCap
  BY <1>2, <1>5, <1>6, OrderedFits
<1>8. dagEvents' = q /\ dropped' = dropped
  BY <1>2, <1>3, <1>7, EmitDagFacts
<1> QED
  BY <1>1, <1>2, <1>5, <1>8 DEF q

(* So do those of the subtasks that are cancelled when the scheduler       *)
(* returns.                                                                *)
LEMMA SendCancelled ==
  ASSUME TypeOK, DagOrder, answer = "open", NEW S \in SUBSET Node,
         EmitDag(SetToSeq({Event("cancelled", n, 0) : n \in S}))
  PROVE  /\ dropped' = dropped /\ InOrder(dagEvents')
         /\ Len(dagEvents) \in Nat /\ Len(dagEvents') \in Nat /\ Len(dagEvents) <= Len(dagEvents')
         /\ \A i \in 1 .. Len(dagEvents) : dagEvents'[i] = dagEvents[i]
         /\ \A i \in Len(dagEvents) + 1 .. Len(dagEvents') : dagEvents'[i].type = "cancelled"
<1> DEFINE s == SetToSeq({Event("cancelled", n, 0) : n \in S})
           q == dagEvents \o s
<1>1. /\ dagEvents \in Seq(DagEvents) /\ Len(dagEvents) \in Nat
      /\ \A i \in 1 .. Len(dagEvents) : dagEvents[i] \in DagEvents
  BY DEF TypeOK
<1>2. /\ s \in Seq(DagEvents)
      /\ \A i \in 1 .. Len(s) : s[i].type = "cancelled"
      /\ \A i, j \in 1 .. Len(s) : s[i].id = s[j].id => i = j
  BY CancelledFacts
<1>3. EmitDag(s)
  OBVIOUS
<1> HIDE DEF s
<1>4. /\ q \in Seq(DagEvents) /\ Len(q) = Len(dagEvents) + Len(s) /\ Len(s) \in Nat
      /\ \A i \in 1 .. Len(dagEvents) + Len(s) :
           q[i] = IF i <= Len(dagEvents) THEN dagEvents[i] ELSE s[i - Len(dagEvents)]
  BY <1>1, <1>2, ConcatProperties
<1> HIDE DEF q
<1>5. /\ \A i \in 1 .. Len(dagEvents) : q[i] = dagEvents[i]
      /\ \A i \in Len(dagEvents) + 1 .. Len(q) :
           i - Len(dagEvents) \in 1 .. Len(s) /\ q[i] = s[i - Len(dagEvents)]
  BY <1>1, <1>4
<1>6. \A i \in 1 .. Len(dagEvents) : Pos(q[i]) \in 1 .. Places /\ Pos(q[i]) < Places
  BY <1>1, <1>5, PosFacts DEF DagOrder, Sound
<1>7. \A i \in Len(dagEvents) + 1 .. Len(q) : q[i].type = "cancelled" /\ Pos(q[i]) = Places
  BY <1>2, <1>5 DEF Pos
<1>8. InOrder(q)
  <2>0. SUFFICES ASSUME NEW i \in 1 .. Len(q), NEW j \in 1 .. Len(q), i < j, q[i].id = q[j].id
                 PROVE  Pos(q[i]) < Pos(q[j])
    BY DEF InOrder
  <2>1. CASE j \in 1 .. Len(dagEvents)
    BY <1>1, <1>5, <2>0, <2>1 DEF DagOrder, InOrder
  <2>2. CASE j \notin 1 .. Len(dagEvents) /\ i \in 1 .. Len(dagEvents)
    BY <1>1, <1>4, <1>6, <1>7, <2>0, <2>2
  <2>3. CASE j \notin 1 .. Len(dagEvents) /\ i \notin 1 .. Len(dagEvents)
    <3>1. i \in Len(dagEvents) + 1 .. Len(q) /\ j \in Len(dagEvents) + 1 .. Len(q)
      BY <1>1, <1>4, <2>0, <2>3
    <3>2. i - Len(dagEvents) = j - Len(dagEvents)
      <4>1. /\ i - Len(dagEvents) \in 1 .. Len(s) /\ q[i] = s[i - Len(dagEvents)]
            /\ j - Len(dagEvents) \in 1 .. Len(s) /\ q[j] = s[j - Len(dagEvents)]
        BY <1>5, <3>1
      <4>2. s[i - Len(dagEvents)].id = s[j - Len(dagEvents)].id
        BY <2>0, <4>1
      <4> QED
        BY <1>2, <4>1, <4>2, Zenon
    <3>3. \A a, b, c \in Int : a - c = b - c => ~ a < b
      OBVIOUS
    <3>4. i \in Int /\ j \in Int /\ Len(dagEvents) \in Int
      BY <1>1, <3>1
    <3> QED
      BY <2>0, <3>2, <3>3, <3>4, Zenon
  <2> QED
    BY <2>1, <2>2, <2>3
<1>9. \A i \in 1 .. Len(q) : Pos(q[i]) \in 1 .. Places
  <2>1. \A i \in 1 .. Len(q) : i \in 1 .. Len(dagEvents) \/ i \in Len(dagEvents) + 1 .. Len(q)
    BY <1>1, <1>4
  <2>2. Places \in 1 .. Places
    BY CapAssumption DEF Places
  <2> QED
    BY <1>6, <1>7, <2>1, <2>2
<1>10. Len(q) <= DagEventCap
  BY <1>4, <1>8, <1>9, OrderedFits
<1>11. dagEvents' = q /\ dropped' = dropped
  BY <1>2, <1>3, <1>4, <1>10, EmitDagFacts DEF q
<1> QED
  BY <1>1, <1>4, <1>5, <1>7, <1>8, <1>11

(* What a subtask's attempt appends to dagEvents when it begins and ends.  *)
LEMMA StartNodeFacts ==
  ASSUME IInv, NEW n \in Node, StartNode(n)
  PROVE  LET e == Event("started", n, attempts[n] + 1)
         IN  /\ stage = "run" /\ answer = "open" /\ attempts[n] \in 0 .. MaxRetry
             /\ ran[n] \in {"uncalled", "bad"} /\ (\A d \in deps[n] : ran[d] = "ok")
             /\ ran' = [ran EXCEPT ![n] = "running"]
             /\ attempts' = [attempts EXCEPT ![n] = @ + 1]
             /\ UNCHANGED <<deps, answer, engineVars, eventChan>>
             /\ dagEvents' = Append(dagEvents, e) /\ dropped' = dropped /\ InOrder(dagEvents')
             /\ Len(dagEvents) \in Nat /\ Len(dagEvents') = Len(dagEvents) + 1
             /\ \A i \in 1 .. Len(dagEvents) : dagEvents'[i] = dagEvents[i]
             /\ dagEvents'[Len(dagEvents) + 1] = e
<1> DEFINE e == Event("started", n, attempts[n] + 1)
<1>1. TypeOK /\ DagOrder
  BY DEF IInv
<1>2. /\ stage = "run" /\ answer = "open" /\ attempts[n] <= MaxRetry
      /\ ran[n] \in {"uncalled", "bad"} /\ (\A d \in deps[n] : ran[d] = "ok")
      /\ ran' = [ran EXCEPT ![n] = "running"]
      /\ attempts' = [attempts EXCEPT ![n] = @ + 1]
      /\ UNCHANGED <<deps, answer, engineVars, eventChan>>
      /\ EmitDag(<<Event("started", n, attempts'[n])>>)
  BY DEF StartNode, Call, MayTry
<1>3. attempts[n] \in 0 .. MaxRetry /\ attempts'[n] = attempts[n] + 1 /\ MaxRetry \in Nat
  BY <1>1, <1>2, CapAssumption DEF TypeOK
<1>4. e \in DagEvents /\ e.type = "started" /\ e.id = n /\ e.k = attempts[n] + 1
  BY <1>3, DagEventType, EventParts
<1> HIDE DEF e
<1>5. EmitDag(<<e>>)
  BY <1>2, <1>3 DEF e
<1>6. Pos(e) = 2 * attempts[n] + 1 /\ Pos(e) \in 1 .. Places
  BY <1>3, <1>4 DEF Pos, Places
<1>7. ASSUME NEW i \in 1 .. Len(dagEvents), dagEvents[i].id = n PROVE Pos(dagEvents[i]) < Pos(e)
  <2>1. Sound(dagEvents[i]) /\ dagEvents[i] \in DagEvents
    BY <1>1 DEF DagOrder, TypeOK
  <2>2. Pos(dagEvents[i]) <= LastPos(n) /\ Pos(dagEvents[i]) \in 1 .. Places
    BY <1>1, <1>2, <1>7, <2>1, PosFacts DEF Sound
  <2> QED
    BY <1>2, <1>3, <1>6, <2>2 DEF LastPos
<1> QED
  BY <1>1, <1>2, <1>3, <1>4, <1>5, <1>6, <1>7, SendOne DEF e

LEMMA EndNodeFacts ==
  ASSUME IInv, NEW n \in Node, EndNode(n)
  PROVE  \E t \in {"succeeded", "failed", "retrying"} :
         LET e == Event(t, n, attempts[n])
         IN  /\ ran[n] = "running" /\ stage = "run" /\ answer = "open"
             /\ attempts[n] \in 1 .. MaxRetry + 1
             /\ \/ t = "succeeded" /\ ran' = [ran EXCEPT ![n] = "ok"]
                \/ t # "succeeded" /\ ran' = [ran EXCEPT ![n] = "bad"]
             /\ t = "failed" => attempts[n] > MaxRetry
             /\ UNCHANGED <<deps, answer, attempts, engineVars, eventChan>>
             /\ dagEvents' = Append(dagEvents, e) /\ dropped' = dropped /\ InOrder(dagEvents')
             /\ Len(dagEvents) \in Nat /\ Len(dagEvents') = Len(dagEvents) + 1
             /\ \A i \in 1 .. Len(dagEvents) : dagEvents'[i] = dagEvents[i]
             /\ dagEvents'[Len(dagEvents) + 1] = e
<1>1. TypeOK /\ DagOrder /\ Stages
  BY DEF IInv
<1>2. ran[n] = "running" /\ stage = "run" /\ answer = "open"
  BY <1>1 DEF EndNode, End, Stages
<1>3. attempts[n] \in 1 .. MaxRetry + 1 /\ MaxRetry \in Nat
  BY <1>1, <1>2, CapAssumption DEF DagOrder, TypeOK
<1>4. PICK o \in {"ok", "bad"} : ran' = [ran EXCEPT ![n] = o]
  BY DEF EndNode, End
<1>5. ran'[n] = o
  BY <1>1, <1>4 DEF TypeOK
<1> DEFINE t == IF ran'[n] = "ok" THEN "succeeded" ELSE FailureEvent(n)
           e == Event(t, n, attempts[n])
<1>6. /\ t \in {"succeeded", "failed", "retrying"}
      /\ \/ t = "succeeded" /\ ran' = [ran EXCEPT ![n] = "ok"]
         \/ t # "succeeded" /\ ran' = [ran EXCEPT ![n] = "bad"]
      /\ t = "failed" => attempts[n] > MaxRetry
  BY <1>4, <1>5 DEF FailureEvent
<1>7. EmitDag(<<e>>) /\ UNCHANGED <<deps, answer, attempts, engineVars, eventChan>>
  BY DEF EndNode, End
<1> HIDE DEF t
<1>8. e \in DagEvents /\ e.type = t /\ e.id = n /\ e.k = attempts[n]
  BY <1>3, <1>6, DagEventType, EventParts
<1> HIDE DEF e
<1>9. Pos(e) = 2 * attempts[n] /\ Pos(e) \in 1 .. Places
  BY <1>3, <1>6, <1>8 DEF Pos, Places
<1>10. ASSUME NEW i \in 1 .. Len(dagEvents), dagEvents[i].id = n PROVE Pos(dagEvents[i]) < Pos(e)
  <2>1. Sound(dagEvents[i]) /\ dagEvents[i] \in DagEvents
    BY <1>1 DEF DagOrder, TypeOK
  <2>2. Pos(dagEvents[i]) <= LastPos(n) /\ Pos(dagEvents[i]) \in 1 .. Places
    BY <1>1, <1>2, <1>10, <2>1, PosFacts DEF Sound
  <2> QED
    BY <1>2, <1>3, <1>9, <2>2 DEF LastPos
<1>11. /\ dagEvents' = Append(dagEvents, e) /\ dropped' = dropped /\ InOrder(dagEvents')
       /\ Len(dagEvents) \in Nat /\ Len(dagEvents') = Len(dagEvents) + 1
       /\ \A i \in 1 .. Len(dagEvents) : dagEvents'[i] = dagEvents[i]
       /\ dagEvents'[Len(dagEvents) + 1] = e
  BY <1>1, <1>7, <1>8, <1>9, <1>10, SendOne
<1> QED
  BY <1>2, <1>3, <1>6, <1>7, <1>11 DEF e

LEMMA SchedulerReturnsFacts ==
  ASSUME IInv, SchedulerReturns
  PROVE  /\ stage = "run" /\ stage' = "bridge" /\ answer = "open" /\ answer' \in {"ok", "error"}
         /\ \A n \in Node : ran[n] # "running"
         /\ answer' = "ok" => \A n \in Node : ran[n] = "ok"
         /\ UNCHANGED <<deps, ran, attempts, tokens, pipelineErr, eventChan>>
         /\ dropped' = dropped /\ InOrder(dagEvents')
         /\ Len(dagEvents) \in Nat /\ Len(dagEvents') \in Nat /\ Len(dagEvents) <= Len(dagEvents')
         /\ \A i \in 1 .. Len(dagEvents) : dagEvents'[i] = dagEvents[i]
         /\ \A i \in Len(dagEvents) + 1 .. Len(dagEvents') : dagEvents'[i].type = "cancelled"
<1>1. TypeOK /\ DagOrder
  BY DEF IInv
<1>2. /\ stage = "run" /\ stage' = "bridge" /\ answer = "open" /\ answer' \in {"ok", "error"}
      /\ \A n \in Node : ran[n] # "running"
      /\ answer' = "ok" => \A n \in Node : ran[n] = "ok"
      /\ UNCHANGED <<deps, ran, attempts, tokens, pipelineErr, eventChan>>
  BY DEF SchedulerReturns, Answer, GoTo
<1>3. Len(dagEvents) \in Nat
  BY <1>1 DEF TypeOK
<1>4. CASE UNCHANGED dagChan
  BY <1>1, <1>2, <1>3, <1>4 DEF dagChan, DagOrder
<1>5. CASE \E S \in SUBSET Node : EmitDag(SetToSeq({Event("cancelled", n, 0) : n \in S}))
  BY <1>1, <1>2, <1>5, SendCancelled
<1> QED
  BY <1>4, <1>5 DEF SchedulerReturns

LEMMA DagOrderInit == Init => DagOrder
<1> SUFFICES ASSUME Init PROVE DagOrder
  OBVIOUS
<1>1. dropped = FALSE /\ dagEvents = <<>> /\ Len(dagEvents) = 0
  BY DEF Init
<1>2. \A n \in Node : ran[n] = "uncalled" /\ attempts[n] = 0
  BY DEF Init, RunInit
<1> QED
  BY <1>1, <1>2 DEF DagOrder, InOrder

LEMMA DagOrderStep ==
  ASSUME IInv, [Next]_vars
  PROVE  DagOrder'
<1>0. /\ TypeOK /\ DagOrder
      /\ \A i \in 1 .. Len(dagEvents) : dagEvents[i] \in DagEvents /\ dagEvents[i].id \in Node
                                        /\ dagEvents[i].k \in Nat
  <2>1. TypeOK /\ DagOrder /\ \A i \in 1 .. Len(dagEvents) : dagEvents[i] \in DagEvents
    BY DEF IInv, TypeOK
  <2> QED
    BY <2>1 DEF DagEvents
<1>1. CASE UNCHANGED <<runVars, attempts, dagChan>>
  BY <1>0, <1>1 DEF DagOrder, InOrder, Sound, Exhausted, LastPos, Pos, runVars, dagChan
<1>2. CASE SchedulerReturns
  <2>1. \A i \in 1 .. Len(dagEvents) : (Sound(dagEvents[i]))'
    BY <1>0, <1>2, SchedulerReturnsFacts DEF DagOrder, Sound, LastPos, Pos, Exhausted
  <2>2. \A i \in Len(dagEvents) + 1 .. Len(dagEvents') : (Sound(dagEvents[i]))'
    BY <1>2, SchedulerReturnsFacts DEF Sound
  <2>3. \A i \in 1 .. Len(dagEvents') :
          i \in 1 .. Len(dagEvents) \/ i \in Len(dagEvents) + 1 .. Len(dagEvents')
    BY <1>2, SchedulerReturnsFacts
  <2> QED
    BY <1>0, <1>2, <2>1, <2>2, <2>3, SchedulerReturnsFacts DEF DagOrder
<1>3. CASE Bridge
  <2>1. /\ dagEvents # <<>> /\ dagEvents' = Tail(dagEvents)
        /\ UNCHANGED <<deps, ran, attempts, answer, dropped>>
    BY <1>0, <1>3, BridgeFacts DEF nodeVars, runVars
  <2>2. /\ Len(dagEvents) \in Nat \ {0} /\ Len(dagEvents') = Len(dagEvents) - 1
        /\ \A i \in 1 .. Len(dagEvents') : dagEvents'[i] = dagEvents[i + 1] /\ i + 1 \in 1 .. Len(dagEvents)
    BY <1>0, <2>1, Heads
  <2>3. InOrder(dagEvents')
    BY <1>0, <2>2 DEF DagOrder, InOrder
  <2>4. \A i \in 1 .. Len(dagEvents') : (Sound(dagEvents[i]))'
    BY <1>0, <2>1, <2>2 DEF DagOrder, Sound, LastPos, Pos, Exhausted
  <2> QED
    BY <1>0, <2>1, <2>3, <2>4 DEF DagOrder
<1>4. ASSUME NEW n \in Node, StartNode(n) PROVE DagOrder'
  <2> DEFINE e == Event("started", n, attempts[n] + 1)
  <2>1. /\ answer = "open" /\ attempts[n] \in Nat /\ attempts[n] <= MaxRetry
        /\ ran[n] \in {"uncalled", "bad"}
        /\ ran' = [ran EXCEPT ![n] = "running"] /\ attempts' = [attempts EXCEPT ![n] = @ + 1]
        /\ answer' = answer /\ dropped' = dropped /\ InOrder(dagEvents')
        /\ Len(dagEvents) \in Nat /\ Len(dagEvents') = Len(dagEvents) + 1
        /\ \A i \in 1 .. Len(dagEvents) : dagEvents'[i] = dagEvents[i]
        /\ dagEvents'[Len(dagEvents) + 1] = e
    BY <1>4, StartNodeFacts
  <2>2. /\ attempts'[n] = attempts[n] + 1 /\ ran'[n] = "running"
        /\ \A m \in Node \ {n} : attempts'[m] = attempts[m] /\ ran'[m] = ran[m]
    BY <1>0, <2>1 DEF TypeOK
  <2>3. \A i \in 1 .. Len(dagEvents) : (Sound(dagEvents[i]))'
    <3> TAKE i \in 1 .. Len(dagEvents)
    <3>1. /\ Sound(dagEvents[i]) /\ dagEvents'[i] = dagEvents[i] /\ dagEvents[i].type # "cancelled"
          /\ dagEvents[i].id \in Node
      BY <1>0, <2>1 DEF DagOrder, Sound
    <3>2. CASE dagEvents[i].id # n
      BY <2>1, <2>2, <3>1, <3>2 DEF Sound, LastPos, Pos, Exhausted
    <3>3. CASE dagEvents[i].id = n
      <4>1. dagEvents[i].type \notin {"succeeded", "failed"}
        BY <2>1, <3>1, <3>3, CapAssumption DEF Sound, Exhausted
      <4>2. dagEvents[i].k \in 1 .. attempts[n] /\ Pos(dagEvents[i]) <= 2 * attempts[n]
        BY <2>1, <3>1, <3>3 DEF Sound, LastPos
      <4>3. Pos(dagEvents[i]) \in Int
        BY <1>0, <3>1, PosFacts
      <4> QED
        BY <2>1, <2>2, <3>1, <3>3, <4>1, <4>2, <4>3 DEF Sound, LastPos, Pos
    <3> QED
      BY <3>2, <3>3
  <2>4. ASSUME NEW i, i = Len(dagEvents) + 1 PROVE (Sound(dagEvents[i]))'
    <3>1. /\ dagEvents'[i].type = "started" /\ dagEvents'[i].id = n
          /\ dagEvents'[i].k = attempts'[n] /\ attempts'[n] \in Nat \ {0}
      BY <2>1, <2>2, <2>4, EventParts
    <3> QED
      BY <2>2, <3>1 DEF Sound, LastPos, Pos
  <2>5. \A i \in 1 .. Len(dagEvents') : i \in 1 .. Len(dagEvents) \/ i = Len(dagEvents) + 1
    BY <2>1
  <2>6. \A m \in Node : ran'[m] # "uncalled" <=> attempts'[m] > 0
    BY <1>0, <2>1, <2>2 DEF DagOrder
  <2> QED
    BY <1>0, <2>1, <2>3, <2>4, <2>5, <2>6 DEF DagOrder
<1>5. ASSUME NEW n \in Node, EndNode(n) PROVE DagOrder'
  <2>1. PICK t \in {"succeeded", "failed", "retrying"} :
         /\ ran[n] = "running" /\ answer = "open" /\ attempts[n] \in 1 .. MaxRetry + 1
         /\ \/ t = "succeeded" /\ ran' = [ran EXCEPT ![n] = "ok"]
            \/ t # "succeeded" /\ ran' = [ran EXCEPT ![n] = "bad"]
         /\ t = "failed" => attempts[n] > MaxRetry
         /\ answer' = answer /\ attempts' = attempts /\ dropped' = dropped /\ InOrder(dagEvents')
         /\ Len(dagEvents) \in Nat /\ Len(dagEvents') = Len(dagEvents) + 1
         /\ \A i \in 1 .. Len(dagEvents) : dagEvents'[i] = dagEvents[i]
         /\ dagEvents'[Len(dagEvents) + 1] = Event(t, n, attempts[n])
    BY <1>5, EndNodeFacts
  <2>2. /\ ran'[n] = IF t = "succeeded" THEN "ok" ELSE "bad"
        /\ \A m \in Node \ {n} : ran'[m] = ran[m]
    BY <1>0, <2>1 DEF TypeOK
  <2>3. \A i \in 1 .. Len(dagEvents) : (Sound(dagEvents[i]))'
    <3> TAKE i \in 1 .. Len(dagEvents)
    <3>1. /\ Sound(dagEvents[i]) /\ dagEvents'[i] = dagEvents[i] /\ dagEvents[i].type # "cancelled"
          /\ dagEvents[i].id \in Node
      BY <1>0, <2>1 DEF DagOrder, Sound
    <3>2. CASE dagEvents[i].id # n
      BY <2>1, <2>2, <3>1, <3>2 DEF Sound, LastPos, Pos, Exhausted
    <3>3. CASE dagEvents[i].id = n
      <4>1. dagEvents[i].type \notin {"succeeded", "failed"}
        BY <2>1, <3>1, <3>3 DEF Sound, Exhausted
      <4>2. dagEvents[i].k \in 1 .. attempts[n] /\ Pos(dagEvents[i]) <= 2 * attempts[n] - 1
        BY <2>1, <3>1, <3>3 DEF Sound, LastPos
      <4>3. Pos(dagEvents[i]) \in Int
        BY <1>0, <3>1, PosFacts
      <4> QED
        BY <2>1, <2>2, <3>1, <3>3, <4>1, <4>2, <4>3 DEF Sound, LastPos, Pos
    <3> QED
      BY <3>2, <3>3
  <2>4. ASSUME NEW i, i = Len(dagEvents) + 1 PROVE (Sound(dagEvents[i]))'
    <3>1. /\ dagEvents'[i].type = t /\ dagEvents'[i].id = n
          /\ dagEvents'[i].k = attempts'[n] /\ attempts'[n] \in Nat \ {0}
      BY <2>1, <2>2, <2>4, EventParts
    <3> QED
      BY <2>1, <2>2, <3>1 DEF Sound, LastPos, Pos, Exhausted
  <2>5. \A i \in 1 .. Len(dagEvents') : i \in 1 .. Len(dagEvents) \/ i = Len(dagEvents) + 1
    BY <2>1
  <2>6. \A m \in Node : ran'[m] # "uncalled" <=> attempts'[m] > 0
    BY <1>0, <2>1, <2>2 DEF DagOrder
  <2> QED
    BY <1>0, <2>1, <2>3, <2>4, <2>5, <2>6 DEF DagOrder
<1> QED
  BY <1>1, <1>2, <1>3, <1>4, <1>5, NodeFrame

-------------------------------------------------------------------------------
(* What the client was told.                                               *)

LEMMA AnnouncedInit == Init => Announced
<1> SUFFICES ASSUME Init PROVE Announced
  OBVIOUS
<1>1. dagEvents = <<>> /\ Len(dagEvents) = 0 /\ \A n \in Node : ran[n] = "uncalled"
  BY DEF Init, RunInit
<1> QED
  BY <1>1 DEF Announced, Told

(* Longer channels and more events tell no less.                           *)
LEMMA KnownGrows ==
  ASSUME Len(dagEvents) \in Nat, Len(dagEvents') \in Nat, Len(dagEvents) <= Len(dagEvents'),
         \A i \in 1 .. Len(dagEvents) : dagEvents'[i] = dagEvents[i],
         emitted \subseteq emitted'
  PROVE  \A m \in 0 .. Len(dagEvents) :
           /\ \A n, k : StartKnown(n, k, m) => (StartKnown(n, k, m))'
           /\ \A n : SuccessKnown(n, m) => (SuccessKnown(n, m))'
           /\ \A n, k : StartKnown(n, k, m) => (StartKnown(n, k, Len(dagEvents)))'
           /\ \A n : SuccessKnown(n, m) => (SuccessKnown(n, Len(dagEvents)))'
<1>1. \A n : Finished(n) => Finished(n)'
  BY DEF Finished, Sent
<1>2. \A m \in 0 .. Len(dagEvents) : \A j \in 1 .. m :
        j \in 1 .. Len(dagEvents) /\ j \in 1 .. Len(dagEvents')
  OBVIOUS
<1> QED
  BY <1>1, <1>2 DEF StartKnown, SuccessKnown

(* What the bridge takes from dagEvents it tells.                          *)
LEMMA KnownMoves ==
  ASSUME IInv, Bridge
  PROVE  /\ Len(dagEvents) \in Nat \ {0} /\ Len(dagEvents') = Len(dagEvents) - 1
         /\ \A i \in 1 .. Len(dagEvents') : dagEvents'[i] = dagEvents[i + 1]
         /\ \A m \in 1 .. Len(dagEvents) :
              /\ \A n, k : StartKnown(n, k, m) => (StartKnown(n, k, m - 1))'
              /\ \A n : SuccessKnown(n, m) => (SuccessKnown(n, m - 1))'
<1> DEFINE de == dagEvents[1]
           e == Event(Translation[de.type], de.id, de.k)
<1>1. TypeOK
  BY DEF IInv
<1>2. /\ dagEvents # <<>> /\ dagEvents' = Tail(dagEvents)
      /\ de.type \in {"started", "succeeded", "failed"} => emitted' = emitted \cup {e}
      /\ de.type = "started" => e = Event("node_started", de.id, de.k)
      /\ de.type = "succeeded" => e = Event("node_finished", de.id, de.k)
      /\ emitted \subseteq emitted'
  BY <1>1, BridgeFacts DEF Emit, eventChan
<1>3. /\ Len(dagEvents) \in Nat \ {0} /\ Len(dagEvents') = Len(dagEvents) - 1
      /\ \A i \in 1 .. Len(dagEvents') : dagEvents'[i] = dagEvents[i + 1]
  BY <1>1, <1>2, Heads
<1>4. ASSUME NEW m \in 1 .. Len(dagEvents), NEW j \in 1 .. m, j # 1
      PROVE  j - 1 \in 1 .. m - 1 /\ dagEvents'[j - 1] = dagEvents[j]
  BY <1>3, <1>4
<1>5. ASSUME NEW m \in 1 .. Len(dagEvents), NEW n, NEW k, StartKnown(n, k, m)
      PROVE  (StartKnown(n, k, m - 1))'
  <2>1. CASE Event("node_started", n, k) \in emitted
    BY <1>2, <2>1 DEF StartKnown
  <2>2. CASE \E j \in 1 .. m : dagEvents[j] = Event("started", n, k)
    <3>1. PICK j \in 1 .. m : dagEvents[j] = Event("started", n, k)
      BY <2>2
    <3>2. CASE j = 1
      <4>1. de.type = "started" /\ de.id = n /\ de.k = k
        BY <3>1, <3>2, EventParts
      <4> QED
        BY <1>2, <4>1 DEF StartKnown
    <3>3. CASE j # 1
      BY <1>4, <3>1, <3>3 DEF StartKnown
    <3> QED
      BY <3>2, <3>3
  <2> QED
    BY <1>5, <2>1, <2>2 DEF StartKnown
<1>6. ASSUME NEW m \in 1 .. Len(dagEvents), NEW n, SuccessKnown(n, m)
      PROVE  (SuccessKnown(n, m - 1))'
  <2>1. CASE Finished(n)
    BY <1>2, <2>1 DEF SuccessKnown, Finished, Sent
  <2>2. CASE \E j \in 1 .. m : dagEvents[j].type = "succeeded" /\ dagEvents[j].id = n
    <3>1. PICK j \in 1 .. m : dagEvents[j].type = "succeeded" /\ dagEvents[j].id = n
      BY <2>2
    <3>2. CASE j = 1
      <4>1. e \in emitted' /\ e.type = "node_finished" /\ e.id = n
        BY <1>2, <3>1, <3>2, EventParts
      <4> QED
        BY <4>1 DEF SuccessKnown, Finished, Sent
    <3>3. CASE j # 1
      BY <1>4, <3>1, <3>3 DEF SuccessKnown
    <3> QED
      BY <3>2, <3>3
  <2> QED
    BY <1>6, <2>1, <2>2 DEF SuccessKnown
<1> QED
  BY <1>3, <1>5, <1>6

LEMMA OldAnnounced ==
  ASSUME Announced, deps' = deps, Len(dagEvents) \in Nat, Len(dagEvents') \in Nat,
         Len(dagEvents) <= Len(dagEvents'),
         \A i \in 1 .. Len(dagEvents) : dagEvents'[i] = dagEvents[i],
         emitted \subseteq emitted'
  PROVE  /\ \A i \in 1 .. Len(dagEvents) : (Preceded(i))'
         /\ \A n \in Node : ran'[n] = ran[n] /\ attempts'[n] = attempts[n] => (Told(n))'
<1>1. ASSUME NEW i \in 1 .. Len(dagEvents) PROVE (Preceded(i))'
  <2>1. i - 1 \in 0 .. Len(dagEvents) /\ dagEvents'[i] = dagEvents[i] /\ Preceded(i)
    BY DEF Announced
  <2> QED
    BY <2>1, KnownGrows DEF Preceded
<1>2. ASSUME NEW n \in Node, ran'[n] = ran[n], attempts'[n] = attempts[n] PROVE (Told(n))'
  <2>1. Len(dagEvents) \in 0 .. Len(dagEvents) /\ Told(n)
    BY DEF Announced
  <2> QED
    BY <1>2, <2>1, KnownGrows DEF Told
<1> QED
  BY <1>1, <1>2

LEMMA AnnouncedStep ==
  ASSUME IInv, [Next]_vars
  PROVE  Announced'
<1>0. /\ TypeOK /\ Announced /\ Len(dagEvents) \in Nat /\ emitted \subseteq emitted'
  BY Sending DEF IInv, TypeOK
<1>1. CASE UNCHANGED <<runVars, attempts, dagChan>>
  <2>1. UNCHANGED <<ran, attempts, deps, dagEvents>>
    BY <1>1 DEF runVars, dagChan
  <2> QED
    BY <1>0, <2>1, OldAnnounced DEF Announced
<1>2. CASE SchedulerReturns
  <2>1. /\ \A i \in 1 .. Len(dagEvents) : (Preceded(i))'
        /\ \A n \in Node : (Told(n))'
    BY <1>0, <1>2, SchedulerReturnsFacts, OldAnnounced
  <2>2. \A i \in Len(dagEvents) + 1 .. Len(dagEvents') : (Preceded(i))'
    BY <1>2, SchedulerReturnsFacts DEF Preceded
  <2>3. \A i \in 1 .. Len(dagEvents') :
          i \in 1 .. Len(dagEvents) \/ i \in Len(dagEvents) + 1 .. Len(dagEvents')
    BY <1>2, SchedulerReturnsFacts
  <2> QED
    BY <2>1, <2>2, <2>3 DEF Announced
<1>3. CASE Bridge
  <2>1. UNCHANGED <<deps, ran, attempts>>
    BY <1>3 DEF Bridge, nodeVars, runVars
  <2>2. ASSUME NEW n \in Node PROVE (Told(n))'
    <3>1. Told(n) /\ Len(dagEvents) \in 1 .. Len(dagEvents) /\ Len(dagEvents') = Len(dagEvents) - 1
      BY <1>0, <1>3, KnownMoves DEF Announced
    <3> QED
      BY <1>3, <2>1, <3>1, KnownMoves DEF Told
  <2>3. ASSUME NEW i \in 1 .. Len(dagEvents') PROVE (Preceded(i))'
    <3>1. /\ i + 1 \in 1 .. Len(dagEvents) /\ i \in 1 .. Len(dagEvents)
          /\ dagEvents'[i] = dagEvents[i + 1] /\ (i + 1) - 1 = i
      BY <1>3, <2>3, KnownMoves
    <3>2. Preceded(i + 1)
      BY <1>0, <3>1 DEF Announced
    <3> QED
      BY <1>3, <2>1, <3>1, <3>2, KnownMoves DEF Preceded
  <2> QED
    BY <2>2, <2>3 DEF Announced
<1>4. ASSUME NEW n \in Node, StartNode(n) PROVE Announced'
  <2> DEFINE L == Len(dagEvents)
             e == Event("started", n, attempts[n] + 1)
  <2>1. /\ ran' = [ran EXCEPT ![n] = "running"] /\ attempts' = [attempts EXCEPT ![n] = @ + 1]
        /\ \A d \in deps[n] : ran[d] = "ok"
        /\ deps' = deps /\ Len(dagEvents') = L + 1 /\ L \in Nat
        /\ \A i \in 1 .. L : dagEvents'[i] = dagEvents[i]
        /\ dagEvents'[L + 1] = e
    BY <1>4, StartNodeFacts
  <2>2. /\ \A i \in 1 .. L : (Preceded(i))'
        /\ \A m \in Node \ {n} : (Told(m))'
    <3>1. \A m \in Node \ {n} : ran'[m] = ran[m] /\ attempts'[m] = attempts[m]
      BY <1>0, <2>1 DEF TypeOK
    <3> QED
      BY <1>0, <2>1, <3>1, OldAnnounced
  <2>3. (Told(n))'
    <3>1. ran'[n] = "running" /\ attempts'[n] = attempts[n] + 1 /\ L + 1 \in 1 .. Len(dagEvents')
      BY <1>0, <2>1 DEF TypeOK
    <3> QED
      BY <2>1, <3>1 DEF Told, StartKnown
  <2>4. ASSUME NEW i, i = L + 1 PROVE (Preceded(i))'
    <3>1. dagEvents'[i].type = "started" /\ dagEvents'[i].id = n
      BY <2>1, <2>4, EventParts
    <3>2. ASSUME NEW d \in deps[n] PROVE (SuccessKnown(d, i - 1))'
      <4>1. d \in Node /\ ran[d] = "ok"
        BY <1>0, <2>1 DEF TypeOK
      <4>2. SuccessKnown(d, L)
        BY <1>0, <4>1 DEF Announced, Told
      <4>3. i - 1 = L /\ L \in 0 .. L
        BY <2>1, <2>4
      <4> QED
        BY <1>0, <2>1, <4>2, <4>3, KnownGrows
    <3> QED
      BY <2>1, <3>1, <3>2 DEF Preceded
  <2>5. \A i \in 1 .. Len(dagEvents') : i \in 1 .. L \/ i = L + 1
    BY <2>1
  <2> QED
    BY <2>2, <2>3, <2>4, <2>5 DEF Announced
<1>5. ASSUME NEW n \in Node, EndNode(n) PROVE Announced'
  <2> DEFINE L == Len(dagEvents)
  <2>1. PICK t \in {"succeeded", "failed", "retrying"} :
          /\ ran[n] = "running"
          /\ \/ t = "succeeded" /\ ran' = [ran EXCEPT ![n] = "ok"]
             \/ t # "succeeded" /\ ran' = [ran EXCEPT ![n] = "bad"]
          /\ attempts' = attempts /\ deps' = deps /\ Len(dagEvents') = L + 1 /\ L \in Nat
          /\ \A i \in 1 .. L : dagEvents'[i] = dagEvents[i]
          /\ dagEvents'[L + 1] = Event(t, n, attempts[n])
    BY <1>5, EndNodeFacts
  <2>2. /\ \A i \in 1 .. L : (Preceded(i))'
        /\ \A m \in Node \ {n} : (Told(m))'
    BY <1>0, <2>1, OldAnnounced DEF TypeOK
  <2>3. (Told(n))'
    <3>1. ran'[n] # "running" /\ (ran'[n] = "ok" => t = "succeeded")
      BY <1>0, <2>1 DEF TypeOK
    <3>2. L + 1 \in 1 .. Len(dagEvents') /\ dagEvents'[L + 1].type = t /\ dagEvents'[L + 1].id = n
      BY <2>1, EventParts
    <3> QED
      BY <3>1, <3>2 DEF Told, SuccessKnown
  <2>4. ASSUME NEW i, i = L + 1 PROVE (Preceded(i))'
    <3>1. dagEvents'[i].type = t /\ dagEvents'[i].id = n /\ dagEvents'[i].k = attempts[n]
      BY <2>1, <2>4, EventParts
    <3>2. StartKnown(n, attempts[n], L) /\ i - 1 = L /\ L \in 0 .. L
      BY <1>0, <2>1, <2>4 DEF Announced, Told
    <3>3. (StartKnown(dagEvents[i].id, dagEvents[i].k, i - 1))'
      BY <1>0, <2>1, <3>1, <3>2, KnownGrows
    <3> QED
      BY <2>1, <3>1, <3>3 DEF Preceded
  <2>5. \A i \in 1 .. Len(dagEvents') : i \in 1 .. L \/ i = L + 1
    BY <2>1
  <2> QED
    BY <2>2, <2>3, <2>4, <2>5 DEF Announced
<1> QED
  BY <1>1, <1>2, <1>3, <1>4, <1>5, NodeFrame

-------------------------------------------------------------------------------
(* The channel to the handler.                                             *)

LEMMA StreamedInit == Init => Streamed
<1> SUFFICES ASSUME Init PROVE Streamed
  OBVIOUS
<1>1. events = <<>> /\ Len(events) = 0 /\ emitted = {}
  BY DEF Init
<1> QED
  BY <1>1 DEF Streamed

(* The scheduler never takes up a subtask again that it is done with.      *)
LEMMA NoMoreStays ==
  ASSUME IInv, [Next]_vars, NEW n \in Node, NoMore(n)
  PROVE  NoMore(n)'
<1>0. TypeOK /\ Len(dagEvents) \in Nat
  BY DEF IInv, TypeOK
<1>1. CASE UNCHANGED <<runVars, attempts, dagChan>>
  BY <1>1 DEF NoMore, Exhausted, runVars, dagChan
<1>2. CASE SchedulerReturns
  <2>1. ran' = ran /\ attempts' = attempts
    BY <1>2, SchedulerReturnsFacts
  <2>2. \A j \in 1 .. Len(dagEvents') : \/ j \in 1 .. Len(dagEvents) /\ dagEvents'[j] = dagEvents[j]
                                       \/ dagEvents'[j].type = "cancelled"
    <3>1. \A j \in 1 .. Len(dagEvents') :
            j \in 1 .. Len(dagEvents) \/ j \in Len(dagEvents) + 1 .. Len(dagEvents')
      BY <1>2, SchedulerReturnsFacts
    <3> QED
      BY <1>2, <3>1, SchedulerReturnsFacts
  <2> QED
    BY <2>1, <2>2 DEF NoMore, Exhausted
<1>3. CASE Bridge
  <2>1. ran' = ran /\ attempts' = attempts
    BY <1>3 DEF Bridge, nodeVars, runVars
  <2>2. \A j \in 1 .. Len(dagEvents') : j + 1 \in 1 .. Len(dagEvents) /\ dagEvents'[j] = dagEvents[j + 1]
    BY <1>3, KnownMoves
  <2> QED
    BY <2>1, <2>2 DEF NoMore, Exhausted
<1>4. ASSUME NEW m \in Node, StartNode(m) PROVE NoMore(n)'
  <2>1. /\ ran[m] \in {"uncalled", "bad"} /\ attempts[m] \in 0 .. MaxRetry
        /\ ran' = [ran EXCEPT ![m] = "running"] /\ attempts' = [attempts EXCEPT ![m] = @ + 1]
        /\ Len(dagEvents') = Len(dagEvents) + 1
        /\ \A i \in 1 .. Len(dagEvents) : dagEvents'[i] = dagEvents[i]
        /\ dagEvents'[Len(dagEvents) + 1] = Event("started", m, attempts[m] + 1)
    BY <1>4, StartNodeFacts
  <2>2. n # m
    BY <2>1, CapAssumption DEF NoMore, Exhausted
  <2>3. dagEvents'[Len(dagEvents) + 1].id = m
    BY <2>1, EventParts
  <2>4. \A j \in 1 .. Len(dagEvents') : j \in 1 .. Len(dagEvents) \/ j = Len(dagEvents) + 1
    BY <1>0, <2>1
  <2> QED
    BY <1>0, <2>1, <2>2, <2>3, <2>4 DEF NoMore, Exhausted, TypeOK
<1>5. ASSUME NEW m \in Node, EndNode(m) PROVE NoMore(n)'
  <2>1. PICK t \in {"succeeded", "failed", "retrying"} :
          /\ ran[m] = "running" /\ attempts' = attempts
          /\ \/ t = "succeeded" /\ ran' = [ran EXCEPT ![m] = "ok"]
             \/ t # "succeeded" /\ ran' = [ran EXCEPT ![m] = "bad"]
          /\ Len(dagEvents') = Len(dagEvents) + 1
          /\ \A i \in 1 .. Len(dagEvents) : dagEvents'[i] = dagEvents[i]
          /\ dagEvents'[Len(dagEvents) + 1] = Event(t, m, attempts[m])
    BY <1>5, EndNodeFacts
  <2>2. n # m
    BY <2>1 DEF NoMore, Exhausted
  <2>3. dagEvents'[Len(dagEvents) + 1].id = m /\ ran'[n] = ran[n]
    BY <1>0, <2>1, <2>2, EventParts DEF TypeOK
  <2>4. \A j \in 1 .. Len(dagEvents') : j \in 1 .. Len(dagEvents) \/ j = Len(dagEvents) + 1
    BY <1>0, <2>1
  <2> QED
    BY <2>1, <2>2, <2>3, <2>4 DEF NoMore, Exhausted
<1> QED
  BY <1>1, <1>2, <1>3, <1>4, <1>5, NodeFrame

(* What the bridge passes on is the outcome of its subtask, or the subtask *)
(* has none yet.                                                           *)
LEMMA BridgeTells ==
  ASSUME IInv, Bridge
  PROVE  LET de == dagEvents[1]
         IN  \E n \in Node :
               /\ de.id = n
               /\ de.type # "cancelled" => ~ NoMore(n)
               /\ de.type \in {"succeeded", "failed"} => NoMore(n)'
<1> DEFINE de == dagEvents[1]
<1>1. TypeOK /\ DagOrder
  BY DEF IInv
<1>2. dagEvents # <<>> /\ dagEvents' = Tail(dagEvents) /\ de \in DagEvents
      /\ UNCHANGED <<ran, attempts>>
  BY <1>1, BridgeFacts DEF nodeVars, runVars
<1>3. /\ Len(dagEvents) \in Nat \ {0} /\ Len(dagEvents') = Len(dagEvents) - 1
      /\ \A i \in 1 .. Len(dagEvents') : i + 1 \in 1 .. Len(dagEvents)
                                         /\ dagEvents'[i] = dagEvents[i + 1]
  BY <1>1, <1>2, Heads
<1>4. 1 \in 1 .. Len(dagEvents) /\ de.id \in Node /\ Sound(de)
  BY <1>1, <1>2, <1>3 DEF DagOrder, DagEvents
<1>5. de.type # "cancelled" => ~ NoMore(de.id)
  BY <1>4 DEF NoMore
<1>6. ASSUME NEW n \in Node, n = de.id, de.type \in {"succeeded", "failed"} PROVE NoMore(n)'
  <2>1. (ran[de.id] = "ok" \/ Exhausted(de.id)) /\ de.k = attempts[de.id] /\ Pos(de) = 2 * de.k
    BY <1>4, <1>6 DEF Sound, Pos
  <2>2. LastPos(de.id) = Pos(de)
    BY <2>1 DEF LastPos, Exhausted
  <2>3. Pos(de) \in Int
    BY <1>1, <1>2, <1>4, PosFacts
  <2>4. ASSUME NEW j \in 1 .. Len(dagEvents'), dagEvents'[j].id = de.id, dagEvents'[j].type # "cancelled"
        PROVE  FALSE
    <3> DEFINE f == dagEvents[j + 1]
    <3>1. j + 1 \in 1 .. Len(dagEvents) /\ f = dagEvents'[j] /\ 1 < j + 1
      BY <1>3, <2>4
    <3>2. Sound(f) /\ f \in DagEvents /\ f.id = de.id /\ f.type # "cancelled"
      BY <1>1, <2>4, <3>1 DEF DagOrder, TypeOK
    <3>3. Pos(f) <= LastPos(de.id) /\ Pos(f) \in Int
      BY <1>1, <3>2, PosFacts DEF Sound
    <3>4. Pos(de) < Pos(f)
      BY <1>1, <1>4, <3>1, <3>2 DEF DagOrder, InOrder
    <3> QED
      BY <2>2, <2>3, <3>3, <3>4
  <2>5. \A j \in 1 .. Len(dagEvents') :
          dagEvents'[j].id = de.id => dagEvents'[j].type = "cancelled"
    BY <2>4
  <2> QED
    BY <1>2, <1>6, <2>1, <2>5 DEF NoMore, Exhausted
<1> QED
  BY <1>4, <1>5, <1>6

LEMMA EndedInit == Init => Ended
  BY DEF Init, Ended

LEMMA EndedStep ==
  ASSUME IInv, [Next]_vars
  PROVE  Ended'
<1>0. TypeOK
  BY DEF IInv
<1>1. SUFFICES ASSUME NEW e \in emitted', e.type \in Outcomes
      PROVE  \E n \in Node : e.id = n /\ NoMore(n)'
  BY DEF Ended
<1>2. CASE e \in emitted
  BY <1>1, <1>2, NoMoreStays DEF IInv, Ended
<1>3. CASE e \notin emitted
  <2> DEFINE de == dagEvents[1]
  <2>1. Bridge /\ ~ UNCHANGED eventChan
    BY <1>1, <1>3, Sending, EventParts DEF Outcomes, ThePlan, Chunk, Done, eventChan
  <2>2. /\ de.type \in {"started", "succeeded", "failed"}
        /\ e = Event(Translation[de.type], de.id, de.k)
    BY <1>0, <1>1, <1>3, <2>1, BridgeFacts DEF Emit
  <2>3. e.id = de.id /\ de.type \in {"succeeded", "failed"}
    BY <1>0, <1>1, <2>1, <2>2, BridgeFacts, EventParts DEF Outcomes
  <2> QED
    BY <2>1, <2>3, BridgeTells
<1> QED
  BY <1>2, <1>3

(* What a send does to the channel's order.                                *)
LEMMA SentInTurn ==
  ASSUME IInv, [Next]_vars, NEW e \in Events, Emit(e), emitted' = emitted \cup {e},
         stage \notin Late,
         e.type = "plan" => emitted = {},
         e.type \in Steps => e.id \in Node /\ ~ NoMore(e.id),
         e.type \in Outcomes => \E n \in Node : e.id = n /\ NoMore(n)',
         e.type = "writer_token" => e = Chunk(tokens + 1)
  PROVE  /\ \A i \in 1 .. Len(events') : (SentAt(i))'
         /\ \A i, j \in 1 .. Len(events') : i < j => (InTurn(i, j))'
<1> DEFINE L == Len(events)
<1>0. TypeOK /\ Verdicts /\ Streamed
  BY DEF IInv
<1>1. /\ Len(events') = L + 1 /\ L \in Nat
      /\ \A i \in 1 .. L : events'[i] = events[i] /\ events[i] \in Events
      /\ events'[L + 1] = e
  BY <1>0, EmitFacts DEF TypeOK
<1>2. \A i \in 1 .. Len(events') : i \in 1 .. L \/ i = L + 1
  BY <1>1
<1>3. ASSUME NEW i \in 1 .. L PROVE (SentAt(i))'
  <2>1. SentAt(i)
    BY <1>0 DEF Streamed
  <2>2. events[i].type \notin {"done", "error"}
    BY <1>0, <2>1 DEF SentAt, Verdicts, Verdict, Sent
  <2>3. events[i].type \in Outcomes => \E n \in Node : events[i].id = n /\ NoMore(n)'
    <3>1. events[i].type \in Outcomes => events[i].id \in Node /\ NoMore(events[i].id)
      BY <2>1 DEF SentAt, Outcomes, Steps
    <3> QED
      BY <3>1, NoMoreStays
  <2> QED
    BY <1>1, <2>1, <2>2, <2>3 DEF SentAt
<1>4. ASSUME NEW i, i = L + 1 PROVE (SentAt(i))'
  <2>1. events'[i] = e /\ i = Len(events') /\ e \in emitted'
    BY <1>1, <1>4
  <2>2. e.type = "plan" => L = 0
    BY <1>0, <1>1 DEF Streamed, SentAt
  <2> QED
    BY <1>1, <1>4, <2>1, <2>2 DEF SentAt
<1>5. ASSUME NEW i \in 1 .. L, NEW j \in 1 .. L, i < j PROVE (InTurn(i, j))'
  <2>1. InTurn(i, j)
    BY <1>0, <1>5 DEF Streamed
  <2> QED
    BY <1>1, <2>1 DEF InTurn
<1>6. ASSUME NEW i \in 1 .. L, NEW j, j = L + 1 PROVE (InTurn(i, j))'
  <2>1. SentAt(i) /\ events'[i] = events[i] /\ events'[j] = e
    BY <1>0, <1>1, <1>6 DEF Streamed
  <2>2. events[i].type = "writer_token" /\ e.type = "writer_token" => events[i].k < e.k
    <3>1. SUFFICES ASSUME events[i].type = "writer_token", e.type = "writer_token"
                   PROVE  events[i].k < e.k
      OBVIOUS
    <3>2. PICK k \in 1 .. tokens : events[i] = Chunk(k)
      BY <1>0, <2>1, <3>1 DEF SentAt, Verdicts, Sent
    <3>3. events[i].k = k /\ e.k = tokens + 1 /\ tokens \in Nat
      BY <1>0, <3>1, <3>2, EventParts DEF Chunk, TypeOK
    <3> QED
      BY <3>3
  <2>3. events[i].type \in Outcomes /\ e.id = events[i].id => e.type \notin Steps
    BY <2>1 DEF SentAt
  <2> QED
    BY <2>1, <2>2, <2>3 DEF InTurn
<1> QED
  BY <1>1, <1>2, <1>3, <1>4, <1>5, <1>6

(* What a receive does to it.                                              *)
LEMMA ReceivedInTurn ==
  ASSUME IInv, [Next]_vars, events # <<>>, events' = Tail(events), emitted' = emitted
  PROVE  /\ \A i \in 1 .. Len(events') : (SentAt(i))'
         /\ \A i, j \in 1 .. Len(events') : i < j => (InTurn(i, j))'
<1>0. TypeOK /\ Streamed
  BY DEF IInv
<1>1. /\ Len(events) \in Nat \ {0} /\ Len(events') = Len(events) - 1
      /\ \A i \in 1 .. Len(events') : events'[i] = events[i + 1] /\ i + 1 \in 1 .. Len(events)
  BY <1>0, Heads
<1>2. ASSUME NEW i \in 1 .. Len(events') PROVE (SentAt(i))'
  <2>1. SentAt(i + 1) /\ events'[i] = events[i + 1]
    BY <1>0, <1>1 DEF Streamed
  <2>2. events'[i].type # "plan"
    BY <2>1 DEF SentAt
  <2>3. events'[i].type \in Outcomes => \E n \in Node : events'[i].id = n /\ NoMore(n)'
    <3>1. events'[i].type \in Outcomes => events'[i].id \in Node /\ NoMore(events'[i].id)
      BY <2>1 DEF SentAt, Outcomes, Steps
    <3>2. \A n \in Node : NoMore(n) => NoMore(n)'
      BY NoMoreStays
    <3> QED
      BY <3>1, <3>2
  <2>4. events'[i].type \in {"done", "error"} => i = Len(events')
    <3>1. events[i + 1].type \in {"done", "error"} => i + 1 = Len(events)
      BY <2>1 DEF SentAt
    <3>2. i \in Int /\ Len(events') = Len(events) - 1 /\ Len(events) \in Int
      BY <1>1
    <3>3. i + 1 = Len(events) => i = Len(events')
      <4>1. \A a, b, c \in Int : b = a - 1 /\ c + 1 = a => c = b
        OBVIOUS
      <4>2. Len(events') \in Int
        BY <3>2
      <4> QED
        BY <3>2, <4>1, <4>2, Zenon
    <3> QED
      BY <2>1, <3>1, <3>3, Zenon
  <2> QED
    BY <2>1, <2>2, <2>3, <2>4 DEF SentAt
<1>3. ASSUME NEW i \in 1 .. Len(events'), NEW j \in 1 .. Len(events'), i < j PROVE (InTurn(i, j))'
  <2>1. InTurn(i + 1, j + 1)
    BY <1>0, <1>1, <1>3 DEF Streamed
  <2> QED
    BY <1>1, <2>1 DEF InTurn
<1> QED
  BY <1>2, <1>3

LEMMA StreamedStep ==
  ASSUME IInv, [Next]_vars
  PROVE  Streamed'
<1>0. TypeOK /\ Stages /\ Verdicts /\ Streamed
  BY DEF IInv
<1>1. CASE events' = events /\ emitted' = emitted
  <2>1. \A n \in Node : NoMore(n) => NoMore(n)'
    BY NoMoreStays
  <2>2. ASSUME NEW i \in 1 .. Len(events) PROVE (SentAt(i))'
    <3>1. SentAt(i)
      BY <1>0 DEF Streamed
    <3> QED
      BY <1>1, <2>1, <3>1 DEF SentAt, Outcomes, Steps
  <2>3. \A i, j \in 1 .. Len(events) : i < j => (InTurn(i, j))'
    BY <1>0, <1>1 DEF Streamed, InTurn
  <2> QED
    BY <1>0, <1>1, <2>2, <2>3 DEF Streamed
<1>2. CASE events # <<>> /\ events' = Tail(events) /\ emitted' = emitted
  BY <1>0, <1>2, ReceivedInTurn DEF Streamed
<1>3. ASSUME NEW e \in Events, Emit(e), emitted' = emitted \cup {e},
             stage \notin Late,
             e.type = "plan" => emitted = {} /\ e = ThePlan,
             e.type \in Steps => e.id \in Node /\ ~ NoMore(e.id),
             e.type \in Outcomes => \E n \in Node : e.id = n /\ NoMore(n)',
             e.type = "writer_token" => e = Chunk(tokens + 1),
             e.type \in {"plan", "error"} \/ ThePlan \in emitted
      PROVE  Streamed'
  <2>1. /\ \A i \in 1 .. Len(events') : (SentAt(i))'
        /\ \A i, j \in 1 .. Len(events') : i < j => (InTurn(i, j))'
    BY <1>3, SentInTurn
  <2>2. ThePlan \in emitted' \/ \A f \in emitted' : f.type = "error"
    BY <1>0, <1>3 DEF Streamed
  <2> QED
    BY <2>1, <2>2 DEF Streamed
<1>4. CASE PlanMade
  <2>1. ThePlan \in Events /\ Emit(ThePlan) /\ emitted' = emitted \cup {ThePlan}
    BY <1>4, EventType, NAssumption DEF EventTypes, PlanMade, ThePlan, Emit
  <2>2. stage \notin Late /\ emitted = {} /\ ThePlan.type = "plan"
    BY <1>0, <1>4, EventParts DEF PlanMade, GoTo, Stages, Late, ThePlan
  <2> QED
    BY <1>3, <2>1, <2>2 DEF Steps, Outcomes
<1>5. CASE Token
  <2>1. tokens' = tokens + 1 /\ tokens' \in Nat /\ stage = "writer"
    BY <1>0, <1>5 DEF Token, GoTo, TypeOK
  <2>2. /\ Chunk(tokens') \in Events /\ Emit(Chunk(tokens'))
        /\ emitted' = emitted \cup {Chunk(tokens')}
    BY <1>5, <2>1, EventType, NAssumption DEF EventTypes, Token, Chunk, Emit
  <2>3. stage \notin Late /\ ThePlan \in emitted /\ Chunk(tokens').type = "writer_token"
    BY <1>0, <2>1, EventParts DEF Stages, Late, Chunk
  <2> QED
    BY <1>3, <2>1, <2>2, <2>3 DEF Steps, Outcomes
<1>6. CASE EmitVerdict
  <2>1. stage \in {"finish", "error"} /\ (stage = "finish" => ThePlan \in emitted)
    BY <1>0, <1>6 DEF EmitVerdict, GoTo, Stages
  <2>2. \A t \in {"done", "error"} : Event(t, 0, 0) \in Events /\ Event(t, 0, 0).type = t
    BY EventType, EventParts, NAssumption DEF EventTypes
  <2>3. PICK t \in {"done", "error"} : /\ Emit(Event(t, 0, 0)) /\ (t = "done" => stage = "finish")
                                      /\ emitted' = emitted \cup {Event(t, 0, 0)}
    BY <1>6 DEF EmitVerdict, GoTo, Emit
  <2> QED
    BY <1>3, <2>1, <2>2, <2>3 DEF Steps, Outcomes, Late
<1>7. CASE Bridge
  <2> DEFINE de == dagEvents[1]
             e == Event(Translation[de.type], de.id, de.k)
  <2>1. CASE UNCHANGED eventChan
    BY <1>1, <2>1 DEF eventChan
  <2>2. CASE Emit(e) /\ e \in Events /\ de.type \in {"started", "succeeded", "failed"}
    <3>1. e.type \in Steps /\ (e.type \in Outcomes => de.type \in {"succeeded", "failed"})
      BY <1>0, <1>7, <2>2, BridgeFacts, EventParts DEF Steps, Outcomes
    <3>2. PICK n \in Node : /\ de.id = n /\ ~ NoMore(n)
                            /\ de.type \in {"succeeded", "failed"} => NoMore(n)'
      BY <1>7, <2>2, BridgeTells
    <3>3. e.id = n
      BY <3>2, EventParts
    <3>4. stage \in {"run", "bridge"}
      BY <1>0, <1>7 DEF Bridge, Stages
    <3>5. ThePlan \in emitted /\ stage \notin Late
      BY <1>0, <3>4 DEF Stages, Late
    <3> HIDE DEF e
    <3>6. emitted' = emitted \cup {e}
      BY <2>2 DEF Emit
    <3> QED
      BY <1>3, <2>2, <3>1, <3>2, <3>3, <3>5, <3>6 DEF Steps
  <2> QED
    BY <1>0, <1>7, <2>1, <2>2, BridgeFacts
<1>8. ASSUME NEW n \in Node, Report(n) PROVE Streamed'
  <2>1. stage = "run" /\ progress[n] \in Nat /\ n \in 0 .. N
    <3>1. stage = "run"
      BY <1>0, <1>8 DEF Report, Stages, IInv, Reporting
    <3>2. progress[n] \in Nat
      BY <1>0, CapAssumption DEF TypeOK
    <3> QED
      BY <3>1, <3>2, NAssumption DEF Node
  <2>2. PICK e : e = Event("progress", n, progress[n])
    OBVIOUS
  <2>3. e \in Events /\ e.type = "progress" /\ Emit(e) /\ emitted' = emitted \cup {e}
    BY <1>8, <2>1, <2>2, EventType, EventParts DEF EventTypes, Report, Emit
  <2>4. ThePlan \in emitted /\ stage \notin Late
    BY <1>0, <2>1 DEF Stages, Late
  <2> QED
    BY <1>3, <2>3, <2>4 DEF Steps, Outcomes
<1>9. CASE UNCHANGED eventChan \/ CloseEvents
  BY <1>1, <1>9 DEF eventChan, CloseEvents
<1>10. CASE Receive \/ Drain
  BY <1>2, <1>10 DEF Receive, Drain
<1> QED
  BY <1>4, <1>5, <1>6, <1>7, <1>8, <1>9, <1>10, EventFrame

-------------------------------------------------------------------------------
(* What the order of the stream rests on.                                  *)

(* The report's chunks are numbered as they are sent.                      *)
LEMMA ChunkCount ==
  ASSUME TypeOK, Verdicts
  PROVE  Cardinality(Sent("writer_token")) = tokens
<1> DEFINE T == Sent("writer_token")
           f == [i \in 1 .. tokens |-> Chunk(i)]
<1>1. tokens \in Nat /\ T = {Chunk(i) : i \in 1 .. tokens}
  BY CapAssumption DEF TypeOK, Verdicts
<1>2. IsFiniteSet(1 .. tokens) /\ Cardinality(1 .. tokens) = tokens
  BY <1>1, FS_Interval
<1>3. \A i : Chunk(i).k = i
  BY EventParts DEF Chunk
<1>4. f \in Surjection(1 .. tokens, T)
  BY <1>1 DEF Surjection
<1>5. f \in Injection(1 .. tokens, T)
  BY <1>1, <1>3 DEF Injection, IsInjective
<1> HIDE DEF T, f
<1>6. Cardinality(T) = Cardinality(1 .. tokens)
  BY <1>2, <1>4, <1>5, FS_Surjection
<1> QED
  BY <1>2, <1>6 DEF T

(* When the scheduler has answered and the bridge has drained its channel, *)
(* every result was announced.                                             *)
LEMMA AllFinished ==
  ASSUME Stages, Announced, answer = "ok", dagEvents = <<>>, NEW n \in Node
  PROVE  Finished(n)
<1>1. ran[n] = "ok" /\ Len(dagEvents) = 0
  BY DEF Stages
<1>2. SuccessKnown(n, 0)
  BY <1>1 DEF Announced, Told
<1> QED
  BY <1>2 DEF SuccessKnown

LEMMA OrderedStep ==
  ASSUME IInv, [Next]_vars, NEW e \in emitted' \ emitted
  PROVE  SentInOrder(e)
<1>0. TypeOK /\ Stages /\ Verdicts /\ Announced /\ Ended
  BY DEF IInv
<1>1. PICK f \in Events :
        /\ Emit(f) /\ emitted' = emitted \cup {f}
        /\ \/ PlanMade /\ f = ThePlan
           \/ Token /\ f = Chunk(tokens')
           \/ EmitVerdict /\ stage = "finish" /\ stage' = "done" /\ f = Done
           \/ EmitVerdict /\ stage = "error" /\ stage' = "failed" /\ f.type = "error"
           \/ Bridge /\ f.type \in Steps
           \/ stage = "run" /\ UNCHANGED engineVars /\ f.type = "progress"
              /\ (\E n \in Node : Report(n) /\ f.id = n)
  BY Sending
<1>2. e = f
  BY <1>1
<1>3. ASSUME stage \notin Late
      PROVE  Verdict = {} /\ ~ closed
  BY <1>0, <1>3 DEF Verdicts, Stages, Late
<1>4. ThePlan \in emitted => Sent("plan") # {}
  BY EventParts DEF Sent, ThePlan
<1>5. CASE PlanMade /\ f = ThePlan
  <2>1. stage = "planner" /\ e.type = "plan"
    BY <1>2, <1>5, EventParts DEF PlanMade, GoTo, ThePlan
  <2> QED
    BY <1>3, <2>1 DEF SentInOrder, Late
<1>6. CASE Token /\ f = Chunk(tokens')
  <2>1. stage = "writer" /\ tokens' = tokens + 1 /\ tokens \in Nat
    BY <1>0, <1>6 DEF Token, GoTo, TypeOK
  <2>2. e.type = "writer_token" /\ e.k = tokens + 1
    BY <1>2, <1>6, <2>1, EventParts DEF Chunk
  <2>3. answer = "ok" /\ dagEvents = <<>> /\ ThePlan \in emitted
    BY <1>0, <2>1 DEF Stages
  <2>4. \A n \in Node : Finished(n)
    BY <1>0, <2>3, AllFinished
  <2>5. Cardinality(Sent("writer_token")) = e.k - 1
    BY <1>0, <2>1, <2>2, ChunkCount
  <2> QED
    BY <1>3, <1>4, <2>1, <2>2, <2>3, <2>4, <2>5 DEF SentInOrder, Late
<1>7. CASE EmitVerdict /\ stage = "finish" /\ stage' = "done" /\ f = Done
  <2>1. answer = "ok" /\ dagEvents = <<>> /\ ThePlan \in emitted /\ e.type = "done"
    BY <1>0, <1>2, <1>7, EventParts DEF Stages, Done
  <2>2. \A n \in Node : Finished(n)
    BY <1>0, <2>1, AllFinished
  <2> QED
    BY <1>3, <1>4, <1>7, <2>1, <2>2 DEF SentInOrder, Late
<1>8. CASE EmitVerdict /\ stage = "error" /\ stage' = "failed" /\ f.type = "error"
  BY <1>2, <1>3, <1>8 DEF SentInOrder, Late
<1>9. CASE Bridge /\ f.type \in Steps
  <2> DEFINE de == dagEvents[1]
  <2>1. stage \in {"run", "bridge"} /\ Len(dagEvents) \in Nat \ {0}
    BY <1>0, <1>9, Heads DEF Bridge, Stages
  <2>2. ThePlan \in emitted /\ stage \notin Late
    BY <1>0, <2>1 DEF Stages, Late
  <2>3. /\ de.type \in {"started", "succeeded", "failed"}
        /\ e = Event(Translation[de.type], de.id, de.k)
    BY <1>0, <1>1, <1>2, <1>9, BridgeFacts DEF eventChan, Emit
  <2>4. /\ e.id = de.id /\ e.k = de.k /\ e.type \in Steps
        /\ e.type = "node_started" => de.type = "started"
        /\ e.type \in {"node_finished", "node_failed"} => de.type \in {"succeeded", "failed"}
    BY <1>0, <1>2, <1>9, <2>3, BridgeFacts, EventParts
  <2>5. Preceded(1)
    BY <1>0, <2>1 DEF Announced
  <2>6. /\ \A n : SuccessKnown(n, 1 - 1) => Finished(n)
        /\ \A n, k : StartKnown(n, k, 1 - 1) => Event("node_started", n, k) \in emitted
    BY DEF SuccessKnown, StartKnown
  <2> QED
    BY <1>3, <1>4, <2>2, <2>4, <2>5, <2>6 DEF SentInOrder, Preceded, Steps
<1>10. CASE /\ stage = "run" /\ f.type = "progress"
            /\ \E n \in Node : Report(n) /\ f.id = n
  <2>1. ran[e.id] = "running" /\ ~ NoMore(e.id)
    BY <1>2, <1>10 DEF Report, NoMore, Exhausted, IInv, Reporting
  <2>2. \A g \in Sent("node_finished") \cup Sent("node_failed") : g.id # e.id
    BY <1>0, <2>1 DEF Ended, Sent, Outcomes
  <2> QED
    BY <1>0, <1>2, <1>3, <1>4, <1>10, <2>2 DEF SentInOrder, Stages, Late
<1> QED
  BY <1>1, <1>5, <1>6, <1>7, <1>8, <1>9, <1>10

(* The invariant up to here, and that closing the channel is safe.         *)
LEMMA ClosedIsQuiet == Stages => NoSendOnClosed
  BY DEF Stages, NoSendOnClosed

-------------------------------------------------------------------------------
(* What flows through the handler's channel.                               *)

LEMMA HandlerFrame ==
  ASSUME [Next]_vars
  PROVE  \/ UNCHANGED <<handlerVars, storeVars>>
         \/ CreateSession \/ Receive \/ WriteEvent \/ WriteFails \/ EndOfStream
         \/ AwaitErr \/ Finalize
<1> USE DEF EngineOnly
<1>1. ASSUME NEW n \in Node, Attempt(n) \/ Progress(n) PROVE UNCHANGED <<handlerVars, storeVars>>
  BY <1>1 DEF Attempt, Progress, StartNode, EndNode, BeginReport, Report
<1>2. CASE Engine
  BY <1>2 DEF Engine, PlanFails, PlanMade, LookUpTool, SchedulerReturns, CollectFindings, Token,
              CheckToken, StreamEnds, EmitVerdict, SendErr, CloseEvents
<1>3. CASE Bridge \/ Drain \/ Deadline \/ HangUp \/ Terminated \/ UNCHANGED vars
  BY <1>3 DEF Bridge, Drain, Deadline, HangUp, Terminated, vars
<1> QED
  BY <1>1, <1>2, <1>3 DEF Next, Handler

(* A step sends an event, receives one, or leaves the channel alone.       *)
LEMMA Flow ==
  ASSUME IInv, [Next]_vars
  PROVE  \/ events' = events /\ emitted' = emitted
         \/ /\ Receive \/ Drain
            /\ events # <<>> /\ events' = Tail(events) /\ emitted' = emitted
         \/ \E e \in Events :
              /\ Len(events) \in Nat /\ Len(events') = Len(events) + 1
              /\ \A i \in 1 .. Len(events) : events'[i] = events[i]
              /\ events'[Len(events) + 1] = e
              /\ emitted' = emitted \cup {e} /\ stage \notin Late
              /\ UNCHANGED <<handlerVars, storeVars>>
              /\ e.type \in Steps => e.id \in Node /\ ~ NoMore(e.id)
              /\ e.type = "plan" => ThePlan \notin emitted
              /\ IF e.type = "writer_token" THEN tokens' = tokens + 1 /\ e = Chunk(tokens')
                                            ELSE tokens' = tokens
<1>0. TypeOK /\ Stages
  BY DEF IInv
<1>1. CASE ~ (emitted' = emitted /\ (events' = events \/ Receive \/ Drain))
  <2>1. PICK e \in Events :
          /\ Emit(e) /\ emitted' = emitted \cup {e}
          /\ \/ PlanMade /\ e = ThePlan
             \/ Token /\ e = Chunk(tokens')
             \/ EmitVerdict /\ stage = "finish" /\ stage' = "done" /\ e = Done
             \/ EmitVerdict /\ stage = "error" /\ stage' = "failed" /\ e.type = "error"
             \/ Bridge /\ e.type \in Steps
             \/ stage = "run" /\ UNCHANGED engineVars /\ e.type = "progress"
                /\ (\E n \in Node : Report(n) /\ e.id = n)
    BY <1>1, Sending
  <2>2. /\ Len(events) \in Nat /\ Len(events') = Len(events) + 1
        /\ \A i \in 1 .. Len(events) : events'[i] = events[i]
        /\ events'[Len(events) + 1] = e
    BY <1>0, <2>1, EmitFacts
  <2>3. UNCHANGED <<handlerVars, storeVars>>
    BY <2>1 DEF PlanMade, Token, EmitVerdict, Bridge, Report, EngineOnly
  <2>4. /\ stage \notin Late
        /\ IF e.type = "writer_token" THEN tokens' = tokens + 1 /\ e = Chunk(tokens')
                                      ELSE tokens' = tokens
    <3>1. CASE PlanMade /\ e = ThePlan
      BY <3>1, EventParts DEF PlanMade, GoTo, ThePlan, Late
    <3>2. CASE Token /\ e = Chunk(tokens')
      BY <3>2, EventParts DEF Token, GoTo, Chunk, Late
    <3>3. CASE EmitVerdict /\ stage \in {"finish", "error"} /\ e.type \in {"done", "error"}
      BY <3>3 DEF EmitVerdict, Late
    <3>4. CASE Bridge /\ e.type \in Steps
      BY <1>0, <3>4 DEF Bridge, Stages, Late, engineVars, Steps
    <3>5. CASE stage = "run" /\ UNCHANGED engineVars /\ e.type = "progress"
      BY <3>5 DEF engineVars, Late
    <3>6. Done.type = "done"
      BY EventParts DEF Done
    <3> QED
      BY <2>1, <3>1, <3>2, <3>3, <3>4, <3>5, <3>6
  <2>5. e.type \in Steps => e.id \in Node /\ ~ NoMore(e.id)
    <3>1. SUFFICES ASSUME e.type \in Steps PROVE e.id \in Node /\ ~ NoMore(e.id)
      OBVIOUS
    <3>2. Bridge
      BY <2>1, <3>1, EventParts DEF Steps, ThePlan, Chunk, Done
    <3>3. e = Event(Translation[dagEvents[1].type], dagEvents[1].id, dagEvents[1].k)
          /\ dagEvents[1].type # "cancelled"
      BY <1>0, <1>1, <2>1, <3>2, BridgeFacts DEF eventChan, Emit
    <3>4. e.id = dagEvents[1].id
      BY <3>3, EventParts
    <3> QED
      BY <3>2, <3>3, <3>4, BridgeTells
  <2>6. e.type = "plan" => ThePlan \notin emitted
    BY <1>0, <2>1, EventParts DEF PlanMade, GoTo, Stages, Chunk, Done, Steps
  <2> QED
    BY <2>1, <2>2, <2>3, <2>4, <2>5, <2>6
<1>2. CASE emitted' = emitted /\ (events' = events \/ Receive \/ Drain)
  BY <1>2 DEF Receive, Drain
<1> QED
  BY <1>1, <1>2

(* What waits in the channel, after each kind of step.                     *)
LEMMA WaitingSent ==
  ASSUME NEW e, Len(events) \in Nat, Len(events') = Len(events) + 1,
         \A i \in 1 .. Len(events) : events'[i] = events[i], events'[Len(events) + 1] = e
  PROVE  \A f : Waiting(f)' <=> Waiting(f) \/ f = e
<1>1. \A i \in 1 .. Len(events') : i \in 1 .. Len(events) \/ i = Len(events) + 1
  OBVIOUS
<1>2. Len(events) + 1 \in 1 .. Len(events') /\ \A i \in 1 .. Len(events) : i \in 1 .. Len(events')
  OBVIOUS
<1> QED
  BY <1>1, <1>2 DEF Waiting

LEMMA WaitingReceived ==
  ASSUME TypeOK, events # <<>>, events' = Tail(events)
  PROVE  /\ \A f : Waiting(f)' => Waiting(f)
         /\ \A f : Waiting(f) => Waiting(f)' \/ f = events[1]
         /\ Waiting(events[1]) /\ 1 \in 1 .. Len(events) /\ Len(events) \in Nat \ {0}
         /\ Len(events') = Len(events) - 1
         /\ \A i \in 1 .. Len(events') : events'[i] = events[i + 1] /\ i + 1 \in 1 .. Len(events)
<1>1. /\ Len(events) \in Nat \ {0} /\ Len(events') = Len(events) - 1
      /\ \A i \in 1 .. Len(events') : events'[i] = events[i + 1] /\ i + 1 \in 1 .. Len(events)
  BY Heads
<1>3. \A f : Waiting(f)' => Waiting(f)
  BY <1>1 DEF Waiting
<1>4. ASSUME NEW f, Waiting(f), f # events[1] PROVE Waiting(f)'
  <2>1. PICK i \in 1 .. Len(events) : events[i] = f
    BY <1>4 DEF Waiting
  <2>2. i # 1
    BY <1>4, <2>1
  <2>3. PICK j \in Int : j = i - 1
    OBVIOUS
  <2>4. j \in 1 .. Len(events') /\ j + 1 = i
    BY <1>1, <2>2, <2>3
  <2>5. events'[j] = f
    BY <1>1, <2>1, <2>4
  <2> QED
    BY <2>4, <2>5 DEF Waiting
<1>5. Waiting(events[1]) /\ 1 \in 1 .. Len(events)
  BY <1>1 DEF Waiting
<1> QED
  BY <1>1, <1>3, <1>4, <1>5

(* What has been settled stays settled.                                    *)
LEMMA SettledStays ==
  ASSUME IInv, [Next]_vars, NEW n \in Node, Settled(n)
  PROVE  Settled(n)'
<1>0. TypeOK /\ NoMore(n) /\ NoMore(n)'
  BY NoMoreStays DEF IInv, Settled
<1>1. CASE events' = events /\ emitted' = emitted
  BY <1>0, <1>1 DEF Settled
<1>2. CASE events # <<>> /\ events' = Tail(events)
  BY <1>0, <1>2, WaitingReceived DEF Settled
<1>3. ASSUME NEW e \in Events,
             Len(events) \in Nat, Len(events') = Len(events) + 1,
             \A i \in 1 .. Len(events) : events'[i] = events[i],
             events'[Len(events) + 1] = e,
             e.type \in Steps => e.id \in Node /\ ~ NoMore(e.id)
      PROVE  Settled(n)'
  <2>1. \A i \in 1 .. Len(events') : i \in 1 .. Len(events) \/ i = Len(events) + 1
    BY <1>3
  <2> QED
    BY <1>0, <1>3, <2>1 DEF Settled
<1> QED
  BY <1>1, <1>2, <1>3, Flow

-------------------------------------------------------------------------------
(* The rows.                                                               *)

LEMMA RecordedInit == Init => Recorded
<1> SUFFICES ASSUME Init PROVE Recorded
  OBVIOUS
<1>1. tasks = <<>> /\ ~ unsaved /\ handler = "begin" /\ emitted = {} /\ DOMAIN tasks = {}
      /\ recorder.report = <<>> /\ ~ recorder.pipelineOK
  BY DEF Init
<1> QED
  BY <1>1 DEF Recorded, Listening, PlanSaved, Finished, Sent

(* Steps that leave the rows alone.                                        *)
LEMMA RecordedKeeps ==
  ASSUME IInv, [Next]_vars, UNCHANGED <<tasks, unsaved>>,
         \A f : Waiting(f) /\ f.type = "node_finished" => Waiting(f)',
         PlanAhead' => PlanAhead, PlanSaved' => PlanSaved,
         handler' = "begin" => handler = "begin" /\ recorder' = recorder,
         Listening' => Listening,
         Listening' => \A n \in Node : Finished(n)' /\ ~ Finished(n) =>
           \E k : Waiting(Event("node_finished", n, k))'
  PROVE  Recorded'
<1>0. TypeOK /\ Recorded
  BY DEF IInv
<1>1. \A n \in DOMAIN tasks' : tasks'[n].status \in {"done", "failed"} => Settled(n)'
  BY <1>0, SettledStays DEF Recorded, TypeOK
<1>2. ASSUME Listening', NEW n \in Node, Finished(n)' PROVE ResultKept(n)'
  <2>1. CASE Finished(n)
    <3>1. ResultKept(n)
      BY <1>0, <1>2, <2>1 DEF Recorded
    <3>2. ASSUME NEW i \in 1 .. Len(events), events[i].type = "node_finished", events[i].id = n
          PROVE  ResultKept(n)'
      <4>1. Waiting(events[i])
        BY DEF Waiting
      <4>2. PICK f : f = events[i]
        OBVIOUS
      <4>3. Waiting(f)' /\ f.type = "node_finished" /\ f.id = n
        BY <3>2, <4>1, <4>2
      <4> QED
        BY <4>3 DEF Waiting, ResultKept
    <3> QED
      BY <3>1, <3>2 DEF ResultKept
  <2>2. CASE ~ Finished(n)
    <3>1. PICK k : Waiting(Event("node_finished", n, k))'
      BY <1>2, <2>2
    <3> QED
      BY <3>1, EventParts DEF Waiting, ResultKept
  <2> QED
    BY <2>1, <2>2
<1> QED
  BY <1>0, <1>1, <1>2 DEF Recorded

(* The statement of a subtask's event: the rows of the others stay, and    *)
(* its own, if written, is the one of the event.                           *)
LEMMA ReceiveStep ==
  ASSUME IInv, Receive, NEW n \in Node, NEW s \in {"running", "done", "failed"}, NEW q \in BOOLEAN,
         recorder' = recorder, SaveTask(n, s, q)
  PROVE  /\ \/ tasks' = tasks /\ unsaved'
            \/ /\ DOMAIN tasks' = DOMAIN tasks \cup {n} /\ Range(tasks') \subseteq TaskRow
               /\ \A m \in DOMAIN tasks \ {n} : tasks'[m] = tasks[m]
               /\ tasks'[n] \in TaskRow /\ tasks'[n].status = s /\ tasks'[n].question = q
               /\ n \in DOMAIN tasks => tasks'[n].sortOrder = tasks[n].sortOrder
               /\ unsaved' = unsaved
         /\ unsaved => unsaved'
<1>1. TypeOK
  BY DEF IInv
<1>2. unsaved => unsaved'
  BY DEF SaveTask
<1> QED
  BY <1>1, <1>2, SaveTaskFacts

(* An event of a subtask is received: its row was not final.               *)
LEMMA StepReceived ==
  ASSUME IInv, [Next]_vars, Receive, events[1].type \in Steps
  PROVE  Recorded'
<1> DEFINE e == events[1]
<1>0. TypeOK /\ Recorded /\ Streamed
  BY DEF IInv
<1>1. /\ handler = "recv" /\ handler' = "write" /\ events # <<>> /\ events' = Tail(events)
      /\ OnEvent(e) /\ UNCHANGED <<emitted, session>>
  BY <1>0, Heads DEF Receive
<1>2. /\ \A f : Waiting(f)' => Waiting(f)
      /\ \A f : Waiting(f) => Waiting(f)' \/ f = e
      /\ 1 \in 1 .. Len(events) /\ Len(events) \in Nat \ {0} /\ Len(events') = Len(events) - 1
      /\ \A i \in 1 .. Len(events') : events'[i] = events[i + 1] /\ i + 1 \in 1 .. Len(events)
  BY <1>0, <1>1, WaitingReceived
<1>3. SentAt(1) /\ \A i \in 1 .. Len(events') : SentAt(i + 1) /\ InTurn(1, i + 1)
  <2>1. \A i \in 1 .. Len(events') : 1 < i + 1
    BY <1>2
  <2> QED
    BY <1>0, <1>2, <2>1 DEF Streamed
<1>4. PICK n \in Node : e.id = n
  BY <1>3 DEF SentAt
<1>5. PICK s \in {"running", "done", "failed"}, q \in BOOLEAN :
        /\ SaveTask(n, s, q)
        /\ e.type = "node_started" => s = "running"
        /\ e.type = "node_finished" => s = "done" /\ q
        /\ e.type = "node_failed" => s = "failed"
  BY <1>1, <1>4 DEF OnEvent, Steps
<1>6. recorder' = recorder
  BY <1>1 DEF OnEvent, Steps
<1>7. /\ \/ tasks' = tasks /\ unsaved'
         \/ /\ DOMAIN tasks' = DOMAIN tasks \cup {n} /\ Range(tasks') \subseteq TaskRow
            /\ \A m \in DOMAIN tasks \ {n} : tasks'[m] = tasks[m]
            /\ tasks'[n] \in TaskRow /\ tasks'[n].status = s /\ tasks'[n].question = q
            /\ n \in DOMAIN tasks => tasks'[n].sortOrder = tasks[n].sortOrder
            /\ unsaved' = unsaved
      /\ unsaved => unsaved'
  BY <1>5, <1>6, ReceiveStep
<1>8. ThePlan \in emitted /\ ~ Waiting(ThePlan)
  <2>1. e \in emitted /\ e.type # "error" /\ e.type # "plan"
    BY <1>3 DEF SentAt, Steps
  <2>2. ThePlan.type = "plan"
    BY EventParts DEF ThePlan
  <2>3. \A i \in 1 .. Len(events) : events[i] # ThePlan
    BY <1>0, <2>1, <2>2 DEF Streamed, SentAt
  <2> QED
    BY <1>0, <2>1, <2>3 DEF Streamed, Waiting
<1>9. ~ Settled(n)
  BY <1>2, <1>4 DEF Settled
<1>10. s \in {"done", "failed"} => Settled(n)'
  <2>1. SUFFICES ASSUME s \in {"done", "failed"} PROVE Settled(n)'
    OBVIOUS
  <2>2. e.type \in Outcomes
    BY <1>5, <2>1 DEF Outcomes, Steps
  <2>3. NoMore(n)'
    BY <1>3, <1>4, <2>2, NoMoreStays DEF SentAt
  <2>4. \A i \in 1 .. Len(events') : events'[i].id = n => events'[i].type \notin Steps
    BY <1>2, <1>3, <1>4, <2>2 DEF InTurn
  <2> QED
    BY <2>3, <2>4 DEF Settled
<1>11. \A m \in DOMAIN tasks' : tasks'[m].status \in {"done", "failed"} => Settled(m)'
  <2> TAKE m \in DOMAIN tasks'
  <2>1. CASE m = n
    <3>1. m \in DOMAIN tasks /\ tasks' = tasks => tasks[m].status \notin {"done", "failed"}
      BY <1>0, <1>9, <2>1 DEF Recorded
    <3> QED
      BY <1>7, <1>10, <2>1, <3>1
  <2>2. CASE m # n
    <3>1. m \in DOMAIN tasks /\ tasks'[m] = tasks[m] /\ m \in Node
      BY <1>0, <1>7, <2>2 DEF TypeOK
    <3> QED
      BY <1>0, <3>1, SettledStays DEF Recorded
  <2> QED
    BY <2>1, <2>2
<1>12. ASSUME ~ unsaved'
       PROVE  DOMAIN tasks' = Node /\ \A m \in Node : tasks'[m].sortOrder = m - 1
  <2>1. PlanSaved
    BY <1>1, <1>7, <1>8, <1>12 DEF PlanSaved, Listening
  <2>2. DOMAIN tasks = Node /\ \A m \in Node : tasks[m].sortOrder = m - 1
    BY <1>0, <2>1 DEF Recorded
  <2>3. /\ DOMAIN tasks' = DOMAIN tasks \cup {n}
        /\ \A m \in DOMAIN tasks \ {n} : tasks'[m] = tasks[m]
        /\ n \in DOMAIN tasks => tasks'[n].sortOrder = tasks[n].sortOrder
    BY <1>7, <1>12
  <2> QED
    BY <2>2, <2>3
<1>13. ASSUME NEW m \in Node, Finished(m)' PROVE ResultKept(m)'
  <2>1. ResultKept(m)
    BY <1>0, <1>1, <1>13 DEF Recorded, Listening, Finished, Sent
  <2>2. CASE unsaved
    BY <1>7, <2>2 DEF ResultKept
  <2>3. CASE m \in DOMAIN tasks /\ tasks[m].status = "done" /\ tasks[m].question
    <3>1. m # n
      BY <1>0, <1>9, <2>3 DEF Recorded
    <3> QED
      BY <1>7, <2>3, <3>1 DEF ResultKept
  <2>4. CASE \E i \in 1 .. Len(events) : events[i].type = "node_finished" /\ events[i].id = m
    <3>1. PICK f : f.type = "node_finished" /\ f.id = m /\ Waiting(f)
      BY <2>4 DEF Waiting
    <3>2. CASE Waiting(f)'
      BY <3>1, <3>2 DEF ResultKept, Waiting
    <3>3. CASE f = e
      BY <1>4, <1>5, <1>7, <3>1, <3>3 DEF ResultKept
    <3> QED
      BY <1>2, <3>1, <3>2, <3>3
  <2> QED
    BY <2>1, <2>2, <2>3, <2>4 DEF ResultKept
<1>14. ~ PlanAhead' /\ handler' # "begin"
  BY <1>1, <1>2, <1>8 DEF PlanAhead, Listening
<1>15. PlanSaved' => ~ unsaved'
  BY DEF PlanSaved
<1> QED
  BY <1>11, <1>12, <1>13, <1>14, <1>15 DEF Recorded

(* The plan is received: its subtasks are seeded in its order, and nothing *)
(* has been written yet.                                                   *)
LEMMA PlanReceived ==
  ASSUME IInv, [Next]_vars, Receive, events[1].type = "plan"
  PROVE  Recorded'
<1> DEFINE e == events[1]
<1>0. TypeOK /\ Recorded /\ Streamed /\ Verdicts
  BY DEF IInv
<1>1. /\ handler = "recv" /\ handler' = "write" /\ events # <<>> /\ events' = Tail(events)
      /\ OnEvent(e) /\ emitted' = emitted
  BY <1>0, Heads DEF Receive
<1>2. /\ \A f : Waiting(f) => Waiting(f)' \/ f = e
      /\ Waiting(e) /\ 1 \in 1 .. Len(events)
      /\ \A i \in 1 .. Len(events') : events'[i] = events[i + 1] /\ i + 1 \in 1 .. Len(events)
  BY <1>0, <1>1, WaitingReceived
<1>3. e = ThePlan /\ ThePlan.type = "plan"
  <2>1. SentAt(1)
    BY <1>0, <1>2 DEF Streamed
  <2>2. e \in Sent("plan")
    BY <2>1 DEF SentAt, Sent
  <2> QED
    BY <1>0, <2>2 DEF Verdicts
<1>4. tasks = <<>> /\ ~ unsaved
  BY <1>0, <1>1, <1>2, <1>3 DEF Recorded, PlanAhead, Listening
<1>5. PICK F \in SUBSET Node :
        /\ tasks' = [n \in Node \ F |->
                       [status |-> "pending", question |-> TRUE, sortOrder |-> n - 1]]
        /\ unsaved' = (F # {})
  BY <1>1, <1>3 DEF OnEvent, SeedTasks
<1>6. ~ Waiting(ThePlan)'
  <2>1. ASSUME NEW i \in 1 .. Len(events'), events'[i] = ThePlan PROVE FALSE
    <3>1. SentAt(i + 1) /\ events[i + 1].type = "plan"
      BY <1>0, <1>2, <1>3, <2>1 DEF Streamed
    <3>2. i + 1 = 1
      BY <3>1 DEF SentAt
    <3> QED
      BY <3>2
  <2> QED
    BY <2>1 DEF Waiting
<1>7. ASSUME NEW n \in Node, Finished(n)' PROVE ResultKept(n)'
  <2>1. ResultKept(n)
    BY <1>0, <1>1, <1>7 DEF Recorded, Listening, Finished, Sent
  <2>2. n \notin DOMAIN tasks
    BY <1>4
  <2>3. PICK i \in 1 .. Len(events) : events[i].type = "node_finished" /\ events[i].id = n
    BY <1>4, <2>1, <2>2 DEF ResultKept
  <2>4. PICK f : f = events[i]
    OBVIOUS
  <2>5. Waiting(f)' /\ f.type = "node_finished" /\ f.id = n
    BY <1>2, <1>3, <2>3, <2>4 DEF Waiting
  <2> QED
    BY <2>5 DEF Waiting, ResultKept
<1>8. \A n \in DOMAIN tasks' : tasks'[n].status = "pending"
  BY <1>5
<1>9. ~ unsaved' => DOMAIN tasks' = Node /\ \A n \in Node : tasks'[n].sortOrder = n - 1
  BY <1>5
<1>10. ThePlan \in emitted
  BY <1>0, <1>2, <1>3 DEF Streamed, SentAt
<1>11. ~ PlanAhead' /\ handler' # "begin"
  BY <1>1, <1>6, <1>10 DEF PlanAhead
<1>12. PlanSaved' => ~ unsaved'
  BY DEF PlanSaved
<1> QED
  BY <1>7, <1>8, <1>9, <1>11, <1>12 DEF Recorded

LEMMA RecordedStep ==
  ASSUME IInv, [Next]_vars
  PROVE  Recorded'
<1>0. TypeOK /\ Recorded /\ Streamed /\ Handled /\ Stages
  BY DEF IInv
<1>1. CASE CreateSession
  <2>1. /\ handler = "begin" /\ handler' # "begin" /\ UNCHANGED <<tasks, unsaved>>
        /\ emitted' = emitted
    BY <1>1 DEF CreateSession, eventChan
  <2>2. emitted = {} /\ tasks = <<>> /\ ~ unsaved
    BY <1>0, <2>1 DEF Handled, Stages, Recorded, PlanAhead
  <2>3. ~ PlanSaved' /\ \A n : ~ Finished(n)'
    BY <2>1, <2>2 DEF PlanSaved, Finished, Sent
  <2>4. DOMAIN tasks' = {}
    BY <2>1, <2>2
  <2> QED
    BY <2>1, <2>2, <2>3, <2>4 DEF Recorded
<1>2. CASE Receive
  <2> DEFINE e == events[1]
  <2>1. /\ handler = "recv" /\ handler' = "write" /\ events # <<>> /\ events' = Tail(events)
        /\ OnEvent(e) /\ emitted' = emitted
    BY <1>0, <1>2, Heads DEF Receive
  <2>2. CASE e.type \in {"writer_token", "done", "error", "progress"}
    <3>1. UNCHANGED <<tasks, unsaved>>
      BY <2>1, <2>2 DEF OnEvent
    <3>2. /\ \A f : Waiting(f)' => Waiting(f)
          /\ \A f : Waiting(f) => Waiting(f)' \/ f = e
      BY <1>0, <2>1, WaitingReceived
    <3>3. e # ThePlan
      BY <2>2, EventParts DEF ThePlan
    <3>4. /\ Waiting(ThePlan)' <=> Waiting(ThePlan)
          /\ \A f : Waiting(f) /\ f.type = "node_finished" => Waiting(f)'
      BY <2>2, <3>2, <3>3
    <3>5. Listening /\ Listening' /\ handler' # "begin"
      BY <2>1 DEF Listening
    <3>6. (PlanAhead' => PlanAhead) /\ (PlanSaved' => PlanSaved)
      BY <2>1, <3>1, <3>4, <3>5 DEF PlanAhead, PlanSaved
    <3>7. \A n : Finished(n)' => Finished(n)
      BY <2>1 DEF Finished, Sent
    <3> QED
      BY <3>1, <3>4, <3>5, <3>6, <3>7, RecordedKeeps
  <2>3. e.type \in Steps \cup {"plan", "writer_token", "done", "error", "progress"}
    BY <2>1 DEF OnEvent, Steps
  <2> QED
    BY <1>2, <2>2, <2>3, PlanReceived, StepReceived
<1>3. CASE Drain
  <2>1. /\ handler \notin {"begin", "recv", "write"} /\ handler' = handler
        /\ UNCHANGED <<tasks, unsaved>>
    BY <1>0, <1>3 DEF Drain, Handled, handlerVars, storeVars
  <2>2. \A n \in DOMAIN tasks' : tasks'[n].status \in {"done", "failed"} => Settled(n)'
    BY <1>0, <2>1, SettledStays DEF Recorded, TypeOK
  <2> QED
    BY <2>1, <2>2 DEF Recorded, PlanAhead, PlanSaved, Listening
<1>4. ASSUME events' = events, emitted' = emitted, ~ CreateSession, ~ Receive PROVE Recorded'
  <2>1. /\ UNCHANGED <<tasks, unsaved, recorder>>
        /\ handler' = handler \/ handler' \notin {"begin", "recv", "write"}
           \/ (handler = "write" /\ handler' = "recv")
    BY <1>4, HandlerFrame DEF handlerVars, storeVars, WriteEvent, WriteFails, EndOfStream,
                              AwaitErr, Finalize
  <2>2. \A f : Waiting(f)' <=> Waiting(f)
    BY <1>4 DEF Waiting
  <2>3. (Listening' => Listening) /\ (handler' = "begin" => handler = "begin")
    BY <2>1 DEF Listening
  <2>4. (PlanAhead' => PlanAhead) /\ (PlanSaved' => PlanSaved)
    BY <1>4, <2>1, <2>2, <2>3 DEF PlanAhead, PlanSaved
  <2>5. \A n : Finished(n)' => Finished(n)
    BY <1>4 DEF Finished, Sent
  <2> QED
    BY <2>1, <2>2, <2>3, <2>4, <2>5, RecordedKeeps
<1>5. ASSUME NEW e \in Events,
             Len(events) \in Nat, Len(events') = Len(events) + 1,
             \A i \in 1 .. Len(events) : events'[i] = events[i],
             events'[Len(events) + 1] = e,
             emitted' = emitted \cup {e}, UNCHANGED <<handlerVars, storeVars>>,
             e.type = "plan" => ThePlan \notin emitted
      PROVE  Recorded'
  <2>1. UNCHANGED <<tasks, unsaved, recorder, handler>>
    BY <1>5 DEF handlerVars, storeVars
  <2>2. \A f : Waiting(f)' <=> Waiting(f) \/ f = e
    BY <1>5, WaitingSent
  <2>3. Listening' = Listening
    BY <2>1 DEF Listening
  <2>4. ThePlan.type = "plan"
    BY EventParts DEF ThePlan
  <2>5. (PlanAhead' => PlanAhead) /\ (PlanSaved' => PlanSaved)
    BY <1>5, <2>1, <2>2, <2>3, <2>4 DEF PlanAhead, PlanSaved
  <2>6. ASSUME NEW n \in Node, Finished(n)', ~ Finished(n)
        PROVE  \E k : Waiting(Event("node_finished", n, k))'
    <3>1. e.type = "node_finished" /\ e.id = n
      BY <1>5, <2>6 DEF Finished, Sent
    <3>2. e = Event("node_finished", n, e.k)
      BY <3>1 DEF Events, Event
    <3> QED
      BY <2>2, <3>2
  <2> QED
    BY <2>1, <2>2, <2>3, <2>5, <2>6, RecordedKeeps
<1> QED
  BY <1>1, <1>2, <1>3, <1>4, <1>5, Flow

-------------------------------------------------------------------------------
(* The report.                                                             *)

LEMMA CountedAppend ==
  ASSUME NEW S, NEW s \in Seq(S), s = [i \in 1 .. Len(s) |-> i],
         NEW k \in S, k = Len(s) + 1
  PROVE  /\ Len(Append(s, k)) = k
         /\ Append(s, k) = [i \in 1 .. k |-> i]
<1>1. Append(s, k) \in Seq(S) /\ Len(Append(s, k)) = k /\ Len(s) \in Nat
  OBVIOUS
<1>2. \A i \in 1 .. k : Append(s, k)[i] = i
  <2> TAKE i \in 1 .. k
  <2>1. CASE i = k
    BY <2>1
  <2>2. CASE i # k
    <3>1. i \in 1 .. Len(s) /\ Append(s, k)[i] = s[i]
      BY <1>1, <2>2
    <3> QED
      BY <3>1
  <2> QED
    BY <2>1, <2>2
<1>3. DOMAIN Append(s, k) = 1 .. k
  BY <1>1
<1> QED
  BY <1>1, <1>2, <1>3

LEMMA ReportedInit == Init => Reported
BY DEF Init, Reported, Listening

LEMMA ReportedStep ==
  ASSUME IInv, [Next]_vars
  PROVE  Reported'
<1>0. TypeOK /\ Stages /\ Verdicts /\ Streamed /\ Recorded /\ Reported /\ Handled
  BY DEF IInv
<1>a. /\ tokens \in Nat /\ tokens \in 0 .. MaxTokens /\ MaxTokens \in Nat
      /\ recorder.report \in Seq(1 .. MaxTokens) /\ Len(recorder.report) \in Nat
  BY <1>0, CapAssumption DEF TypeOK
<1>1. CASE CreateSession
  <2>1. /\ handler = "begin" /\ tokens' = tokens /\ recorder' = recorder
    BY <1>1 DEF CreateSession
  <2>2. stage = "idle" /\ tokens = 0 /\ recorder.report = <<>>
    BY <1>0, <2>1 DEF Handled, Stages, Early, Recorded
  <2>3. <<>> = [i \in 1 .. 0 |-> i] /\ Len(<<>>) = 0
    OBVIOUS
  <2> QED
    BY <2>1, <2>2, <2>3 DEF Reported
<1>2. CASE Receive
  <2> DEFINE e == events[1]
             r == recorder.report
  <2>1. /\ handler = "recv" /\ handler' = "write" /\ events # <<>> /\ events' = Tail(events)
        /\ OnEvent(e) /\ emitted' = emitted /\ tokens' = tokens
    BY <1>0, <1>2, Heads DEF Receive, engineVars
  <2>2. /\ \A f : Waiting(f)' => Waiting(f)
        /\ \A f : Waiting(f) => Waiting(f)' \/ f = e
        /\ Waiting(e) /\ 1 \in 1 .. Len(events) /\ Len(events) \in Nat \ {0}
        /\ \A i \in 1 .. Len(events') : events'[i] = events[i + 1] /\ i + 1 \in 1 .. Len(events)
    BY <1>0, <2>1, WaitingReceived
  <2>3. /\ Len(r) <= tokens /\ r = [i \in 1 .. Len(r) |-> i]
        /\ \A k \in 1 .. tokens : k > Len(r) <=> Waiting(Chunk(k))
    BY <1>0, <2>1 DEF Reported, Listening
  <2>4. CASE e.type = "writer_token"
    <3>1. PICK k \in 1 .. tokens : e = Chunk(k)
      <4>1. e \in Sent("writer_token")
        BY <1>0, <2>2, <2>4 DEF Streamed, SentAt, Sent
      <4> QED
        BY <1>0, <4>1 DEF Verdicts
    <3>2. recorder' = [recorder EXCEPT !.report = Append(@, k)]
      BY <2>1, <2>4, <3>1, EventParts DEF OnEvent, Chunk
    <3>3. recorder'.report = Append(r, k)
      BY <1>0, <3>2 DEF TypeOK
    <3>4. \A j \in 1 .. Len(events) : 1 < j /\ events[j].type = "writer_token" => k < events[j].k
      BY <1>0, <2>2, <2>4, <3>1, EventParts DEF Streamed, InTurn, Chunk
    <3>5. \A m \in 1 .. tokens : Waiting(Chunk(m)) => m >= k
      <4> TAKE m \in 1 .. tokens
      <4> HAVE Waiting(Chunk(m))
      <4>1. PICK j \in 1 .. Len(events) : events[j] = Chunk(m)
        BY DEF Waiting
      <4>2. events[j].type = "writer_token" /\ events[j].k = m
        BY <4>1, EventParts DEF Chunk
      <4>3. CASE j = 1
        BY <3>1, <4>2, <4>3, EventParts DEF Chunk
      <4>4. CASE j # 1
        <5>1. 1 < j
          BY <2>2, <4>4
        <5> QED
          BY <3>4, <4>2, <5>1
      <4> QED
        BY <4>3, <4>4
    <3>6. k = Len(r) + 1
      <4>1. k > Len(r)
        BY <2>2, <2>3, <3>1
      <4>2. PICK m \in Int : m = Len(r) + 1
        BY <1>a
      <4>3. m \in 1 .. tokens /\ m > Len(r)
        BY <1>a, <4>1, <4>2
      <4>4. m >= k
        BY <2>3, <3>5, <4>3
      <4> QED
        BY <1>a, <4>1, <4>2, <4>4
    <3>7. ~ Waiting(Chunk(k))'
      <4>1. ASSUME NEW i \in 1 .. Len(events'), events'[i] = Chunk(k) PROVE FALSE
        <5>1. i + 1 \in 1 .. Len(events) /\ 1 < i + 1 /\ events[i + 1] = Chunk(k)
          BY <2>2, <4>1
        <5>2. k < k
          BY <3>4, <5>1, EventParts DEF Chunk
        <5> QED
          BY <5>2
      <4> QED
        BY <4>1 DEF Waiting
    <3>8. k \in 1 .. MaxTokens
      BY <1>a
    <3>9. Len(Append(r, k)) = k /\ Append(r, k) = [i \in 1 .. k |-> i]
      BY <1>a, <2>3, <3>6, <3>8, CountedAppend
    <3>10. \A m \in 1 .. tokens : m > k <=> Waiting(Chunk(m))'
      <4> TAKE m \in 1 .. tokens
      <4>1. CASE m = k
        BY <3>7, <4>1
      <4>2. CASE m # k
        <5>1. Chunk(m) # e
          BY <3>1, <4>2, EventParts DEF Chunk
        <5>2. Waiting(Chunk(m))' <=> Waiting(Chunk(m))
          BY <2>2, <5>1
        <5>3. m > Len(r) <=> m > k
          BY <1>a, <3>6, <4>2
        <5> QED
          BY <2>3, <5>2, <5>3
      <4> QED
        BY <4>1, <4>2
    <3>11. (recorder').report = [i \in 1 .. k |-> i] /\ Len((recorder').report) = k
           /\ k <= tokens'
      BY <2>1, <3>3, <3>9
    <3> QED
      BY <2>1, <3>10, <3>11 DEF Reported
  <2>5. CASE e.type # "writer_token"
    <3>1. recorder'.report = r
      BY <1>0, <2>1, <2>5 DEF OnEvent, TypeOK
    <3>2. \A m : Waiting(Chunk(m))' <=> Waiting(Chunk(m))
      BY <2>2, <2>5, EventParts DEF Chunk
    <3> QED
      BY <2>1, <2>3, <3>1, <3>2 DEF Reported
  <2> QED
    BY <2>4, <2>5
<1>3. CASE Drain
  <2>1. handler \notin {"recv", "write"} /\ handler' = handler
    BY <1>0, <1>3 DEF Drain, Handled, handlerVars
  <2> QED
    BY <2>1 DEF Reported, Listening
<1>4. ASSUME events' = events, emitted' = emitted, ~ CreateSession, ~ Receive PROVE Reported'
  <2>1. tokens' = tokens
    <3>1. ~ Token
      BY <1>0, <1>4 DEF Token, Emit, TypeOK
    <3> QED
      BY <3>1, EngineFrame DEF engineVars, PlanFails, PlanMade, LookUpTool, SchedulerReturns,
         CollectFindings, CheckToken, StreamEnds, EmitVerdict, SendErr, CloseEvents, CreateSession
  <2>2. recorder' = recorder /\ (Listening' => Listening)
    BY <1>4, HandlerFrame DEF handlerVars, storeVars, WriteEvent, WriteFails, EndOfStream,
                              AwaitErr, Finalize, Listening
  <2>3. \A f : Waiting(f)' <=> Waiting(f)
    BY <1>4 DEF Waiting
  <2> QED
    BY <1>0, <2>1, <2>2, <2>3 DEF Reported
<1>5. ASSUME NEW e \in Events,
             Len(events) \in Nat, Len(events') = Len(events) + 1,
             \A i \in 1 .. Len(events) : events'[i] = events[i],
             events'[Len(events) + 1] = e,
             UNCHANGED <<handlerVars, storeVars>>,
             IF e.type = "writer_token" THEN tokens' = tokens + 1 /\ e = Chunk(tokens')
                                        ELSE tokens' = tokens
      PROVE  Reported'
  <2>1. UNCHANGED <<recorder, handler>>
    BY <1>5 DEF handlerVars, storeVars
  <2>2. \A f : Waiting(f)' <=> Waiting(f) \/ f = e
    BY <1>5, WaitingSent
  <2>3. SUFFICES ASSUME Listening' PROVE Reported'
    BY DEF Reported
  <2>4. /\ Len(recorder.report) <= tokens
        /\ recorder.report = [i \in 1 .. Len(recorder.report) |-> i]
        /\ \A k \in 1 .. tokens : k > Len(recorder.report) <=> Waiting(Chunk(k))
    BY <1>0, <2>1, <2>3 DEF Reported, Listening
  <2>5. tokens' \in Nat /\ tokens <= tokens'
    BY <1>5, <1>a
  <2>6. \A k \in 1 .. tokens' : k > Len(recorder.report) <=> Waiting(Chunk(k))'
    <3> TAKE k \in 1 .. tokens'
    <3>1. CASE e.type = "writer_token" /\ k = tokens'
      BY <1>5, <1>a, <2>2, <2>4, <3>1
    <3>2. CASE e.type = "writer_token" /\ k # tokens'
      <4>1. k \in 1 .. tokens
        BY <1>5, <1>a, <3>2
      <4>2. Chunk(k) # e
        BY <1>5, <3>2, EventParts DEF Chunk
      <4> QED
        BY <2>2, <2>4, <4>1, <4>2
    <3>3. CASE e.type # "writer_token"
      <4>1. Chunk(k) # e /\ tokens' = tokens
        BY <1>5, <3>3, EventParts DEF Chunk
      <4> QED
        BY <2>2, <2>4, <4>1
    <3> QED
      BY <3>1, <3>2, <3>3
  <2>7. Len(recorder.report) <= tokens'
    BY <1>a, <2>4, <2>5
  <2> QED
    BY <2>1, <2>4, <2>6, <2>7 DEF Reported
<1> QED
  BY <1>1, <1>2, <1>3, <1>4, <1>5, Flow

-------------------------------------------------------------------------------
(* The handler.                                                            *)

(* After the done event nothing is sent, and what was read stays read.     *)
LEMMA CompleteStays ==
  ASSUME IInv, [Next]_vars, recorder.pipelineOK
  PROVE  /\ Complete'
         /\ recorder' = recorder
<1>0. TypeOK /\ Stages /\ Verdicts /\ Recorded /\ Handled /\ Complete
  BY DEF IInv, Handled
<1>1. Done \in emitted /\ events = <<>> /\ handler # "begin"
  BY <1>0 DEF Complete, Recorded
<1>2. stage \in Late
  <2>1. Done \in Verdict
    BY <1>1, EventParts DEF Verdict, Sent, Done
  <2> QED
    BY <1>0, <2>1 DEF Verdicts
<1>3. ~ Receive /\ ~ CreateSession
  BY <1>1 DEF Receive, CreateSession
<1>4. events' = events /\ emitted' = emitted
  BY <1>1, <1>2, Flow
<1>5. tokens' = tokens
  <2>1. stage \notin {"writer", "idle"}
    BY <1>2 DEF Late
  <2> QED
    BY <2>1, EngineFrame DEF engineVars, PlanFails, PlanMade, LookUpTool, SchedulerReturns,
       CollectFindings, Token, GoTo, CheckToken, StreamEnds, EmitVerdict, SendErr, CloseEvents,
       CreateSession
<1>6. UNCHANGED <<recorder, tasks, unsaved>>
  BY <1>3, HandlerFrame DEF handlerVars, storeVars, WriteEvent, WriteFails, EndOfStream,
                            AwaitErr, Finalize
<1> QED
  BY <1>0, <1>4, <1>5, <1>6 DEF Complete

(* The done event is received last: everything is there by then.           *)
LEMMA CompleteMade ==
  ASSUME IInv, [Next]_vars, Receive, events[1].type = "done"
  PROVE  Complete' /\ recorder'.pipelineOK
<1> DEFINE r == recorder.report
<1>0. /\ TypeOK /\ Stages /\ Verdicts /\ Announced /\ Streamed /\ Recorded /\ Reported
  BY DEF IInv
<1>1. /\ handler = "recv" /\ events # <<>> /\ events' = Tail(events)
      /\ OnEvent(events[1]) /\ emitted' = emitted /\ tokens' = tokens
  BY <1>0, Heads DEF Receive, engineVars
<1>2. /\ 1 \in 1 .. Len(events) /\ Len(events) \in Nat \ {0} /\ Len(events') = Len(events) - 1
  BY <1>0, <1>1, WaitingReceived
<1>3. events[1] = Done /\ Done \in emitted /\ Len(events) = 1
  <2>1. SentAt(1)
    BY <1>0, <1>2 DEF Streamed
  <2>2. events[1] \in Sent("done") /\ 1 = Len(events)
    BY <2>1 DEF SentAt, Sent
  <2> QED
    BY <1>0, <2>2 DEF Verdicts, Sent
<1>4. \A f : Waiting(f) => f = Done
  BY <1>3 DEF Waiting
<1>5. events' = <<>>
  <2>1. events' \in Seq(Events) /\ Len(events') = 0
    BY <1>0, <1>1, <1>2, <1>3, Heads
  <2> QED
    BY <2>1, EmptySeq
<1>6. answer = "ok" /\ ThePlan \in emitted /\ stage \in Late /\ dagEvents = <<>>
  <2>1. answer = "ok" /\ Done \in Verdict
    BY <1>0, <1>3, EventParts DEF Verdicts, Verdict, Sent, Done
  <2>2. stage \in Late
    BY <1>0, <2>1 DEF Verdicts
  <2> QED
    BY <1>0, <2>1, <2>2 DEF Stages, Late
<1>7. /\ recorder' = [recorder EXCEPT !.pipelineOK = TRUE]
      /\ UNCHANGED <<tasks, unsaved>>
  BY <1>1 DEF OnEvent
<1>8. recorder'.report = r /\ recorder'.pipelineOK
  BY <1>0, <1>7 DEF TypeOK
<1>9. r = [i \in 1 .. tokens |-> i]
  <2>1. /\ Len(r) <= tokens /\ r = [i \in 1 .. Len(r) |-> i]
        /\ \A k \in 1 .. tokens : k > Len(r) <=> Waiting(Chunk(k))
        /\ Len(r) \in Nat /\ tokens \in Nat
    BY <1>0, <1>1, CapAssumption DEF Reported, Listening, TypeOK
  <2>2. \A k : Chunk(k) # Done
    BY EventParts DEF Chunk, Done
  <2>3. \A k \in 1 .. tokens : ~ (k > Len(r))
    BY <1>4, <2>1, <2>2
  <2>4. Len(r) = tokens
    <3>1. tokens = 0 \/ tokens \in 1 .. tokens
      BY <2>1
    <3> QED
      BY <2>1, <2>3, <3>1
  <2> QED
    BY <2>1, <2>4
<1>10. ASSUME ~ unsaved, NEW n \in Node
       PROVE  n \in DOMAIN tasks
              /\ tasks[n] = [status |-> "done", question |-> TRUE, sortOrder |-> n - 1]
  <2>1. ThePlan # Done
    BY EventParts DEF ThePlan, Done
  <2>2. PlanSaved
    BY <1>1, <1>4, <1>6, <1>10, <2>1 DEF PlanSaved, Listening
  <2>3. DOMAIN tasks = Node /\ tasks[n].sortOrder = n - 1
    BY <1>0, <2>2 DEF Recorded
  <2>4. Finished(n)
    BY <1>0, <1>6, AllFinished
  <2>5. ResultKept(n)
    BY <1>0, <1>1, <2>4 DEF Recorded, Listening
  <2>6. \A i \in 1 .. Len(events) : events[i].type # "node_finished"
    BY <1>3, EventParts DEF Done
  <2>7. tasks[n].status = "done" /\ tasks[n].question
    BY <1>10, <2>5, <2>6 DEF ResultKept
  <2>8. tasks[n] \in TaskRow
    BY <1>0, <2>3 DEF TypeOK, Range
  <2>9. tasks[n].question \in BOOLEAN
    BY <2>8 DEF TaskRow
  <2>10. tasks[n] = [status |-> tasks[n].status, question |-> tasks[n].question,
                     sortOrder |-> tasks[n].sortOrder]
    BY <2>8 DEF TaskRow
  <2> QED
    BY <2>3, <2>7, <2>9, <2>10
<1> QED
  BY <1>1, <1>3, <1>5, <1>7, <1>8, <1>9, <1>10 DEF Complete

LEMMA OKStep ==
  ASSUME IInv, [Next]_vars
  PROVE  recorder'.pipelineOK => Complete'
<1>0. TypeOK
  BY DEF IInv
<1>1. CASE recorder.pipelineOK
  BY <1>1, CompleteStays
<1>2. CASE ~ recorder.pipelineOK /\ Receive
  <2>1. OnEvent(events[1])
    BY <1>0, <1>2, Heads DEF Receive
  <2>2. events[1].type # "done" => recorder'.pipelineOK = recorder.pipelineOK
    BY <1>0, <2>1 DEF OnEvent, TypeOK
  <2> QED
    BY <1>2, <2>2, CompleteMade
<1>3. CASE ~ recorder.pipelineOK /\ ~ Receive
  <2>1. recorder' = recorder
    BY <1>3, HandlerFrame DEF storeVars, CreateSession, WriteEvent, WriteFails, EndOfStream,
                              AwaitErr, Finalize
  <2> QED
    BY <1>3, <2>1
<1> QED
  BY <1>1, <1>2, <1>3

(* What the handler waits for does not go away again.                      *)
LEMMA Onward ==
  ASSUME IInv, [Next]_vars
  PROVE  /\ stage' = "idle" => stage = "idle"
         /\ stage = "idle" /\ ~ CreateSession => stage' = "idle"
         /\ pipelineErr # "open" => pipelineErr' = pipelineErr
         /\ closed => closed' /\ emitted' = emitted
         /\ Done \in emitted => Done \in emitted'
         /\ Done \in emitted' /\ Done \notin emitted => Waiting(Done)'
<1>0. Stages /\ Verdicts
  BY DEF IInv
<1>1. /\ stage' = "idle" => stage = "idle"
      /\ stage = "idle" /\ ~ CreateSession => stage' = "idle"
      /\ pipelineErr # "open" => pipelineErr' = pipelineErr
  BY <1>0, EngineFrame DEF engineVars, PlanFails, PlanMade, LookUpTool, SchedulerReturns, GoTo,
     CollectFindings, Token, CheckToken, StreamEnds, EmitVerdict, SendErr, CloseEvents,
     CreateSession, Verdicts
<1>2. closed => closed' /\ emitted' = emitted
  <2>1. closed => stage \in Late
    BY <1>0 DEF Stages, Late
  <2>2. closed => emitted' = emitted
    BY <2>1, Flow
  <2>3. closed => closed'
    BY EventFrame DEF eventChan, PlanMade, Token, EmitVerdict, CloseEvents, Bridge, Receive, Drain,
                      Report, Emit
  <2> QED
    BY <2>2, <2>3
<1>3. /\ Done \in emitted => Done \in emitted'
      /\ Done \in emitted' /\ Done \notin emitted => Waiting(Done)'
  BY Flow, WaitingSent
<1> QED
  BY <1>1, <1>2, <1>3

LEMMA HandledInit == Init => Handled
BY DEF Init, Handled, Listening, Complete

LEMMA HandledStep ==
  ASSUME IInv, [Next]_vars
  PROVE  Handled'
<1>0. TypeOK /\ Stages /\ Verdicts /\ Streamed /\ Recorded /\ Handled
  BY DEF IInv
<1>1. recorder'.pipelineOK => Complete'
  BY OKStep
<1>2. recorder.pipelineOK => recorder' = recorder
  BY CompleteStays
<1> USE DEF Listening
<1>3. CASE UNCHANGED <<handlerVars, storeVars>>
  <2>1. ~ CreateSession /\ ~ Receive
    BY <1>0, <1>3 DEF CreateSession, Receive, handlerVars
  <2>2. \/ \A f : Waiting(f) => Waiting(f)'
        \/ Drain
    <3>1. events' = events => \A f : Waiting(f) => Waiting(f)'
      BY DEF Waiting
    <3> QED
      BY <2>1, <3>1, Flow, WaitingSent
  <2>3. handler \in {"recv", "write"} => ~ Drain
    BY <1>0 DEF Drain, Handled
  <2> QED
    BY <1>0, <1>1, <1>3, <2>1, <2>2, <2>3, Onward DEF Handled, handlerVars, storeVars
<1>4. CASE CreateSession
  <2>1. /\ handler = "begin" /\ handler' \in {"recv", "returned"}
        /\ UNCHANGED <<draining, recorder, pipelineErr, emitted>>
        /\ \/ handler' = "returned" /\ UNCHANGED <<stage, session>>
           \/ handler' = "recv" /\ stage' = "planner"
              /\ session' = [session EXCEPT !.status = "running"]
    BY <1>4 DEF CreateSession, eventChan
  <2>2. stage = "idle" /\ session.status = "none" /\ emitted = {} /\ ~ draining
    BY <1>0, <2>1 DEF Handled, Stages
  <2>3. \/ session'.status = "none" /\ stage' = "idle" /\ handler' = "returned"
        \/ session'.status = "running" /\ stage' = "planner" /\ handler' = "recv"
    BY <1>0, <2>1, <2>2 DEF TypeOK
  <2> QED
    BY <1>1, <2>1, <2>2, <2>3 DEF Handled
<1>5. CASE Receive
  <2>1. /\ handler = "recv" /\ handler' = "write" /\ events # <<>> /\ events' = Tail(events)
        /\ UNCHANGED <<emitted, session, stage, draining>>
    BY <1>5 DEF Receive, engineVars
  <2>2. session.status = "running" /\ stage # "idle" /\ ~ draining
    BY <1>0, <2>1 DEF Handled
  <2>3. ASSUME Done \in emitted PROVE Waiting(Done)' \/ recorder'.pipelineOK
    <3>1. CASE Waiting(Done) /\ events[1] = Done
      BY <1>5, <3>1, EventParts, CompleteMade DEF Done
    <3>2. CASE Waiting(Done) /\ events[1] # Done
      BY <1>0, <2>1, <3>2, WaitingReceived
    <3>3. CASE recorder.pipelineOK
      BY <1>2, <3>3
    <3> QED
      BY <1>0, <2>1, <2>3, <3>1, <3>2, <3>3 DEF Handled
  <2> QED
    BY <1>1, <2>1, <2>2, <2>3 DEF Handled
<1>6. CASE WriteEvent \/ WriteFails \/ EndOfStream \/ AwaitErr
  <2>1. /\ UNCHANGED <<engineVars, eventChan, storeVars>>
        /\ \/ handler = "write" /\ handler' = "recv" /\ draining' = draining
           \/ handler = "write" /\ handler' = "await" /\ draining'
           \/ handler = "recv" /\ handler' = "await" /\ draining' = draining
              /\ events = <<>> /\ closed
           \/ handler = "await" /\ handler' = "finalize" /\ draining' = draining
              /\ pipelineErr # "open"
    BY <1>6 DEF WriteEvent, WriteFails, EndOfStream, AwaitErr, StartDrain
  <2>2. events = <<>> => ~ Waiting(Done)
    BY DEF Waiting
  <2>3. Waiting(Done)' <=> Waiting(Done)
    BY <2>1 DEF Waiting, eventChan
  <2> QED
    BY <1>0, <1>1, <2>1, <2>2, <2>3 DEF Handled, engineVars, eventChan, storeVars
<1>7. CASE Finalize
  <2>1. /\ handler = "finalize" /\ handler' = "returned"
        /\ UNCHANGED <<engineVars, eventChan, draining, recorder>>
        /\ \/ session' = session
           \/ session' = [status |-> IF Succeeded THEN "completed" ELSE "failed",
                          report |-> recorder.report, message |-> FailMessage]
    BY <1>7 DEF Finalize, CompleteSession
  <2>2. session.status = "running" /\ stage # "idle" /\ pipelineErr \in {"nil", "err"}
    BY <1>0, <2>1 DEF Handled, TypeOK
  <2>3. ~ FailMessage => pipelineErr = "nil"
    BY <2>2 DEF FailMessage
  <2>4. pipelineErr = "nil" /\ ~ draining => Succeeded
    BY <1>0, <2>1 DEF Handled, Verdicts, Succeeded
  <2>5. ~ Succeeded /\ ~ FailMessage => draining /\ pipelineErr = "nil"
    BY <1>0, <2>3, <2>4 DEF TypeOK
  <2>6. CASE session' = session
    BY <1>0, <1>1, <2>1, <2>2, <2>6 DEF Handled, engineVars, eventChan
  <2>7. CASE session' = [status |-> IF Succeeded THEN "completed" ELSE "failed",
                         report |-> recorder.report, message |-> FailMessage]
    <3>1. /\ session'.status = IF Succeeded THEN "completed" ELSE "failed"
          /\ session'.report = recorder.report /\ session'.message = FailMessage
      BY <2>7
    <3>2. session'.status = "completed" =>
            recorder'.pipelineOK /\ pipelineErr' = "nil" /\ session'.report = recorder'.report
      BY <2>1, <3>1 DEF Succeeded, engineVars
    <3>3. session'.status = "failed" /\ ~ session'.message => draining' /\ pipelineErr' = "nil"
      BY <2>1, <2>5, <3>1 DEF engineVars
    <3>4. session'.status # "none" /\ stage' # "idle"
      BY <2>1, <2>2, <3>1 DEF engineVars
    <3> QED
      BY <1>1, <2>1, <3>2, <3>3, <3>4 DEF Handled
  <2> QED
    BY <2>1, <2>6, <2>7
<1> QED
  BY <1>3, <1>4, <1>5, <1>6, <1>7, HandlerFrame

-------------------------------------------------------------------------------
(* The theorems.                                                           *)

LEMMA Inductive ==
  /\ Init => IInv
  /\ IInv /\ [Next]_vars => IInv'
<1>1. Init => IInv
  BY TypeInit, StagesInit, ReportingInit, VerdictsInit, DagOrderInit, AnnouncedInit, EndedInit,
     StreamedInit, RecordedInit, ReportedInit, HandledInit DEF IInv
<1>2. IInv /\ [Next]_vars => IInv'
  BY TypeStep, StagesStep, ReportingStep, VerdictsStep, DagOrderStep, AnnouncedStep, EndedStep,
     StreamedStep, RecordedStep, ReportedStep, HandledStep DEF IInv
<1> QED
  BY <1>1, <1>2

(* IInv holds throughout a request, whatever the plan, the failures of     *)
(* subtasks and statements, the client and the deadline do; its first part *)
(* is the type invariant.                                                  *)
THEOREM Invariance == Spec => []IInv
BY Inductive, PTL DEF Spec

THEOREM TypeCorrect == Spec => []TypeOK
<1>1. IInv => TypeOK
  BY DEF IInv
<1> QED
  BY <1>1, Invariance, PTL

(* Nothing is sent on events once the pipeline goroutine has closed it: by *)
(* then no node and no bridge is left that could.                          *)
THEOREM NoSendOnClosedHolds == Spec => []NoSendOnClosed
<1>1. IInv => NoSendOnClosed
  BY ClosedIsQuiet DEF IInv
<1> QED
  BY <1>1, Invariance, PTL

(* The scheduler's non-blocking emit never finds dagEvents full, when the  *)
(* channel has 2 * MaxRetry + 3 places for each subtask of the plan.       *)
THEOREM NoDagEventLostHolds == Spec => []NoDagEventLost
<1>1. IInv => NoDagEventLost
  BY DEF IInv, DagOrder, NoDagEventLost
<1> QED
  BY <1>1, Invariance, PTL

(* A session that Finalize records as completed has the whole report and,  *)
(* but for a failed statement, a finished row for every subtask.           *)
THEOREM CompletedIsWholeHolds == Spec => []CompletedIsWhole
<1>1. ASSUME IInv PROVE CompletedIsWhole
  <2>1. SUFFICES ASSUME session.status = "completed"
        PROVE  /\ answer = "ok"
               /\ session.report = [i \in 1 .. tokens |-> i]
               /\ ~ unsaved => \A n \in Node :
                    n \in DOMAIN tasks /\ tasks[n] = [status |-> "done", question |-> TRUE,
                                                      sortOrder |-> n - 1]
    BY DEF CompletedIsWhole
  <2>2. Complete /\ session.report = recorder.report
    BY <1>1, <2>1 DEF IInv, Handled
  <2>3. answer = "ok"
    BY <1>1, <2>2 DEF IInv, Complete, Verdicts
  <2> QED
    BY <2>2, <2>3 DEF Complete
<1> QED
  BY <1>1, Invariance, PTL

(* A session that Finalize records as failed carries a message, except     *)
(* after the client hung up on a run that then succeeded.                  *)
THEOREM FailureExplainedHolds == Spec => []FailureExplained
<1>1. IInv => FailureExplained
  BY DEF IInv, Handled, FailureExplained
<1> QED
  BY <1>1, Invariance, PTL

(* The engine and the bridge send the events of a run in the order the     *)
(* client relies on, from two goroutines and through a channel.            *)
THEOREM OrderedStreamHolds == Spec => OrderedStream
<1>1. IInv /\ [Next]_vars => [\A e \in emitted' \ emitted : SentInOrder(e)]_vars
  BY OrderedStep
<1> QED
  BY <1>1, Invariance, PTL DEF Spec, OrderedStream

-------------------------------------------------------------------------------
(* The refinement of SessionLog.                                           *)

RowOf(n) == IF n \in DOMAIN tasks THEN tasks[n].status ELSE "absent"

TheRows == [n \in Node |-> RowOf(n)]

TheLog == [status |-> session.status, rows |-> TheRows, lost |-> unsaved]

LEMMA RowStatus ==
  ASSUME TypeOK, NEW n \in Node
  PROVE  RowOf(n) \in {"absent", "pending", "running", "done", "failed"}
<1>1. CASE n \in DOMAIN tasks
  <2>1. tasks[n] \in TaskRow
    BY <1>1 DEF TypeOK, Range
  <2> QED
    BY <1>1, <2>1 DEF TaskRow, RowOf
<1> QED
  BY <1>1 DEF RowOf

(* Only creation, the events and Finalize write to the rows.               *)
LEMMA LogWriters ==
  ASSUME [Next]_vars
  PROVE  \/ UNCHANGED <<session, tasks, unsaved>>
         \/ CreateSession /\ session' = [session EXCEPT !.status = "running"]
            /\ UNCHANGED <<tasks, unsaved>>
         \/ Receive /\ UNCHANGED session
         \/ Finalize /\ UNCHANGED <<tasks, unsaved>>
BY HandlerFrame DEF handlerVars, storeVars, CreateSession, Receive, WriteEvent, WriteFails,
                    EndOfStream, AwaitErr, Finalize

LEMMA LogInit == Init => Rows!Init
<1> SUFFICES ASSUME Init PROVE Rows!Init
  OBVIOUS
<1>1. session.status = "none" /\ DOMAIN tasks = {} /\ ~ unsaved
  BY DEF Init
<1>2. unsaved = FALSE
  BY DEF Init
<1> QED
  BY <1>1, <1>2 DEF Rows!Init, Rows!NoLog

(* A subtask's row never becomes less final: what is final is settled, and *)
(* of a settled subtask no event is received any more.                     *)
LEMMA LogSaved ==
  ASSUME IInv, [Next]_vars, Receive, events[1].type \in Steps
  PROVE  \/ TheLog' = TheLog
         \/ TheLog' \in Rows!Saves(TheLog)
<1> DEFINE e == events[1]
<1>0. TypeOK /\ Recorded /\ Streamed /\ Handled
  BY DEF IInv
<1>1. /\ handler = "recv" /\ events # <<>> /\ events' = Tail(events)
      /\ OnEvent(e) /\ session' = session
  BY <1>0, Heads DEF Receive
<1>2. 1 \in 1 .. Len(events)
  BY <1>0, <1>1, WaitingReceived
<1>3. PICK n \in Node : e.id = n
  BY <1>0, <1>2 DEF Streamed, SentAt
<1>4. PICK s \in {"running", "done", "failed"}, q \in BOOLEAN : SaveTask(n, s, q)
  BY <1>1, <1>3 DEF OnEvent, Steps
<1>5. recorder' = recorder
  BY <1>1 DEF OnEvent, Steps
<1>6. \/ tasks' = tasks /\ unsaved'
      \/ /\ DOMAIN tasks' = DOMAIN tasks \cup {n} /\ Range(tasks') \subseteq TaskRow
         /\ \A m \in DOMAIN tasks \ {n} : tasks'[m] = tasks[m]
         /\ tasks'[n] \in TaskRow /\ tasks'[n].status = s /\ tasks'[n].question = q
         /\ n \in DOMAIN tasks => tasks'[n].sortOrder = tasks[n].sortOrder
         /\ unsaved' = unsaved
  BY <1>4, <1>5, ReceiveStep
<1>7. RowOf(n) \in {"absent", "pending", "running"}
  <2>1. ~ Settled(n)
    BY <1>2, <1>3 DEF Settled
  <2>2. n \in DOMAIN tasks => tasks[n].status \notin {"done", "failed"}
    BY <1>0, <2>1 DEF Recorded
  <2> QED
    BY <1>0, <2>2, RowStatus DEF RowOf
<1>8. /\ TheLog.status = "running" /\ TheLog.rows = TheRows /\ TheRows[n] = RowOf(n)
      /\ Rows!Open(TheLog)
  BY <1>0, <1>1 DEF Handled, TheLog, TheRows, Rows!Open
<1>9. CASE tasks' = tasks /\ unsaved'
  <2>1. unsaved' = TRUE
    BY <1>9, TypeStep DEF TypeOK
  <2>2. TheRows' = TheRows
    BY <1>9 DEF TheRows, RowOf
  <2>3. TheLog' = [TheLog EXCEPT !.lost = TRUE]
    <3>1. PICK b \in BOOLEAN : b = TRUE
      OBVIOUS
    <3>2. unsaved' = b
      BY <2>1, <3>1, Zenon
    <3>3. TheLog' = [TheLog EXCEPT !.lost = b]
      BY <1>1, <2>2, <3>2 DEF TheLog
    <3> QED
      BY <3>1, <3>3, Zenon
  <2> QED
    BY <1>8, <2>3 DEF Rows!Saves
<1>10. ASSUME DOMAIN tasks' = DOMAIN tasks \cup {n},
              \A m \in DOMAIN tasks \ {n} : tasks'[m] = tasks[m],
              tasks'[n].status = s, unsaved' = unsaved
       PROVE  TheLog' \in Rows!Saves(TheLog)
  <2>1. TheRows' = [TheRows EXCEPT ![n] = s]
    <3>1. ASSUME NEW m \in Node PROVE RowOf(m)' = IF m = n THEN s ELSE RowOf(m)
      BY <1>10 DEF RowOf
    <3> QED
      BY <3>1 DEF TheRows
  <2>2. TheLog' = [TheLog EXCEPT !.rows[n] = s]
    BY <1>1, <1>10, <2>1 DEF TheLog
  <2>3. s \in Rows!Row
    BY DEF Rows!Row, Rows!Rank
  <2>4. Rows!Forward(TheLog.rows[n], s)
    BY <1>7, <1>8 DEF Rows!Forward, Rows!Rank
  <2> QED
    BY <1>8, <2>2, <2>3, <2>4 DEF Rows!Saves
<1> QED
  BY <1>6, <1>9, <1>10

(* The plan's rows are the first, and none was lost before.                *)
LEMMA LogSeeded ==
  ASSUME IInv, [Next]_vars, Receive, events[1].type = "plan"
  PROVE  TheLog' \in Rows!Seedings(TheLog)
<1> DEFINE e == events[1]
<1>0. TypeOK /\ Recorded /\ Streamed /\ Verdicts /\ Handled
  BY DEF IInv
<1>1. /\ handler = "recv" /\ events # <<>> /\ events' = Tail(events)
      /\ OnEvent(e) /\ session' = session
  BY <1>0, Heads DEF Receive
<1>2. Waiting(e) /\ 1 \in 1 .. Len(events)
  BY <1>0, <1>1, WaitingReceived
<1>3. e = ThePlan
  BY <1>0, <1>2 DEF Streamed, SentAt, Sent, Verdicts
<1>4. tasks = <<>> /\ ~ unsaved /\ session.status = "running"
  BY <1>0, <1>1, <1>2, <1>3 DEF Recorded, PlanAhead, Listening, Handled
<1>5. PICK F \in SUBSET Node :
        /\ tasks' = [n \in Node \ F |->
                       [status |-> "pending", question |-> TRUE, sortOrder |-> n - 1]]
        /\ unsaved' = (F # {})
  BY <1>1, <1>3 DEF OnEvent, SeedTasks
<1>6. TheRows = [n \in Node |-> "absent"]
  <2>1. DOMAIN tasks = {}
    BY <1>4
  <2> QED
    BY <2>1 DEF TheRows, RowOf
<1>7. TheRows' = [n \in Node |-> IF n \in F THEN "absent" ELSE "pending"]
  <2>1. \A n \in Node : RowOf(n)' = IF n \in F THEN "absent" ELSE "pending"
    BY <1>5 DEF RowOf
  <2> QED
    BY <2>1 DEF TheRows
<1>8. TheLog' = [status |-> TheLog.status,
                 rows |-> [n \in Node |-> IF n \in F THEN "absent" ELSE "pending"],
                 lost |-> F # {}]
  <2>1. TheLog' = [status |-> TheLog.status, rows |-> TheRows', lost |-> unsaved']
    BY <1>1 DEF TheLog
  <2> QED
    BY <1>5, <1>7, <2>1, Zenon
<1>9. Rows!Open(TheLog) /\ TheLog.rows = Rows!NoLog.rows /\ ~ TheLog.lost
  BY <1>4, <1>6 DEF TheLog, Rows!Open, Rows!NoLog
<1> QED
  BY <1>8, <1>9 DEF Rows!Seedings

LEMMA LogClosed ==
  ASSUME IInv, Finalize, UNCHANGED <<tasks, unsaved>>
  PROVE  \/ TheLog' = TheLog
         \/ TheLog' \in Rows!Closings(TheLog)
<1>0. Handled
  BY DEF IInv
<1>1. /\ handler = "finalize"
      /\ \/ session' = session
         \/ session' = [status |-> IF Succeeded THEN "completed" ELSE "failed",
                        report |-> recorder.report, message |-> FailMessage]
  BY DEF Finalize, CompleteSession
<1>2. TheRows' = TheRows
  BY DEF TheRows, RowOf
<1>3. CASE session' = session
  BY <1>2, <1>3 DEF TheLog
<1>4. CASE session'.status \in {"completed", "failed"}
           /\ (session'.status = "completed" => Succeeded)
  <2>1. TheLog' = [TheLog EXCEPT !.status = session'.status]
    BY <1>2 DEF TheLog
  <2>2. Rows!Open(TheLog)
    BY <1>0, <1>1 DEF Handled, TheLog, Rows!Open
  <2>3. session'.status = "completed" => Rows!Whole(TheLog)
    <3>1. SUFFICES ASSUME Complete PROVE Rows!Whole(TheLog)
      BY <1>0, <1>4 DEF Handled, Succeeded
    <3>2. ASSUME ~ unsaved, NEW n \in Node PROVE RowOf(n) = "done"
      <4>1. n \in DOMAIN tasks
            /\ tasks[n] = [status |-> "done", question |-> TRUE, sortOrder |-> n - 1]
        BY <3>1, <3>2 DEF Complete
      <4>2. tasks[n].status = "done"
        BY <4>1
      <4> QED
        BY <4>1, <4>2 DEF RowOf
    <3> QED
      BY <3>2 DEF Rows!Whole, TheLog, TheRows
  <2>4. TheLog'.status = session'.status
    BY DEF TheLog
  <2> QED
    BY <1>4, <2>1, <2>2, <2>3, <2>4 DEF Rows!Closings
<1> QED
  BY <1>1, <1>3, <1>4

LEMMA LogStep ==
  ASSUME IInv, [Next]_vars
  PROVE  [Rows!Next]_TheLog
<1>0. TypeOK /\ Handled
  BY DEF IInv
<1>1. CASE UNCHANGED <<session, tasks, unsaved>>
  BY <1>1 DEF TheLog, TheRows, RowOf
<1>2. CASE CreateSession /\ session' = [session EXCEPT !.status = "running"]
           /\ UNCHANGED <<tasks, unsaved>>
  <2>1. session.status = "none" /\ session'.status = "running"
    BY <1>0, <1>2 DEF CreateSession, Handled, TypeOK
  <2>2. TheRows' = TheRows
    BY <1>2 DEF TheRows, RowOf
  <2>3. TheLog' = [TheLog EXCEPT !.status = "running"] /\ TheLog.status = "none"
    BY <1>2, <2>1, <2>2 DEF TheLog
  <2>4. TheLog' \in Rows!Creations(TheLog)
    BY <2>3 DEF Rows!Creations
  <2> QED
    BY <2>4 DEF Rows!Next, Rows!After, TheLog, TheRows, RowOf
<1>3. CASE Receive /\ UNCHANGED session
  <2>1. OnEvent(events[1])
    BY <1>0, <1>3, Heads DEF Receive
  <2>2. CASE events[1].type \in Steps
    BY <1>3, <2>2, LogSaved DEF Rows!Next, Rows!After, TheLog, TheRows, RowOf
  <2>3. CASE events[1].type = "plan"
    BY <1>3, <2>3, LogSeeded DEF Rows!Next, Rows!After, TheLog, TheRows, RowOf
  <2>4. CASE events[1].type \notin Steps \cup {"plan"}
    <3>1. UNCHANGED <<session, tasks, unsaved>>
      BY <1>3, <2>1, <2>4 DEF OnEvent, Steps
    <3> QED
      BY <1>1, <3>1
  <2> QED
    BY <2>2, <2>3, <2>4
<1>4. CASE Finalize /\ UNCHANGED <<tasks, unsaved>>
  BY <1>4, LogClosed DEF Rows!Next, Rows!After, TheLog, TheRows, RowOf
<1> QED
  BY <1>1, <1>2, <1>3, <1>4, LogWriters

(* The rows a request leaves evolve as SessionLog says, whatever happens:  *)
(* no status of a task ever goes back, nothing is written after the        *)
(* session's verdict, and a session that completed has every row finished  *)
(* unless a statement was lost.                                            *)
THEOREM ImplementsSessionLogHolds == Spec => ImplementsSessionLog
<1>1. Init => Rows!Init
  BY LogInit
<1>2. IInv /\ [Next]_vars => [Rows!Next]_TheLog
  BY LogStep
<1>3. Rows!Spec <=> Rows!Init /\ [][Rows!Next]_TheLog
  BY DEF Rows!Spec, TheLog, TheRows, RowOf
<1> QED
  BY <1>1, <1>2, <1>3, Invariance, PTL DEF Spec, ImplementsSessionLog
===============================================================================
