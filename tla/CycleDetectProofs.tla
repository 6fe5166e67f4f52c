--------------------------- MODULE CycleDetectProofs ---------------------------
(***************************************************************************)
(* Proofs about CycleDetect: for every graph, of any size, with lists of   *)
(* any length, the verdict of Graph.Validate is right.  The invariant of   *)
(* the search is CycleInv; its parts are proved preserved one by one.      *)
(***************************************************************************)
EXTENDS CycleDetect, SequenceTheorems, FiniteSetTheorems, TLAPS

-------------------------------------------------------------------------------
(* The operators on the stack.                                             *)

LEMMA TopType ==
  ASSUME TypeOK, stack # <<>>
  PROVE  /\ Len(stack) \in Nat \ {0} /\ Top \in Entry /\ Top = stack[Len(stack)]
         /\ Top.id \in Node /\ Top.finishing \in BOOLEAN
<1>1. stack \in Seq(Entry)
  BY DEF TypeOK
<1>2. Len(stack) \in Nat \ {0}
  BY <1>1, EmptySeq
<1>3. Top \in Entry
  BY <1>1, <1>2, ElementOfSeq DEF Top
<1> QED BY <1>2, <1>3 DEF Top, Entry

LEMMA PopType ==
  ASSUME TypeOK, stack # <<>>
  PROVE  /\ Pop \in Seq(Entry)
         /\ Len(Pop) = Len(stack) - 1
         /\ \A k \in 1 .. Len(Pop) : Pop[k] = stack[k]
<1>1. stack \in Seq(Entry)
  BY DEF TypeOK
<1>2. Len(stack) \in Nat \ {0}
  BY <1>1, EmptySeq
<1>3. \A k \in 1 .. Len(stack) - 1 : stack[k] \in Entry
  BY <1>1, <1>2, ElementOfSeq
<1>4. PICK n \in Nat : n = Len(stack) - 1
  BY <1>2
<1>5. \A i \in 1 .. n : stack[i] \in Entry
  BY <1>3, <1>4
<1>6. /\ SubSeq(stack, 1, n) \in Seq(Entry)
      /\ Len(SubSeq(stack, 1, n)) = IF 1 <= n THEN n - 1 + 1 ELSE 0
      /\ \A i \in 1 .. n - 1 + 1 : SubSeq(stack, 1, n)[i] = stack[1 + i - 1]
  BY <1>5, SubSeqProperties
<1> DEFINE s == SubSeq(stack, 1, n)
<1>7. s \in Seq(Entry) /\ Len(s) = n /\ \A i \in 1 .. n : s[i] = stack[i]
  <2> HIDE DEF s
  <2>1. /\ s \in Seq(Entry)
        /\ Len(s) = IF 1 <= n THEN n - 1 + 1 ELSE 0
        /\ \A i \in 1 .. n - 1 + 1 : s[i] = stack[1 + i - 1]
    BY <1>6 DEF s
  <2> QED BY <2>1
<1>8. Pop = s
  BY <1>4 DEF Pop
<1> HIDE DEF s
<1> QED BY <1>4, <1>7, <1>8

LEMMA GraphDef ==
  ASSUME TypeOK, NEW n \in Node
  PROVE  /\ Graph[n] \subseteq 0 .. N
         /\ \A i \in DOMAIN dependsOn[n] : dependsOn[n][i] \in Graph[n]
         /\ \A d \in Graph[n] : \E i \in DOMAIN dependsOn[n] : d = dependsOn[n][i]
<1>1. Graph[n] = {dependsOn[n][i] : i \in DOMAIN dependsOn[n]}
  BY DEF Graph
<1>2. \A i \in DOMAIN dependsOn[n] : dependsOn[n][i] \in 0 .. N
  <2>1. dependsOn[n] \in Seq(0 .. N)
    BY DEF TypeOK
  <2>2. DOMAIN dependsOn[n] = 1 .. Len(dependsOn[n])
    BY <2>1, LenProperties
  <2> QED BY <2>1, <2>2, ElementOfSeq
<1>3. /\ \A i \in DOMAIN dependsOn[n] : dependsOn[n][i] \in Graph[n]
      /\ \A d \in Graph[n] : \E i \in DOMAIN dependsOn[n] : d = dependsOn[n][i]
  BY <1>1
<1> QED BY <1>2, <1>3

(* While the inner loop looks at an entry of a list, it is a known node.   *)
LEMMA DepType ==
  ASSUME TypeOK, Stages, Scanning
  PROVE  id \in Node /\ Dep \in Node /\ Dep \in Graph[id] /\ Dep # id
<1>1. id \in Node /\ Graph[id] \subseteq Node \ {id}
  BY DEF Stages, Scanning
<1>2. Dep \in Graph[id]
  BY <1>1, GraphDef DEF Dep, Scanning
<1> QED BY <1>1, <1>2

-------------------------------------------------------------------------------
LEMMA TypeInit == Init => TypeOK
BY NAssumption, ListsAssumption DEF Init, TypeOK, Colour, Entry, Node

LEMMA TypeStep ==
  ASSUME TypeOK, Stages, [Next]_vars
  PROVE  TypeOK'
<1> USE NAssumption
<1>1. CASE Reject \/ Search \/ SkipRoot \/ Accept \/ SearchDone \/ FindCycle \/ EndScan
  BY <1>1 DEF Reject, Search, SkipRoot, Accept, SearchDone, FindCycle, EndScan, TypeOK
<1>2. CASE EnterRoot
  <2>1. [id |-> root, finishing |-> FALSE] \in Entry
    BY <1>2 DEF EnterRoot, TypeOK, Entry, Node
  <2> QED BY <1>2, <2>1 DEF EnterRoot, TypeOK
<1>3. CASE Leave
  BY <1>3, TopType, PopType DEF Leave, TypeOK, Colour
<1>4. CASE Visit
  <2>1. [id |-> Top.id, finishing |-> TRUE] \in Entry
    BY <1>4, TopType DEF Visit, Entry
  <2>2. Top.id \in Node /\ Len(stack) \in 1 .. Len(stack) /\ stack \in Seq(Entry)
    BY <1>4, TopType DEF Visit, TypeOK
  <2>3. stack' \in Seq(Entry)
    BY <1>4, <2>1, <2>2, ExceptSeq DEF Visit
  <2>4. colour' \in [Node -> Colour]
    BY <1>4, <2>2 DEF Visit, Mark, TypeOK, Colour
  <2> QED BY <1>4, <2>2, <2>3, <2>4 DEF Visit, TypeOK, Node
<1>5. CASE PushDep
  <2>1. [id |-> Dep, finishing |-> FALSE] \in Entry
    BY <1>5, DepType DEF PushDep, Entry
  <2> QED BY <1>5, <2>1 DEF PushDep, TypeOK
<1>6. CASE SkipDep
  BY <1>6 DEF SkipDep, TypeOK
<1>7. CASE UNCHANGED vars
  BY <1>7 DEF vars, TypeOK
<1> QED BY <1>1, <1>2, <1>3, <1>4, <1>5, <1>6, <1>7 DEF Next, Work, Terminated

-------------------------------------------------------------------------------
(* What each action does to the stack.                                     *)

LEMMA LeaveStack ==
  ASSUME TypeOK, Leave
  PROVE  /\ Len(stack) \in Nat \ {0} /\ Len(stack') = Len(stack) - 1
         /\ \A k \in 1 .. Len(stack') : stack'[k] = stack[k]
         /\ Marked(Len(stack)) /\ stack[Len(stack)].id = Top.id /\ Top.id \in Node
<1>1. stack # <<>> /\ stack' = Pop /\ Top.finishing
  BY DEF Leave
<1> QED BY <1>1, TopType, PopType DEF Marked

LEMMA VisitStack ==
  ASSUME TypeOK, Visit
  PROVE  /\ Len(stack) \in Nat \ {0} /\ Len(stack') = Len(stack)
         /\ \A k \in 1 .. Len(stack) : stack'[k].id = stack[k].id
         /\ \A k \in 1 .. Len(stack) - 1 : stack'[k] = stack[k]
         /\ stack'[Len(stack)].finishing
         /\ ~ Marked(Len(stack)) /\ stack[Len(stack)].id = Top.id /\ Top.id \in Node
<1> DEFINE e == [id |-> Top.id, finishing |-> TRUE]
<1>1. stack # <<>> /\ stack' = [stack EXCEPT ![Len(stack)] = e] /\ ~ Top.finishing
  BY DEF Visit
<1>2. /\ Len(stack) \in Nat \ {0} /\ Top.id \in Node /\ stack \in Seq(Entry)
      /\ Top = stack[Len(stack)]
  BY <1>1, TopType DEF TypeOK
<1>3. e \in Entry /\ e.id = Top.id /\ e.finishing = TRUE
  BY <1>2 DEF Entry
<1>5. /\ Len(stack') = Len(stack)
      /\ \A k \in 1 .. Len(stack) : stack'[k] = IF k = Len(stack) THEN e ELSE stack[k]
  <2>1. Len(stack) \in 1 .. Len(stack)
    BY <1>2
  <2> QED BY <1>1, <1>2, <1>3, <2>1, ExceptSeq
<1> QED BY <1>1, <1>2, <1>3, <1>5 DEF Marked

LEMMA PushStack ==
  ASSUME TypeOK, Stages, PushDep
  PROVE  /\ Len(stack) \in Nat /\ Len(stack') = Len(stack) + 1
         /\ \A k \in 1 .. Len(stack) : stack'[k] = stack[k]
         /\ stack'[Len(stack) + 1].id = Dep /\ stack'[Len(stack) + 1].finishing = FALSE
<1> DEFINE e == [id |-> Dep, finishing |-> FALSE]
<1>1. stack' = Append(stack, e) /\ stack \in Seq(Entry)
  BY DEF PushDep, TypeOK
<1>2. e \in Entry /\ e.id = Dep /\ e.finishing = FALSE
  BY DepType DEF Entry, PushDep
<1> HIDE DEF e
<1> QED BY <1>1, <1>2

LEMMA RootStack ==
  ASSUME EnterRoot
  PROVE  Len(stack') = 1 /\ stack'[1].id = root /\ stack'[1].finishing = FALSE
BY DEF EnterRoot

(* The entry that the inner loop is at is the only last marked one.        *)
LEMMA LastUnique ==
  ASSUME TypeOK, NEW j \in 1 .. Len(stack), NEW k \in 1 .. Len(stack),
         LastMarked(j), LastMarked(k)
  PROVE  j = k
<1>1. Len(stack) \in Nat
  BY LenProperties DEF TypeOK
<1> QED BY <1>1 DEF LastMarked

LEMMA GraphFrame == [Next]_vars => dependsOn' = dependsOn /\ Graph' = Graph
BY DEF Next, Work, Terminated, vars, Graph, Reject, Search, SkipRoot, EnterRoot, Accept,
       Leave, Visit, SearchDone, FindCycle, PushDep, SkipDep, EndScan

-------------------------------------------------------------------------------
LEMMA StagesInit == Init => Stages
BY DEF Init, Stages

LEMMA StagesStep ==
  ASSUME TypeOK, Stages, [Next]_vars
  PROVE  Stages'
<1>1. Graph' = Graph /\ dependsOn' = dependsOn
  BY GraphFrame
<1>2. CASE Reject
  BY <1>1, <1>2 DEF Reject, Stages, BadDependency
<1>3. CASE Search
  <2>1. \A n \in Node : Graph[n] \subseteq Node \ {n}
    BY <1>3, GraphDef DEF Search, BadDependency
  <2> QED BY <1>1, <1>3, <2>1 DEF Search, Stages
<1>4. CASE SkipRoot
  BY <1>1, <1>4 DEF SkipRoot, Stages
<1>5. CASE EnterRoot
  BY <1>1, <1>5 DEF EnterRoot, Stages
<1>6. CASE Accept
  <2>1. root = N + 1
    BY <1>6, NAssumption DEF Accept, TypeOK
  <2> QED BY <1>1, <1>6, <2>1 DEF Accept, Stages
<1>7. CASE Leave
  BY <1>1, <1>7 DEF Leave, Stages
<1>8. CASE Visit
  <2>1. \E k \in 1 .. Len(stack') : LastMarked(k)' /\ stack'[k].id = id'
    <3>1. PICK k \in 1 .. Len(stack') : k = Len(stack)
      BY <1>8, VisitStack
    <3>2. LastMarked(k)' /\ stack'[k].id = id'
      BY <1>8, <3>1, VisitStack DEF LastMarked, Marked, Visit
    <3> QED BY <3>2
  <2> QED BY <1>1, <1>8, <2>1, VisitStack DEF Visit, Stages
<1>9. CASE SearchDone
  BY <1>1, <1>9 DEF SearchDone, Stages
<1>10. CASE FindCycle
  <2>2. colour'[dependsOn'[id'][idx']] = "grey" /\ idx' \in DOMAIN dependsOn'[id']
    BY <1>1, <1>10 DEF FindCycle, Scanning, BackEdge, Dep
  <2>3. stage = "scan" /\ id \in Node /\ idx >= 1
    BY <1>10 DEF FindCycle, Stages, Scanning
  <2>4. PICK k \in 1 .. Len(stack) : LastMarked(k) /\ stack[k].id = id
    BY <2>3 DEF Stages
  <2>5. \A n \in Node : Graph[n] \subseteq Node \ {n}
    BY <2>3 DEF Stages
  <2>6. UNCHANGED <<stage, stack, id, idx>> /\ result' = "cycle"
    BY <1>10 DEF FindCycle
  <2>7. LastMarked(k)' /\ stack'[k].id = id' /\ k \in 1 .. Len(stack')
    BY <2>4, <2>6 DEF LastMarked, Marked
  <2>8. \A n \in Node : Graph'[n] \subseteq Node \ {n}
    BY <1>1, <2>5
  <2>9. BackEdge(Dep)'
    BY <2>2 DEF BackEdge, Dep
  <2> QED BY <2>2, <2>3, <2>6, <2>7, <2>8, <2>9 DEF Stages
<1>11. CASE PushDep
  <2>1. PICK k \in 1 .. Len(stack) : LastMarked(k) /\ stack[k].id = id
    BY <1>11 DEF PushDep, Scanning, Stages
  <2>2. k \in 1 .. Len(stack') /\ LastMarked(k)' /\ stack'[k].id = id
    <3>1. /\ Len(stack) \in Nat /\ Len(stack') = Len(stack) + 1
          /\ \A j \in 1 .. Len(stack) : stack'[j] = stack[j]
          /\ ~ stack'[Len(stack) + 1].finishing
      BY <1>11, PushStack
    <3>2. \A j \in 1 .. Len(stack') : Marked(j)' <=> j # Len(stack) + 1 /\ Marked(j)
      BY <3>1 DEF Marked
    <3> QED BY <2>1, <3>1, <3>2 DEF LastMarked
  <2> QED BY <1>1, <1>11, <2>2 DEF PushDep, Scanning, Stages, TypeOK
<1>12. CASE SkipDep
  BY <1>1, <1>12 DEF SkipDep, Scanning, Stages, LastMarked, Marked, TypeOK
<1>13. CASE EndScan
  BY <1>1, <1>13 DEF EndScan, Stages
<1>14. CASE UNCHANGED vars
  BY <1>1, <1>14 DEF vars, Stages, LastMarked, Marked, BadDependency, BackEdge, Dep
<1> QED
  BY <1>2, <1>3, <1>4, <1>5, <1>6, <1>7, <1>8, <1>9, <1>10, <1>11, <1>12, <1>13, <1>14
  DEF Next, Work, Terminated

-------------------------------------------------------------------------------
(* Which entries are marked after an action.                               *)

LEMMA LeaveMarked ==
  ASSUME TypeOK, Leave, NEW L, L = Len(stack)
  PROVE  /\ L \in Nat \ {0} /\ Len(stack') = L - 1
         /\ \A k \in 1 .. L - 1 : stack'[k].id = stack[k].id
         /\ \A k \in 1 .. L - 1 : Marked(k)' <=> Marked(k)
         /\ Marked(L) /\ stack[L].id = Top.id /\ Top.id \in Node
BY LeaveStack DEF Marked

LEMMA VisitMarked ==
  ASSUME TypeOK, Visit, NEW L, L = Len(stack)
  PROVE  /\ L \in Nat \ {0} /\ Len(stack') = L
         /\ \A k \in 1 .. L : stack'[k].id = stack[k].id
         /\ \A k \in 1 .. L - 1 : Marked(k)' <=> Marked(k)
         /\ Marked(L)' /\ ~ Marked(L) /\ stack[L].id = Top.id /\ Top.id \in Node
BY VisitStack DEF Marked

LEMMA PushMarked ==
  ASSUME TypeOK, Stages, PushDep, NEW L, L = Len(stack)
  PROVE  /\ L \in Nat /\ Len(stack') = L + 1
         /\ \A k \in 1 .. L : stack'[k].id = stack[k].id
         /\ \A k \in 1 .. L : Marked(k)' <=> Marked(k)
         /\ ~ Marked(L + 1)' /\ stack'[L + 1].id = Dep
<1>1. /\ L \in Nat /\ Len(stack') = L + 1
      /\ \A k \in 1 .. L : stack'[k] = stack[k]
      /\ stack'[L + 1].id = Dep /\ ~ stack'[L + 1].finishing
  BY PushStack
<1> QED BY <1>1 DEF Marked

LEMMA RootMarked ==
  ASSUME Stages, EnterRoot
  PROVE  /\ stack = <<>> /\ Len(stack) = 0
         /\ Len(stack') = 1 /\ stack'[1].id = root
         /\ \A k : ~ Marked(k)'
<1>1. stack = <<>>
  BY DEF EnterRoot, Stages
<1>2. \A k \in 1 .. Len(stack') : k = 1
  <2>1. Len(stack') = 1
    BY RootStack
  <2>2. \A k \in 1 .. 1 : k = 1
    OBVIOUS
  <2> QED BY <2>1, <2>2
<1>3. ASSUME NEW k, Marked(k)'
      PROVE  FALSE
  <2>1. k \in 1 .. Len(stack') /\ stack'[k].finishing
    BY <1>3 DEF Marked
  <2>2. stack'[1].finishing
    BY <1>2, <2>1
  <2> QED BY <2>2, RootStack
<1> QED BY <1>1, <1>3, RootStack

-------------------------------------------------------------------------------
LEMMA GreysInit == Init => Greys
BY DEF Init, Greys, Marked

LEMMA GreysStep ==
  ASSUME TypeOK, Stages, Greys, [Next]_vars
  PROVE  Greys'
<1>0. colour \in [Node -> Colour]
  BY DEF TypeOK
<1>1. CASE UNCHANGED <<stack, colour>>
  BY <1>1 DEF Greys, Marked
<1>2. CASE EnterRoot
  <2>1. colour' = colour
    BY <1>2 DEF EnterRoot
  <2>2. \A n \in Node : colour[n] # "grey"
    BY <1>2, RootMarked DEF Greys
  <2>3. \A k : ~ Marked(k)'
    BY <1>2, RootMarked
  <2> QED BY <2>1, <2>2, <2>3 DEF Greys
<1>3. CASE Leave
  <2>1. PICK L : L = Len(stack)
    OBVIOUS
  <2>2. /\ L \in Nat \ {0} /\ Len(stack') = L - 1
        /\ \A k \in 1 .. L - 1 : stack'[k].id = stack[k].id
        /\ \A k \in 1 .. L - 1 : Marked(k)' <=> Marked(k)
        /\ Marked(L) /\ stack[L].id = Top.id /\ Top.id \in Node
    BY <1>3, <2>1, LeaveMarked
  <2>3. /\ colour'[Top.id] = "black"
        /\ \A n \in Node : n # Top.id => colour'[n] = colour[n]
    BY <1>0, <1>3, <2>2 DEF Leave
  <2> DEFINE t == Top.id
  <2> HIDE DEF t
  <2>4. \A k \in 1 .. L - 1 : Marked(k) => stack[k].id # t
    BY <2>1, <2>2 DEF Greys, t
  <2>5. \A n \in Node :
          colour'[n] = "grey" <=> \E k \in 1 .. L - 1 : Marked(k)' /\ stack'[k].id = n
    BY <2>1, <2>2, <2>3, <2>4 DEF Greys, t
  <2>6. \A j, k \in 1 .. L - 1 : Marked(j)' /\ j < k => stack'[j].id # stack'[k].id
    BY <2>1, <2>2 DEF Greys
  <2> QED BY <2>2, <2>5, <2>6 DEF Greys
<1>4. CASE Visit
  <2>1. PICK L : L = Len(stack)
    OBVIOUS
  <2>2. /\ L \in Nat \ {0} /\ Len(stack') = L
        /\ \A k \in 1 .. L : stack'[k].id = stack[k].id
        /\ \A k \in 1 .. L - 1 : Marked(k)' <=> Marked(k)
        /\ Marked(L)' /\ ~ Marked(L) /\ stack[L].id = Top.id /\ Top.id \in Node
    BY <1>4, <2>1, VisitMarked
  <2>3. /\ colour'[Top.id] = "grey"
        /\ \A n \in Node : n # Top.id => colour'[n] = colour[n]
    BY <1>0, <1>4, <2>2 DEF Visit, Mark
  <2> DEFINE t == Top.id
  <2> HIDE DEF t
  <2>5. \A n \in Node :
          colour'[n] = "grey" <=> \E k \in 1 .. L : Marked(k)' /\ stack'[k].id = n
    <3>1. L \in 1 .. L /\ Marked(L)' /\ stack'[L].id = t /\ stack[L].id = t /\ colour'[t] = "grey"
      BY <2>2, <2>3 DEF t
    <3>2. ASSUME NEW n \in Node, n # t
          PROVE  colour'[n] = "grey" <=> \E k \in 1 .. L : Marked(k)' /\ stack'[k].id = n
      <4>1. colour'[n] = "grey" <=> \E k \in 1 .. L : Marked(k) /\ stack[k].id = n
        BY <2>1, <2>3, <3>2 DEF Greys, t
      <4>2. \A k \in 1 .. L : k = L \/ k \in 1 .. L - 1
        BY <2>2
      <4> QED BY <2>2, <3>1, <3>2, <4>1, <4>2
    <3> QED BY <3>1, <3>2
  <2>6. \A j, k \in 1 .. L : Marked(j)' /\ j < k => stack'[j].id # stack'[k].id
    BY <2>1, <2>2 DEF Greys
  <2> QED BY <2>2, <2>5, <2>6 DEF Greys
<1>5. CASE PushDep
  <2>1. PICK L : L = Len(stack)
    OBVIOUS
  <2>2. /\ L \in Nat /\ Len(stack') = L + 1
        /\ \A k \in 1 .. L : stack'[k].id = stack[k].id
        /\ \A k \in 1 .. L : Marked(k)' <=> Marked(k)
        /\ ~ Marked(L + 1)' /\ stack'[L + 1].id = Dep
    BY <1>5, <2>1, PushMarked
  <2>3. colour' = colour /\ colour[Dep] = "white" /\ Dep \in Node
    BY <1>5, DepType DEF PushDep
  <2>4. \A k \in 1 .. L : Marked(k) => stack[k].id # Dep
    BY <2>1, <2>3 DEF Greys
  <2>5. \A n \in Node :
          colour'[n] = "grey" <=> \E k \in 1 .. L + 1 : Marked(k)' /\ stack'[k].id = n
    BY <2>1, <2>2, <2>3 DEF Greys
  <2>6. \A j, k \in 1 .. L + 1 : Marked(j)' /\ j < k => stack'[j].id # stack'[k].id
    BY <2>1, <2>2, <2>4 DEF Greys
  <2> QED BY <2>2, <2>5, <2>6 DEF Greys
<1> QED
  BY <1>1, <1>2, <1>3, <1>4, <1>5
  DEF Next, Work, Terminated, vars, Reject, Search, SkipRoot, Accept, SearchDone, FindCycle,
      SkipDep, EndScan

-------------------------------------------------------------------------------
LEMMA LinkedInit == Init => Linked
BY DEF Init, Linked

LEMMA LinkedStep ==
  ASSUME TypeOK, Stages, Linked, [Next]_vars
  PROVE  Linked'
<1>0. Graph' = Graph
  BY GraphFrame
<1>l. PICK L : L = Len(stack)
  OBVIOUS
<1>1. CASE UNCHANGED stack
  BY <1>0, <1>1 DEF Linked, Marked
<1>2. CASE EnterRoot
  <2>1. Len(stack') = 1 /\ \A k \in 2 .. 1 : FALSE
    BY <1>2, RootStack
  <2> QED BY <2>1 DEF Linked
<1>3. CASE Leave
  <2>1. /\ L \in Nat \ {0} /\ Len(stack') = L - 1
        /\ \A k \in 1 .. L - 1 : stack'[k].id = stack[k].id
        /\ \A k \in 1 .. L - 1 : Marked(k)' <=> Marked(k)
    BY <1>l, <1>3, LeaveMarked
  <2>2. ASSUME NEW k \in 2 .. L - 1
        PROVE  \E j \in 1 .. (k - 1) :
                 /\ Marked(j)' /\ \A l \in (j + 1) .. (k - 1) : ~ Marked(l)'
                 /\ stack'[k].id \in Graph'[stack'[j].id]
    <3>1. PICK j \in 1 .. (k - 1) :
            /\ Marked(j) /\ \A l \in (j + 1) .. (k - 1) : ~ Marked(l)
            /\ stack[k].id \in Graph[stack[j].id]
      <4>1. k \in 2 .. Len(stack)
        BY <1>l, <2>1
      <4> QED BY <4>1 DEF Linked
    <3>2. /\ j \in 1 .. L - 1 /\ k \in 1 .. L - 1
          /\ \A l \in (j + 1) .. (k - 1) : l \in 1 .. L - 1
      BY <2>1
    <3> QED BY <1>0, <2>1, <3>1, <3>2
  <2> QED BY <1>l, <2>1, <2>2 DEF Linked
<1>4. CASE Visit
  <2>1. /\ L \in Nat \ {0} /\ Len(stack') = L
        /\ \A k \in 1 .. L : stack'[k].id = stack[k].id
        /\ \A k \in 1 .. L - 1 : Marked(k)' <=> Marked(k)
    BY <1>l, <1>4, VisitMarked
  <2>2. ASSUME NEW k \in 2 .. L
        PROVE  \E j \in 1 .. (k - 1) :
                 /\ Marked(j)' /\ \A l \in (j + 1) .. (k - 1) : ~ Marked(l)'
                 /\ stack'[k].id \in Graph'[stack'[j].id]
    <3>1. PICK j \in 1 .. (k - 1) :
            /\ Marked(j) /\ \A l \in (j + 1) .. (k - 1) : ~ Marked(l)
            /\ stack[k].id \in Graph[stack[j].id]
      BY <1>l, <2>1, <2>2 DEF Linked
    <3>2. /\ j \in 1 .. L - 1 /\ j \in 1 .. L /\ k \in 1 .. L
          /\ \A l \in (j + 1) .. (k - 1) : l \in 1 .. L - 1
      BY <2>1
    <3> QED BY <1>0, <2>1, <3>1, <3>2
  <2> QED BY <1>l, <2>1, <2>2 DEF Linked
<1>5. CASE PushDep
  <2>1. /\ L \in Nat /\ Len(stack') = L + 1
        /\ \A k \in 1 .. L : stack'[k].id = stack[k].id
        /\ \A k \in 1 .. L : Marked(k)' <=> Marked(k)
        /\ stack'[L + 1].id = Dep
    BY <1>l, <1>5, PushMarked
  <2>2. PICK m \in 1 .. L : LastMarked(m) /\ stack[m].id = id
    BY <1>l, <1>5 DEF PushDep, Scanning, Stages
  <2>3. Dep \in Graph[id]
    BY <1>5, DepType DEF PushDep
  <2>4. Marked(m) /\ \A l \in (m + 1) .. L : ~ Marked(l)
    BY <1>l, <2>2 DEF LastMarked
  <2>5. ASSUME NEW k \in 2 .. L
        PROVE  \E j \in 1 .. (k - 1) :
                 /\ Marked(j)' /\ \A l \in (j + 1) .. (k - 1) : ~ Marked(l)'
                 /\ stack'[k].id \in Graph'[stack'[j].id]
    <3>1. PICK j \in 1 .. (k - 1) :
            /\ Marked(j) /\ \A l \in (j + 1) .. (k - 1) : ~ Marked(l)
            /\ stack[k].id \in Graph[stack[j].id]
      BY <1>l, <2>1, <2>5 DEF Linked
    <3>2. /\ j \in 1 .. L /\ k \in 1 .. L
          /\ \A l \in (j + 1) .. (k - 1) : l \in 1 .. L
      BY <2>1
    <3> QED BY <1>0, <2>1, <3>1, <3>2
  <2>6. ASSUME NEW k, k = L + 1
        PROVE  /\ m \in 1 .. (k - 1)
               /\ Marked(m)' /\ \A l \in (m + 1) .. (k - 1) : ~ Marked(l)'
               /\ stack'[k].id \in Graph'[stack'[m].id]
    <3>1. k - 1 = L
      BY <2>1, <2>6
    <3>2. \A l \in (m + 1) .. (k - 1) : l \in 1 .. L /\ l \in (m + 1) .. L
      BY <2>1, <3>1
    <3>3. m \in 1 .. (k - 1)
      BY <3>1
    <3>4. Marked(m)' /\ \A l \in (m + 1) .. (k - 1) : ~ Marked(l)'
      BY <2>1, <2>4, <3>2
    <3>5. stack'[k].id \in Graph'[stack'[m].id]
      BY <1>0, <2>1, <2>2, <2>3, <2>6
    <3> QED BY <3>3, <3>4, <3>5
  <2>7. ASSUME NEW k \in 2 .. L + 1
        PROVE  \E j \in 1 .. (k - 1) :
                 /\ Marked(j)' /\ \A l \in (j + 1) .. (k - 1) : ~ Marked(l)'
                 /\ stack'[k].id \in Graph'[stack'[j].id]
    <3>1. k \in 2 .. L \/ k = L + 1
      BY <2>1
    <3>2. CASE k = L + 1
      BY <2>6, <3>2
    <3> QED BY <2>5, <3>1, <3>2
  <2> QED BY <2>1, <2>7 DEF Linked
<1> QED
  BY <1>1, <1>2, <1>3, <1>4, <1>5
  DEF Next, Work, Terminated, vars, Reject, Search, SkipRoot, Accept, SearchDone, FindCycle,
      SkipDep, EndScan

-------------------------------------------------------------------------------
LEMMA ChainedInit == Init => Chained
BY DEF Init, Chained

LEMMA ChainedStep ==
  ASSUME TypeOK, Stages, Linked, Chained, [Next]_vars
  PROVE  Chained'
<1>0. Graph' = Graph
  BY GraphFrame
<1>l. PICK L : L = Len(stack)
  OBVIOUS
<1>1. CASE UNCHANGED stack
  BY <1>0, <1>1 DEF Chained, Marked, LastMarked
<1>2. CASE EnterRoot
  BY <1>2, RootMarked DEF Chained
<1>3. CASE Leave
  <2>1. /\ L \in Nat \ {0} /\ Len(stack') = L - 1
        /\ \A k \in 1 .. L - 1 : stack'[k].id = stack[k].id
        /\ \A k \in 1 .. L - 1 : Marked(k)' <=> Marked(k)
        /\ Marked(L)
    BY <1>l, <1>3, LeaveMarked
  <2>2. ASSUME NEW j \in 1 .. L - 1, Marked(j)', ~ LastMarked(j)'
        PROVE  \E k \in (j + 1) .. L - 1 :
                 /\ Marked(k)' /\ \A l \in (j + 1) .. (k - 1) : ~ Marked(l)'
                 /\ stack'[k].id \in Graph'[stack'[j].id]
    <3>1. Marked(j) /\ ~ LastMarked(j) /\ j \in 1 .. L
      BY <1>l, <2>1, <2>2 DEF LastMarked
    <3>2. PICK k \in (j + 1) .. L :
            /\ Marked(k) /\ \A l \in (j + 1) .. (k - 1) : ~ Marked(l)
            /\ stack[k].id \in Graph[stack[j].id]
      BY <1>l, <3>1 DEF Chained
    <3>3. \A l \in (j + 1) .. (k - 1) : l \in 1 .. L - 1
      BY <2>1
    <3>4. k # L
      <4>1. PICK l \in (j + 1) .. L - 1 : Marked(l)'
        BY <2>1, <2>2 DEF LastMarked
      <4>2. l \in 1 .. L - 1 /\ Marked(l)
        BY <2>1, <4>1
      <4> QED BY <3>2, <4>1, <4>2
    <3>5. k \in 1 .. L - 1 /\ k \in (j + 1) .. L - 1
      BY <2>1, <3>4
    <3> QED BY <1>0, <2>1, <3>2, <3>3, <3>5
  <2> QED BY <2>1, <2>2 DEF Chained
<1>4. CASE Visit
  <2>1. /\ L \in Nat \ {0} /\ Len(stack') = L
        /\ \A k \in 1 .. L : stack'[k].id = stack[k].id
        /\ \A k \in 1 .. L - 1 : Marked(k)' <=> Marked(k)
        /\ Marked(L)' /\ ~ Marked(L)
    BY <1>l, <1>4, VisitMarked
  <2>2. ASSUME NEW j \in 1 .. L, Marked(j)', ~ LastMarked(j)'
        PROVE  \E k \in (j + 1) .. L :
                 /\ Marked(k)' /\ \A l \in (j + 1) .. (k - 1) : ~ Marked(l)'
                 /\ stack'[k].id \in Graph'[stack'[j].id]
    <3>1. j # L
      <4>1. \A l \in (L + 1) .. L : FALSE
        BY <2>1
      <4> QED BY <2>1, <2>2, <4>1 DEF LastMarked
    <3>2. j \in 1 .. L - 1 /\ Marked(j) /\ L \in 2 .. L
      BY <2>1, <2>2, <3>1
    <3>3. \A k \in (j + 1) .. L : \A l \in (j + 1) .. (k - 1) : l \in 1 .. L - 1
      BY <2>1
    <3>4. CASE LastMarked(j)
      <4>1. PICK i \in 1 .. (L - 1) :
              /\ Marked(i) /\ \A l \in (i + 1) .. (L - 1) : ~ Marked(l)
              /\ stack[L].id \in Graph[stack[i].id]
        BY <1>l, <3>2 DEF Linked
      <4>2. ~ i < j
        BY <2>1, <3>2, <4>1
      <4>3. ~ j < i
        BY <1>l, <2>1, <3>4, <4>1 DEF LastMarked
      <4>4. i = j
        BY <4>2, <4>3
      <4>5. L \in (j + 1) .. L
        BY <2>1, <3>2
      <4> QED BY <1>0, <2>1, <3>2, <3>3, <4>1, <4>4, <4>5
    <3>5. CASE ~ LastMarked(j)
      <4>1. PICK k \in (j + 1) .. L :
              /\ Marked(k) /\ \A l \in (j + 1) .. (k - 1) : ~ Marked(l)
              /\ stack[k].id \in Graph[stack[j].id]
        BY <1>l, <3>2, <3>5 DEF Chained
      <4>2. k \in 1 .. L - 1 /\ k \in 1 .. L
        BY <2>1, <4>1
      <4> QED BY <1>0, <2>1, <3>2, <3>3, <4>1, <4>2
    <3> QED BY <3>4, <3>5
  <2> QED BY <2>1, <2>2 DEF Chained
<1>5. CASE PushDep
  <2>1. /\ L \in Nat /\ Len(stack') = L + 1
        /\ \A k \in 1 .. L : stack'[k].id = stack[k].id
        /\ \A k \in 1 .. L : Marked(k)' <=> Marked(k)
        /\ ~ Marked(L + 1)'
    BY <1>l, <1>5, PushMarked
  <2>2. ASSUME NEW j \in 1 .. L + 1, Marked(j)', ~ LastMarked(j)'
        PROVE  \E k \in (j + 1) .. L + 1 :
                 /\ Marked(k)' /\ \A l \in (j + 1) .. (k - 1) : ~ Marked(l)'
                 /\ stack'[k].id \in Graph'[stack'[j].id]
    <3>1. j \in 1 .. L /\ Marked(j)
      BY <2>1, <2>2
    <3>2. PICK m \in (j + 1) .. L + 1 : Marked(m)'
      BY <2>1, <2>2 DEF LastMarked
    <3>3. m \in (j + 1) .. L /\ Marked(m)
      BY <2>1, <3>2
    <3>4. ~ LastMarked(j)
      BY <1>l, <3>3 DEF LastMarked
    <3>5. PICK k \in (j + 1) .. L :
            /\ Marked(k) /\ \A l \in (j + 1) .. (k - 1) : ~ Marked(l)
            /\ stack[k].id \in Graph[stack[j].id]
      BY <1>l, <3>1, <3>4 DEF Chained
    <3>6. /\ k \in 1 .. L /\ k \in (j + 1) .. L + 1
          /\ \A l \in (j + 1) .. (k - 1) : l \in 1 .. L
      BY <2>1
    <3> QED BY <1>0, <2>1, <3>1, <3>5, <3>6
  <2> QED BY <2>1, <2>2 DEF Chained
<1> QED
  BY <1>1, <1>2, <1>3, <1>4, <1>5
  DEF Next, Work, Terminated, vars, Reject, Search, SkipRoot, Accept, SearchDone, FindCycle,
      SkipDep, EndScan

-------------------------------------------------------------------------------
LEMMA CoveredInit == Init => Covered
BY DEF Init, Covered

LEMMA CoveredStep ==
  ASSUME TypeOK, Stages, Finished, Covered, [Next]_vars
  PROVE  Covered'
<1>0. dependsOn' = dependsOn
  BY GraphFrame
<1>l. PICK L : L = Len(stack)
  OBVIOUS
<1>1. CASE UNCHANGED <<stack, stage, idx, finished>> \/ Search \/ SearchDone
  BY <1>0, <1>1 DEF Covered, Marked, LastMarked, Search, SearchDone
<1>2. CASE EnterRoot
  BY <1>2, RootMarked DEF Covered
<1>3. CASE Leave
  <2>1. /\ L \in Nat \ {0} /\ Len(stack') = L - 1
        /\ \A k \in 1 .. L - 1 : stack'[k].id = stack[k].id
        /\ \A k \in 1 .. L - 1 : Marked(k)' <=> Marked(k)
        /\ stack[L].id = Top.id
    BY <1>l, <1>3, LeaveMarked
  <2>2. stage = "top" /\ finished' = finished \cup {stack[L].id}
    BY <1>3, <2>1 DEF Leave
  <2>3. ASSUME NEW k \in 1 .. L - 1, Marked(k)', NEW i \in DOMAIN dependsOn[stack[k].id]
        PROVE  \/ dependsOn[stack[k].id][i] \in finished'
               \/ \E j \in (k + 1) .. L - 1 : stack'[j].id = dependsOn[stack[k].id][i]
    <3>1. k \in 1 .. L /\ Marked(k)
      BY <2>1, <2>3
    <3>2. CASE dependsOn[stack[k].id][i] \in finished
      BY <2>2, <3>2
    <3>3. CASE dependsOn[stack[k].id][i] \notin finished
      <4>1. PICK j \in (k + 1) .. L : stack[j].id = dependsOn[stack[k].id][i]
        BY <1>l, <2>2, <2>3, <3>1, <3>3 DEF Covered
      <4>2. j = L \/ (j \in (k + 1) .. L - 1 /\ j \in 1 .. L - 1)
        BY <2>1
      <4> QED BY <2>1, <2>2, <4>1, <4>2
    <3> QED BY <3>2, <3>3
  <2>4. ASSUME NEW k \in 1 .. Len(stack'), Marked(k)', NEW i \in DOMAIN dependsOn'[stack'[k].id]
        PROVE  \/ dependsOn'[stack'[k].id][i] \in finished'
               \/ \E j \in (k + 1) .. Len(stack') : stack'[j].id = dependsOn'[stack'[k].id][i]
    BY <1>0, <2>1, <2>3, <2>4
  <2> QED BY <2>4 DEF Covered
<1>4. CASE Visit
  <2>1. /\ L \in Nat \ {0} /\ Len(stack') = L
        /\ \A k \in 1 .. L : stack'[k].id = stack[k].id
        /\ \A k \in 1 .. L - 1 : Marked(k)' <=> Marked(k)
        /\ Marked(L)' /\ stack[L].id = Top.id /\ Top.id \in Node
    BY <1>l, <1>4, VisitMarked
  <2>2. stage = "top" /\ finished' = finished /\ stage' = "scan" /\ idx' = 1
    BY <1>4 DEF Visit
  <2>3. ASSUME NEW k \in 1 .. L, Marked(k)', NEW i \in DOMAIN dependsOn[stack[k].id]
        PROVE  \/ dependsOn[stack[k].id][i] \in finished'
               \/ \E j \in (k + 1) .. L : stack'[j].id = dependsOn[stack[k].id][i]
               \/ stage' = "scan" /\ LastMarked(k)' /\ i >= idx'
    <3>1. CASE k = L
      <4>1. \A j \in (k + 1) .. L : FALSE
        BY <2>1, <3>1
      <4>2. LastMarked(k)'
        BY <2>1, <2>3, <4>1 DEF LastMarked
      <4>3. i >= 1
        <5>1. dependsOn[Top.id] \in Seq(0 .. N)
          BY <2>1 DEF TypeOK
        <5>2. DOMAIN dependsOn[Top.id] = 1 .. Len(dependsOn[Top.id])
          BY <5>1, LenProperties
        <5> QED BY <2>1, <2>3, <3>1, <5>2
      <4> QED BY <2>2, <4>2, <4>3
    <3>2. CASE k # L
      <4>1. Marked(k)
        BY <2>1, <2>3, <3>2
      <4>2. \/ dependsOn[stack[k].id][i] \in finished
            \/ \E j \in (k + 1) .. L : stack[j].id = dependsOn[stack[k].id][i]
        BY <1>l, <2>2, <2>3, <4>1 DEF Covered
      <4>3. \A j \in (k + 1) .. L : j \in 1 .. L
        BY <2>1
      <4> QED BY <2>1, <2>2, <4>2, <4>3
    <3> QED BY <3>1, <3>2
  <2>4. ASSUME NEW k \in 1 .. Len(stack'), Marked(k)', NEW i \in DOMAIN dependsOn'[stack'[k].id]
        PROVE  \/ dependsOn'[stack'[k].id][i] \in finished'
               \/ \E j \in (k + 1) .. Len(stack') : stack'[j].id = dependsOn'[stack'[k].id][i]
               \/ stage' = "scan" /\ LastMarked(k)' /\ i >= idx'
    BY <1>0, <2>1, <2>3, <2>4
  <2> QED BY <2>4 DEF Covered
<1>5. CASE PushDep
  <2>1. /\ L \in Nat /\ Len(stack') = L + 1
        /\ \A k \in 1 .. L : stack'[k].id = stack[k].id
        /\ \A k \in 1 .. L : Marked(k)' <=> Marked(k)
        /\ ~ Marked(L + 1)' /\ stack'[L + 1].id = Dep
    BY <1>l, <1>5, PushMarked
  <2>2. /\ finished' = finished /\ stage' = stage /\ stage = "scan" /\ idx' = idx + 1
        /\ idx \in Nat
    BY <1>5 DEF PushDep, Scanning, TypeOK
  <2>3. PICK m \in 1 .. L : LastMarked(m) /\ stack[m].id = id
    BY <1>l, <1>5 DEF PushDep, Scanning, Stages
  <2>4. ASSUME NEW k \in 1 .. L, Marked(k)', NEW i \in DOMAIN dependsOn[stack[k].id]
        PROVE  \/ dependsOn[stack[k].id][i] \in finished'
               \/ \E j \in (k + 1) .. L + 1 : stack'[j].id = dependsOn[stack[k].id][i]
               \/ stage' = "scan" /\ LastMarked(k)' /\ i >= idx'
    <3>1. Marked(k)
      BY <2>1, <2>4
    <3>2. CASE \E j \in (k + 1) .. L : stack[j].id = dependsOn[stack[k].id][i]
      <4>1. PICK j \in (k + 1) .. L : stack[j].id = dependsOn[stack[k].id][i]
        BY <3>2
      <4>2. j \in 1 .. L /\ j \in (k + 1) .. L + 1
        BY <2>1
      <4> QED BY <2>1, <4>1, <4>2
    <3>3. CASE LastMarked(k) /\ i >= idx
      <4>1. k = m
        BY <1>l, <2>3, <3>3, LastUnique
      <4>2. CASE i = idx
        <5>1. L + 1 \in (k + 1) .. L + 1
          BY <2>1
        <5> QED BY <2>1, <2>3, <4>1, <4>2, <5>1 DEF Dep
      <4>3. CASE i # idx
        <5>1. i >= idx + 1
          <6>1. i \in Nat
            <7>1. id \in Node
              BY <1>5, DepType DEF PushDep
            <7>2. dependsOn[id] \in Seq(0 .. N)
              BY <7>1 DEF TypeOK
            <7> QED BY <2>3, <2>4, <4>1, <7>2, LenProperties
          <6> QED BY <2>2, <3>3, <4>3, <6>1
        <5>2. \A j \in (k + 1) .. Len(stack') : ~ Marked(j)'
          <6>1. \A j \in (k + 1) .. L : ~ Marked(j)
            BY <1>l, <3>3 DEF LastMarked
          <6>2. \A j \in (k + 1) .. L + 1 : j = L + 1 \/ (j \in (k + 1) .. L /\ j \in 1 .. L)
            BY <2>1
          <6> QED BY <2>1, <6>1, <6>2
        <5>3. LastMarked(k)'
          BY <2>4, <5>2 DEF LastMarked
        <5> QED BY <2>2, <5>1, <5>3
      <4> QED BY <4>2, <4>3
    <3> QED BY <1>l, <2>2, <2>4, <3>1, <3>2, <3>3 DEF Covered
  <2>5. ASSUME NEW k \in 1 .. Len(stack'), Marked(k)', NEW i \in DOMAIN dependsOn'[stack'[k].id]
        PROVE  \/ dependsOn'[stack'[k].id][i] \in finished'
               \/ \E j \in (k + 1) .. Len(stack') : stack'[j].id = dependsOn'[stack'[k].id][i]
               \/ stage' = "scan" /\ LastMarked(k)' /\ i >= idx'
    <3>1. k \in 1 .. L
      BY <2>1, <2>5
    <3> QED BY <1>0, <2>1, <2>4, <2>5, <3>1
  <2> QED BY <2>5 DEF Covered
<1>6. CASE SkipDep \/ EndScan
  <2>1. UNCHANGED <<stack, finished>> /\ stage = "scan" /\ idx \in Nat /\ id \in Node
    BY <1>6 DEF SkipDep, EndScan, Scanning, Stages, TypeOK
  <2>2. dependsOn[id] \in Seq(0 .. N) /\ DOMAIN dependsOn[id] = 1 .. Len(dependsOn[id])
    BY <2>1, LenProperties DEF TypeOK
  <2>3. PICK m \in 1 .. L : LastMarked(m) /\ stack[m].id = id
    BY <1>l, <2>1 DEF Stages
  <2>4. ASSUME NEW i \in DOMAIN dependsOn[id], i >= idx
        PROVE  dependsOn[id][i] \in finished \/ (stage' = "scan" /\ i >= idx')
    <3>1. CASE SkipDep
      <4>1. dependsOn[id][idx] \in finished
        BY <3>1, DepType DEF SkipDep, Finished, Dep
      <4>2. idx' = idx + 1 /\ stage' = "scan"
        BY <3>1 DEF SkipDep, Scanning
      <4> QED BY <2>1, <2>2, <2>4, <4>1, <4>2
    <3>2. CASE EndScan
      <4>1. idx \notin DOMAIN dependsOn[id] /\ idx >= 1
        BY <3>2 DEF EndScan, Stages
      <4>2. Len(dependsOn[id]) \in Nat
        BY <2>2, LenProperties
      <4> QED BY <2>1, <2>2, <2>4, <4>1, <4>2
    <3> QED BY <1>6, <3>1, <3>2
  <2>5. ASSUME NEW k \in 1 .. Len(stack), Marked(k), NEW i \in DOMAIN dependsOn[stack[k].id]
        PROVE  \/ dependsOn[stack[k].id][i] \in finished
               \/ \E j \in (k + 1) .. Len(stack) : stack[j].id = dependsOn[stack[k].id][i]
               \/ stage' = "scan" /\ LastMarked(k) /\ i >= idx'
    <3>1. CASE LastMarked(k) /\ i >= idx
      <4>1. stack[k].id = id
        BY <1>l, <2>3, <3>1, LastUnique
      <4> QED BY <2>4, <2>5, <3>1, <4>1
    <3> QED BY <2>1, <2>5, <3>1 DEF Covered
  <2>6. stack' = stack /\ (\A k : (Marked(k)' <=> Marked(k)) /\ (LastMarked(k)' <=> LastMarked(k)))
    BY <2>1 DEF Marked, LastMarked
  <2>7. ASSUME NEW k \in 1 .. Len(stack'), Marked(k)', NEW i \in DOMAIN dependsOn'[stack'[k].id]
        PROVE  \/ dependsOn'[stack'[k].id][i] \in finished'
               \/ \E j \in (k + 1) .. Len(stack') : stack'[j].id = dependsOn'[stack'[k].id][i]
               \/ stage' = "scan" /\ LastMarked(k)' /\ i >= idx'
    BY <1>0, <2>1, <2>5, <2>6, <2>7
  <2> QED BY <2>7 DEF Covered
<1> QED
  BY <1>1, <1>2, <1>3, <1>4, <1>5, <1>6
  DEF Next, Work, Terminated, vars, Reject, SkipRoot, Accept, FindCycle

-------------------------------------------------------------------------------
LEMMA FinishedInit == Init => Finished
<1> SUFFICES ASSUME Init PROVE Finished
  OBVIOUS
<1>1. finished = {} /\ root = 1 /\ \A n \in Node : colour[n] = "white"
  BY DEF Init
<1>2. \A n \in 1 .. (root - 1) : FALSE
  BY <1>1
<1>3. \A S \in SUBSET finished : S = {}
  BY <1>1
<1> QED BY <1>1, <1>2, <1>3 DEF Finished

LEMMA FinishedStep ==
  ASSUME TypeOK, Stages, Finished, Covered, Greys, [Next]_vars
  PROVE  Finished'
<1>0. Graph' = Graph
  BY GraphFrame
<1>l. PICK L : L = Len(stack)
  OBVIOUS
<1>c. colour \in [Node -> Colour] /\ root \in 1 .. N + 1 /\ finished \subseteq Node
  BY DEF TypeOK
<1>1. CASE UNCHANGED <<stack, colour, finished, root>>
  BY <1>0, <1>1 DEF Finished
<1>2. CASE SkipRoot
  <2>1. root \in Node /\ colour[root] # "white" /\ stack = <<>>
    BY <1>2, <1>c, NAssumption DEF SkipRoot, Stages, Node
  <2>2. colour[root] # "grey"
    BY <2>1 DEF Greys
  <2>3. root \in finished
    BY <1>c, <2>1, <2>2 DEF Finished, Colour
  <2>4. root' = root + 1 /\ UNCHANGED <<colour, finished, stack>>
    BY <1>2 DEF SkipRoot
  <2>5. \A n \in 1 .. (root' - 1) : n = root \/ n \in 1 .. (root - 1)
    BY <1>c, <2>4, NAssumption
  <2> QED BY <1>0, <2>3, <2>4, <2>5 DEF Finished
<1>3. CASE EnterRoot
  <2>1. root' = root + 1 /\ UNCHANGED <<colour, finished>>
    BY <1>3 DEF EnterRoot
  <2>2. \A n \in 1 .. (root' - 1) : n = root \/ n \in 1 .. (root - 1)
    BY <1>c, <2>1, NAssumption
  <2>3. stack = <<>> /\ Len(stack') = 1 /\ stack'[1].id = root
    BY <1>3, RootMarked
  <2>4. \E k \in 1 .. Len(stack') : stack'[k].id = root
    BY <2>3
  <2>5. \A n \in 1 .. (root - 1) : n \in finished
    BY <2>3 DEF Finished
  <2> QED BY <1>0, <2>1, <2>2, <2>4, <2>5 DEF Finished
<1>4. CASE Leave
  <2>1. /\ L \in Nat \ {0} /\ Len(stack') = L - 1
        /\ \A k \in 1 .. L - 1 : stack'[k].id = stack[k].id
        /\ Marked(L) /\ stack[L].id = Top.id /\ Top.id \in Node
    BY <1>l, <1>4, LeaveMarked
  <2>2. PICK t \in Node : t = Top.id
    BY <2>1
  <2>3. /\ stage = "top" /\ finished' = finished \cup {t} /\ root' = root
        /\ \A n \in Node : n # t => colour'[n] = colour[n]
    BY <1>4, <1>c, <2>2 DEF Leave
  <2>4. Graph[t] \subseteq finished
    <3>1. ASSUME NEW i \in DOMAIN dependsOn[t]
          PROVE  dependsOn[t][i] \in finished
      <4>1. \A j \in (L + 1) .. L : FALSE
        BY <2>1
      <4>2. L \in 1 .. Len(stack) /\ stack[L].id = t
        BY <1>l, <2>1, <2>2
      <4>3. i \in DOMAIN dependsOn[stack[L].id]
        BY <3>1, <4>2
      <4>4. \/ dependsOn[stack[L].id][i] \in finished
            \/ \E j \in (L + 1) .. Len(stack) : stack[j].id = dependsOn[stack[L].id][i]
        BY <2>1, <2>3, <4>2, <4>3 DEF Covered
      <4> QED BY <1>l, <4>1, <4>2, <4>4
    <3> QED BY <3>1, GraphDef
  <2>5. t \notin Graph[t]
    BY <2>2, <2>3 DEF Stages
  <2>6. \A n \in finished' : Graph[n] \subseteq finished'
    BY <2>3, <2>4 DEF Finished
  <2>7. ASSUME NEW S \in SUBSET finished', S # {}
        PROVE  \E n \in S : Graph[n] \cap S = {}
    <3>1. CASE S \subseteq finished
      BY <2>7, <3>1 DEF Finished
    <3>2. CASE ~ (S \subseteq finished) /\ S \ {t} = {}
      <4>1. S = {t}
        BY <2>3, <2>7, <3>2
      <4> QED BY <2>5, <4>1
    <3>3. CASE ~ (S \subseteq finished) /\ S \ {t} # {}
      <4>1. t \notin finished /\ S \ {t} \in SUBSET finished
        BY <2>3, <2>7, <3>3
      <4>2. PICK n \in S \ {t} : Graph[n] \cap (S \ {t}) = {}
        BY <3>3, <4>1 DEF Finished
      <4>3. Graph[n] \subseteq finished
        BY <4>1, <4>2 DEF Finished
      <4>4. Graph[n] \cap S = {}
        BY <4>1, <4>2, <4>3
      <4> QED BY <4>2, <4>4
    <3> QED BY <3>1, <3>2, <3>3
  <2>8. \A n \in Node : colour'[n] = "black" => n \in finished'
    BY <2>3 DEF Finished
  <2>9. ASSUME NEW n \in 1 .. (root' - 1)
        PROVE  n \in finished' \/ \E k \in 1 .. Len(stack') : stack'[k].id = n
    <3>1. CASE n \in finished
      BY <2>3, <3>1
    <3>2. CASE \E k \in 1 .. Len(stack) : stack[k].id = n
      <4>1. PICK k \in 1 .. L : stack[k].id = n
        BY <1>l, <3>2
      <4>2. k = L \/ k \in 1 .. L - 1
        BY <2>1
      <4> QED BY <2>1, <2>2, <2>3, <4>1, <4>2
    <3> QED BY <2>3, <3>1, <3>2 DEF Finished
  <2> QED BY <1>0, <2>6, <2>7, <2>8, <2>9 DEF Finished
<1>5. CASE Visit
  <2>1. /\ L \in Nat \ {0} /\ Len(stack') = L
        /\ \A k \in 1 .. L : stack'[k].id = stack[k].id
        /\ Top.id \in Node
    BY <1>l, <1>5, VisitMarked
  <2>2. UNCHANGED <<finished, root>>
    BY <1>5 DEF Visit
  <2>3. \A n \in Node : colour'[n] = "black" => colour[n] = "black"
    BY <1>5, <1>c, <2>1 DEF Visit, Mark
  <2>4. \A n \in 1 .. (root - 1) :
          n \in finished \/ \E k \in 1 .. Len(stack') : stack'[k].id = n
    BY <1>l, <2>1 DEF Finished
  <2> QED BY <1>0, <2>2, <2>3, <2>4 DEF Finished
<1>6. CASE PushDep
  <2>1. /\ L \in Nat /\ Len(stack') = L + 1
        /\ \A k \in 1 .. L : stack'[k].id = stack[k].id
    BY <1>l, <1>6, PushMarked
  <2>2. UNCHANGED <<finished, root, colour>>
    BY <1>6 DEF PushDep
  <2>3. \A k \in 1 .. L : k \in 1 .. L + 1
    BY <2>1
  <2>4. \A n \in 1 .. (root - 1) :
          n \in finished \/ \E k \in 1 .. Len(stack') : stack'[k].id = n
    BY <1>l, <2>1, <2>3 DEF Finished
  <2> QED BY <1>0, <2>2, <2>4 DEF Finished
<1> QED
  BY <1>1, <1>2, <1>3, <1>4, <1>5, <1>6
  DEF Next, Work, Terminated, vars, Reject, Search, Accept, SearchDone, FindCycle, SkipDep,
      EndScan

-------------------------------------------------------------------------------
LEMMA LevelsInit == Init => Levels
BY DEF Init, Levels

LEMMA LevelsStep ==
  ASSUME TypeOK, Stages, Levels, [Next]_vars
  PROVE  Levels'
<1>0. dependsOn' = dependsOn
  BY GraphFrame
<1>l. PICK L : L = Len(stack)
  OBVIOUS
<1>n. L \in Nat
  BY <1>l, LenProperties DEF TypeOK
<1>1. CASE UNCHANGED <<stack, stage>> /\ idx' \in {idx, idx + 1}
  <2>1. ASSUME NEW j \in 1 .. L, stage = "scan", LastMarked(j) PROVE L - j < idx'
    <3>1. L - j < idx
      BY <1>l, <2>1 DEF Levels
    <3>2. idx \in Nat
      BY DEF TypeOK
    <3> QED BY <1>1, <1>n, <3>1, <3>2
  <2>2. \A j : Marked(j)' <=> Marked(j)
    BY <1>1 DEF Marked
  <2>3. \A j : LastMarked(j)' <=> LastMarked(j)
    BY <1>1, <2>2 DEF LastMarked
  <2> QED BY <1>0, <1>1, <1>l, <2>1, <2>2, <2>3 DEF Levels
<1>2. CASE EnterRoot
  <2>1. Len(stack') = 1 /\ (\A k : ~ Marked(k)')
    BY <1>2, RootMarked
  <2> QED BY <2>1 DEF Levels, LastMarked
<1>3. CASE Leave
  <2>1. /\ L \in Nat \ {0} /\ Len(stack') = L - 1
        /\ \A k \in 1 .. L - 1 : stack'[k].id = stack[k].id
        /\ \A k \in 1 .. L - 1 : Marked(k)' <=> Marked(k)
    BY <1>l, <1>3, LeaveMarked
  <2>2. stage' = "top"
    BY <1>3 DEF Leave
  <2>3. ASSUME NEW j \in 1 .. L - 1, NEW k \in (j + 1) .. L - 1,
               Marked(j)', \A l \in (j + 1) .. (k - 1) : ~ Marked(l)'
        PROVE  k - j <= Len(dependsOn'[stack'[j].id])
    <3>1. /\ j \in 1 .. L /\ k \in (j + 1) .. L
          /\ \A l \in (j + 1) .. (k - 1) : l \in 1 .. L - 1
      BY <2>1
    <3>2. Marked(j) /\ \A l \in (j + 1) .. (k - 1) : ~ Marked(l)
      BY <2>1, <2>3, <3>1
    <3> QED BY <1>0, <1>l, <2>1, <3>1, <3>2 DEF Levels
  <2> QED BY <2>1, <2>2, <2>3 DEF Levels
<1>4. CASE Visit
  <2>1. /\ L \in Nat \ {0} /\ Len(stack') = L
        /\ \A k \in 1 .. L : stack'[k].id = stack[k].id
        /\ \A k \in 1 .. L - 1 : Marked(k)' <=> Marked(k)
        /\ Marked(L)'
    BY <1>l, <1>4, VisitMarked
  <2>2. idx' = 1
    BY <1>4 DEF Visit
  <2>3. ASSUME NEW j \in 1 .. L, NEW k \in (j + 1) .. L,
               Marked(j)', \A l \in (j + 1) .. (k - 1) : ~ Marked(l)'
        PROVE  k - j <= Len(dependsOn'[stack'[j].id])
    <3>1. j \in 1 .. L - 1 /\ \A l \in (j + 1) .. (k - 1) : l \in 1 .. L - 1
      BY <2>1
    <3>2. Marked(j) /\ \A l \in (j + 1) .. (k - 1) : ~ Marked(l)
      BY <2>1, <2>3, <3>1
    <3> QED BY <1>0, <1>l, <2>1, <3>1, <3>2 DEF Levels
  <2>4. ASSUME NEW j \in 1 .. L, LastMarked(j)' PROVE L - j < 1
    <3>1. ~ (L \in (j + 1) .. L)
      BY <2>1, <2>4 DEF LastMarked
    <3> QED BY <2>1, <3>1
  <2> QED BY <2>1, <2>2, <2>3, <2>4 DEF Levels
<1>5. CASE PushDep
  <2>1. /\ L \in Nat /\ Len(stack') = L + 1
        /\ \A k \in 1 .. L : stack'[k].id = stack[k].id
        /\ \A k \in 1 .. L : Marked(k)' <=> Marked(k)
        /\ ~ Marked(L + 1)'
    BY <1>l, <1>5, PushMarked
  <2>2. PICK m \in 1 .. L : LastMarked(m) /\ stack[m].id = id
    BY <1>l, <1>5 DEF PushDep, Scanning, Stages
  <2>3. /\ L - m < idx /\ idx' = idx + 1 /\ idx \in Nat /\ stage = "scan"
        /\ idx \in DOMAIN dependsOn[id]
    BY <1>l, <1>5, <2>2 DEF Levels, TypeOK, PushDep, Scanning
  <2>4. idx <= Len(dependsOn[id])
    <3>1. id \in Node
      BY <1>5, DepType DEF PushDep
    <3>2. dependsOn[id] \in Seq(0 .. N)
      BY <3>1 DEF TypeOK
    <3> QED BY <2>3, <3>2, LenProperties
  <2>5. \A j \in 1 .. L : LastMarked(j) => j = m
    BY <1>l, <2>2, LastUnique
  <2>6. ASSUME NEW j \in 1 .. L + 1, Marked(j)', NEW k \in (j + 1) .. L + 1,
               \A l \in (j + 1) .. (k - 1) : ~ Marked(l)'
        PROVE  k - j <= Len(dependsOn'[stack'[j].id])
    <3>1. j \in 1 .. L
      BY <2>1, <2>6
    <3>2. Marked(j) /\ \A l \in (j + 1) .. (k - 1) : ~ Marked(l)
      <4>1. \A l \in (j + 1) .. (k - 1) : l \in 1 .. L
        BY <2>1
      <4> QED BY <2>1, <2>6, <3>1, <4>1
    <3>3. CASE k <= L
      <4>1. k \in (j + 1) .. L
        BY <2>1, <2>6, <3>1, <3>3
      <4>2. k - j <= Len(dependsOn[stack[j].id])
        BY <1>l, <3>1, <3>2, <4>1 DEF Levels
      <4>3. stack'[j].id = stack[j].id
        BY <2>1, <3>1
      <4> QED BY <1>0, <4>2, <4>3
    <3>4. CASE k = L + 1
      <4>1. LastMarked(j)
        <5>1. \A l \in (j + 1) .. L : l \in (j + 1) .. (k - 1)
          BY <3>4, <2>1
        <5> QED BY <1>l, <3>2, <5>1 DEF LastMarked
      <4>2. j = m /\ stack'[j].id = id
        BY <2>1, <2>2, <2>5, <3>1, <4>1
      <4>3. PICK d \in Nat : d = Len(dependsOn[id])
        <5>1. id \in Node /\ dependsOn[id] \in Seq(0 .. N)
          BY <1>5, DepType DEF PushDep, TypeOK
        <5> QED BY <5>1
      <4>4. (L + 1) - m <= d
        BY <2>1, <2>3, <2>4, <4>3
      <4> QED BY <1>0, <3>4, <4>2, <4>3, <4>4
    <3> QED BY <2>1, <3>3, <3>4
  <2>7. ASSUME NEW j \in 1 .. L + 1, LastMarked(j)' PROVE (L + 1) - j < idx'
    <3>1. j \in 1 .. L /\ Marked(j)
      BY <2>1, <2>7 DEF LastMarked
    <3>2. LastMarked(j)
      <4>1. \A l \in (j + 1) .. L : l \in (j + 1) .. (L + 1) /\ l \in 1 .. L
        BY <2>1
      <4> QED BY <1>l, <2>1, <2>7, <3>1, <4>1 DEF LastMarked
    <3>3. j = m
      BY <2>5, <3>1, <3>2
    <3> QED BY <2>1, <2>3, <3>3
  <2> QED BY <2>1, <2>6, <2>7 DEF Levels
<1>6. CASE Search \/ SearchDone \/ EndScan
  <2>1. stack' = stack /\ stage' # "scan"
    BY <1>6 DEF Search, SearchDone, EndScan
  <2>2. \A j : Marked(j)' <=> Marked(j)
    BY <2>1 DEF Marked
  <2> QED BY <1>0, <2>1, <2>2 DEF Levels
<1> QED
  BY <1>1, <1>2, <1>3, <1>4, <1>5, <1>6
  DEF Next, Work, Terminated, vars, Reject, SkipRoot, Accept, FindCycle, SkipDep

-------------------------------------------------------------------------------
(* The invariant of the search holds on every graph.                       *)
THEOREM Invariance == Spec => []CycleInv
<1>1. Init => CycleInv
  BY TypeInit, StagesInit, FinishedInit, CoveredInit, GreysInit, LinkedInit, ChainedInit,
     LevelsInit
  DEF CycleInv
<1>2. CycleInv /\ [Next]_vars => CycleInv'
  BY TypeStep, StagesStep, FinishedStep, CoveredStep, GreysStep, LinkedStep, ChainedStep,
     LevelsStep
  DEF CycleInv
<1> QED BY <1>1, <1>2, PTL DEF Spec

-------------------------------------------------------------------------------
(* What the invariant says of a grey node the inner loop meets: from its   *)
(* marked entry up to the last one, every node depends on the next, and    *)
(* the last one on the first.                                              *)
LEMMA BackEdgeCloses ==
  ASSUME CycleInv, result = "cycle"
  PROVE  ~ Acyclic(Graph)
<1>1. TypeOK /\ Stages /\ Greys /\ Chained
  BY DEF CycleInv
<1>2. /\ stage = "scan" /\ id \in Node /\ idx \in DOMAIN dependsOn[id]
      /\ colour[Dep] = "grey"
  BY <1>1 DEF Stages, BackEdge
<1>3. Dep \in Node /\ Dep \in Graph[id]
  <2>1. Dep \in Graph[id]
    BY <1>1, <1>2, GraphDef DEF Dep
  <2> QED BY <1>1, <1>2, <2>1 DEF Stages
<1>4. PICK p \in 1 .. Len(stack) : Marked(p) /\ stack[p].id = Dep
  BY <1>1, <1>2, <1>3 DEF Greys
<1>5. PICK m \in 1 .. Len(stack) : LastMarked(m) /\ stack[m].id = id
  BY <1>1, <1>2 DEF Stages
<1>6. Len(stack) \in Nat /\ stack \in Seq(Entry)
  BY <1>1, LenProperties DEF TypeOK
<1> DEFINE S == {stack[k].id : k \in {l \in 1 .. Len(stack) : l >= p /\ Marked(l)}}
<1>7. S \subseteq Node
  <2>1. \A k \in 1 .. Len(stack) : stack[k] \in Entry
    BY <1>6, ElementOfSeq
  <2> QED BY <2>1 DEF Entry
<1>8. S # {}
  <2>1. p \in {l \in 1 .. Len(stack) : l >= p /\ Marked(l)}
    BY <1>4, <1>6
  <2> QED BY <2>1
<1>9. ASSUME NEW k \in 1 .. Len(stack), k >= p, Marked(k)
      PROVE  Graph[stack[k].id] \cap S # {}
  <2>1. CASE LastMarked(k)
    <3>1. k = m
      BY <1>1, <1>5, <2>1, LastUnique
    <3>2. Dep \in S
      BY <1>4
    <3> QED BY <1>3, <1>5, <3>1, <3>2
  <2>2. CASE ~ LastMarked(k)
    <3>1. PICK l \in (k + 1) .. Len(stack) :
            Marked(l) /\ stack[l].id \in Graph[stack[k].id]
      BY <1>1, <1>9, <2>2 DEF Chained
    <3>2. l \in 1 .. Len(stack) /\ l >= p
      BY <1>6, <1>9
    <3>3. stack[l].id \in S
      BY <3>1, <3>2
    <3> QED BY <3>1, <3>3
  <2> QED BY <2>1, <2>2
<1>10. \A n \in S : Graph[n] \cap S # {}
  BY <1>9
<1> HIDE DEF S
<1> QED BY <1>7, <1>8, <1>10 DEF Acyclic

(* Validate answers nil only for graphs the scheduler can finish, and      *)
(* blames a cycle or a dependency only if there is one: for every graph.   *)
THEOREM VerdictRightHolds == Spec => []VerdictRight
<1>1. ASSUME CycleInv
      PROVE  VerdictRight
  <2>1. TypeOK /\ Stages /\ Finished
    BY <1>1 DEF CycleInv
  <2>2. ASSUME result = "ok"
        PROVE  Valid(Graph)
    <3>1. stack = <<>> /\ root - 1 = N /\ stage = "roots"
      BY <2>1, <2>2, NAssumption DEF Stages
    <3>2. Node \subseteq finished
      BY <2>1, <3>1 DEF Finished, Node
    <3>3. Acyclic(Graph)
      BY <2>1, <3>2 DEF Finished, Acyclic
    <3>4. \A n \in Node : Graph[n] \subseteq Node \ {n}
      BY <2>1, <3>1 DEF Stages
    <3> QED BY <3>3, <3>4 DEF Valid
  <2>3. ASSUME result = "baddep"
        PROVE  ~ \A n \in Node : Graph[n] \subseteq Node \ {n}
    <3>0. PICK n \in Node : \E i \in DOMAIN dependsOn[n] :
            dependsOn[n][i] = n \/ dependsOn[n][i] \notin Node
      BY <2>1, <2>3 DEF Stages, BadDependency
    <3>1. PICK i \in DOMAIN dependsOn[n] :
            dependsOn[n][i] = n \/ dependsOn[n][i] \notin Node
      BY <3>0
    <3>2. dependsOn[n][i] \in Graph[n]
      BY <2>1, GraphDef
    <3> QED BY <3>1, <3>2
  <2> QED BY <1>1, <2>2, <2>3, BackEdgeCloses DEF VerdictRight
<1> QED BY <1>1, Invariance, PTL

(* The grey nodes always form one path, each entry depending on the next.  *)
THEOREM GreyPathHolds == Spec => []GreyPath
<1>1. ASSUME CycleInv
      PROVE  GreyPath
  <2>1. TypeOK /\ Greys /\ Chained
    BY <1>1 DEF CycleInv
  <2>2. Len(stack) \in Nat
    BY <2>1, LenProperties DEF TypeOK
  <2>3. ASSUME NEW j \in 1 .. Len(stack), NEW k \in 1 .. Len(stack),
               Marked(j), Marked(k), j < k, \A l \in (j + 1) .. (k - 1) : ~ Marked(l)
        PROVE  stack[k].id \in Graph[stack[j].id]
    <3>1. k \in (j + 1) .. Len(stack)
      BY <2>2, <2>3
    <3>2. ~ LastMarked(j)
      BY <2>3, <3>1 DEF LastMarked
    <3>3. PICK i \in (j + 1) .. Len(stack) :
            /\ Marked(i) /\ \A l \in (j + 1) .. (i - 1) : ~ Marked(l)
            /\ stack[i].id \in Graph[stack[j].id]
      BY <2>1, <2>3, <3>2 DEF Chained
    <3>4. ~ i < k /\ ~ k < i
      BY <2>2, <2>3, <3>1, <3>3
    <3> QED BY <3>3, <3>4
  <2> QED BY <2>1, <2>3 DEF Greys, GreyPath
<1> QED BY <1>1, Invariance, PTL

-------------------------------------------------------------------------------
(* The edges of a graph are finitely many.                                 *)
LEMMA EdgesFinite ==
  ASSUME TypeOK
  PROVE  IsFiniteSet(Edges)
<1> DEFINE E == [n \in Node |-> {n} \X DOMAIN dependsOn[n]]
           T == {E[n] : n \in Node}
<1>1. ASSUME NEW n \in Node PROVE IsFiniteSet(E[n])
  <2>1. dependsOn[n] \in Seq(0 .. N)
    BY DEF TypeOK
  <2>2. DOMAIN dependsOn[n] = 1 .. Len(dependsOn[n]) /\ Len(dependsOn[n]) \in Nat
    BY <2>1, LenProperties
  <2>3. IsFiniteSet(DOMAIN dependsOn[n])
    BY <2>2, FS_Interval
  <2>4. IsFiniteSet({n})
    BY FS_Singleton
  <2> QED BY <2>3, <2>4, FS_Product
<1>2. IsFiniteSet(T)
  <2>1. IsFiniteSet(Node)
    BY FS_Interval, NAssumption DEF Node
  <2>2. E \in Surjection(Node, T)
    BY DEF Surjection
  <2> QED BY <2>1, <2>2, FS_Surjection
<1>3. Edges = UNION T
  BY DEF Edges
<1> HIDE DEF E
<1>4. \A x \in T : IsFiniteSet(x)
  BY <1>1
<1> HIDE DEF T
<1> QED BY <1>2, <1>3, <1>4, FS_UNION

(* The stack never holds more than one root and one entry per edge: an     *)
(* entry is told by the marked one below it and its distance from it.      *)
THEOREM StackBoundHolds == Spec => []StackBound
<1>1. ASSUME CycleInv
      PROVE  StackBound
  <2>1. TypeOK /\ Greys /\ Linked /\ Levels
    BY <1>1 DEF CycleInv
  <2>2. PICK L \in Nat : L = Len(stack)
    BY <2>1, LenProperties DEF TypeOK
  <2> DEFINE Under(k) == {j \in 1 .. (k - 1) : Marked(j) /\ \A l \in (j + 1) .. (k - 1) : ~ Marked(l)}
             under == [k \in 2 .. L |-> CHOOSE j \in Under(k) : TRUE]
             edge == [k \in 2 .. L |-> <<stack[under[k]].id, k - under[k]>>]
  <2>3. ASSUME NEW k \in 2 .. L
        PROVE  /\ under[k] \in 1 .. (k - 1) /\ Marked(under[k])
               /\ \A l \in (under[k] + 1) .. (k - 1) : ~ Marked(l)
    <3>1. Under(k) # {}
      BY <2>1, <2>2 DEF Linked
    <3>2. under[k] \in Under(k)
      <4> HIDE DEF Under
      <4> QED BY <3>1
    <3> QED BY <3>2
  <2> HIDE DEF under
  <2>4. ASSUME NEW k \in 2 .. L PROVE edge[k] \in Edges
    <3> DEFINE n == stack[under[k]].id
    <3>1. under[k] \in 1 .. L /\ k \in (under[k] + 1) .. L
      BY <2>3
    <3>2. k - under[k] <= Len(dependsOn[n])
      BY <2>1, <2>2, <2>3, <3>1 DEF Levels
    <3>3. n \in Node
      <4>1. stack \in Seq(Entry) /\ stack[under[k]] \in Entry
        BY <2>1, <2>2, <3>1, ElementOfSeq DEF TypeOK
      <4> QED BY <4>1 DEF Entry
    <3>4. DOMAIN dependsOn[n] = 1 .. Len(dependsOn[n]) /\ Len(dependsOn[n]) \in Nat
      <4>1. dependsOn[n] \in Seq(0 .. N)
        BY <2>1, <3>3 DEF TypeOK
      <4> QED BY <4>1, LenProperties
    <3> HIDE DEF n
    <3>5. PICK d \in Nat : d = Len(dependsOn[n])
      BY <3>4
    <3>6. k - under[k] \in 1 .. d
      BY <2>3, <3>2, <3>5
    <3>7. <<n, k - under[k]>> \in {n} \X DOMAIN dependsOn[n]
      BY <3>4, <3>5, <3>6
    <3> QED BY <3>3, <3>7 DEF Edges, n
  <2>5. ASSUME NEW j \in 2 .. L, NEW k \in 2 .. L, edge[j] = edge[k] PROVE j = k
    <3>1. stack[under[j]].id = stack[under[k]].id /\ j - under[j] = k - under[k]
      BY <2>5
    <3>2. under[j] \in 1 .. L /\ under[k] \in 1 .. L
      BY <2>3
    <3>3. under[j] = under[k]
      BY <2>1, <2>2, <2>3, <3>1, <3>2 DEF Greys
    <3> QED BY <3>1, <3>2, <3>3
  <2>6. edge \in Injection(2 .. L, Edges)
    <3>1. edge \in [2 .. L -> Edges]
      BY <2>4
    <3> HIDE DEF edge
    <3> QED BY <2>5, <3>1 DEF Injection, IsInjective
  <2>7. Cardinality(2 .. L) <= Cardinality(Edges)
    <3> HIDE DEF edge
    <3> QED BY <2>1, <2>6, EdgesFinite, FS_Injection
  <2>8. Cardinality(2 .. L) = IF 2 > L THEN 0 ELSE L - 1
    BY FS_Interval
  <2>9. Cardinality(Edges) \in Nat
    BY <2>1, EdgesFinite, FS_CardinalityType
  <2> QED BY <2>2, <2>7, <2>8, <2>9 DEF StackBound
<1> QED BY <1>1, Invariance, PTL
===============================================================================
