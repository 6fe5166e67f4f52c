----------------------------- MODULE PlannerProofs -----------------------------
(***************************************************************************)
(* Proofs about Planner and JsonExtract: for replies of any length, a fit  *)
(* plan without misleading braces is cut out of its prose as it stands, an *)
(* accepted plan becomes the graph, and only a circle keeps it from        *)
(* running.                                                                *)
(***************************************************************************)
EXTENDS Planner, RecursionLemmas, SequenceTheorems, FiniteSetTheorems

-------------------------------------------------------------------------------
(* The scan.                                                               *)

LEMMA LeastIsMin ==
  ASSUME NEW S \in SUBSET Nat, S # {}
  PROVE  Min(S) \in S /\ \A m \in S : Min(S) <= m
BY NatLeast, Zenon DEF Min

LEMMA FirstOpenIs ==
  ASSUME NEW s \in Seq(Token), "open" \in {s[i] : i \in DOMAIN s}
  PROVE  /\ FirstOpen(s) \in 1 .. Len(s) /\ s[FirstOpen(s)] = "open"
         /\ \A j \in 1 .. Len(s) : s[j] = "open" => FirstOpen(s) <= j
<1> DEFINE S == {i \in DOMAIN s : s[i] = "open"}
<1>1. S \in SUBSET Nat /\ S # {} /\ DOMAIN s = 1 .. Len(s)
  OBVIOUS
<1>2. Min(S) \in S /\ \A m \in S : Min(S) <= m
  <2> HIDE DEF S
  <2> QED BY <1>1, LeastIsMin
<1>3. FirstOpen(s) = Min(S)
  BY DEF FirstOpen
<1> QED BY <1>1, <1>2, <1>3

LEMMA WeightType == \A t : Weight(t) \in {-1, 0, 1}
BY DEF Weight

(* The counter depth of the program's scan is what its definition says.    *)
LEMMA DepthIs ==
  ASSUME NEW s \in Seq(Token), 0 < FirstOpen(s)
  PROVE  /\ Depth(s)[0] = 0
         /\ \A k \in 0 .. Len(s) : Depth(s)[k] \in Int
         /\ \A k \in 1 .. Len(s) :
              Depth(s)[k] = IF k < FirstOpen(s) THEN 0 ELSE Depth(s)[k - 1] + Weight(s[k])
<1> DEFINE n == Len(s)
<1> DEFINE step == [k \in 1 .. n |-> [x \in Int |-> IF k < FirstOpen(s) THEN 0 ELSE x + Weight(s[k])]]
<1> DEFINE Rec(f) == f = [k \in 0 .. n |-> IF k < FirstOpen(s) THEN 0 ELSE f[k - 1] + Weight(s[k])]
<1>1. n \in Nat /\ step \in [1 .. n -> [Int -> Int]]
  BY WeightType
<1>2. PICK h \in Runs(Int, 0, n, step) : TRUE
  <2> DEFINE V == Int
  <2> DEFINE zero == 0
  <2>1. zero \in V /\ step \in [1 .. n -> [V -> V]]
    BY <1>1
  <2>2. Runs(V, zero, n, step) # {}
    <3> HIDE DEF n, step, V, zero
    <3> QED BY <1>1, <2>1, RunExists
  <2> QED BY <2>2
<1>3. h \in [0 .. n -> Int] /\ h[0] = 0 /\ \A k \in 1 .. n : h[k] = step[k][h[k - 1]]
  BY <1>2 DEF Runs
<1>4. \A k \in 1 .. n : h[k - 1] \in Int
  <2>1. \A k \in 1 .. n : k - 1 \in 0 .. n
    BY <1>1
  <2> HIDE DEF n
  <2> QED BY <1>3, <2>1
<1>5. \A k \in 0 .. n : h[k] = IF k < FirstOpen(s) THEN 0 ELSE h[k - 1] + Weight(s[k])
  <2> SUFFICES ASSUME NEW k \in 0 .. n
               PROVE  h[k] = IF k < FirstOpen(s) THEN 0 ELSE h[k - 1] + Weight(s[k])
    OBVIOUS
  <2>1. CASE k = 0
    BY <1>3, <2>1
  <2>2. CASE k # 0
    <3>1. k \in 1 .. n
      BY <2>2
    <3> QED BY <3>1, <1>3, <1>4
  <2> QED BY <2>1, <2>2
<1>6. Rec(h)
  <2> HIDE DEF n
  <2> QED BY <1>3, <1>5
<1>7. Rec(CHOOSE f : Rec(f))
  BY <1>6, Zenon
<1>8. Depth(s) = CHOOSE f : Rec(f)
  BY DEF Depth
<1>9. Rec(Depth(s))
  BY <1>7, <1>8
<1> DEFINE d == Depth(s)
<1>10. \A k \in 0 .. n : d[k] = IF k < FirstOpen(s) THEN 0 ELSE d[k - 1] + Weight(s[k])
  <2>1. d = [k \in 0 .. n |-> IF k < FirstOpen(s) THEN 0 ELSE d[k - 1] + Weight(s[k])]
    BY <1>9
  <2> HIDE DEF d, n
  <2> QED BY <2>1
<1>11. \A k \in 0 .. n : d[k] \in Int
  <2> DEFINE S == {k \in 0 .. n : d[k] \in Int}
  <2>1. 0 \in S
    BY <1>1, <1>10
  <2>2. ASSUME NEW k \in 1 .. n, k - 1 \in S PROVE k \in S
    <3>1. k \in 0 .. n /\ d[k - 1] \in Int
      BY <2>2
    <3> HIDE DEF d, n
    <3>2. d[k] \in Int
      BY <3>1, <1>10, WeightType
    <3> QED BY <3>1, <3>2
  <2>3. 0 .. n \subseteq S
    <3> HIDE DEF S, n
    <3> QED BY <1>1, <2>1, <2>2, SegmentInduction
  <2> QED BY <2>3
<1> QED BY <1>1, <1>10, <1>11

(* And so is the nesting of the reference.                                 *)
LEMMA NestingIs ==
  ASSUME NEW s \in Seq(Token)
  PROVE  /\ Nesting(s)[0] = 0
         /\ \A k \in 0 .. Len(s) : Nesting(s)[k] \in Int
         /\ \A k \in 1 .. Len(s) :
              Nesting(s)[k] = Nesting(s)[k - 1] + (IF InString(s, k) THEN 0 ELSE Weight(s[k]))
<1> DEFINE n == Len(s)
<1> DEFINE W(k) == IF InString(s, k) THEN 0 ELSE Weight(s[k])
<1> DEFINE step == [k \in 1 .. n |-> [x \in Int |-> x + W(k)]]
<1> DEFINE Rec(f) == f = [k \in 0 .. n |-> IF k = 0 THEN 0 ELSE f[k - 1] + W(k)]
<1>0. \A k : W(k) \in Int
  BY WeightType
<1>1. n \in Nat /\ step \in [1 .. n -> [Int -> Int]]
  <2> HIDE DEF W
  <2> QED BY <1>0
<1>2. PICK h \in Runs(Int, 0, n, step) : TRUE
  <2> DEFINE V == Int
  <2> DEFINE zero == 0
  <2>1. zero \in V /\ step \in [1 .. n -> [V -> V]]
    BY <1>1
  <2>2. Runs(V, zero, n, step) # {}
    <3> HIDE DEF n, step, V, zero
    <3> QED BY <1>1, <2>1, RunExists
  <2> QED BY <2>2
<1>3. h \in [0 .. n -> Int] /\ h[0] = 0 /\ \A k \in 1 .. n : h[k] = step[k][h[k - 1]]
  BY <1>2 DEF Runs
<1>4. \A k \in 1 .. n : h[k - 1] \in Int
  <2>1. \A k \in 1 .. n : k - 1 \in 0 .. n
    BY <1>1
  <2> HIDE DEF n
  <2> QED BY <1>3, <2>1
<1>5. \A k \in 0 .. n : h[k] = IF k = 0 THEN 0 ELSE h[k - 1] + W(k)
  <2> SUFFICES ASSUME NEW k \in 0 .. n PROVE h[k] = IF k = 0 THEN 0 ELSE h[k - 1] + W(k)
    OBVIOUS
  <2>1. k # 0 => k \in 1 .. n
    OBVIOUS
  <2> HIDE DEF W
  <2> QED BY <2>1, <1>3, <1>4
<1>6. Rec(h)
  <2> HIDE DEF n, W
  <2> QED BY <1>3, <1>5
<1>7. Rec(CHOOSE f : Rec(f))
  BY <1>6, Zenon
<1>8. Nesting(s) = CHOOSE f : Rec(f)
  BY DEF Nesting
<1>9. Rec(Nesting(s))
  BY <1>7, <1>8
<1> DEFINE d == Nesting(s)
<1>10. \A k \in 0 .. n : d[k] = IF k = 0 THEN 0 ELSE d[k - 1] + W(k)
  <2>1. d = [k \in 0 .. n |-> IF k = 0 THEN 0 ELSE d[k - 1] + W(k)]
    BY <1>9
  <2> HIDE DEF d, n, W
  <2> QED BY <2>1
<1>11. \A k \in 0 .. n : d[k] \in Int
  <2> DEFINE S == {k \in 0 .. n : d[k] \in Int}
  <2>1. 0 \in S
    BY <1>1, <1>10
  <2>2. ASSUME NEW k \in 1 .. n, k - 1 \in S PROVE k \in S
    <3>1. k \in 0 .. n /\ d[k - 1] \in Int /\ k # 0
      BY <2>2
    <3> HIDE DEF d, W, n
    <3>2. PICK w \in Int : w = W(k)
      BY <1>0
    <3>3. d[k] = d[k - 1] + w
      BY <3>1, <3>2, <1>10
    <3>4. d[k] \in Int
      BY <3>1, <3>3
    <3> QED BY <3>1, <3>4
  <2>3. 0 .. n \subseteq S
    <3> HIDE DEF S, n
    <3> QED BY <1>1, <2>1, <2>2, SegmentInduction
  <2> QED BY <2>3
<1> HIDE DEF W
<1>12. \A k \in 1 .. n : d[k] = d[k - 1] + W(k)
  <2> HIDE DEF d
  <2> QED BY <1>10
<1> QED BY <1>1, <1>10, <1>11, <1>12 DEF W

-------------------------------------------------------------------------------
(* An object whose strings hold no brace is at a depth of at least one up  *)
(* to its last token, which closes it.                                     *)
LEMMA ObjectNesting ==
  ASSUME NEW s \in Seq(Token), IsObject(s), PlainStrings(s)
  PROVE  /\ Len(s) > 1 /\ s[1] = "open" /\ s[Len(s)] = "close"
         /\ \A k \in 1 .. Len(s) : Nesting(s)[k] = Nesting(s)[k - 1] + Weight(s[k])
         /\ \A k \in 1 .. Len(s) - 1 : Nesting(s)[k] > 0
         /\ Nesting(s)[Len(s)] = 0
<1> DEFINE n == Len(s)
<1> DEFINE d == Nesting(s)
<1>1. n \in Nat /\ n > 0 /\ s[1] = "open" /\ DOMAIN s = 1 .. n
  BY EmptySeq DEF IsObject
<1>2. \A k \in 1 .. n : d[k] = 0 <=> k = n
  BY <1>1 DEF IsObject
<1>3. d[0] = 0 /\ \A k \in 0 .. n : d[k] \in Int
  BY NestingIs
<1>4. \A k \in 1 .. n : d[k] = d[k - 1] + Weight(s[k])
  <2> SUFFICES ASSUME NEW k \in 1 .. n PROVE d[k] = d[k - 1] + Weight(s[k])
    OBVIOUS
  <2>1. d[k] = d[k - 1] + (IF InString(s, k) THEN 0 ELSE Weight(s[k]))
    BY NestingIs
  <2>2. InString(s, k) => Weight(s[k]) = 0
    BY <1>1 DEF PlainStrings
  <2> QED BY <2>1, <2>2
<1> HIDE DEF n, d
<1>5. d[1] = 1 /\ n > 1
  <2>1. 1 \in 1 .. n /\ d[1 - 1] = 0
    BY <1>1, <1>3
  <2>2. Weight(s[1]) = 1
    BY <1>1 DEF Weight
  <2>3. d[1] = 1
    BY <2>1, <2>2, <1>4
  <2> QED BY <2>1, <2>3, <1>1, <1>2
<1> DEFINE S == {k \in 0 .. (n - 1) : k > 0 => d[k] > 0}
<1>6. 0 .. (n - 1) \subseteq S
  <2>1. 0 \in S
    BY <1>1
  <2>2. ASSUME NEW k \in 1 .. (n - 1), k - 1 \in S PROVE k \in S
    <3>1. k \in 1 .. n /\ k \in 0 .. n /\ k - 1 \in 0 .. n /\ k # n
      BY <1>1
    <3>2. k > 1 => d[k - 1] > 0
      BY <2>2, <3>1
    <3>3. PICK w \in {-1, 0, 1} : w = Weight(s[k])
      BY WeightType
    <3>4. d[k] = d[k - 1] + w /\ d[k] # 0 /\ d[k] \in Int /\ d[k - 1] \in Int
      BY <3>1, <3>3, <1>2, <1>3, <1>4
    <3>5. d[k] > 0
      BY <3>1, <3>2, <3>4, <1>5
    <3> QED BY <3>5, <1>1
  <2>3. n - 1 \in Nat
    BY <1>1
  <2> HIDE DEF S
  <2> QED BY <2>1, <2>2, <2>3, SegmentInduction
<1>7. \A k \in 1 .. (n - 1) : d[k] > 0
  BY <1>6
<1>8. s[n] = "close"
  <2>1. n \in 1 .. n /\ n - 1 \in 1 .. (n - 1) /\ n - 1 \in 0 .. n
    BY <1>1, <1>5
  <2>2. d[n] = 0 /\ d[n] = d[n - 1] + Weight(s[n]) /\ d[n - 1] > 0 /\ d[n - 1] \in Int
    BY <2>1, <1>2, <1>3, <1>4, <1>7
  <2>3. Weight(s[n]) = -1
    BY <2>2, WeightType
  <2> QED BY <2>3 DEF Weight
<1>9. d[n] = 0
  <2>1. n \in 1 .. n
    BY <1>1
  <2> QED BY <2>1, <1>2
<1> QED BY <1>1, <1>4, <1>5, <1>7, <1>8, <1>9 DEF n, d

(* Such an object is cut out of the prose around it as it stands, unless   *)
(* there is an opening brace in front of it.                               *)
LEMMA ObjectExtracted ==
  ASSUME NEW b \in Seq(Token), NEW s \in Seq(Token), NEW a \in Seq(Token),
         "open" \notin ToSet(b), IsObject(s), PlainStrings(s)
  PROVE  /\ Extract(b \o s \o a) = s
         /\ FirstOpen(b \o s \o a) = Len(b) + 1
<1> DEFINE u == b \o s \o a
<1> DEFINE m == Len(b)
<1> DEFINE n == Len(s)
<1>1. m \in Nat /\ n \in Nat /\ Len(a) \in Nat /\ n > 1
  BY ObjectNesting
<1>2. /\ u \in Seq(Token) /\ Len(u) = m + n + Len(a)
      /\ \A i \in 1 .. m : u[i] = b[i]
      /\ \A k \in 1 .. n : u[m + k] = s[k]
  OBVIOUS
<1> HIDE DEF u
<1>3. \A i \in 1 .. m : u[i] # "open"
  <2>1. \A i \in 1 .. m : b[i] \in ToSet(b)
    BY DEF ToSet
  <2> QED BY <2>1, <1>2
<1>4. m + 1 \in 1 .. Len(u) /\ u[m + 1] = "open"
  <2>1. 1 \in 1 .. n /\ s[1] = "open"
    BY <1>1, ObjectNesting
  <2> QED BY <2>1, <1>1, <1>2
<1>5. FirstOpen(u) = m + 1
  <2>1. DOMAIN u = 1 .. Len(u) /\ "open" \in {u[i] : i \in DOMAIN u}
    BY <1>2, <1>4
  <2>2. /\ FirstOpen(u) \in 1 .. Len(u) /\ u[FirstOpen(u)] = "open"
        /\ FirstOpen(u) <= m + 1
    BY <2>1, <1>2, <1>4, FirstOpenIs
  <2>3. FirstOpen(u) \notin 1 .. m
    BY <2>2, <1>3
  <2> QED BY <2>2, <2>3, <1>1
<1> DEFINE d == Depth(u)
<1> DEFINE e == Nesting(s)
<1>6. /\ \A k \in 0 .. Len(u) : d[k] \in Int
      /\ \A k \in 1 .. Len(u) : d[k] = IF k < m + 1 THEN 0 ELSE d[k - 1] + Weight(u[k])
      /\ d[0] = 0
  <2>1. 0 < FirstOpen(u)
    BY <1>1, <1>5
  <2> QED BY <2>1, <1>2, <1>5, DepthIs
<1>7. /\ \A k \in 1 .. n : e[k] = e[k - 1] + Weight(s[k])
      /\ \A k \in 1 .. (n - 1) : e[k] > 0
      /\ e[n] = 0 /\ e[0] = 0 /\ s[n] = "close"
  BY ObjectNesting, NestingIs
<1> HIDE DEF d, e, n, m
<1>8. d[m] = 0
  <2>1. m \in 0 .. Len(u) /\ (m # 0 => m \in 1 .. Len(u) /\ m < m + 1)
    BY <1>1, <1>2
  <2> QED BY <2>1, <1>6
<1> DEFINE S == {k \in 0 .. n : d[m + k] = e[k]}
<1>9. 0 .. n \subseteq S
  <2>1. 0 \in S
    BY <1>1, <1>7, <1>8
  <2>2. ASSUME NEW k \in 1 .. n, k - 1 \in S PROVE k \in S
    <3>1. /\ m + k \in 1 .. Len(u) /\ ~ (m + k < m + 1) /\ k \in 0 .. n
          /\ m + (k - 1) = (m + k) - 1
      BY <1>1, <1>2
    <3>2. d[(m + k) - 1] = e[k - 1]
      BY <2>2, <3>1
    <3>3. d[m + k] = d[(m + k) - 1] + Weight(u[m + k])
      BY <3>1, <1>6
    <3>4. u[m + k] = s[k]
      BY <1>2 DEF n, m
    <3>5. d[m + k] = e[k]
      BY <3>2, <3>3, <3>4, <1>7
    <3> QED BY <3>1, <3>5
  <2> HIDE DEF S
  <2> QED BY <1>1, <2>1, <2>2, SegmentInduction
<1>10. \A k \in 0 .. n : d[m + k] = e[k]
  BY <1>9
<1>11. /\ m + n \in FirstOpen(u) .. Len(u) /\ m + n \in Nat
       /\ u[m + n] = "close" /\ d[m + n] = 0
  <2>1. n \in 0 .. n /\ n \in 1 .. n
    BY <1>1
  <2>2. u[m + n] = s[n]
    BY <2>1, <1>2 DEF n, m
  <2> QED BY <2>1, <2>2, <1>1, <1>2, <1>5, <1>7, <1>10
<1>12. m + n \in Ends(u)
  BY <1>11 DEF Ends, d
<1>13. \A x \in Ends(u) : x \in Nat /\ x >= m + n
  <2> SUFFICES ASSUME NEW x \in Ends(u) PROVE x \in Nat /\ x >= m + n
    OBVIOUS
  <2>1. x \in (m + 1) .. Len(u) /\ d[x] = 0
    BY <1>5 DEF Ends, d
  <2>2. x \in Nat /\ x - m \in 1 .. (Len(u) - m) /\ x = m + (x - m)
    BY <2>1, <1>1, <1>2
  <2>3. ASSUME x < m + n PROVE FALSE
    <3>1. x - m \in 1 .. (n - 1) /\ x - m \in 0 .. n
      BY <2>1, <2>2, <2>3, <1>1
    <3>2. d[m + (x - m)] = e[x - m]
      BY <3>1, <1>10
    <3> QED BY <2>1, <2>2, <3>1, <3>2, <1>7
  <2> QED BY <2>2, <2>3, <1>1
<1>14. Min(Ends(u)) = m + n
  <2>1. Ends(u) \in SUBSET Nat /\ Ends(u) # {}
    BY <1>12, <1>13
  <2>2. Min(Ends(u)) \in Ends(u) /\ Min(Ends(u)) <= m + n
    BY <2>1, <1>12, LeastIsMin
  <2>3. Min(Ends(u)) \in Nat /\ Min(Ends(u)) >= m + n
    BY <2>2, <1>13
  <2> QED BY <2>2, <2>3, <1>1
<1>15. Extract(u) = SubSeq(u, m + 1, m + n)
  <2>1. "open" \in {u[i] : i \in DOMAIN u} /\ Ends(u) # {}
    BY <1>2, <1>4, <1>12
  <2> QED BY <2>1, <1>5, <1>14 DEF Extract
<1>16. SubSeq(u, m + 1, m + n) = s
  <2> DEFINE v == SubSeq(u, m + 1, m + n)
  <2>1. \A i \in (m + 1) .. (m + n) : u[i] \in Token
    <3>1. \A i \in (m + 1) .. (m + n) : i \in 1 .. Len(u)
      BY <1>1, <1>2
    <3> QED BY <3>1, <1>2, ElementOfSeq
  <2>2. /\ v \in Seq(Token) /\ Len(v) = n
        /\ \A i \in 1 .. n : v[i] = u[(m + 1) + i - 1]
    <3> DEFINE lo == m + 1
    <3> DEFINE hi == m + n
    <3>1. lo \in Int /\ hi \in Int /\ lo <= hi /\ hi - lo + 1 = n
      BY <1>1
    <3>2. /\ SubSeq(u, lo, hi) \in Seq(Token)
          /\ Len(SubSeq(u, lo, hi)) = IF lo <= hi THEN hi - lo + 1 ELSE 0
          /\ \A i \in 1 .. hi - lo + 1 : SubSeq(u, lo, hi)[i] = u[lo + i - 1]
      <4>1. \A i \in lo .. hi : u[i] \in Token
        BY <2>1
      <4> HIDE DEF lo, hi
      <4> QED BY <3>1, <4>1, <1>2, SubSeqProperties
    <3> HIDE DEF v
    <3>3. v = SubSeq(u, lo, hi)
      BY DEF v
    <3>4. v \in Seq(Token) /\ Len(v) = n /\ \A i \in 1 .. n : v[i] = u[lo + i - 1]
      <4> HIDE DEF lo, hi
      <4> QED BY <3>1, <3>2, <3>3
    <3> QED BY <3>4
  <2> HIDE DEF v
  <2>3. \A i \in 1 .. n : v[i] = s[i]
    <3> SUFFICES ASSUME NEW i \in 1 .. n PROVE v[i] = s[i]
      OBVIOUS
    <3>1. (m + 1) + i - 1 = m + i
      BY <1>1
    <3>2. u[m + i] = s[i]
      BY <1>2 DEF n, m
    <3> QED BY <2>2, <3>1, <3>2
  <2>4. Len(s) = n
    BY DEF n
  <2>5. v = s
    BY <2>2, <2>3, <2>4, SeqEqual
  <2> QED BY <2>5 DEF v
<1> QED BY <1>5, <1>15, <1>16 DEF u, m

-------------------------------------------------------------------------------
(* Planner.askOnce.                                                        *)

LEMMA ReplyType ==
  ASSUME NEW r \in Replies
  PROVE  /\ r.before \in Seq(Token) /\ r.object \in Seq(Token) /\ r.after \in Seq(Token)
         /\ r.subtasks \in Seq(Subtask) /\ r.draft \in Seq(Subtask)
BY RepliesAssumption

(* A fit plan without misleading braces is accepted.                       *)
LEMMA FitAccepted ==
  ASSUME NEW r \in Replies, Fit(r), Plain(r)
  PROVE  r.subtasks \in Accepted(r)
<1>1. IsObject(r.object) /\ Validate(r.subtasks)
  BY DEF Fit
<1>2. "open" \notin ToSet(r.before) /\ PlainStrings(r.object)
  BY DEF Plain
<1>3. Extract(Text(r)) = r.object /\ FirstOpen(Text(r)) = Len(r.before) + 1
  BY <1>1, <1>2, ReplyType, ObjectExtracted DEF Text
<1>4. r.subtasks \in Decode(r)
  BY <1>1, <1>3, Zenon DEF Decode
<1> QED BY <1>1, <1>4 DEF Accepted

(* What is accepted is fit, and it is the plan that the reply's object     *)
(* says, or a draft, for which a brace must have misled the scan.          *)
LEMMA AcceptedIs ==
  ASSUME NEW r \in Replies, NEW tasks \in Accepted(r)
  PROVE  /\ Validate(tasks) /\ tasks \in {r.subtasks, r.draft}
         /\ IsObject(r.object) /\ Plain(r) => tasks = r.subtasks
<1>1. tasks \in Decode(r) /\ Validate(tasks)
  BY DEF Accepted
<1>2. tasks \in {r.subtasks, r.draft}
  BY <1>1, Zenon DEF Decode
<1>3. ASSUME IsObject(r.object), Plain(r) PROVE tasks = r.subtasks
  <2>1. "open" \notin ToSet(r.before) /\ PlainStrings(r.object)
    BY <1>3 DEF Plain
  <2>2. Extract(Text(r)) = r.object /\ FirstOpen(Text(r)) = Len(r.before) + 1
    BY <1>3, <2>1, ReplyType, ObjectExtracted DEF Text
  <2> QED BY <1>1, <1>3, <2>2, Zenon DEF Decode
<1> QED BY <1>1, <1>2, <1>3

-------------------------------------------------------------------------------
LEMMA TypeInit == Init => TypeOK
BY DEF Init, TypeOK, Phase

LEMMA TypeStep ==
  ASSUME IInv, [Next]_vars
  PROVE  TypeOK'
<1> DEFINE Reps == {<<>>} \cup {<<r>> : r \in Replies}
<1>1. /\ phase \in Phase /\ replies \in Seq(Reps) /\ Len(replies) <= 2
      /\ plan \in Seq(Subtask) /\ graph \in Seq(Subtask) /\ Len(graph) <= Len(plan)
  BY DEF IInv, TypeOK
<1>2. ASSUME NEW answer \in Reps, Reply(answer), phase = "ask"
      PROVE  replies' \in Seq(Reps) /\ Len(replies') <= 2
  <2>1. Len(replies) <= 1 /\ replies' = Append(replies, answer)
    BY <1>2 DEF IInv, Answered, Reply
  <2> HIDE DEF Reps
  <2> QED BY <1>1, <1>2, <2>1
<1>3. CASE Ask
  <2>1. PICK r \in Replies : /\ Reply(<<r>>)
                             /\ \/ AskAgain
                                \/ phase' = "build" /\ plan' \in Accepted(r) /\ UNCHANGED graph
    BY <1>3 DEF Ask
  <2>2. replies' \in Seq(Reps) /\ Len(replies') <= 2
    <3>1. <<r>> \in Reps
      OBVIOUS
    <3> HIDE DEF Reps
    <3> QED BY <1>3, <2>1, <3>1, <1>2 DEF Ask
  <2>3. CASE AskAgain
    BY <2>2, <2>3, <1>1 DEF AskAgain, TypeOK, Phase
  <2>4. CASE phase' = "build" /\ plan' \in Accepted(r) /\ UNCHANGED graph
    <3>1. plan' \in Seq(Subtask)
      BY <2>4, AcceptedIs, ReplyType
    <3>2. graph = <<>>
      BY <1>3 DEF Ask, IInv, Copied, Planning
    <3> QED BY <2>2, <2>4, <3>1, <3>2 DEF TypeOK, Phase
  <2> QED BY <2>1, <2>3, <2>4
<1>4. CASE GenerateFails
  <2>1. replies' \in Seq(Reps) /\ Len(replies') <= 2
    <3>1. <<>> \in Reps
      OBVIOUS
    <3> HIDE DEF Reps
    <3> QED BY <1>4, <3>1, <1>2 DEF GenerateFails
  <2> QED BY <1>4, <2>1, <1>1 DEF GenerateFails, AskAgain, TypeOK, Phase
<1>5. CASE Add
  <2>1. CASE AddFails
    BY <1>5, <2>1, <1>1 DEF Add, TypeOK, Phase
  <2>2. CASE ~ AddFails
    <3>1. /\ graph' = Append(graph, Upcoming) /\ Len(graph) < Len(plan)
          /\ UNCHANGED <<phase, replies, plan>>
      BY <1>5, <2>2 DEF Add
    <3>2. Upcoming \in Subtask
      <4>1. Len(graph) + 1 \in 1 .. Len(plan)
        BY <3>1, <1>1
      <4> QED BY <4>1, <1>1, ElementOfSeq DEF Upcoming
    <3> HIDE DEF Reps
    <3>3. graph' \in Seq(Subtask) /\ Len(graph') = Len(graph) + 1
      BY <3>1, <3>2, <1>1
    <3> QED BY <3>1, <3>3, <1>1 DEF TypeOK, Reps
  <2> QED BY <2>1, <2>2
<1>6. CASE Built \/ ValidateGraph \/ Over \/ UNCHANGED vars
  BY <1>6, <1>1 DEF Built, ValidateGraph, Over, vars, TypeOK, Phase
<1> QED BY <1>3, <1>4, <1>5, <1>6 DEF Next

-------------------------------------------------------------------------------
LEMMA AnsweredInit == Init => Answered
BY DEF Init, Answered, Planning

(* What the answers are once one more was given.                           *)
LEMMA OneMore ==
  ASSUME IInv, NEW answer \in {<<>>} \cup {<<r>> : r \in Replies}, Reply(answer), phase = "ask"
  PROVE  /\ IF SecondTry THEN Len(replies') = 2 ELSE Len(replies') = 1
         /\ Last(replies') = answer
         /\ replies' # <<>>
         /\ \A k \in DOMAIN replies' : k < Len(replies') =>
              k \in DOMAIN replies /\ replies'[k] = replies[k]
         /\ \A k \in DOMAIN replies' :
              replies'[k] = answer \/ (k \in DOMAIN replies /\ replies'[k] = replies[k])
<1> DEFINE Reps == {<<>>} \cup {<<r>> : r \in Replies}
<1>1. replies \in Seq(Reps) /\ Len(replies) <= 1 /\ replies' = Append(replies, answer)
  BY DEF IInv, TypeOK, Answered, Reply
<1>2. answer \in Reps
  OBVIOUS
<1> HIDE DEF Reps
<1>3. Len(replies) \in Nat /\ (replies = <<>> => Len(replies) = 0)
      /\ (replies # <<>> => Len(replies) = 1)
  <2>1. PICK n \in Nat : n = Len(replies)
    BY <1>1
  <2>2. n = 0 <=> replies = <<>>
    BY <2>1, <1>1, EmptySeq
  <2>3. n \in {0, 1}
    BY <2>1, <1>1
  <2> QED BY <2>1, <2>2, <2>3
<1>4. /\ Len(replies') = Len(replies) + 1 /\ replies'[Len(replies')] = answer
      /\ DOMAIN replies' = 1 .. Len(replies) + 1
      /\ DOMAIN replies = 1 .. Len(replies)
      /\ \A k \in 1 .. Len(replies) : replies'[k] = replies[k]
      /\ replies'[Len(replies) + 1] = answer
  BY <1>1, <1>2
<1>5. replies' # <<>>
  <2>1. Len(replies') # 0 /\ Len(<<>>) = 0
    BY <1>3, <1>4
  <2> QED BY <2>1
<1>6. IF SecondTry THEN Len(replies') = 2 ELSE Len(replies') = 1
  BY <1>3, <1>4 DEF SecondTry
<1>7. Last(replies') = answer
  BY <1>4 DEF Last
<1>8. \A k \in DOMAIN replies' :
        replies'[k] = answer \/ (k \in DOMAIN replies /\ replies'[k] = replies[k])
  <2> SUFFICES ASSUME NEW k \in 1 .. Len(replies) + 1, k # Len(replies) + 1
               PROVE  k \in 1 .. Len(replies)
    BY <1>4
  <2> QED BY <1>3
<1>9. \A k \in DOMAIN replies' : k < Len(replies') =>
        k \in DOMAIN replies /\ replies'[k] = replies[k]
  <2> SUFFICES ASSUME NEW k \in 1 .. Len(replies) + 1, k < Len(replies) + 1
               PROVE  k \in 1 .. Len(replies)
    BY <1>4
  <2> QED BY <1>3
<1> QED BY <1>5, <1>6, <1>7, <1>8, <1>9

LEMMA AnsweredStep ==
  ASSUME IInv, [Next]_vars
  PROVE  Answered'
<1>1. ASSUME NEW answer \in {<<>>} \cup {<<r>> : r \in Replies}, Reply(answer), phase = "ask",
             \A r \in ToSet(answer) : Accepted(r) = {}, AskAgain
      PROVE  Answered'
  <2>1. phase' = (IF SecondTry THEN "planner error" ELSE "ask")
    BY <1>1 DEF AskAgain
  <2>2. \A k \in DOMAIN replies' : \A r \in ToSet(replies'[k]) : Accepted(r) = {}
    <3>1. \A k \in DOMAIN replies : \A r \in ToSet(replies[k]) : Accepted(r) = {}
      BY <1>1 DEF IInv, Answered, Planning
    <3> QED BY <1>1, <3>1, OneMore
  <2>3. /\ phase' = "ask" => Len(replies') <= 1
        /\ phase' = "planner error" => Len(replies') = 2
        /\ phase' \in {"ask", "planner error"}
    <3>1. IF SecondTry THEN Len(replies') = 2 ELSE Len(replies') = 1
      BY <1>1, OneMore
    <3>2. CASE SecondTry
      BY <2>1, <3>1, <3>2 DEF SecondTry
    <3>3. CASE ~ SecondTry
      <4>1. phase' = "ask" /\ Len(replies') = 1
        BY <2>1, <3>1, <3>3 DEF SecondTry
      <4> QED BY <4>1
    <3> QED BY <3>2, <3>3
  <2> QED BY <2>2, <2>3 DEF Answered, Planning
<1>2. CASE Ask
  <2>1. PICK r \in Replies : /\ Reply(<<r>>)
                             /\ IF Accepted(r) = {} THEN AskAgain
                                ELSE phase' = "build" /\ plan' \in Accepted(r) /\ UNCHANGED graph
    BY <1>2 DEF Ask
  <2>2. <<r>> \in {<<>>} \cup {<<x>> : x \in Replies} /\ phase = "ask" /\ ToSet(<<r>>) = {r}
    BY <1>2 DEF Ask, ToSet
  <2>3. CASE Accepted(r) = {}
    BY <2>1, <2>2, <2>3, <1>1
  <2>4. CASE Accepted(r) # {}
    <3>1. phase' = "build" /\ plan' \in Accepted(r)
      BY <2>1, <2>4
    <3>2. Last(replies') = <<r>> /\ replies' # <<>>
      BY <2>1, <2>2, OneMore
    <3>3. r \in ToSet(Last(replies'))
      BY <3>2, <2>2
    <3>4. \A k \in DOMAIN replies' : k < Len(replies') =>
            \A x \in ToSet(replies'[k]) : Accepted(x) = {}
      <4>1. \A k \in DOMAIN replies : \A x \in ToSet(replies[k]) : Accepted(x) = {}
        BY <2>2 DEF IInv, Answered, Planning
      <4> QED BY <2>1, <2>2, <4>1, OneMore
    <3> QED BY <3>1, <3>2, <3>3, <3>4 DEF Answered, Planning
  <2> QED BY <2>3, <2>4
<1>3. CASE GenerateFails
  <2>1. ToSet(<<>>) = {}
    BY DEF ToSet
  <2> QED BY <1>3, <2>1, <1>1 DEF GenerateFails
<1>4. CASE Add \/ Built \/ ValidateGraph \/ Over \/ UNCHANGED vars
  <2>1. /\ UNCHANGED <<replies, plan>>
        /\ \/ phase' = phase
           \/ phase \in {"build", "validate"} /\ phase' \in {"dag error", "validate", "refused", "run"}
    BY <1>4 DEF Add, Built, ValidateGraph, Over, vars
  <2>2. CASE phase' = phase
    BY <2>1, <2>2 DEF IInv, Answered, Planning, Accepted, Validate, Decode, Ids, Text
  <2>3. CASE phase \in {"build", "validate"} /\ phase' \in {"dag error", "validate", "refused", "run"}
    <3>1. replies # <<>> /\ \E r \in ToSet(Last(replies)) : plan \in Accepted(r)
      BY <2>3 DEF IInv, Answered, Planning
    <3>2. \A k \in DOMAIN replies : k < Len(replies) =>
            \A x \in ToSet(replies[k]) : Accepted(x) = {}
      BY DEF IInv, Answered
    <3> QED BY <3>1, <3>2, <2>1, <2>3 DEF Answered, Planning
  <2> QED BY <2>1, <2>2, <2>3
<1> QED BY <1>2, <1>3, <1>4 DEF Next

-------------------------------------------------------------------------------
(* The plan under which the graph is built.                                *)
LEMMA PlanIsValid ==
  ASSUME IInv, ~ Planning
  PROVE  Validate(plan) /\ plan \in Seq(Subtask)
<1>1. PICK r \in ToSet(Last(replies)) : plan \in Accepted(r)
  BY DEF IInv, Answered
<1> QED BY <1>1 DEF Accepted, IInv, TypeOK

LEMMA CopiedInit == Init => Copied
BY DEF Init, Copied, Planning

LEMMA CopiedStep ==
  ASSUME IInv, [Next]_vars
  PROVE  Copied'
<1> DEFINE Reps == {<<>>} \cup {<<r>> : r \in Replies}
<1>1. /\ plan \in Seq(Subtask) /\ graph \in Seq(Subtask) /\ Len(graph) <= Len(plan)
      /\ DOMAIN graph = 1 .. Len(graph) /\ DOMAIN plan = 1 .. Len(plan)
  BY DEF IInv, TypeOK
<1>2. /\ \A i \in DOMAIN graph : graph[i] = plan[i]
      /\ phase \in {"validate", "run", "refused"} => Len(graph) = Len(plan)
      /\ phase # "dag error"
  BY DEF IInv, Copied
<1>3. CASE Ask \/ GenerateFails
  <2>1. phase = "ask" /\ graph = <<>> /\ graph' = graph /\ phase' \in {"ask", "planner error", "build"}
    BY <1>3 DEF Ask, GenerateFails, AskAgain, IInv, Copied, Planning
  <2>2. DOMAIN graph' = {}
    <3>1. DOMAIN <<>> = {}
      OBVIOUS
    <3> QED BY <2>1, <3>1
  <2> QED BY <2>1, <2>2 DEF Copied, Planning
<1>4. CASE Add
  <2>1. phase = "build" /\ Len(graph) < Len(plan) /\ UNCHANGED <<replies, plan>>
    BY <1>4 DEF Add
  <2>2. Validate(plan)
    BY <2>1, PlanIsValid DEF Planning
  <2>3. Len(graph) + 1 \in DOMAIN plan
    BY <2>1, <1>1
  <2>4. ~ AddFails
    <3>1. plan[Len(graph) + 1].id # Blank
      BY <2>2, <2>3 DEF Validate
    <3>2. ASSUME NEW i \in DOMAIN graph, graph[i].id = plan[Len(graph) + 1].id PROVE FALSE
      <4>1. i \in DOMAIN plan /\ i # Len(graph) + 1
        BY <1>1
      <4>2. plan[i].id = plan[Len(graph) + 1].id
        BY <3>2, <1>2
      <4> QED BY <4>1, <4>2, <2>2, <2>3 DEF Validate
    <3> QED BY <3>1, <3>2 DEF AddFails, Upcoming, Ids
  <2>5. phase' = "build" /\ graph' = Append(graph, Upcoming)
    BY <1>4, <2>1, <2>4 DEF Add
  <2>6. \A i \in DOMAIN graph' : graph'[i] = plan'[i]
    <3>1. Upcoming = plan[Len(graph) + 1] /\ Upcoming \in Subtask
      BY <2>3, <1>1, ElementOfSeq DEF Upcoming
    <3>2. /\ DOMAIN graph' = 1 .. Len(graph) + 1
          /\ graph'[Len(graph) + 1] = Upcoming
          /\ \A i \in 1 .. Len(graph) : graph'[i] = graph[i]
      BY <2>5, <3>1, <1>1
    <3> QED BY <3>1, <3>2, <2>1, <1>1, <1>2
  <2> QED BY <2>5, <2>6 DEF Copied, Planning
<1>5. CASE Built
  BY <1>5, <1>1, <1>2 DEF Built, Copied, Planning
<1>6. CASE ValidateGraph
  <2>1. UNCHANGED <<replies, plan, graph>> /\ phase = "validate" /\ phase' \in {"run", "refused"}
        /\ (phase' = "refused" => BadDependency \/ Circle(graph))
    BY <1>6 DEF ValidateGraph
  <2>2. graph = plan
    <3>1. Len(graph) = Len(plan) /\ \A i \in 1 .. Len(graph) : graph[i] = plan[i]
      BY <2>1, <1>1, <1>2
    <3> QED BY <3>1, <1>1, SeqEqual
  <2>3. Validate(plan)
    BY <2>1, PlanIsValid DEF Planning
  <2>4. BadDependency => Circle(plan)
    <3> SUFFICES ASSUME NEW i \in DOMAIN plan,
                        plan[i].id \in plan[i].deps \/ ~ plan[i].deps \subseteq Ids(plan)
                 PROVE  Circle(plan)
      BY <2>2 DEF BadDependency
    <3>1. plan[i].id \in plan[i].deps
      BY <2>3 DEF Validate
    <3>2. {i} \in (SUBSET DOMAIN plan) \ {{}}
      OBVIOUS
    <3> QED BY <3>1, <3>2 DEF Circle
  <2> QED BY <2>1, <2>2, <2>4, <1>2 DEF Copied, Planning
<1>7. CASE Over \/ UNCHANGED vars
  BY <1>7 DEF Over, vars, IInv, Copied, Planning, Circle
<1> QED BY <1>3, <1>4, <1>5, <1>6, <1>7 DEF Next

-------------------------------------------------------------------------------
(* Every reachable state satisfies the invariant: the answers so far are   *)
(* those of Planner.Plan's two tries, and the graph follows the plan.      *)
THEOREM Invariance == Spec => []IInv
<1>1. Init => IInv
  BY TypeInit, AnsweredInit, CopiedInit DEF IInv
<1>2. IInv /\ [Next]_vars => IInv'
  BY TypeStep, AnsweredStep, CopiedStep DEF IInv
<1> QED BY <1>1, <1>2, PTL DEF Spec

(* A plan that Planner.validate let pass becomes a graph with its subtasks *)
(* in its order, without an error of Graph.Add, and only a circle keeps    *)
(* Scheduler.Run from running it.                                          *)
THEOREM IntakeSoundHolds == Spec => []IntakeSound
<1>1. IInv => IntakeSound
  <2> SUFFICES ASSUME IInv PROVE IntakeSound
    OBVIOUS
  <2>1. phase # "dag error" /\ (phase = "refused" => Circle(plan))
    BY DEF IInv, Copied
  <2>2. ASSUME phase \in {"validate", "run", "refused"} PROVE graph = plan
    <3>1. plan \in Seq(Subtask) /\ graph \in Seq(Subtask) /\ Len(graph) = Len(plan)
      BY <2>2 DEF IInv, TypeOK, Copied
    <3>2. \A i \in 1 .. Len(graph) : graph[i] = plan[i]
      <4>1. DOMAIN graph = 1 .. Len(graph)
        BY <3>1
      <4> QED BY <4>1 DEF IInv, Copied
    <3> QED BY <3>1, <3>2, SeqEqual
  <2> QED BY <2>1, <2>2 DEF IntakeSound
<1> QED BY <1>1, Invariance, PTL

(* Planner.Plan gives up only after two calls and passes over no fit plan  *)
(* without misleading braces; what it accepts is fit, and a draft only if  *)
(* a brace misled the scan of extractJSON.                                 *)
THEOREM GoodReplyWinsHolds == Spec => []GoodReplyWins
<1>1. IInv => GoodReplyWins
  <2> SUFFICES ASSUME IInv PROVE GoodReplyWins
    OBVIOUS
  <2> DEFINE Reps == {<<>>} \cup {<<r>> : r \in Replies}
  <2>1. /\ replies \in Seq(Reps) /\ DOMAIN replies = 1 .. Len(replies)
        /\ \A k \in 1 .. Len(replies) : replies[k] \in Reps
    <3>1. replies \in Seq(Reps)
      BY DEF IInv, TypeOK
    <3> HIDE DEF Reps
    <3> QED BY <3>1, ElementOfSeq
  <2>2. \A answer \in Reps : ToSet(answer) \subseteq Replies
    BY DEF ToSet
  <2>3. phase = "planner error" => Len(replies) = 2
    BY DEF IInv, Answered
  <2>4. ASSUME NEW k \in DOMAIN replies, Planning \/ k < Len(replies),
               NEW r \in ToSet(replies[k]), Fit(r), Plain(r)
        PROVE  FALSE
    <3>1. r \in Replies /\ Accepted(r) = {}
      BY <2>1, <2>2, <2>4 DEF IInv, Answered
    <3> QED BY <3>1, <2>4, FitAccepted
  <2>5. ASSUME ~ Planning
        PROVE  \E r \in ToSet(Last(replies)) :
                 /\ Validate(plan) /\ plan \in {r.subtasks, r.draft}
                 /\ IsObject(r.object) /\ Plain(r) => plan = r.subtasks
    <3>1. PICK r \in ToSet(Last(replies)) : plan \in Accepted(r)
      BY <2>5 DEF IInv, Answered
    <3>2. r \in Replies
      <4>1. Len(replies) # 0
        BY <2>1, <2>5, EmptySeq DEF IInv, Answered
      <4>2. Len(replies) \in 1 .. Len(replies)
        BY <2>1, <4>1
      <4> QED BY <2>1, <2>2, <4>2 DEF Last
    <3> QED BY <3>1, <3>2, AcceptedIs
  <2> QED BY <2>3, <2>4, <2>5 DEF GoodReplyWins
<1> QED BY <1>1, Invariance, PTL
===============================================================================
