---------------------------- MODULE RecursionLemmas ----------------------------
(***************************************************************************)
(* Induction over the natural numbers, for a set instead of a predicate,   *)
(* and what it gives for recursive functions: that the one which folds a   *)
(* list exists, and so is what its definition says.                        *)
(***************************************************************************)
EXTENDS Integers, Sequences, SequencesExt, WellFoundedInduction, TLAPS

(* A set of natural numbers has a least one.                               *)
LEMMA NatLeast ==
  ASSUME NEW T \in SUBSET Nat, T # {}
  PROVE  \E n \in T : \A m \in T : n <= m
<1>1. PICK n \in T : \A m \in T : ~ (<<m, n>> \in OpToRel(<, Nat))
  BY NatLessThanWellFounded, WFMin
<1>2. ASSUME NEW m \in T PROVE n <= m
  <2>1. ~ (<<m, n>> \in OpToRel(<, Nat))
    BY <1>1
  <2>2. m \in Nat /\ n \in Nat
    OBVIOUS
  <2>3. ~ (m < n)
    BY <2>1, <2>2 DEF OpToRel
  <2> QED BY <2>2, <2>3
<1> QED BY <1>2

(* A set that has 0, and n + 1 with every n, has all natural numbers.      *)
LEMMA SetInduction ==
  ASSUME NEW S, 0 \in S, \A n \in Nat : n \in S => n + 1 \in S
  PROVE  Nat \subseteq S
<1> SUFFICES ASSUME Nat \ S # {} PROVE FALSE OBVIOUS
<1>1. PICK n \in Nat \ S : \A m \in Nat \ S : n <= m
  BY NatLeast
<1>2. n # 0 OBVIOUS
<1>3. n - 1 \in Nat /\ n - 1 \in S
  BY <1>1, <1>2
<1> QED BY <1>3

(* The same up to a bound.                                                 *)
LEMMA SegmentInduction ==
  ASSUME NEW n \in Nat, NEW S, 0 \in S, \A k \in 1 .. n : k - 1 \in S => k \in S
  PROVE  0 .. n \subseteq S
<1> DEFINE T == {k \in Nat : k <= n => k \in S}
<1>1. 0 \in T
  OBVIOUS
<1>2. ASSUME NEW k \in Nat, k \in T PROVE k + 1 \in T
  <2>1. SUFFICES ASSUME k + 1 <= n PROVE k + 1 \in S
    OBVIOUS
  <2>2. k \in S /\ k + 1 \in 1 .. n /\ (k + 1) - 1 = k
    BY <1>2, <2>1
  <2> QED BY <2>2
<1>3. Nat \subseteq T
  <2> HIDE DEF T
  <2> QED BY <1>1, <1>2, SetInduction
<1> QED BY <1>3

-------------------------------------------------------------------------------
(* The greatest number of a segment, and what is left without it.          *)

LEMMA MaxOfSegment ==
  ASSUME NEW n \in Nat, NEW s \in SUBSET (1 .. n), s # {}
  PROVE  Max(s) \in s /\ \A x \in s : x <= Max(s)
<1> DEFINE T == {n - x : x \in s}
<1>1. T \in SUBSET Nat /\ T # {}
  <2>1. \A x \in s : x \in Int /\ 1 <= x /\ x <= n
    OBVIOUS
  <2>2. \A x \in s : n - x \in Nat
    BY <2>1
  <2> QED BY <2>2
<1>2. PICK d \in T : \A m \in T : d <= m
  <2> HIDE DEF T
  <2> QED BY <1>1, NatLeast
<1>3. PICK x \in s : d = n - x
  OBVIOUS
<1>4. \A y \in s : x >= y
  <2> SUFFICES ASSUME NEW y \in s PROVE x >= y
    OBVIOUS
  <2>1. n - y \in T
    OBVIOUS
  <2> QED BY <2>1, <1>2, <1>3
<1> QED BY <1>3, <1>4 DEF Max

(* That of a first segment.                                                *)
LEMMA MaxOfInitial ==
  ASSUME NEW k \in Nat, k > 0
  PROVE  Max(1 .. k) = k /\ (1 .. k) \ {k} = 1 .. (k - 1)
<1>1. Max(1 .. k) \in 1 .. k /\ \A x \in 1 .. k : x <= Max(1 .. k)
  <2>1. 1 .. k # {} /\ 1 .. k \in SUBSET (1 .. k)
    OBVIOUS
  <2> QED BY <2>1, MaxOfSegment
<1>2. Max(1 .. k) = k
  <2> DEFINE m == Max(1 .. k)
  <2>1. m \in 1 .. k /\ k <= m
    BY <1>1
  <2> QED BY <2>1
<1> QED BY <1>2

(* The functions that are what MapThenFoldSet says of the subsets of a     *)
(* segment, when step[i] is the operator with its element i.               *)
Folding(V, base, n, step) ==
  {g \in [SUBSET (1 .. n) -> V] : \A s \in SUBSET (1 .. n) :
     g[s] = IF s = {} THEN base ELSE step[Max(s)][g[s \ {Max(s)}]]}

(* There is one.                                                           *)
LEMMA FoldExists ==
  ASSUME NEW V, NEW base \in V, NEW n \in Nat, NEW step \in [1 .. n -> [V -> V]]
  PROVE  Folding(V, base, n, step) # {}
<1> DEFINE Folds(m) ==
      \E g \in [SUBSET (1 .. m) -> V] : \A s \in SUBSET (1 .. m) :
        g[s] = IF s = {} THEN base ELSE step[Max(s)][g[s \ {Max(s)}]]
<1> DEFINE S == {m \in 0 .. n : Folds(m)}
<1>1. 0 \in S
  <2>1. 1 .. 0 = {}
    OBVIOUS
  <2>2. SUBSET (1 .. 0) = {{}}
    BY <2>1
  <2>3. Folds(0)
    <3> DEFINE g == [s \in SUBSET (1 .. 0) |-> base]
    <3>1. g \in [SUBSET (1 .. 0) -> V]
      OBVIOUS
    <3>2. \A s \in SUBSET (1 .. 0) : s = {} /\ g[s] = base
      BY <2>2
    <3> HIDE DEF g
    <3> QED BY <3>1, <3>2
  <2> HIDE DEF Folds
  <2> QED BY <2>3
<1>2. ASSUME NEW k \in 1 .. n, k - 1 \in S PROVE k \in S
  <2>1. PICK g \in [SUBSET (1 .. (k - 1)) -> V] : \A s \in SUBSET (1 .. (k - 1)) :
          g[s] = IF s = {} THEN base ELSE step[Max(s)][g[s \ {Max(s)}]]
    BY <1>2
  <2> DEFINE h == [s \in SUBSET (1 .. k) |-> IF k \in s THEN step[k][g[s \ {k}]] ELSE g[s]]
  <2>2. \A s \in SUBSET (1 .. k) : s \ {k} \in SUBSET (1 .. (k - 1))
    OBVIOUS
  <2>3. \A s \in SUBSET (1 .. k) : k \notin s => s \in SUBSET (1 .. (k - 1))
    OBVIOUS
  <2>4. h \in [SUBSET (1 .. k) -> V]
    BY <2>1, <2>2, <2>3
  <2>5. ASSUME NEW s \in SUBSET (1 .. k)
        PROVE  h[s] = IF s = {} THEN base ELSE step[Max(s)][h[s \ {Max(s)}]]
    <3>1. CASE k \in s
      <4>1. k \in Nat /\ s # {}
        BY <3>1
      <4>2. Max(s) \in s /\ \A x \in s : x <= Max(s)
        BY <4>1, MaxOfSegment
      <4>6. Max(s) = k
        <5> DEFINE m == Max(s)
        <5>1. m \in 1 .. k /\ k <= m
          BY <4>2, <3>1
        <5> QED BY <5>1
      <4>3. h[s] = step[k][g[s \ {k}]]
        BY <3>1
      <4>4. s \ {k} \in SUBSET (1 .. k)
        OBVIOUS
      <4>5. h[s \ {k}] = g[s \ {k}]
        BY <4>4
      <4> QED BY <4>6, <4>3, <4>5, <3>1
    <3>2. CASE k \notin s
      <4>1. s \in SUBSET (1 .. (k - 1)) /\ h[s] = g[s]
        BY <3>2, <2>3
      <4>2. CASE s = {}
        BY <4>1, <4>2, <2>1
      <4>3. CASE s # {}
        <5>1. Max(s) \in s
          <6>1. k \in Nat
            OBVIOUS
          <6> QED BY <6>1, <4>3, MaxOfSegment
        <5>2. s \ {Max(s)} \in SUBSET (1 .. k) /\ k \notin s \ {Max(s)}
          BY <3>2
        <5>3. h[s \ {Max(s)}] = g[s \ {Max(s)}]
          BY <5>2
        <5> QED BY <4>1, <4>3, <5>3, <2>1
      <4> QED BY <4>2, <4>3
    <3> QED BY <3>1, <3>2
  <2>6. Folds(k)
    <3> HIDE DEF h
    <3> QED BY <2>4, <2>5
  <2> HIDE DEF Folds
  <2> QED BY <2>6
<1>3. 0 .. n \subseteq S
  <2> HIDE DEF S
  <2> QED BY <1>1, <1>2, SegmentInduction
<1>4. Folds(n)
  <2> HIDE DEF Folds
  <2>1. n \in S
    BY <1>3
  <2> QED BY <2>1
<1> QED BY <1>4, Zenon DEF Folding

(* The values of a fold after its first elements.                          *)
Runs(V, base, n, step) ==
  {h \in [0 .. n -> V] : h[0] = base /\ \A k \in 1 .. n : h[k] = step[k][h[k - 1]]}

(* f is what MapThenFoldSet says, as long as its values are in V.          *)
Folded(f, V, base, n, step) ==
  /\ f[{}] = base
  /\ \A s \in SUBSET (1 .. n) :
       s # {} /\ f[s \ {Max(s)}] \in V => f[s] = step[Max(s)][f[s \ {Max(s)}]]

(* Then it has these values.                                               *)
LEMMA FoldRuns ==
  ASSUME NEW V, NEW base \in V, NEW n \in Nat, NEW step \in [1 .. n -> [V -> V]],
         NEW f, Folded(f, V, base, n, step)
  PROVE  f[1 .. n] \in {h[n] : h \in Runs(V, base, n, step)}
<1> DEFINE h == [k \in 0 .. n |-> f[1 .. k]]
<1>1. \A k \in 1 .. n : h[k - 1] \in V => h[k] = step[k][h[k - 1]]
  <2> SUFFICES ASSUME NEW k \in 1 .. n, f[1 .. (k - 1)] \in V
               PROVE  f[1 .. k] = step[k][f[1 .. (k - 1)]]
    OBVIOUS
  <2>1. Max(1 .. k) = k /\ (1 .. k) \ {k} = 1 .. (k - 1)
    BY MaxOfInitial
  <2>2. 1 .. k \subseteq 1 .. n /\ k \in 1 .. k
    OBVIOUS
  <2> QED BY <2>1, <2>2 DEF Folded
<1>2. h[0] = base /\ h[n] = f[1 .. n]
  <2>1. 1 .. 0 = {}
    OBVIOUS
  <2> QED BY <2>1 DEF Folded
<1> DEFINE S == {k \in 0 .. n : h[k] \in V}
<1>3. 0 \in S
  BY <1>2
<1>4. ASSUME NEW k \in 1 .. n, k - 1 \in S PROVE k \in S
  <2>1. h[k - 1] \in V
    BY <1>4
  <2> HIDE DEF h
  <2>2. h[k] = step[k][h[k - 1]]
    BY <2>1, <1>1
  <2> QED BY <2>1, <2>2
<1>5. 0 .. n \subseteq S
  <2> HIDE DEF S
  <2> QED BY <1>3, <1>4, SegmentInduction
<1>6. \A k \in 0 .. n : h[k] \in V
  BY <1>5
<1>7. h \in [0 .. n -> V]
  BY <1>6
<1>8. h \in Runs(V, base, n, step)
  <2>1. \A k \in 1 .. n : h[k] = step[k][h[k - 1]]
    <3> HIDE DEF h
    <3>1. \A k \in 1 .. n : k - 1 \in 0 .. n
      OBVIOUS
    <3> QED BY <1>1, <1>6, <3>1
  <2> HIDE DEF h
  <2> QED BY <1>2, <1>7, <2>1 DEF Runs
<1> HIDE DEF h
<1> QED BY <1>2, <1>8

(* There are such values.                                                  *)
LEMMA RunExists ==
  ASSUME NEW V, NEW base \in V, NEW n \in Nat, NEW step \in [1 .. n -> [V -> V]]
  PROVE  Runs(V, base, n, step) # {}
<1>1. PICK g \in Folding(V, base, n, step) : TRUE
  BY FoldExists
<1>2. /\ g \in [SUBSET (1 .. n) -> V]
      /\ \A s \in SUBSET (1 .. n) :
           g[s] = IF s = {} THEN base ELSE step[Max(s)][g[s \ {Max(s)}]]
  BY <1>1, Zenon DEF Folding
<1>3. Folded(g, V, base, n, step)
  BY <1>2 DEF Folded
<1>4. g[1 .. n] \in {h[n] : h \in Runs(V, base, n, step)}
  BY <1>3, FoldRuns
<1> QED BY <1>4
===============================================================================
