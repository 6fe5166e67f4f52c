---------------------------- MODULE ResearcherProofs ----------------------------
(***************************************************************************)
(* That every behaviour of Researcher, with the retries of NodeResearch,   *)
(* keeps the invariant of NodeResearchInvariant, and what follows from it. *)
(***************************************************************************)
EXTENDS NodeResearchInvariant, RecursionLemmas, SequenceTheorems, FiniteSetTheorems

-------------------------------------------------------------------------------
(* The folds of the model, step by step.                                   *)

(* dedupAppend, item by item.                                              *)
LEMMA DedupFold ==
  ASSUME NEW list \in Seq(Result), NEW items \in Seq(Result)
  PROVE  \E h \in [0 .. Len(items) -> Seq(Result)] :
           /\ h[0] = list
           /\ \A k \in 1 .. Len(items) : h[k] = Note(h[k - 1], items[k])
           /\ DedupAppend(list, items) = h[Len(items)]
<1> DEFINE n == Len(items)
<1> DEFINE V == Seq(Result)
<1> DEFINE step == [i \in 1 .. n |-> [l \in V |-> Note(l, items[i])]]
<1> DEFINE Rec(f) == f = [s \in SUBSET (1 .. n) |-> IF s = {} THEN list
                             ELSE Note(f[s \ {Max(s)}], items[Max(s)])]
<1> DEFINE it == CHOOSE f : Rec(f)
<1>1. n \in Nat /\ DOMAIN items = 1 .. n /\ list \in V
  OBVIOUS
<1>2. step \in [1 .. n -> [V -> V]]
  BY DEF Note
<1>3. \A s \in SUBSET (1 .. n), l \in V : s # {} => step[Max(s)][l] = Note(l, items[Max(s)])
  <2>1. \A s \in SUBSET (1 .. n) : s # {} => Max(s) \in 1 .. n
    <3> HIDE DEF n
    <3> QED BY <1>1, MaxOfSegment
  <2> QED BY <2>1
<1>4. \E f : Rec(f)
  <2>1. Folding(V, list, n, step) # {}
    <3> HIDE DEF V, n, step
    <3> QED BY <1>1, <1>2, FoldExists
  <2>2. PICK g \in [SUBSET (1 .. n) -> V] : \A s \in SUBSET (1 .. n) :
          g[s] = IF s = {} THEN list ELSE step[Max(s)][g[s \ {Max(s)}]]
    <3> HIDE DEF V, n, step
    <3> QED BY <2>1, Zenon DEF Folding
  <2>3. Rec(g)
    <3> HIDE DEF V, step
    <3> QED BY <2>2, <1>3
  <2> QED BY <2>3
<1>5. Rec(it)
  BY <1>4, Zenon
<1>6. DedupAppend(list, items) = it[1 .. n]
  BY <1>1 DEF DedupAppend, FoldLeft, MapThenFoldSet
<1>7. PICK h \in Runs(V, list, n, step) : it[1 .. n] = h[n]
  <2> HIDE DEF it, V, step
  <2>1. it[{}] = list
    BY <1>5
  <2>2. \A s \in SUBSET (1 .. n) :
          s # {} /\ it[s \ {Max(s)}] \in V => it[s] = step[Max(s)][it[s \ {Max(s)}]]
    BY <1>5, <1>3
  <2>3. Folded(it, V, list, n, step)
    BY <2>1, <2>2, Zenon DEF Folded
  <2> HIDE DEF n
  <2>4. it[1 .. n] \in {h[n] : h \in Runs(V, list, n, step)}
    BY <1>1, <1>2, <2>3, FoldRuns
  <2> QED BY <2>4, Zenon
<1>8. /\ h \in [0 .. n -> V] /\ h[0] = list
      /\ \A k \in 1 .. n : h[k] = step[k][h[k - 1]]
  BY <1>7 DEF Runs
<1>9. \A k \in 1 .. n : h[k] = Note(h[k - 1], items[k])
  <2>1. \A k \in 1 .. n : h[k - 1] \in V
    <3>1. \A k \in 1 .. n : k - 1 \in 0 .. n
      BY <1>1
    <3> HIDE DEF V, n
    <3> QED BY <1>8, <3>1
  <2> QED BY <1>8, <2>1
<1> QED BY <1>6, <1>7, <1>8, <1>9
(* The blank queries left out, one by one.                                 *)
LEMMA UsableFold ==
  ASSUME NEW proposed \in Seq(Query \cup {Blank})
  PROVE  \E h \in [0 .. Len(proposed) -> Seq(Query)] :
           /\ h[0] = <<>>
           /\ \A k \in 1 .. Len(proposed) : h[k] = Keep(h[k - 1], proposed[k])
           /\ Usable(proposed) = h[Len(proposed)]
<1> DEFINE n == Len(proposed)
<1> DEFINE none == <<>>
<1> DEFINE V == Seq(Query)
<1> DEFINE step == [i \in 1 .. n |-> [l \in V |-> Keep(l, proposed[i])]]
<1> DEFINE Rec(f) == f = [s \in SUBSET (1 .. n) |-> IF s = {} THEN none
                             ELSE Keep(f[s \ {Max(s)}], proposed[Max(s)])]
<1> DEFINE it == CHOOSE f : Rec(f)
<1>1. n \in Nat /\ DOMAIN proposed = 1 .. n /\ none \in V
  OBVIOUS
<1>2. step \in [1 .. n -> [V -> V]]
  BY DEF Keep
<1>3. \A s \in SUBSET (1 .. n), l \in V : s # {} => step[Max(s)][l] = Keep(l, proposed[Max(s)])
  <2>1. \A s \in SUBSET (1 .. n) : s # {} => Max(s) \in 1 .. n
    <3> HIDE DEF n
    <3> QED BY <1>1, MaxOfSegment
  <2> QED BY <2>1
<1>4. \E f : Rec(f)
  <2>1. Folding(V, none, n, step) # {}
    <3> HIDE DEF V, n, step, none
    <3> QED BY <1>1, <1>2, FoldExists
  <2>2. PICK g \in [SUBSET (1 .. n) -> V] : \A s \in SUBSET (1 .. n) :
          g[s] = IF s = {} THEN none ELSE step[Max(s)][g[s \ {Max(s)}]]
    <3> HIDE DEF V, n, step, none
    <3> QED BY <2>1, Zenon DEF Folding
  <2>3. Rec(g)
    <3> HIDE DEF V, step
    <3> QED BY <2>2, <1>3
  <2> QED BY <2>3
<1>5. Rec(it)
  BY <1>4, Zenon
<1>6. Usable(proposed) = it[1 .. n]
  BY <1>1 DEF Usable, FoldLeft, MapThenFoldSet
<1>7. PICK h \in Runs(V, none, n, step) : it[1 .. n] = h[n]
  <2> HIDE DEF it, V, step, none
  <2>1. it[{}] = none
    BY <1>5
  <2>2. \A s \in SUBSET (1 .. n) :
          s # {} /\ it[s \ {Max(s)}] \in V => it[s] = step[Max(s)][it[s \ {Max(s)}]]
    BY <1>5, <1>3
  <2>3. Folded(it, V, none, n, step)
    BY <2>1, <2>2, Zenon DEF Folded
  <2> HIDE DEF n
  <2>4. it[1 .. n] \in {h[n] : h \in Runs(V, none, n, step)}
    BY <1>1, <1>2, <2>3, FoldRuns
  <2> QED BY <2>4, Zenon
<1>8. /\ h \in [0 .. n -> V] /\ h[0] = none
      /\ \A k \in 1 .. n : h[k] = step[k][h[k - 1]]
  BY <1>7 DEF Runs
<1>9. \A k \in 1 .. n : h[k] = Keep(h[k - 1], proposed[k])
  <2>1. \A k \in 1 .. n : h[k - 1] \in V
    <3>1. \A k \in 1 .. n : k - 1 \in 0 .. n
      BY <1>1
    <3> HIDE DEF V, n
    <3> QED BY <1>8, <3>1
  <2> QED BY <1>8, <2>1
<1> QED BY <1>6, <1>7, <1>8, <1>9

(* FlattenSeq, list by list.                                               *)
LEMMA FlattenFold ==
  ASSUME NEW S, NEW lists \in Seq(Seq(S))
  PROVE  \E h \in [0 .. Len(lists) -> Seq(S)] :
           /\ h[0] = <<>>
           /\ \A k \in 1 .. Len(lists) : h[k] = h[k - 1] \o lists[k]
           /\ FlattenSeq(lists) = h[Len(lists)]
<1> DEFINE n == Len(lists)
<1> DEFINE V == Seq(S)
<1> DEFINE step == [i \in 1 .. n |-> [l \in V |-> l \o lists[i]]]
<1>1. n \in Nat /\ DOMAIN lists = 1 .. n /\ <<>> \in V
  OBVIOUS
<1>2. step \in [1 .. n -> [V -> V]]
  OBVIOUS
<1>3. PICK h \in [0 .. n -> V] :
        h[0] = <<>> /\ \A k \in 1 .. n : h[k] = step[k][h[k - 1]]
  <2>1. Runs(V, <<>>, n, step) # {}
    <3> HIDE DEF V, n, step
    <3> QED BY <1>1, <1>2, RunExists
  <2> QED BY <2>1, Zenon DEF Runs
<1>4. \A k \in 1 .. n : k - 1 \in 0 .. n /\ h[k] = h[k - 1] \o lists[k]
  <2>1. \A k \in 1 .. n : k - 1 \in 0 .. n
    BY <1>1
  <2>2. \A k \in 1 .. n : h[k - 1] \in V
    <3> HIDE DEF V, n
    <3> QED BY <2>1, <1>3
  <2>3. \A k \in 1 .. n, l \in V : step[k][l] = l \o lists[k]
    OBVIOUS
  <2> HIDE DEF V, n, step
  <2> QED BY <2>1, <2>2, <2>3, <1>3
<1>5. ASSUME n = 0 PROVE FlattenSeq(lists) = h[n]
  <2>1. FlattenSeq(lists) = <<>>
    BY <1>5 DEF FlattenSeq
  <2> QED BY <1>3, <2>1, <1>5
<1>6. ASSUME n > 0 PROVE FlattenSeq(lists) = h[n]
  <2> DEFINE Rec(f) == f = [i \in 1 .. n |-> IF i = 1 THEN lists[i] ELSE f[i - 1] \o lists[i]]
  <2> DEFINE it == CHOOSE f : Rec(f)
  <2>1. Rec([i \in 1 .. n |-> h[i]])
    <3>1. ASSUME NEW i \in 1 .. n PROVE h[i] = IF i = 1 THEN lists[i] ELSE h[i - 1] \o lists[i]
      <4>1. h[0] \o lists[i] = lists[i]
        BY <1>3
      <4>2. h[i] = h[i - 1] \o lists[i]
        BY <1>4
      <4>3. i = 1 => i - 1 = 0
        OBVIOUS
      <4> QED BY <4>1, <4>2, <4>3
    <3>2. \A i \in 1 .. n : i # 1 => i - 1 \in 1 .. n
      BY <1>1
    <3> QED BY <3>1, <3>2
  <2>2. Rec(it)
    BY <2>1, Zenon
  <2>3. FlattenSeq(lists) = it[n]
    BY <1>6 DEF FlattenSeq
  <2> DEFINE T == {k \in 0 .. n : k > 0 => it[k] = h[k]}
  <2>4. 0 \in T
    BY <1>1
  <2>5. ASSUME NEW k \in 1 .. n, k - 1 \in T PROVE k \in T
    <3> HIDE DEF it
    <3>1. CASE k = 1
      <4>1. it[1] = lists[1]
        BY <2>2, <3>1
      <4>2. h[1] = lists[1]
        <5>1. h[0] \o lists[k] = lists[k]
          BY <1>3
        <5>2. h[k] = h[k - 1] \o lists[k]
          BY <1>4, Zenon
        <5>3. k - 1 = 0
          BY <3>1
        <5>4. h[k] = lists[k]
          BY <5>1, <5>2, <5>3
        <5> QED BY <5>4, <3>1
      <4> QED BY <3>1, <4>1, <4>2
    <3>2. CASE k # 1
      <4>1. it[k - 1] = h[k - 1]
        BY <2>5, <3>2
      <4>2. it[k] = it[k - 1] \o lists[k]
        BY <2>2, <3>2
      <4>3. h[k] = h[k - 1] \o lists[k]
        BY <1>4, Zenon
      <4>4. it[k] = h[k]
        BY <4>1, <4>2, <4>3, Zenon
      <4> QED BY <4>4
    <3> QED BY <3>1, <3>2
  <2>6. 0 .. n \subseteq T
    <3> HIDE DEF T
    <3> QED BY <1>1, <2>4, <2>5, SegmentInduction
  <2>7. it[n] = h[n]
    <3> HIDE DEF it
    <3> QED BY <2>6, <1>6, <1>1
  <2> QED BY <2>3, <2>7
<1>7. FlattenSeq(lists) = h[n]
  BY <1>1, <1>5, <1>6
<1> QED BY <1>3, <1>4, <1>7

-------------------------------------------------------------------------------
(* What the folds and the settings are good for.                           *)

(* Whatever the environment says, there is a round, a follow-up query and  *)
(* an attempt, and the cache tells apart what the providers answer.        *)
LEMMA SettingsFacts ==
  ASSUME NEW o \in Settings
  PROVE  /\ o.rounds \in Nat \ {0} /\ o.followUps \in Nat \ {0} /\ o.retries \in Nat
         /\ o.minScore \in Int
         /\ o.namespace = o.provider
<1>1. PICK server : o = Options(server)
  BY DEF Settings
<1>2. \A v, fallback : fallback \in Int => GetEnvInt(v, fallback) \in Int
  BY AtoiAssumption DEF GetEnvInt
<1> DEFINE cfg == Load(server.env)
<1>3. cfg.rounds \in Int /\ cfg.followUps \in Int /\ cfg.retries \in Int /\ cfg.minScore \in Int
  BY <1>2 DEF Load
<1>4. Provider(cfg) = SearchNS(cfg)
  BY DEF Provider, SearchNS
<1>5. /\ o.rounds = IF cfg.rounds <= 0 THEN 2 ELSE cfg.rounds
      /\ o.followUps = IF cfg.followUps <= 0 THEN 2 ELSE cfg.followUps
      /\ o.retries = IF cfg.retries < 0 THEN 0 ELSE cfg.retries
      /\ o.minScore = IF cfg.minScore <= 0 THEN 6 ELSE cfg.minScore
      /\ o.namespace = SearchNS(cfg) /\ o.provider = Provider(cfg)
  <2> HIDE DEF cfg
  <2> QED BY <1>1 DEF Options, Normalized, cfg
<1> HIDE DEF cfg
<1> QED BY <1>3, <1>4, <1>5

(* An agent's key is its own provider's.                                   *)
LEMMA KeyFacts ==
  ASSUME NEW a \in Agent, NEW q \in Query, opts \in [Agent -> Settings]
  PROVE  /\ Key(a, q) = <<opts[a].provider, q>>
         /\ Key(a, q) \in Keys /\ Key(a, q) \in Sources
<1>1. opts[a] \in Settings
  OBVIOUS
<1>2. opts[a].namespace = opts[a].provider
  BY <1>1, SettingsFacts
<1> QED BY <1>1, <1>2 DEF Key, Keys, Sources

LEMMA DedupType ==
  ASSUME NEW list \in Seq(Result), NEW items \in Seq(Result)
  PROVE  DedupAppend(list, items) \in Seq(Result)
<1>1. PICK h \in [0 .. Len(items) -> Seq(Result)] : DedupAppend(list, items) = h[Len(items)]
  BY DedupFold
<1> QED BY <1>1

(* An answer is a list of results.                                         *)
LEMMA AnswerType ==
  ASSUME NEW q \in Query
  PROVE  Answers[q] \subseteq Answer /\ Answer \subseteq Seq(Result)
<1>1. Answers[q] \in Range(Answers)
  BY ResearchAssumption DEF Range
<1> QED BY <1>1, ResearchAssumption DEF Answer

(* The follow-ups are queries, and no more than the option allows.         *)
LEMMA CutFacts ==
  ASSUME NEW a \in Agent, NEW proposed \in FollowUps, opts \in [Agent -> Settings]
  PROVE  /\ Cut(a, Usable(proposed)) \in Seq(Query)
         /\ Len(Cut(a, Usable(proposed))) <= opts[a].followUps
<1>1. proposed \in Seq(Query \cup {Blank})
  BY ResearchAssumption
<1>2. PICK h \in [0 .. Len(proposed) -> Seq(Query)] : Usable(proposed) = h[Len(proposed)]
  BY <1>1, UsableFold
<1> DEFINE list == Usable(proposed)
<1>3. list \in Seq(Query)
  BY <1>1, <1>2
<1>4. opts[a].followUps \in Nat
  <2>1. opts[a] \in Settings
    OBVIOUS
  <2> QED BY <2>1, SettingsFacts
<1> DEFINE m == IF Len(list) > opts[a].followUps THEN opts[a].followUps ELSE Len(list)
<1>5. m \in 0 .. Len(list) /\ m <= opts[a].followUps
  BY <1>3, <1>4
<1>6. SubSeq(list, 1, m) \in Seq(Query) /\ Len(SubSeq(list, 1, m)) = m
  <2> HIDE DEF list, m
  <2> QED BY <1>3, <1>5
<1>7. Cut(a, list) = SubSeq(list, 1, m)
  BY DEF Cut
<1> HIDE DEF list, m
<1> QED BY <1>5, <1>6, <1>7 DEF list

-------------------------------------------------------------------------------
(* What merging an answer does.                                            *)

LEMMA MergeFacts ==
  ASSUME TypeOK, NEW a \in Agent, queries[a] # <<>>,
         NEW items \in Answer, Merge(a, items)
  PROVE  /\ ordered' \in [Agent -> Seq(Result)] /\ queries' \in [Agent -> Seq(Query)]
         /\ phase' \in [Agent -> Phase]
         /\ taken' \in [Agent -> Seq([query : Query, items : Answer])]
         /\ \A b \in Agent \ {a} : /\ ordered'[b] = ordered[b] /\ queries'[b] = queries[b]
                                   /\ phase'[b] = phase[b] /\ taken'[b] = taken[b]
         /\ ordered'[a] = DedupAppend(ordered[a], items)
         /\ taken'[a] = Append(taken[a], [query |-> Head(queries[a]), items |-> items])
         /\ queries'[a] = Tail(queries[a])
         /\ Head(queries[a]) \in Query
         /\ opts' = opts /\ round' = round
         /\ attempt' = attempt /\ feedback' = feedback /\ reviews' = reviews
         /\ \/ Len(queries[a]) > 1 /\ phase'[a] = "lookup"
            \/ Len(queries[a]) = 1 /\ phase'[a] \in {"failed", "write"}
            \/ Len(queries[a]) = 1 /\ phase'[a] = "plan" /\ ~ LastRound(a)
<1> DEFINE list == DedupAppend(ordered[a], items)
<1>1. list \in Seq(Result)
  <2>1. ordered[a] \in Seq(Result) /\ items \in Seq(Result)
    BY ResearchAssumption DEF TypeOK
  <2> QED BY <2>1, DedupType
<1>2. ordered' = [ordered EXCEPT ![a] = list]
  BY DEF Merge
<1>3. ordered' \in [Agent -> Seq(Result)] /\ ordered'[a] = list
      /\ \A b \in Agent \ {a} : ordered'[b] = ordered[b]
  <2> HIDE DEF list
  <2> QED BY <1>1, <1>2 DEF TypeOK
<1>4. queries[a] \in Seq(Query) /\ Head(queries[a]) \in Query /\ Tail(queries[a]) \in Seq(Query)
      /\ (Len(queries[a]) > 1 \/ Len(queries[a]) = 1)
  <2>1. queries[a] \in Seq(Query) /\ queries[a] # <<>>
    BY DEF TypeOK
  <2>2. Len(queries[a]) \in Nat /\ Len(queries[a]) > 0
    BY <2>1
  <2>3. \A n \in Nat : n > 0 => n > 1 \/ n = 1
    OBVIOUS
  <2>4. Len(queries[a]) > 1 \/ Len(queries[a]) = 1
    BY <2>2, <2>3, Zenon
  <2> QED BY <2>1, <2>4
<1>5. queries' \in [Agent -> Seq(Query)] /\ queries'[a] = Tail(queries[a])
      /\ \A b \in Agent \ {a} : queries'[b] = queries[b]
  BY <1>4 DEF TypeOK, Merge
<1> DEFINE entry == [query |-> Head(queries[a]), items |-> items]
<1>6. taken' \in [Agent -> Seq([query : Query, items : Answer])]
      /\ taken'[a] = Append(taken[a], entry)
      /\ \A b \in Agent \ {a} : taken'[b] = taken[b]
  <2> DEFINE T == [query : Query, items : Answer]
  <2>1. entry \in T
    BY <1>4
  <2>2. taken' = [taken EXCEPT ![a] = Append(@, entry)]
    BY DEF Merge
  <2>3. taken \in [Agent -> Seq(T)]
    BY DEF TypeOK
  <2> HIDE DEF entry, T
  <2>4. taken' \in [Agent -> Seq(T)]
      /\ taken'[a] = Append(taken[a], entry)
      /\ \A b \in Agent \ {a} : taken'[b] = taken[b]
    BY <2>1, <2>2, <2>3
  <2> QED BY <2>4 DEF T
<1>7. opts' = opts /\ round' = round
      /\ attempt' = attempt /\ feedback' = feedback /\ reviews' = reviews
  BY DEF Merge, Unreviewed
<1>8. \E p \in {"lookup", "failed", "write", "plan"} :
        /\ phase' = [phase EXCEPT ![a] = p]
        /\ \/ Len(queries[a]) > 1 /\ p = "lookup"
           \/ Len(queries[a]) = 1 /\ p \in {"failed", "write"}
           \/ Len(queries[a]) = 1 /\ p = "plan" /\ ~ LastRound(a)
  <2>1. CASE Len(queries[a]) > 1
    BY <2>1 DEF Merge
  <2>2. CASE ~ (Len(queries[a]) > 1) /\ LastRound(a)
    <3>1. Conclude(a, list)
      BY <2>2 DEF Merge
    <3>2. Len(queries[a]) = 1
      BY <2>2, <1>4
    <3> HIDE DEF list
    <3> QED BY <3>1, <3>2 DEF Conclude
  <2>3. CASE ~ (Len(queries[a]) > 1) /\ ~ LastRound(a)
    <3>1. phase' = [phase EXCEPT ![a] = "plan"]
      BY <2>3 DEF Merge
    <3>2. Len(queries[a]) = 1
      BY <2>3, <1>4
    <3> QED BY <3>1, <3>2, <2>3
  <2> QED BY <2>1, <2>2, <2>3
<1>9. /\ phase' \in [Agent -> Phase]
      /\ \A b \in Agent \ {a} : phase'[b] = phase[b]
      /\ \/ Len(queries[a]) > 1 /\ phase'[a] = "lookup"
         \/ Len(queries[a]) = 1 /\ phase'[a] \in {"failed", "write"}
         \/ Len(queries[a]) = 1 /\ phase'[a] = "plan" /\ ~ LastRound(a)
  BY <1>8 DEF TypeOK, Phase
<1> HIDE DEF list, entry
<1> QED BY <1>3, <1>4, <1>5, <1>6, <1>7, <1>9 DEF list, entry

-------------------------------------------------------------------------------
(* Types.                                                                  *)

(* The searches before an answer: what is merged is an answer.             *)
LEMMA HitFacts ==
  ASSUME TypeOK, NEW a \in Agent, Searched(a), Hit(a)
  PROVE  /\ queries[a] # <<>> /\ SearchKey(a) \in Keys
         /\ Head(cache[SearchKey(a)]) \in Answer
         /\ Head(cache[SearchKey(a)]) \in Range(cache[SearchKey(a)])
         /\ Merge(a, Head(cache[SearchKey(a)]))
<1>1. queries[a] # <<>> /\ cache[SearchKey(a)] # <<>> /\ Merge(a, Head(cache[SearchKey(a)]))
  BY DEF Hit, Searched, Searching
<1>2. Head(queries[a]) \in Query
  <2>1. queries[a] \in Seq(Query)
    BY DEF TypeOK
  <2> QED BY <2>1, <1>1
<1>3. SearchKey(a) \in Keys
  BY <1>2, KeyFacts DEF SearchKey, TypeOK
<1>4. PICK answer \in Answer : cache[SearchKey(a)] = <<answer>>
  <2>1. cache[SearchKey(a)] \in {<<>>} \cup {<<answer>> : answer \in Answer}
    BY <1>3 DEF TypeOK
  <2> QED BY <1>1, <2>1
<1>5. Head(<<answer>>) = answer /\ answer \in Range(<<answer>>)
  BY DEF Range
<1> QED BY <1>1, <1>3, <1>4, <1>5

LEMMA StoreFacts ==
  ASSUME TypeOK, Sourced, NEW a \in Agent, Searched(a), Store(a)
  PROVE  /\ queries[a] # <<>> /\ SearchKey(a) \in Keys
         /\ SearchKey(a) = <<opts[a].provider, Head(queries[a])>>
         /\ fetched[a] \in provided[SearchKey(a)]
         /\ fetched[a] \in Answer
         /\ Merge(a, fetched[a])
<1>1. queries[a] # <<>> /\ phase[a] = "store" /\ Merge(a, fetched[a])
  BY DEF Store, Searched, Searching
<1>2. Head(queries[a]) \in Query
  <2>1. queries[a] \in Seq(Query)
    BY DEF TypeOK
  <2> QED BY <2>1, <1>1
<1>3. /\ SearchKey(a) \in Keys /\ SearchKey(a) \in Sources
      /\ SearchKey(a) = <<opts[a].provider, Head(queries[a])>>
  BY <1>2, KeyFacts DEF SearchKey, TypeOK
<1>4. fetched[a] \in provided[SearchKey(a)]
  BY <1>1, <1>3 DEF Sourced
<1> QED BY <1>1, <1>3, <1>4 DEF TypeOK

LEMMA TypeStep ==
  ASSUME TypeOK, Sourced, \A a \in Agent : Searched(a), [NodeNext]_nodeVars
  PROVE  TypeOK'
<1>1. ASSUME NEW a \in Agent, Hit(a) PROVE TypeOK'
  <2>1. /\ queries[a] # <<>> /\ Head(cache[SearchKey(a)]) \in Answer
        /\ Merge(a, Head(cache[SearchKey(a)]))
    BY <1>1, HitFacts
  <2>2. UNCHANGED <<fetched, cache, provided>>
    BY <1>1 DEF Hit
  <2>3. /\ ordered' \in [Agent -> Seq(Result)] /\ queries' \in [Agent -> Seq(Query)]
        /\ phase' \in [Agent -> Phase]
        /\ taken' \in [Agent -> Seq([query : Query, items : Answer])]
        /\ opts' = opts /\ round' = round
        /\ attempt' = attempt /\ feedback' = feedback /\ reviews' = reviews
    BY <2>1, MergeFacts
  <2> QED BY <2>2, <2>3 DEF TypeOK
<1>2. ASSUME NEW a \in Agent, Miss(a) PROVE TypeOK'
  <2>1. phase' \in [Agent -> Phase]
    BY <1>2 DEF TypeOK, Miss, Phase
  <2> QED BY <1>2, <2>1 DEF TypeOK, Miss, Unreviewed
<1>3. ASSUME NEW a \in Agent, Ask(a) PROVE TypeOK'
  <2>1. Head(queries[a]) \in Query
    <3>1. queries[a] \in Seq(Query) /\ queries[a] # <<>>
      BY <1>3 DEF TypeOK, Ask, Searched, Searching
    <3> QED BY <3>1
  <2>2. PICK answer \in Answers[Head(queries[a])] :
          /\ fetched' = [fetched EXCEPT ![a] = answer]
          /\ provided' = [provided EXCEPT ![<<opts[a].provider, Head(queries[a])>>] = @ \cup {answer}]
    BY <1>3 DEF Ask
  <2>3. answer \in Answer
    BY <2>1, AnswerType
  <2>4. fetched' \in [Agent -> Answer \cup {<<>>}] /\ provided' \in [Sources -> SUBSET Answer]
    BY <2>2, <2>3 DEF TypeOK
  <2>5. phase' \in [Agent -> Phase]
    BY <1>3 DEF TypeOK, Ask, Phase
  <2> QED BY <1>3, <2>4, <2>5 DEF TypeOK, Ask, Unreviewed
<1>4. ASSUME NEW a \in Agent, Store(a) PROVE TypeOK'
  <2>1. queries[a] # <<>> /\ fetched[a] \in Answer /\ Merge(a, fetched[a]) /\ SearchKey(a) \in Keys
    BY <1>4, StoreFacts
  <2>2. /\ ordered' \in [Agent -> Seq(Result)] /\ queries' \in [Agent -> Seq(Query)]
        /\ phase' \in [Agent -> Phase]
        /\ taken' \in [Agent -> Seq([query : Query, items : Answer])]
        /\ opts' = opts /\ round' = round
        /\ attempt' = attempt /\ feedback' = feedback /\ reviews' = reviews
    BY <2>1, MergeFacts
  <2>3. cache' \in [Keys -> {<<>>} \cup {<<answer>> : answer \in Answer}]
    <3>1. cache' = cache \/ cache' = [cache EXCEPT ![SearchKey(a)] = <<fetched[a]>>]
      BY <1>4 DEF Store
    <3>2. <<fetched[a]>> \in {<<>>} \cup {<<answer>> : answer \in Answer}
      BY <2>1
    <3>3. cache \in [Keys -> {<<>>} \cup {<<answer>> : answer \in Answer}]
      BY DEF TypeOK
    <3> QED BY <3>1, <3>2, <3>3
  <2>4. fetched' \in [Agent -> Answer \cup {<<>>}] /\ provided' = provided
    BY <1>4 DEF Store, TypeOK
  <2> QED BY <2>2, <2>3, <2>4 DEF TypeOK
<1>5. ASSUME NEW a \in Agent, Plan(a) PROVE TypeOK'
  <2>1. PICK proposed \in FollowUps :
          LET next == Cut(a, Usable(proposed))
          IN IF next = <<>>
             THEN Conclude(a, ordered[a]) /\ UNCHANGED <<round, queries>>
             ELSE /\ phase' = [phase EXCEPT ![a] = "lookup"]
                  /\ round' = [round EXCEPT ![a] = @ + 1]
                  /\ queries' = [queries EXCEPT ![a] = next]
    BY <1>5 DEF Plan
  <2> DEFINE next == Cut(a, Usable(proposed))
  <2>2. next \in Seq(Query)
    BY CutFacts DEF TypeOK
  <2>3. phase' \in [Agent -> Phase] /\ round' \in [Agent -> Nat] /\ queries' \in [Agent -> Seq(Query)]
    <3> HIDE DEF next
    <3>1. CASE next = <<>>
      <4>1. Conclude(a, ordered[a]) /\ UNCHANGED <<round, queries>>
        BY <2>1, <3>1 DEF next
      <4> QED BY <4>1 DEF Conclude, TypeOK, Phase
    <3>2. CASE next # <<>>
      <4>1. /\ phase' = [phase EXCEPT ![a] = "lookup"]
            /\ round' = [round EXCEPT ![a] = @ + 1]
            /\ queries' = [queries EXCEPT ![a] = next]
        BY <2>1, <3>2 DEF next
      <4> QED BY <4>1, <2>2 DEF TypeOK, Phase
    <3> QED BY <3>1, <3>2
  <2> QED BY <1>5, <2>3 DEF TypeOK, Plan, Unreviewed
<1>6. ASSUME NEW a \in Agent, Write(a) PROVE TypeOK'
  <2>1. phase' \in [Agent -> Phase]
    BY <1>6 DEF TypeOK, Write, Phase
  <2> QED BY <1>6, <2>1 DEF TypeOK, Write, Unreviewed
<1>7. ASSUME NEW a \in Agent, Review(a) PROVE TypeOK'
  <2>1. PICK score \in Scores :
          LET review == [attempt |-> attempt[a], score |-> Clamp(score), pass |-> Pass(a, score),
                         told |-> feedback[a]]
          IN /\ reviews' = [reviews EXCEPT ![a] = Append(@, review)]
             /\ IF Settled(a, score)
                THEN /\ phase' = [phase EXCEPT ![a] = "done"]
                     /\ UNCHANGED <<attempt, feedback>>
                ELSE /\ phase' = [phase EXCEPT ![a] = "write"]
                     /\ attempt' = [attempt EXCEPT ![a] = @ + 1]
                     /\ feedback' = [feedback EXCEPT ![a] = attempt[a]]
    BY <1>7 DEF Review
  <2> DEFINE review == [attempt |-> attempt[a], score |-> Clamp(score), pass |-> Pass(a, score),
                        told |-> feedback[a]]
  <2> DEFINE T == [attempt : Nat, score : 1 .. 10, pass : BOOLEAN, told : Nat]
  <2>2. review \in T
    <3>1. Clamp(score) \in 1 .. 10
      BY ResearchAssumption DEF Clamp
    <3>2. Pass(a, score) \in BOOLEAN
      BY DEF Pass
    <3>3. attempt[a] \in Nat /\ feedback[a] \in Nat
      BY DEF TypeOK
    <3> QED BY <3>1, <3>2, <3>3
  <2>3. reviews' = [reviews EXCEPT ![a] = Append(@, review)] /\ reviews \in [Agent -> Seq(T)]
    BY <2>1 DEF TypeOK
  <2>4. reviews' \in [Agent -> Seq(T)]
    <3> HIDE DEF review, T
    <3> QED BY <2>2, <2>3
  <2>5. /\ phase' \in [Agent -> Phase] /\ attempt' \in [Agent -> Nat]
        /\ feedback' \in [Agent -> Nat]
    <3>1. CASE Settled(a, score)
      BY <2>1, <3>1 DEF TypeOK, Phase
    <3>2. CASE ~ Settled(a, score)
      <4>1. /\ phase' = [phase EXCEPT ![a] = "write"]
            /\ attempt' = [attempt EXCEPT ![a] = @ + 1]
            /\ feedback' = [feedback EXCEPT ![a] = attempt[a]]
        BY <2>1, <3>2
      <4> QED BY <4>1 DEF TypeOK, Phase
    <3> QED BY <3>1, <3>2
  <2> QED BY <1>7, <2>4, <2>5 DEF TypeOK, Review
<1>8. ASSUME NEW a \in Agent, NEW call, FailsIn(a, call) PROVE TypeOK'
  <2>1. phase' \in [Agent -> Phase]
    BY <1>8 DEF TypeOK, FailsIn, Phase
  <2> QED BY <1>8, <2>1 DEF TypeOK, FailsIn
<1>9. ASSUME NEW a \in Agent, Retry(a) PROVE TypeOK'
  <2>1. phase' \in [Agent -> Phase]
    BY <1>9 DEF TypeOK, Retry, Phase
  <2>2. queries' \in [Agent -> Seq(Query)]
    <3>1. Question[a] \in Query
      BY ResearchAssumption
    <3>2. <<Question[a]>> \in Seq(Query)
      BY <3>1
    <3> QED BY <1>9, <3>2 DEF TypeOK, Retry
  <2>3. round' \in [Agent -> Nat] /\ attempt' \in [Agent -> Nat] /\ feedback' \in [Agent -> Nat]
    BY <1>9 DEF TypeOK, Retry
  <2>4. ordered' \in [Agent -> Seq(Result)] /\ fetched' \in [Agent -> Answer \cup {<<>>}]
    BY <1>9 DEF TypeOK, Retry
  <2>6. taken' \in [Agent -> Seq([query : Query, items : Answer])]
    <3> DEFINE T == [query : Query, items : Answer]
    <3>1. taken \in [Agent -> Seq(T)] /\ taken' = [taken EXCEPT ![a] = <<>>]
      BY <1>9 DEF TypeOK, Retry
    <3> HIDE DEF T
    <3>2. taken' \in [Agent -> Seq(T)]
      BY <3>1
    <3> QED BY <3>2 DEF T
  <2>5. reviews' \in [Agent -> Seq([attempt : Nat, score : 1 .. 10, pass : BOOLEAN, told : Nat])]
    BY <1>9 DEF TypeOK, Retry
  <2> QED BY <1>9, <2>1, <2>2, <2>3, <2>4, <2>5, <2>6 DEF TypeOK, Retry
<1>10. ASSUME NEW k \in Keys, Expire(k) PROVE TypeOK'
  <2>1. cache' \in [Keys -> {<<>>} \cup {<<answer>> : answer \in Answer}]
    BY <1>10 DEF TypeOK, Expire
  <2> QED BY <1>10, <2>1 DEF TypeOK, Expire
<1>11. ASSUME UNCHANGED vars PROVE TypeOK'
  BY <1>11 DEF TypeOK, vars
<1>12. UNCHANGED nodeVars => UNCHANGED vars
  BY DEF nodeVars
<1> QED
  BY <1>1, <1>2, <1>3, <1>4, <1>5, <1>6, <1>7, <1>8, <1>9, <1>10, <1>11, <1>12
     DEF NodeNext, NodeStep, Step, SearchFails, PlanFails, WriteFails, ReviewFails

-------------------------------------------------------------------------------
(* A step is one agent's; what belongs to the others stays.                *)

Same(b) ==
  /\ phase'[b] = phase[b] /\ round'[b] = round[b] /\ queries'[b] = queries[b]
  /\ ordered'[b] = ordered[b] /\ fetched'[b] = fetched[b] /\ taken'[b] = taken[b]
  /\ attempt'[b] = attempt[b] /\ feedback'[b] = feedback[b] /\ reviews'[b] = reviews[b]

LEMMA LocalStep ==
  ASSUME TypeOK, Sourced, \A a \in Agent : Searched(a), NEW a \in Agent, NodeStep(a),
         NEW b \in Agent \ {a}
  PROVE  Same(b)
<1>1. CASE Hit(a)
  <2>1. /\ queries[a] # <<>> /\ Head(cache[SearchKey(a)]) \in Answer
        /\ Merge(a, Head(cache[SearchKey(a)]))
    BY <1>1, HitFacts
  <2>2. /\ ordered'[b] = ordered[b] /\ queries'[b] = queries[b]
        /\ phase'[b] = phase[b] /\ taken'[b] = taken[b] /\ round' = round
        /\ attempt' = attempt /\ feedback' = feedback /\ reviews' = reviews
    BY <2>1, MergeFacts
  <2> QED BY <1>1, <2>2 DEF Hit, Same
<1>2. CASE Store(a)
  <2>1. queries[a] # <<>> /\ fetched[a] \in Answer /\ Merge(a, fetched[a])
    BY <1>2, StoreFacts
  <2>2. /\ ordered'[b] = ordered[b] /\ queries'[b] = queries[b]
        /\ phase'[b] = phase[b] /\ taken'[b] = taken[b] /\ round' = round
        /\ attempt' = attempt /\ feedback' = feedback /\ reviews' = reviews
    BY <2>1, MergeFacts
  <2>3. fetched'[b] = fetched[b]
    BY <1>2 DEF Store, TypeOK
  <2> QED BY <2>2, <2>3 DEF Same
<1>3. CASE Plan(a)
  <2>1. phase'[b] = phase[b] /\ round'[b] = round[b] /\ queries'[b] = queries[b]
    <3>1. PICK proposed \in FollowUps :
            LET next == Cut(a, Usable(proposed))
            IN IF next = <<>>
               THEN Conclude(a, ordered[a]) /\ UNCHANGED <<round, queries>>
               ELSE /\ phase' = [phase EXCEPT ![a] = "lookup"]
                    /\ round' = [round EXCEPT ![a] = @ + 1]
                    /\ queries' = [queries EXCEPT ![a] = next]
      BY <1>3 DEF Plan
    <3> DEFINE next == Cut(a, Usable(proposed))
    <3>2. \/ Conclude(a, ordered[a]) /\ UNCHANGED <<round, queries>>
          \/ /\ phase' = [phase EXCEPT ![a] = "lookup"]
             /\ round' = [round EXCEPT ![a] = @ + 1]
             /\ queries' = [queries EXCEPT ![a] = next]
      BY <3>1
    <3> HIDE DEF next
    <3> QED BY <3>2 DEF Conclude, TypeOK
  <2> QED BY <1>3, <2>1 DEF Plan, Same, Unreviewed
<1>4. CASE Review(a)
  <2>1. /\ phase'[b] = phase[b] /\ attempt'[b] = attempt[b]
        /\ feedback'[b] = feedback[b] /\ reviews'[b] = reviews[b]
    BY <1>4 DEF Review, TypeOK
  <2> QED BY <1>4, <2>1 DEF Review, Same
<1>5. CASE Miss(a) \/ Write(a)
  BY <1>5 DEF Miss, Write, Same, Unreviewed, TypeOK
<1>6. CASE Ask(a)
  BY <1>6 DEF Ask, Same, Unreviewed, TypeOK
<1>7. CASE \E call : FailsIn(a, call)
  BY <1>7 DEF FailsIn, Same, TypeOK
<1>8. CASE Retry(a)
  BY <1>8 DEF Retry, Same, TypeOK
<1> QED
  BY <1>1, <1>2, <1>3, <1>4, <1>5, <1>6, <1>7, <1>8
     DEF NodeStep, Step, SearchFails, PlanFails, WriteFails, ReviewFails

(* Steps that are no agent's leave all of this.                            *)
LEMMA Actors ==
  ASSUME TypeOK, Sourced, \A a \in Agent : Searched(a), [NodeNext]_nodeVars,
         NEW b \in Agent
  PROVE  NodeStep(b) \/ Same(b)
<1>1. CASE \E a \in Agent : NodeStep(a)
  BY <1>1, LocalStep
<1>2. CASE \E k \in Keys : Expire(k)
  BY <1>2 DEF Expire, Same
<1>3. CASE UNCHANGED nodeVars
  BY <1>3 DEF nodeVars, vars, Same
<1> QED BY <1>1, <1>2, <1>3 DEF NodeNext

(* A server keeps its options.                                             *)
LEMMA OptionsStay ==
  ASSUME [NodeNext]_nodeVars
  PROVE  opts' = opts
<1>1. ASSUME NEW a \in Agent, NodeStep(a) PROVE opts' = opts
  <2>1. \A items : Merge(a, items) => opts' = opts
    BY DEF Merge
  <2> QED
    BY <1>1, <2>1 DEF NodeStep, Step, Hit, Miss, Ask, Store, Plan, Write, Review, Retry,
       SearchFails, PlanFails, WriteFails, ReviewFails, FailsIn
<1>2. ASSUME NEW k \in Keys, Expire(k) PROVE opts' = opts
  BY <1>2 DEF Expire
<1>3. UNCHANGED nodeVars => opts' = opts
  BY DEF nodeVars, vars
<1> QED BY <1>1, <1>2, <1>3 DEF NodeNext

-------------------------------------------------------------------------------
(* The budget.                                                             *)

LEMMA SearchedStep ==
  ASSUME TypeOK, Sourced, \A a \in Agent : Searched(a), [NodeNext]_nodeVars, TypeOK'
  PROVE  \A a \in Agent : Searched(a)'
<1> SUFFICES ASSUME NEW a \in Agent PROVE Searched(a)'
  OBVIOUS
<1>1. opts' = opts /\ opts[a].rounds \in Nat \ {0} /\ opts[a].followUps \in Nat \ {0}
  <2>1. opts[a] \in Settings
    BY DEF TypeOK
  <2> QED BY <2>1, SettingsFacts, OptionsStay
<1>2. /\ round[a] \in 1 .. opts[a].rounds
      /\ phase[a] \in {"lookup", "ask", "store"} => queries[a] # <<>>
      /\ phase[a] = "plan" => round[a] < opts[a].rounds
      /\ Len(taken[a]) + Len(queries[a]) <= 1 + (round[a] - 1) * opts[a].followUps
      /\ queries[a] \in Seq(Query) /\ Len(queries[a]) \in Nat /\ Len(taken[a]) \in Nat
  BY DEF Searched, Searching, TypeOK
<1>3. SUFFICES /\ round'[a] \in 1 .. opts[a].rounds
               /\ phase'[a] \in {"lookup", "ask", "store"} => queries'[a] # <<>>
               /\ phase'[a] = "plan" => round'[a] < opts[a].rounds
               /\ Len(taken'[a]) + Len(queries'[a]) <= 1 + (round'[a] - 1) * opts[a].followUps
  BY <1>1 DEF Searched, Searching
<1>4. ASSUME NEW items \in Answer, Merge(a, items), queries[a] # <<>>
      PROVE  /\ round'[a] \in 1 .. opts[a].rounds
             /\ phase'[a] \in {"lookup", "ask", "store"} => queries'[a] # <<>>
             /\ phase'[a] = "plan" => round'[a] < opts[a].rounds
             /\ Len(taken'[a]) + Len(queries'[a]) <= 1 + (round'[a] - 1) * opts[a].followUps
  <2> DEFINE entry == [query |-> Head(queries[a]), items |-> items]
  <2>1. /\ taken'[a] = Append(taken[a], entry)
        /\ queries'[a] = Tail(queries[a]) /\ round' = round
        /\ \/ Len(queries[a]) > 1 /\ phase'[a] = "lookup"
           \/ Len(queries[a]) = 1 /\ phase'[a] \in {"failed", "write"}
           \/ Len(queries[a]) = 1 /\ phase'[a] = "plan" /\ ~ LastRound(a)
    BY <1>4, MergeFacts
  <2>2. Len(taken'[a]) = Len(taken[a]) + 1
    <3> HIDE DEF entry
    <3>1. taken[a] \in Seq([query : Query, items : Answer])
      BY DEF TypeOK
    <3> QED BY <2>1, <3>1
  <2>3. Len(queries'[a]) = Len(queries[a]) - 1 /\ queries'[a] \in Seq(Query)
    BY <2>1, <1>2, <1>4
  <2>4. ~ LastRound(a) => round[a] < opts[a].rounds
    BY <1>1, <1>2 DEF LastRound
  <2>5. Len(queries[a]) > 1 => queries'[a] # <<>>
    BY <2>3, <1>2
  <2>6. Len(taken'[a]) + Len(queries'[a]) = Len(taken[a]) + Len(queries[a])
    <3>1. \A t, q \in Int : (t + 1) + (q - 1) = t + q
      OBVIOUS
    <3>2. Len(taken[a]) \in Int /\ Len(queries[a]) \in Int
      BY <1>2
    <3> QED BY <2>2, <2>3, <3>1, <3>2, Zenon
  <2> QED BY <2>1, <2>4, <2>5, <2>6, <1>2
<1>5. CASE Same(a)
  BY <1>2, <1>5 DEF Same
<1>6. CASE Hit(a)
  <2>1. /\ queries[a] # <<>> /\ Head(cache[SearchKey(a)]) \in Answer
        /\ Merge(a, Head(cache[SearchKey(a)]))
    BY <1>6, HitFacts
  <2> QED BY <2>1, <1>4
<1>7. CASE Store(a)
  <2>1. queries[a] # <<>> /\ fetched[a] \in Answer /\ Merge(a, fetched[a])
    BY <1>7, StoreFacts
  <2> QED BY <2>1, <1>4
<1>8. CASE Plan(a)
  <2>1. PICK proposed \in FollowUps :
          LET next == Cut(a, Usable(proposed))
          IN IF next = <<>>
             THEN Conclude(a, ordered[a]) /\ UNCHANGED <<round, queries>>
             ELSE /\ phase' = [phase EXCEPT ![a] = "lookup"]
                  /\ round' = [round EXCEPT ![a] = @ + 1]
                  /\ queries' = [queries EXCEPT ![a] = next]
    BY <1>8 DEF Plan
  <2> DEFINE next == Cut(a, Usable(proposed))
  <2>2. next \in Seq(Query) /\ Len(next) <= opts[a].followUps
    BY CutFacts DEF TypeOK
  <2>3. taken' = taken /\ phase[a] = "plan"
    BY <1>8 DEF Plan
  <2> HIDE DEF next
  <2>4. CASE next = <<>>
    <3>1. Conclude(a, ordered[a]) /\ UNCHANGED <<round, queries>>
      BY <2>1, <2>4 DEF next
    <3>2. phase'[a] \in {"failed", "write"}
      BY <3>1 DEF Conclude, TypeOK
    <3> QED BY <2>3, <3>1, <3>2, <1>2
  <2>5. CASE next # <<>>
    <3>1. phase'[a] = "lookup" /\ round'[a] = round[a] + 1 /\ queries'[a] = next
      BY <2>1, <2>5 DEF next, TypeOK
    <3> DEFINE m == (round[a] - 1) * opts[a].followUps
    <3>2. (round'[a] - 1) * opts[a].followUps = m + opts[a].followUps
      <4>1. \A r, f \in Int : ((r + 1) - 1) * f = (r - 1) * f + f
        OBVIOUS
      <4>2. round[a] \in Int /\ opts[a].followUps \in Int
        BY <1>1, <1>2
      <4> QED BY <3>1, <4>1, <4>2, Zenon
    <3>3. m \in Int /\ Len(taken[a]) + Len(queries[a]) <= 1 + m
      <4>1. m \in Int
        BY <1>1, <1>2
      <4>2. Len(taken[a]) + Len(queries[a]) <= 1 + m
        BY <1>2, Zenon
      <4> QED BY <4>1, <4>2
    <3> HIDE DEF m
    <3>4. Len(next) \in Nat
      BY <2>2
    <3>5. Len(taken'[a]) + Len(queries'[a]) <= 1 + (m + opts[a].followUps)
      <4>1. \A t, q, n \in Nat, f, k \in Int : t + q <= 1 + k /\ n <= f => t + n <= 1 + (k + f)
        OBVIOUS
      <4>2. opts[a].followUps \in Int
        BY <1>1
      <4>3. Len(taken[a]) + Len(next) <= 1 + (m + opts[a].followUps)
        BY <2>2, <3>3, <3>4, <4>1, <4>2, <1>2, Zenon
      <4> QED BY <2>3, <3>1, <4>3, Zenon
    <3> QED BY <2>5, <3>1, <3>2, <3>5, <2>3, <1>1, <1>2
  <2> QED BY <2>4, <2>5
<1>9. CASE Miss(a) \/ Ask(a)
  <2>1. /\ phase[a] \in {"lookup", "ask"} /\ phase'[a] \in {"ask", "store"}
        /\ UNCHANGED <<round, queries, taken>>
    BY <1>9 DEF Miss, Ask, TypeOK
  <2> QED BY <2>1, <1>2
<1>10. CASE Write(a) \/ Review(a) \/ \E call : FailsIn(a, call)
  <2>1. phase'[a] \in {"done", "review", "write", "failed"} /\ UNCHANGED <<round, queries, taken>>
    <3>1. CASE Write(a)
      BY <3>1 DEF Write, TypeOK
    <3>2. CASE Review(a)
      BY <3>2 DEF Review, TypeOK
    <3>3. CASE \E call : FailsIn(a, call)
      BY <3>3 DEF FailsIn, TypeOK
    <3> QED BY <1>10, <3>1, <3>2, <3>3
  <2> QED BY <2>1, <1>2
<1>11. CASE Retry(a)
  <2>1. /\ phase'[a] = "lookup" /\ round'[a] = 1 /\ queries'[a] = <<Question[a]>>
        /\ taken'[a] = <<>>
    BY <1>11 DEF Retry, TypeOK
  <2>2. (1 - 1) * opts[a].followUps = 0
    <3>1. \A f \in Int : (1 - 1) * f = 0
      OBVIOUS
    <3>2. opts[a].followUps \in Int
      BY <1>1
    <3> QED BY <3>1, <3>2, Zenon
  <2>3. Len(queries'[a]) = 1 /\ queries'[a] # <<>> /\ Len(taken'[a]) = 0
    BY <2>1
  <2> QED BY <2>1, <2>2, <2>3, <1>1
<1> QED
  BY Actors, <1>5, <1>6, <1>7, <1>8, <1>9, <1>10, <1>11
     DEF NodeStep, Step, SearchFails, PlanFails, WriteFails, ReviewFails

(* What a call has searched, the failed search included, is within what a  *)
(* call may cost.                                                          *)
LEMMA CallAffords ==
  ASSUME TypeOK, NEW a \in Agent, Searched(a)
  PROVE  Begun(a) \in Nat /\ CallBudget(a) \in Nat /\ Begun(a) <= CallBudget(a)
<1>1. opts[a].rounds \in Nat \ {0} /\ opts[a].followUps \in Nat
  <2>1. opts[a] \in Settings
    BY DEF TypeOK
  <2> QED BY <2>1, SettingsFacts
<1>2. /\ round[a] \in Nat /\ round[a] <= opts[a].rounds
      /\ Len(taken[a]) \in Nat /\ Len(queries[a]) \in Nat /\ queries[a] \in Seq(Query)
  BY <1>1 DEF Searched, TypeOK
<1> DEFINE x == (round[a] - 1) * opts[a].followUps
<1> DEFINE y == (opts[a].rounds - 1) * opts[a].followUps
<1>3. x <= y
  <2>1. \A r, m, f \in Nat : r <= m => (r - 1) * f <= (m - 1) * f
    OBVIOUS
  <2>2. opts[a].rounds \in Nat
    BY <1>1
  <2> QED BY <1>1, <1>2, <2>1, <2>2, Zenon
<1>4. y \in Nat
  <2>1. \A m, f \in Nat : m # 0 => (m - 1) * f \in Nat
    OBVIOUS
  <2> QED BY <1>1, <2>1
<1>5. x \in Int /\ Len(taken[a]) + Len(queries[a]) <= 1 + x
  <2>1. x \in Int
    BY <1>1, <1>2
  <2>2. Len(taken[a]) + Len(queries[a]) <= 1 + x
    BY Zenon DEF Searched
  <2> QED BY <2>1, <2>2
<1>6. CallBudget(a) = 1 + y
  BY DEF CallBudget
<1> HIDE DEF x, y
<1>7. Begun(a) \in Nat /\ Begun(a) <= Len(taken[a]) + Len(queries[a])
  <2> DEFINE t == Len(taken[a])  q == Len(queries[a])
  <2>1. t \in Nat /\ q \in Nat
    BY <1>2
  <2>2. queries[a] # <<>> => q >= 1
    BY <1>2
  <2>3. Begun(a) = t + (IF queries[a] = <<>> THEN 0 ELSE 1)
    BY Zenon DEF Begun
  <2> HIDE DEF t, q
  <2>4. Begun(a) \in Nat /\ Begun(a) <= t + q
    <3>1. CASE queries[a] = <<>>
      <4>1. Begun(a) = t + 0
        BY <2>3, <3>1
      <4> QED BY <2>1, <4>1
    <3>2. CASE queries[a] # <<>>
      <4>1. Begun(a) = t + 1
        BY <2>3, <3>2
      <4>2. q >= 1
        BY <2>2, <3>2
      <4> QED BY <2>1, <4>1, <4>2
    <3> QED BY <3>1, <3>2
  <2> QED BY <2>4 DEF t, q
<1>8. \A b, n, z, w \in Int : b <= n /\ n <= 1 + z /\ z <= w => b <= 1 + w
  OBVIOUS
<1>9. Begun(a) \in Int /\ Len(taken[a]) + Len(queries[a]) \in Int /\ x \in Int /\ y \in Int
  BY <1>2, <1>4, <1>5, <1>7
<1>10. Begun(a) <= 1 + y
  BY <1>3, <1>5, <1>7, <1>8, <1>9, Zenon
<1>11. 1 + y \in Nat
  BY <1>4
<1> QED BY <1>6, <1>7, <1>10, <1>11, Zenon

LEMMA AffordedStep ==
  ASSUME TypeOK, \A a \in Agent : Searched(a) /\ Afforded(a), [NodeNext]_nodeVars,
         left \in [Agent -> Nat], earlier \in [Agent -> Nat]
  PROVE  /\ left' \in [Agent -> Nat] /\ earlier' \in [Agent -> Nat]
         /\ \A a \in Agent : Afforded(a)'
<1>1. opts' = opts
  BY OptionsStay
<1>2. CASE UNCHANGED <<left, earlier>>
  BY <1>1, <1>2 DEF Afforded, CallBudget
<1>3. ASSUME NEW a \in Agent, Retry(a)
      PROVE  /\ left' \in [Agent -> Nat] /\ earlier' \in [Agent -> Nat]
             /\ \A b \in Agent : Afforded(b)'
  <2>1. /\ left[a] \in Nat /\ left[a] > 0 /\ earlier[a] \in Nat
        /\ left' = [left EXCEPT ![a] = left[a] - 1]
        /\ earlier' = [earlier EXCEPT ![a] = earlier[a] + Begun(a)]
    BY <1>3 DEF Retry, Count
  <2>2. Begun(a) \in Nat /\ CallBudget(a) \in Nat /\ Begun(a) <= CallBudget(a)
    BY CallAffords
  <2>3. left' \in [Agent -> Nat] /\ earlier' \in [Agent -> Nat]
    BY <2>1, <2>2
  <2>4. ASSUME NEW b \in Agent, b # a PROVE Afforded(b)'
    <3>1. left'[b] = left[b] /\ earlier'[b] = earlier[b]
      BY <2>1, <2>4
    <3> QED BY <3>1, <1>1 DEF Afforded, CallBudget
  <2>5. Afforded(a)'
    <3>1. left'[a] = left[a] - 1 /\ earlier'[a] = earlier[a] + Begun(a)
      BY <2>1
    <3>2. MaxRetry[a] \in Nat /\ left[a] <= MaxRetry[a]
      BY MaxRetryAssumption DEF Afforded
    <3> DEFINE k == MaxRetry[a] - left[a]
    <3> DEFINE budget == CallBudget(a)
    <3>3. k \in Nat /\ earlier[a] <= k * budget /\ MaxRetry[a] - left'[a] = k + 1
      <4>1. k \in Nat /\ MaxRetry[a] - left'[a] = k + 1
        BY <2>1, <3>1, <3>2
      <4>2. earlier[a] <= k * budget
        BY Zenon DEF Afforded
      <4> QED BY <4>1, <4>2
    <3>4. CallBudget(a)' = budget
      BY <1>1 DEF CallBudget
    <3>5. budget \in Nat /\ Begun(a) <= budget
      BY <2>2
    <3> HIDE DEF k, budget
    <3>6. (k + 1) * budget = k * budget + budget /\ k * budget \in Int
      <4>1. \A r, f \in Nat : (r + 1) * f = r * f + f /\ r * f \in Int
        OBVIOUS
      <4> QED BY <3>3, <3>5, <4>1, Zenon
    <3>7. earlier'[a] <= (k + 1) * budget
      BY <2>1, <2>2, <3>1, <3>3, <3>5, <3>6
    <3>8. left'[a] \in 0 .. MaxRetry[a]
      BY <2>1, <3>1, <3>2
    <3> QED BY <3>3, <3>4, <3>7, <3>8 DEF Afforded
  <2> QED BY <2>3, <2>4, <2>5
<1> QED BY <1>2, <1>3 DEF NodeNext, NodeStep, nodeVars

-------------------------------------------------------------------------------
(* Where the answers come from.                                            *)

LEMMA SourcedStep ==
  ASSUME TypeOK, Sourced, \A a \in Agent : Searched(a), [NodeNext]_nodeVars, TypeOK'
  PROVE  Sourced'
<1>1. opts' = opts /\ Keys \subseteq Sources
  <2>1. \A o \in Settings : o.namespace = o.provider
    BY SettingsFacts
  <2> QED BY <2>1, OptionsStay DEF Keys, Sources
<1> DEFINE Own(b) ==
      /\ phase[b] = "store" => fetched[b] \in provided[<<opts[b].provider, Head(queries[b])>>]
      /\ \A i \in DOMAIN taken[b] :
           taken[b][i].items \in provided[<<opts[b].provider, taken[b][i].query>>]
<1> DEFINE OwnNext(b) ==
      /\ phase'[b] = "store" =>
           fetched'[b] \in provided'[<<opts[b].provider, Head(queries'[b])>>]
      /\ \A i \in DOMAIN taken'[b] :
           taken'[b][i].items \in provided'[<<opts[b].provider, taken'[b][i].query>>]
<1>2. \A k \in Keys : Range(cache[k]) \subseteq provided[k]
  BY DEF Sourced
<1>3. \A b \in Agent : Own(b)
  BY DEF Sourced
<1>4. SUFFICES /\ \A k \in Keys : Range(cache'[k]) \subseteq provided'[k]
               /\ \A b \in Agent : OwnNext(b)
  BY <1>1 DEF Sourced
(* What was provided stays.                                                *)
<1>5. \A k \in Sources : provided[k] \subseteq provided'[k]
  <2>1. ASSUME NEW a \in Agent, NodeStep(a)
        PROVE  \A k \in Sources : provided[k] \subseteq provided'[k]
    <3>1. CASE Ask(a)
      <4>1. PICK k, answer : provided' = [provided EXCEPT ![k] = @ \cup {answer}]
        BY <3>1 DEF Ask
      <4>2. provided \in [Sources -> SUBSET Answer]
        BY DEF TypeOK
      <4> QED BY <4>1, <4>2
    <3>2. CASE ~ Ask(a)
      <4>1. provided' = provided
        BY <2>1, <3>2 DEF NodeStep, Step, Hit, Miss, Store, Plan, Write, Review, Retry,
           SearchFails, PlanFails, WriteFails, ReviewFails, FailsIn
      <4> QED BY <4>1
    <3> QED BY <3>1, <3>2
  <2>2. ASSUME NEW k \in Keys, Expire(k) PROVE provided' = provided
    BY <2>2 DEF Expire
  <2>3. UNCHANGED nodeVars => provided' = provided
    BY DEF nodeVars, vars
  <2> QED BY <2>1, <2>2, <2>3 DEF NodeNext
<1>6. \A b \in Agent : \A i \in DOMAIN taken[b] :
        /\ <<opts[b].provider, taken[b][i].query>> \in Sources
        /\ taken[b][i].items \in provided'[<<opts[b].provider, taken[b][i].query>>]
  <2> SUFFICES ASSUME NEW b \in Agent, NEW i \in DOMAIN taken[b]
               PROVE  /\ <<opts[b].provider, taken[b][i].query>> \in Sources
                      /\ taken[b][i].items \in provided'[<<opts[b].provider, taken[b][i].query>>]
    OBVIOUS
  <2> DEFINE T == [query : Query, items : Answer]
  <2>3. taken[b][i] \in T
    <3>1. taken \in [Agent -> Seq(T)]
      BY DEF TypeOK
    <3> HIDE DEF T
    <3> QED BY <3>1
  <2>1. taken[b][i].query \in Query /\ opts[b] \in Settings
    BY <2>3 DEF TypeOK
  <2>2. <<opts[b].provider, taken[b][i].query>> \in Sources
    BY <2>1 DEF Sources
  <2> QED BY <2>2, <1>3, <1>5
<1>7. ASSUME NEW b \in Agent, Same(b) PROVE OwnNext(b)
  <2>1. phase[b] = "store" =>
          fetched[b] \in provided'[<<opts[b].provider, Head(queries[b])>>]
    <3> SUFFICES ASSUME phase[b] = "store"
                 PROVE  fetched[b] \in provided'[<<opts[b].provider, Head(queries[b])>>]
      OBVIOUS
    <3>1. queries[b] # <<>> /\ queries[b] \in Seq(Query)
      BY DEF Searched, Searching, TypeOK
    <3>2. Head(queries[b]) \in Query
      BY <3>1
    <3>3. <<opts[b].provider, Head(queries[b])>> \in Sources
      BY <3>2 DEF Sources, TypeOK
    <3> QED BY <1>3, <1>5, <3>3
  <2> QED BY <1>6, <1>7, <2>1 DEF Same
(* Merging what is its own.                                                *)
<1>8. ASSUME NEW b \in Agent, NEW items \in Answer, Merge(b, items), queries[b] # <<>>,
             items \in provided[<<opts[b].provider, Head(queries[b])>>]
      PROVE  OwnNext(b)
  <2> DEFINE entry == [query |-> Head(queries[b]), items |-> items]
  <2>1. /\ taken'[b] = Append(taken[b], entry) /\ Head(queries[b]) \in Query
        /\ phase'[b] \in {"lookup", "failed", "write", "plan"}
    BY <1>8, MergeFacts
  <2>2. <<opts[b].provider, Head(queries[b])>> \in Sources
    BY <2>1 DEF Sources, TypeOK
  <2>3. entry.items \in provided'[<<opts[b].provider, entry.query>>]
    BY <2>2, <1>5, <1>8
  <2>4. taken[b] \in Seq([query : Query, items : Answer])
    BY DEF TypeOK
  <2> HIDE DEF entry
  <2>5. \A i \in DOMAIN taken'[b] :
          \/ i \in DOMAIN taken[b] /\ taken'[b][i] = taken[b][i]
          \/ taken'[b][i] = entry
    BY <2>1, <2>4
  <2> QED BY <2>1, <2>3, <2>5, <1>6
<1>9. ASSUME NEW b \in Agent, Hit(b) PROVE OwnNext(b)
  <2>1. /\ queries[b] # <<>> /\ SearchKey(b) \in Keys
        /\ Head(cache[SearchKey(b)]) \in Answer
        /\ Head(cache[SearchKey(b)]) \in Range(cache[SearchKey(b)])
        /\ Merge(b, Head(cache[SearchKey(b)]))
    BY <1>9, HitFacts
  <2>2. Head(cache[SearchKey(b)]) \in provided[SearchKey(b)]
    BY <2>1, <1>2
  <2>3. SearchKey(b) = <<opts[b].provider, Head(queries[b])>>
    <3>1. Head(queries[b]) \in Query
      BY <2>1 DEF TypeOK
    <3> QED BY <3>1, KeyFacts DEF SearchKey, TypeOK
  <2> QED BY <1>8, <2>1, <2>2, <2>3
<1>10. ASSUME NEW b \in Agent, Store(b) PROVE OwnNext(b)
  <2>1. /\ queries[b] # <<>> /\ fetched[b] \in Answer /\ Merge(b, fetched[b])
        /\ fetched[b] \in provided[<<opts[b].provider, Head(queries[b])>>]
    BY <1>10, StoreFacts
  <2> QED BY <1>8, <2>1
<1>11. ASSUME NEW b \in Agent, Ask(b) PROVE OwnNext(b)
  <2>1. PICK answer \in Answers[Head(queries[b])] :
          /\ fetched' = [fetched EXCEPT ![b] = answer]
          /\ provided' = [provided EXCEPT ![<<opts[b].provider, Head(queries[b])>>] = @ \cup {answer}]
    BY <1>11 DEF Ask
  <2>2. Head(queries[b]) \in Query
    <3>1. queries[b] # <<>> /\ queries[b] \in Seq(Query)
      BY <1>11 DEF Searched, Searching, TypeOK, Ask
    <3> QED BY <3>1
  <2>3. <<opts[b].provider, Head(queries[b])>> \in Sources
    BY <2>2 DEF Sources, TypeOK
  <2>4. fetched'[b] \in provided'[<<opts[b].provider, Head(queries[b])>>]
    BY <2>1, <2>3 DEF TypeOK
  <2>5. queries' = queries /\ taken' = taken
    BY <1>11 DEF Ask
  <2> QED BY <2>4, <2>5, <1>6
<1>12. ASSUME NEW b \in Agent, Retry(b) PROVE OwnNext(b)
  <2>1. phase'[b] = "lookup" /\ taken'[b] = <<>>
    BY <1>12 DEF Retry, TypeOK
  <2> QED BY <2>1
<1>13. ASSUME NEW b \in Agent,
              \/ Miss(b) \/ Plan(b) \/ Write(b) \/ Review(b) \/ \E call : FailsIn(b, call)
       PROVE  OwnNext(b)
  <2>1. taken' = taken
    BY <1>13 DEF Miss, Plan, Write, Review, FailsIn
  <2>2. phase'[b] # "store"
    <3>1. CASE Miss(b) \/ \E call : FailsIn(b, call)
      BY <3>1 DEF Miss, FailsIn, TypeOK
    <3>2. CASE Plan(b)
      <4>1. \/ phase' = [phase EXCEPT ![b] = "lookup"]
            \/ phase' = [phase EXCEPT ![b] = "failed"]
            \/ phase' = [phase EXCEPT ![b] = "write"]
        BY <3>2, Zenon DEF Plan, Conclude
      <4> QED BY <4>1 DEF TypeOK
    <3>3. CASE Write(b) \/ Review(b)
      <4>1. \/ phase' = [phase EXCEPT ![b] = "review"]
            \/ phase' = [phase EXCEPT ![b] = "done"]
            \/ phase' = [phase EXCEPT ![b] = "write"]
        BY <3>3, Zenon DEF Write, Review
      <4> QED BY <4>1 DEF TypeOK
    <3> QED BY <1>13, <3>1, <3>2, <3>3
  <2> QED BY <2>1, <2>2, <1>6
<1>14. \A b \in Agent : OwnNext(b)
  <2> HIDE DEF OwnNext
  <2> QED
    BY Actors, <1>7, <1>9, <1>10, <1>11, <1>12, <1>13
       DEF NodeStep, Step, SearchFails, PlanFails, WriteFails, ReviewFails
<1>15. ASSUME NEW k \in Keys PROVE Range(cache'[k]) \subseteq provided'[k]
  <2>1. Range(cache[k]) \subseteq provided'[k]
    BY <1>1, <1>2, <1>5
  <2>2. Range(<<>>) = {}
    BY DEF Range
  <2>3. CASE cache'[k] \in {cache[k], <<>>}
    BY <2>1, <2>2, <2>3
  <2>4. ASSUME NEW b \in Agent, Store(b) PROVE Range(cache'[k]) \subseteq provided'[k]
    <3>1. /\ SearchKey(b) \in Keys /\ fetched[b] \in provided[SearchKey(b)]
      BY <2>4, StoreFacts
    <3>2. cache' = cache \/ cache' = [cache EXCEPT ![SearchKey(b)] = <<fetched[b]>>]
      BY <2>4 DEF Store
    <3>3. CASE cache'[k] = cache[k]
      BY <3>3, <2>1
    <3>4. CASE cache'[k] # cache[k]
      <4>1. k = SearchKey(b) /\ cache'[k] = <<fetched[b]>>
        BY <3>2, <3>4 DEF TypeOK
      <4>2. Range(<<fetched[b]>>) = {fetched[b]}
        BY DEF Range
      <4> QED BY <4>1, <4>2, <3>1, <1>1, <1>5
    <3> QED BY <3>3, <3>4
  <2>5. ASSUME NEW b \in Agent, NodeStep(b), ~ Store(b) PROVE cache' = cache
    BY <2>5 DEF NodeStep, Step, Hit, Miss, Ask, Plan, Write, Review, Retry,
       SearchFails, PlanFails, WriteFails, ReviewFails, FailsIn
  <2>6. ASSUME NEW j \in Keys, Expire(j) PROVE cache'[k] \in {cache[k], <<>>}
    BY <2>6 DEF Expire, TypeOK
  <2>7. UNCHANGED nodeVars => cache' = cache
    BY DEF nodeVars, vars
  <2> QED BY <2>3, <2>4, <2>5, <2>6, <2>7 DEF NodeNext
<1> QED BY <1>14, <1>15

-------------------------------------------------------------------------------
(* The critic.                                                             *)

LEMMA ReviewedStep ==
  ASSUME TypeOK, Sourced, \A a \in Agent : Searched(a) /\ Reviewed(a), [NodeNext]_nodeVars
  PROVE  \A a \in Agent : Reviewed(a)'
<1> SUFFICES ASSUME NEW a \in Agent, opts[a].critic PROVE Reviewed(a)'
  BY OptionsStay DEF Reviewed
<1>1. opts' = opts /\ MaxAttempts(a) \in Nat \ {0} /\ MaxAttempts(a)' = MaxAttempts(a)
  <2>1. opts[a] \in Settings
    BY DEF TypeOK
  <2> QED BY <2>1, SettingsFacts, OptionsStay DEF MaxAttempts
<1> DEFINE T == [attempt : Nat, score : 1 .. 10, pass : BOOLEAN, told : Nat]
<1>2. /\ attempt[a] \in 1 .. MaxAttempts(a) /\ feedback[a] = attempt[a] - 1
      /\ Len(reviews[a]) = IF phase[a] = "done" THEN attempt[a] ELSE attempt[a] - 1
      /\ \A k \in DOMAIN reviews[a] :
           /\ reviews[a][k].attempt = k /\ reviews[a][k].told = k - 1
           /\ k < Len(reviews[a]) \/ phase[a] # "done" => ~ reviews[a][k].pass
      /\ phase[a] = "done" => reviews[a][attempt[a]].pass \/ attempt[a] = MaxAttempts(a)
  BY DEF Reviewed
<1>3. reviews[a] \in Seq(T)
  <2>1. reviews \in [Agent -> Seq(T)]
    BY DEF TypeOK
  <2> HIDE DEF T
  <2> QED BY <2>1
<1>4. CASE UNCHANGED <<attempt, feedback, reviews>> /\ phase'[a] # "done" /\ phase[a] # "done"
  BY <1>1, <1>2, <1>4 DEF Reviewed
<1>5. CASE Same(a)
  BY <1>1, <1>2, <1>5 DEF Same, Reviewed
<1>6. CASE Hit(a)
  <2>1. /\ queries[a] # <<>> /\ Head(cache[SearchKey(a)]) \in Answer
        /\ Merge(a, Head(cache[SearchKey(a)])) /\ phase[a] = "lookup"
    BY <1>6, HitFacts DEF Hit
  <2>2. /\ UNCHANGED <<attempt, feedback, reviews>>
        /\ phase'[a] \in {"lookup", "failed", "write", "plan"}
    BY <2>1, MergeFacts
  <2> QED BY <2>1, <2>2, <1>4
<1>7. CASE Store(a)
  <2>1. queries[a] # <<>> /\ fetched[a] \in Answer /\ Merge(a, fetched[a]) /\ phase[a] = "store"
    BY <1>7, StoreFacts DEF Store
  <2>2. /\ UNCHANGED <<attempt, feedback, reviews>>
        /\ phase'[a] \in {"lookup", "failed", "write", "plan"}
    BY <2>1, MergeFacts
  <2> QED BY <2>1, <2>2, <1>4
<1>8. CASE Miss(a) \/ Ask(a) \/ Plan(a) \/ Write(a)
  <2>1. phase'[a] # "done" /\ phase[a] # "done"
    BY <1>8 DEF Miss, Ask, Plan, Conclude, Write, TypeOK
  <2>2. UNCHANGED <<attempt, feedback, reviews>>
    BY <1>8 DEF Miss, Ask, Plan, Write, Unreviewed
  <2> QED BY <2>1, <2>2, <1>4
<1>9. CASE FailsIn(a, "ask") \/ FailsIn(a, "plan") \/ FailsIn(a, "write") \/ FailsIn(a, "review")
  <2>1. phase'[a] # "done" /\ phase[a] # "done" /\ UNCHANGED <<attempt, feedback, reviews>>
    BY <1>9 DEF FailsIn, TypeOK
  <2> QED BY <2>1, <1>4
<1>10. CASE Retry(a)
  <2>1. phase'[a] = "lookup" /\ attempt'[a] = 1 /\ feedback'[a] = 0 /\ reviews'[a] = <<>>
    BY <1>10 DEF Retry, TypeOK
  <2>2. Len(reviews'[a]) = 0 /\ DOMAIN reviews'[a] = {}
    BY <2>1
  <2> QED BY <2>1, <2>2, <1>1 DEF Reviewed
<1>11. CASE Review(a)
  <2>1. PICK score \in Scores :
          LET review == [attempt |-> attempt[a], score |-> Clamp(score), pass |-> Pass(a, score),
                         told |-> feedback[a]]
          IN /\ reviews' = [reviews EXCEPT ![a] = Append(@, review)]
             /\ IF Settled(a, score)
                THEN /\ phase' = [phase EXCEPT ![a] = "done"]
                     /\ UNCHANGED <<attempt, feedback>>
                ELSE /\ phase' = [phase EXCEPT ![a] = "write"]
                     /\ attempt' = [attempt EXCEPT ![a] = @ + 1]
                     /\ feedback' = [feedback EXCEPT ![a] = attempt[a]]
    BY <1>11 DEF Review
  <2>2. PICK passed \in BOOLEAN : passed = Pass(a, score)
    <3>1. Pass(a, score) \in BOOLEAN
      BY DEF Pass
    <3> QED BY <3>1, Zenon
  <2> DEFINE review == [attempt |-> attempt[a], score |-> Clamp(score), pass |-> passed,
                        told |-> feedback[a]]
  <2>3. phase[a] = "review"
    BY <1>11 DEF Review
  <2>4. reviews' = [reviews EXCEPT ![a] = Append(@, review)]
    BY <2>1, <2>2, Zenon
  <2>5. /\ review.attempt = attempt[a] /\ review.told = attempt[a] - 1
        /\ review.pass = passed
    BY <1>2
  <2> DEFINE n == attempt[a]
  <2>6. /\ reviews'[a] = Append(reviews[a], review) /\ Len(reviews[a]) = n - 1
        /\ n \in 1 .. MaxAttempts(a)
    <3> HIDE DEF review
    <3> QED BY <2>3, <2>4, <1>2 DEF TypeOK
  <2>7. /\ Len(reviews'[a]) = n /\ DOMAIN reviews'[a] = 1 .. n
        /\ reviews'[a][n] = review
        /\ \A k \in 1 .. n : k # n => k \in DOMAIN reviews[a] /\ reviews'[a][k] = reviews[a][k]
    <3> HIDE DEF review, n, T
    <3> QED BY <2>6, <1>3
  <2>8. \A k \in 1 .. n : /\ reviews'[a][k].attempt = k /\ reviews'[a][k].told = k - 1
                          /\ k # n => ~ reviews'[a][k].pass
    <3> SUFFICES ASSUME NEW k \in 1 .. n
                 PROVE  /\ reviews'[a][k].attempt = k /\ reviews'[a][k].told = k - 1
                        /\ k # n => ~ reviews'[a][k].pass
      OBVIOUS
    <3>1. CASE k = n
      <4> HIDE DEF review
      <4> QED BY <3>1, <2>5, <2>7
    <3>2. CASE k # n
      <4> HIDE DEF review
      <4> QED BY <3>2, <2>3, <2>7, <1>2
    <3> QED BY <3>1, <3>2
  <2>9. reviews'[a][n].pass = passed
    <3> HIDE DEF review
    <3> QED BY <2>5, <2>7
  <2> HIDE DEF review
  <2>10. CASE Settled(a, score)
    <3>1. phase'[a] = "done" /\ attempt'[a] = n /\ feedback'[a] = n - 1
      BY <2>1, <2>10, <1>2 DEF TypeOK
    <3>2. passed \/ n = MaxAttempts(a)
      BY <2>2, <2>10 DEF Settled
    <3>3. reviews'[a][n].pass \/ n = MaxAttempts(a)
      BY <3>2, <2>9
    <3>4. \A k \in 1 .. n : k < n => k # n
      OBVIOUS
    <3>5. Len(reviews'[a]) = attempt'[a] /\ feedback'[a] = attempt'[a] - 1
      BY <3>1, <2>7
    <3> HIDE DEF n
    <3>6. \A k \in DOMAIN reviews'[a] :
            /\ reviews'[a][k].attempt = k /\ reviews'[a][k].told = k - 1
            /\ k < Len(reviews'[a]) => ~ reviews'[a][k].pass
      BY <3>4, <2>7, <2>8
    <3>7. /\ phase'[a] = "done" /\ attempt'[a] \in 1 .. MaxAttempts(a)
          /\ reviews'[a][attempt'[a]].pass \/ attempt'[a] = MaxAttempts(a)
      BY <3>1, <3>3, <2>6
    <3> QED BY <3>5, <3>6, <3>7, <1>1 DEF Reviewed
  <2>11. CASE ~ Settled(a, score)
    <3>1. phase'[a] = "write" /\ attempt'[a] = n + 1 /\ feedback'[a] = n
      BY <2>1, <2>11 DEF TypeOK
    <3>2. ~ passed /\ n # MaxAttempts(a)
      BY <2>2, <2>11 DEF Settled
    <3>3. \A k \in 1 .. n : ~ reviews'[a][k].pass
      BY <3>2, <2>8, <2>9
    <3>4. n + 1 \in 1 .. MaxAttempts(a) /\ n = (n + 1) - 1
      BY <3>2, <2>6, <1>1
    <3>5. Len(reviews'[a]) = attempt'[a] - 1 /\ feedback'[a] = attempt'[a] - 1
      BY <3>1, <3>4, <2>7
    <3>6. \A k \in DOMAIN reviews'[a] :
            /\ reviews'[a][k].attempt = k /\ reviews'[a][k].told = k - 1
            /\ ~ reviews'[a][k].pass
      BY <3>3, <2>7, <2>8
    <3>7. phase'[a] # "done" /\ attempt'[a] \in 1 .. MaxAttempts(a)
      BY <3>1, <3>4
    <3>8. Len(reviews'[a]) = IF phase'[a] = "done" THEN attempt'[a] ELSE attempt'[a] - 1
      BY <3>5, <3>7
    <3> HIDE DEF n
    <3> QED BY <3>5, <3>6, <3>7, <3>8, <1>1, Zenon DEF Reviewed
  <2> QED BY <2>10, <2>11
<1> QED
  BY Actors, <1>5, <1>6, <1>7, <1>8, <1>9, <1>10, <1>11
     DEF NodeStep, Step, SearchFails, PlanFails, WriteFails, ReviewFails

-------------------------------------------------------------------------------
(* The first items of every URL.                                           *)

LEMMA FirstAtAppend ==
  ASSUME NEW H \in Seq(Result), NEW x \in Result
  PROVE  FirstAt(Append(H, x)) =
           FirstAt(H) \cup (IF x.url \in {Blank} \cup UrlsOf(H) THEN {} ELSE {Len(H) + 1})
<1> DEFINE G == Append(H, x)
<1> DEFINE n == Len(H)
<1>1. /\ n \in Nat /\ DOMAIN H = 1 .. n /\ DOMAIN G = 1 .. (n + 1)
      /\ G[n + 1] = x /\ \A i \in 1 .. n : G[i] = H[i]
  OBVIOUS
<1>2. FirstAt(G) = {i \in 1 .. (n + 1) :
                      G[i].url # Blank /\ \A j \in 1 .. (i - 1) : G[j].url # G[i].url}
  BY <1>1 DEF FirstAt
<1>3. FirstAt(H) = {i \in 1 .. n :
                      H[i].url # Blank /\ \A j \in 1 .. (i - 1) : H[j].url # H[i].url}
  BY <1>1 DEF FirstAt
<1>4. UrlsOf(H) = {H[i].url : i \in 1 .. n}
  BY <1>1 DEF UrlsOf
<1> HIDE DEF G, n
<1>5. \A i \in 1 .. n : i \in FirstAt(G) <=> i \in FirstAt(H)
  <2> SUFFICES ASSUME NEW i \in 1 .. n PROVE i \in FirstAt(G) <=> i \in FirstAt(H)
    OBVIOUS
  <2>1. i \in 1 .. (n + 1) /\ \A j \in 1 .. (i - 1) : j \in 1 .. n
    BY <1>1
  <2>2. G[i] = H[i] /\ \A j \in 1 .. (i - 1) : G[j] = H[j]
    BY <1>1, <2>1
  <2> QED BY <1>2, <1>3, <2>1, <2>2
<1>6. n + 1 \in FirstAt(G) <=> x.url \notin {Blank} \cup UrlsOf(H)
  <2>1. n + 1 \in 1 .. (n + 1) /\ 1 .. ((n + 1) - 1) = 1 .. n
    BY <1>1
  <2>2. n + 1 \in FirstAt(G) <=> x.url # Blank /\ \A j \in 1 .. n : H[j].url # x.url
    BY <1>1, <1>2, <2>1
  <2> QED BY <2>2, <1>4
<1>7. FirstAt(G) \subseteq 1 .. (n + 1) /\ FirstAt(H) \subseteq 1 .. n
  BY <1>2, <1>3
<1>8. \A i \in 1 .. (n + 1) : i = n + 1 \/ i \in 1 .. n
  BY <1>1
<1> QED BY <1>5, <1>6, <1>7, <1>8 DEF G, n

(* The list has the URLs of the items.                                     *)
LEMMA FirstsUrls ==
  ASSUME NEW list \in Seq(Result), NEW H \in Seq(Result), Firsts(list, H)
  PROVE  UrlsOf(list) = UrlsOf(H) \ {Blank}
<1>1. PICK at \in [DOMAIN list -> FirstAt(H)] :
        /\ FirstAt(H) = Range(at)
        /\ \A k \in DOMAIN list : list[k] = H[at[k]]
  BY DEF Firsts
<1>2. \A k \in DOMAIN list : list[k].url \in UrlsOf(H) \ {Blank}
  BY <1>1 DEF FirstAt, UrlsOf
<1>3. ASSUME NEW i \in DOMAIN H, H[i].url # Blank PROVE H[i].url \in UrlsOf(list)
  <2> DEFINE T == {j \in DOMAIN H : H[j].url = H[i].url}
  <2>1. T \in SUBSET Nat /\ T # {}
    OBVIOUS
  <2>2. PICK n \in T : \A m \in T : n <= m
    <3> HIDE DEF T
    <3> QED BY <2>1, NatLeast
  <2>3. n \in FirstAt(H)
    <3>1. \A j \in 1 .. (n - 1) : j \in DOMAIN H /\ ~ (n <= j)
      BY <2>2
    <3>2. \A j \in 1 .. (n - 1) : H[j].url # H[i].url
      BY <2>2, <3>1
    <3> QED BY <2>2, <3>2, <1>3 DEF FirstAt
  <2>4. PICK k \in DOMAIN list : at[k] = n
    BY <1>1, <2>3 DEF Range
  <2>5. list[k].url = H[i].url
    BY <1>1, <2>2, <2>4
  <2> QED BY <2>5 DEF UrlsOf
<1> QED BY <1>2, <1>3 DEF UrlsOf

LEMMA FirstsNote ==
  ASSUME NEW list \in Seq(Result), NEW H \in Seq(Result), NEW x \in Result, Firsts(list, H)
  PROVE  Firsts(Note(list, x), Append(H, x))
<1> DEFINE G == Append(H, x)
<1>1. PICK at \in [DOMAIN list -> FirstAt(H)] :
        /\ \A i, j \in DOMAIN list : i < j => at[i] < at[j]
        /\ FirstAt(H) = Range(at)
        /\ \A k \in DOMAIN list : list[k] = H[at[k]]
  BY DEF Firsts
<1>2. UrlsOf(list) = UrlsOf(H) \ {Blank}
  BY FirstsUrls
<1>3. FirstAt(H) \subseteq DOMAIN H /\ \A i \in DOMAIN H : G[i] = H[i]
  BY DEF FirstAt
<1>4. CASE x.url \in {Blank} \cup UrlsOf(list)
  <2>1. Note(list, x) = list /\ FirstAt(G) = FirstAt(H)
    BY <1>2, <1>4, FirstAtAppend DEF Note
  <2>2. \A k \in DOMAIN list : list[k] = G[at[k]]
    BY <1>1, <1>3
  <2> HIDE DEF G
  <2>3. Firsts(list, G)
    BY <1>1, <2>1, <2>2 DEF Firsts
  <2> QED BY <2>1, <2>3 DEF G
<1>5. CASE x.url \notin {Blank} \cup UrlsOf(list)
  <2> DEFINE m == Len(list) + 1
  <2> DEFINE l == Append(list, x)
  <2> DEFINE n == Len(H) + 1
  <2>1. Note(list, x) = l /\ FirstAt(G) = FirstAt(H) \cup {n}
    BY <1>2, <1>5, FirstAtAppend DEF Note
  <2>2. /\ m \in Nat /\ DOMAIN l = 1 .. m /\ DOMAIN list = 1 .. (m - 1)
        /\ l[m] = x /\ \A k \in 1 .. (m - 1) : l[k] = list[k]
    OBVIOUS
  <2>3. n \in Nat /\ G[n] = x /\ \A i \in DOMAIN H : i < n /\ i \in Nat
    OBVIOUS
  <2> DEFINE et == [k \in 1 .. m |-> IF k = m THEN n ELSE at[k]]
  <2> HIDE DEF G, l, n, m
  <2>4. \A k \in 1 .. m : k = m \/ k \in 1 .. (m - 1)
    BY <2>2
  <2>5. m \in 1 .. m /\ (\A k \in 1 .. (m - 1) : k \in 1 .. m /\ k # m)
    <3>1. m > 0
      BY DEF m
    <3> QED BY <2>2, <3>1
  <2>6. \A k \in 1 .. (m - 1) : at[k] \in FirstAt(H) /\ at[k] \in DOMAIN H /\ et[k] = at[k]
    BY <1>1, <1>3, <2>2, <2>5
  <2>7. et[m] = n
    BY <2>5
  <2>8. et \in [DOMAIN l -> FirstAt(G)]
    BY <2>1, <2>2, <2>4, <2>6
  <2>9. ASSUME NEW i \in 1 .. m, NEW j \in 1 .. m, i < j PROVE et[i] < et[j]
    <3>1. i \in 1 .. (m - 1)
      BY <2>2, <2>9
    <3>2. CASE j = m
      BY <3>1, <3>2, <2>3, <2>6, <2>7
    <3>3. CASE j \in 1 .. (m - 1)
      BY <3>1, <3>3, <2>2, <2>6, <2>9, <1>1
    <3> QED BY <3>2, <3>3, <2>4
  <2>10. FirstAt(G) = Range(et)
    <3>1. Range(at) = {at[k] : k \in 1 .. (m - 1)}
      BY <1>1, <2>2 DEF Range
    <3>2. Range(et) = {et[k] : k \in 1 .. m}
      BY DEF Range
    <3> HIDE DEF et
    <3>3. Range(et) = {at[k] : k \in 1 .. (m - 1)} \cup {n}
      BY <3>2, <2>4, <2>5, <2>6, <2>7
    <3> QED BY <1>1, <2>1, <3>1, <3>3
  <2>11. \A k \in 1 .. m : l[k] = G[et[k]]
    <3> SUFFICES ASSUME NEW k \in 1 .. m PROVE l[k] = G[et[k]]
      OBVIOUS
    <3>1. CASE k = m
      BY <3>1, <2>2, <2>3, <2>7
    <3>2. CASE k \in 1 .. (m - 1)
      <4>1. l[k] = list[k] /\ list[k] = H[at[k]] /\ et[k] = at[k] /\ at[k] \in DOMAIN H
        BY <3>2, <2>2, <2>6, <1>1
      <4>2. G[at[k]] = H[at[k]]
        BY <4>1, <1>3
      <4> QED BY <4>1, <4>2
    <3> QED BY <3>1, <3>2, <2>4
  <2> HIDE DEF et
  <2>12. Firsts(l, G)
    BY <2>2, <2>8, <2>9, <2>10, <2>11 DEF Firsts
  <2> QED BY <2>1, <2>12 DEF G
<1> QED BY <1>4, <1>5

LEMMA FirstsDedup ==
  ASSUME NEW list \in Seq(Result), NEW H \in Seq(Result), NEW items \in Seq(Result),
         Firsts(list, H)
  PROVE  Firsts(DedupAppend(list, items), H \o items)
<1> DEFINE n == Len(items)
<1>1. PICK h \in [0 .. n -> Seq(Result)] :
        /\ h[0] = list
        /\ \A k \in 1 .. n : h[k] = Note(h[k - 1], items[k])
        /\ DedupAppend(list, items) = h[n]
  BY DedupFold
<1> DEFINE upTo(k) == H \o SubSeq(items, 1, k)
<1> DEFINE S == {k \in 0 .. n : Firsts(h[k], upTo(k))}
<1>2. n \in Nat
  OBVIOUS
<1>3. 0 \in S
  <2>1. upTo(0) = H
    <3>1. SubSeq(items, 1, 0) = <<>>
      OBVIOUS
    <3> QED BY <3>1
  <2> HIDE DEF upTo
  <2> QED BY <1>1, <1>2, <2>1
<1>4. ASSUME NEW k \in 1 .. n, k - 1 \in S PROVE k \in S
  <2>1. k - 1 \in 0 .. n /\ items[k] \in Result
    BY <1>2
  <2>2. /\ upTo(k - 1) \in Seq(Result)
        /\ upTo(k) = Append(upTo(k - 1), items[k])
    <3>1. SubSeq(items, 1, k - 1) \in Seq(Result)
      BY <2>1
    <3>2. SubSeq(items, 1, k) = Append(SubSeq(items, 1, k - 1), items[k])
      BY <2>1
    <3>3. H \o Append(SubSeq(items, 1, k - 1), items[k])
            = Append(H \o SubSeq(items, 1, k - 1), items[k])
      BY <3>1, <2>1
    <3> QED BY <3>1, <3>2, <3>3
  <2>3. Firsts(h[k - 1], upTo(k - 1)) /\ h[k - 1] \in Seq(Result)
    BY <1>1, <1>4, <2>1
  <2> HIDE DEF upTo
  <2>4. Firsts(Note(h[k - 1], items[k]), Append(upTo(k - 1), items[k]))
    BY <2>1, <2>2, <2>3, FirstsNote
  <2>5. h[k] = Note(h[k - 1], items[k])
    BY <1>1, Zenon
  <2>6. Firsts(h[k], upTo(k))
    BY <2>2, <2>4, <2>5, Zenon
  <2> QED BY <2>6
<1>5. n \in S
  <2> HIDE DEF S, n
  <2>1. 0 .. n \subseteq S
    BY <1>2, <1>3, <1>4, SegmentInduction
  <2> QED BY <2>1, <1>2
<1>6. upTo(n) = H \o items
  <2>1. SubSeq(items, 1, n) = items
    OBVIOUS
  <2> QED BY <2>1
<1> HIDE DEF upTo
<1> QED BY <1>1, <1>5, <1>6

-------------------------------------------------------------------------------
(* The citations.                                                          *)

(* One list more.                                                          *)
LEMMA FlattenAppend ==
  ASSUME NEW S, NEW lists \in Seq(Seq(S)), NEW list \in Seq(S)
  PROVE  /\ FlattenSeq(lists) \in Seq(S)
         /\ FlattenSeq(Append(lists, list)) = FlattenSeq(lists) \o list
<1> DEFINE n == Len(lists)
<1> DEFINE V == Seq(S)
<1> DEFINE more == Append(lists, list)
<1>1. PICK h \in [0 .. n -> V] :
        /\ h[0] = <<>>
        /\ \A k \in 1 .. n : h[k] = h[k - 1] \o lists[k]
        /\ FlattenSeq(lists) = h[n]
  BY FlattenFold
<1>2. more \in Seq(V) /\ Len(more) = n + 1 /\ n \in Nat
  OBVIOUS
<1>3. PICK g \in [0 .. n + 1 -> V] :
        /\ g[0] = <<>>
        /\ \A k \in 1 .. n + 1 : g[k] = g[k - 1] \o more[k]
        /\ FlattenSeq(more) = g[n + 1]
  <2> HIDE DEF more, n
  <2>1. \E g \in [0 .. Len(more) -> Seq(S)] :
          /\ g[0] = <<>>
          /\ \A k \in 1 .. Len(more) : g[k] = g[k - 1] \o more[k]
          /\ FlattenSeq(more) = g[Len(more)]
    BY <1>2, FlattenFold
  <2> QED BY <2>1, <1>2
<1>4. more[n + 1] = list /\ \A k \in 1 .. n : more[k] = lists[k]
  OBVIOUS
<1> DEFINE T == {k \in 0 .. n : g[k] = h[k]}
<1> HIDE DEF more, n, V
<1>5. 0 \in T
  BY <1>1, <1>2, <1>3
<1>6. ASSUME NEW k \in 1 .. n, k - 1 \in T PROVE k \in T
  <2>1. k \in 1 .. n + 1 /\ k \in 0 .. n
    BY <1>2
  <2>2. g[k] = g[k - 1] \o more[k]
    BY <1>3, <2>1, Zenon
  <2>3. h[k] = h[k - 1] \o lists[k]
    BY <1>1, Zenon
  <2>4. g[k - 1] = h[k - 1] /\ more[k] = lists[k]
    BY <1>4, <1>6
  <2>5. g[k] = h[k]
    BY <2>2, <2>3, <2>4, Zenon
  <2> QED BY <2>1, <2>5
<1>7. n \in T
  <2> HIDE DEF T
  <2>1. 0 .. n \subseteq T
    BY <1>2, <1>5, <1>6, SegmentInduction
  <2> QED BY <2>1, <1>2
<1>8. g[n + 1] = g[n] \o list
  <2>1. n + 1 \in 1 .. n + 1 /\ (n + 1) - 1 = n
    BY <1>2
  <2>2. g[n + 1] = g[(n + 1) - 1] \o more[n + 1]
    BY <1>3, <2>1, Zenon
  <2> QED BY <2>1, <2>2, <1>4
<1>9. h[n] \in V
  BY <1>1, <1>2
<1> QED BY <1>1, <1>3, <1>7, <1>8, <1>9 DEF more, V

LEMMA FlattenNothing == FlattenSeq(<<>>) = <<>>
BY DEF FlattenSeq

(* What an agent has heard, before and after an answer.                    *)
LEMMA HeardFacts ==
  ASSUME TypeOK, TypeOK', NEW a \in Agent, queries[a] # <<>>,
         NEW items \in Answer, Merge(a, items)
  PROVE  Heard(a) \in Seq(Result) /\ Heard(a)' = Heard(a) \o items
<1> DEFINE entry == [query |-> Head(queries[a]), items |-> items]
<1> DEFINE lists == [i \in DOMAIN taken[a] |-> taken[a][i].items]
<1> DEFINE T == [query : Query, items : Answer]
<1>1. taken'[a] = Append(taken[a], entry)
  BY MergeFacts
<1>2. taken[a] \in Seq(T) /\ entry \in T
  <2>1. taken \in [Agent -> Seq(T)] /\ Head(queries[a]) \in Query
    BY MergeFacts DEF TypeOK
  <2>2. entry \in T
    BY <2>1
  <2> HIDE DEF T, entry
  <2> QED BY <2>1, <2>2
<1>3. items \in Seq(Result) /\ Answer \subseteq Seq(Result)
  BY ResearchAssumption
<1>4. \A i \in DOMAIN taken[a] : taken[a][i].items \in Answer
  <2>1. \A e \in T : e.items \in Answer
    OBVIOUS
  <2> HIDE DEF T
  <2> QED BY <1>2, <2>1
<1>5. lists \in Seq(Seq(Result))
  <2>1. DOMAIN taken[a] = 1 .. Len(taken[a]) /\ Len(taken[a]) \in Nat
    BY <1>2
  <2>2. \A i \in 1 .. Len(taken[a]) : lists[i] \in Seq(Result)
    BY <1>3, <1>4, <2>1
  <2>3. lists \in [1 .. Len(taken[a]) -> Seq(Result)]
    BY <2>1, <2>2
  <2> HIDE DEF lists
  <2> QED BY <2>1, <2>3, SeqDef
<1>6. [i \in DOMAIN taken'[a] |-> taken'[a][i].items] = Append(lists, items)
  <2>1. entry.items = items
    OBVIOUS
  <2> HIDE DEF entry, T
  <2>2. /\ DOMAIN taken[a] = 1 .. Len(taken[a]) /\ Len(taken[a]) \in Nat
        /\ DOMAIN taken'[a] = 1 .. (Len(taken[a]) + 1)
        /\ taken'[a][Len(taken[a]) + 1] = entry
        /\ \A i \in 1 .. Len(taken[a]) : taken'[a][i] = taken[a][i]
    BY <1>1, <1>2
  <2>3. Len(lists) = Len(taken[a])
    BY <1>5, <2>2
  <2> QED BY <2>1, <2>2, <2>3, <1>5
<1>7. Heard(a) = FlattenSeq(lists) /\ Heard(a)' = FlattenSeq(Append(lists, items))
  BY <1>6 DEF Heard
<1> HIDE DEF lists
<1> QED BY <1>3, <1>5, <1>7, FlattenAppend

(* What an agent has heard depends on what it has taken only.              *)
LEMMA HeardStays ==
  ASSUME NEW a \in Agent, taken'[a] = taken[a]
  PROVE  Heard(a)' = Heard(a)
BY DEF Heard

LEMMA FirstsNothing == Firsts(<<>>, <<>>)
<1>1. FirstAt(<<>>) = {} /\ DOMAIN <<>> = {}
  BY DEF FirstAt
<1> DEFINE at == [k \in {} |-> k]
<1>2. at \in [DOMAIN <<>> -> FirstAt(<<>>)] /\ Range(at) = {}
  BY <1>1 DEF Range
<1> HIDE DEF at
<1> QED BY <1>1, <1>2 DEF Firsts

LEMMA FirstSeenStep ==
  ASSUME TypeOK, Sourced, \A a \in Agent : Searched(a), [NodeNext]_nodeVars, TypeOK',
         FirstSeen
  PROVE  FirstSeen'
<1> SUFFICES ASSUME NEW a \in Agent PROVE Firsts(ordered'[a], Heard(a)')
  BY DEF FirstSeen, Firsts
<1>1. Firsts(ordered[a], Heard(a))
  BY DEF FirstSeen
<1>2. ASSUME NEW items \in Answer, Merge(a, items), queries[a] # <<>>
      PROVE  Firsts(ordered'[a], Heard(a)')
  <2>1. Heard(a) \in Seq(Result) /\ Heard(a)' = Heard(a) \o items
    BY <1>2, HeardFacts
  <2>2. ordered'[a] = DedupAppend(ordered[a], items)
    BY <1>2, MergeFacts
  <2>3. ordered[a] \in Seq(Result) /\ items \in Seq(Result)
    BY ResearchAssumption DEF TypeOK
  <2>4. Firsts(DedupAppend(ordered[a], items), Heard(a) \o items)
    BY <1>1, <2>1, <2>3, FirstsDedup
  <2> QED BY <2>1, <2>2, <2>4
<1>3. CASE taken'[a] = taken[a] /\ ordered'[a] = ordered[a]
  BY <1>1, <1>3, HeardStays
<1>4. CASE Same(a)
  BY <1>3, <1>4 DEF Same
<1>5. CASE Hit(a)
  BY <1>2, <1>5, HitFacts
<1>6. CASE Store(a)
  BY <1>2, <1>6, StoreFacts
<1>7. CASE \/ Miss(a) \/ Ask(a) \/ Plan(a) \/ Write(a) \/ Review(a)
           \/ \E call : FailsIn(a, call)
  BY <1>3, <1>7 DEF Miss, Ask, Plan, Write, Review, FailsIn
<1>8. CASE Retry(a)
  <2>1. taken'[a] = <<>> /\ ordered'[a] = <<>>
    BY <1>8 DEF Retry, TypeOK
  <2>2. Heard(a)' = FlattenSeq([i \in DOMAIN taken'[a] |-> taken'[a][i].items])
    BY DEF Heard
  <2>3. [i \in DOMAIN taken'[a] |-> taken'[a][i].items] = <<>>
    BY <2>1
  <2> QED BY <2>1, <2>2, <2>3, FlattenNothing, FirstsNothing
<1> QED
  BY Actors, <1>4, <1>5, <1>6, <1>7, <1>8
     DEF NodeStep, Step, SearchFails, PlanFails, WriteFails, ReviewFails

-------------------------------------------------------------------------------
(* The invariant, and what follows from it.                                *)

LEMMA InitialState == NodeInit => IInv
<1> SUFFICES ASSUME NodeInit PROVE IInv
  OBVIOUS
<1> USE DEF NodeInit, Init
<1>1. \A a \in Agent : <<Question[a]>> \in Seq(Query)
  <2>1. \A a \in Agent : Question[a] \in Query
    BY ResearchAssumption
  <2> QED BY <2>1
<1>2. TypeOK
  <2>1. phase \in [Agent -> Phase] /\ queries \in [Agent -> Seq(Query)]
    BY <1>1 DEF Phase
  <2>2. /\ round \in [Agent -> Nat] /\ attempt \in [Agent -> Nat] /\ feedback \in [Agent -> Nat]
        /\ opts \in [Agent -> Settings]
    OBVIOUS
  <2>3. ordered \in [Agent -> Seq(Result)] /\ fetched \in [Agent -> Answer \cup {<<>>}]
    OBVIOUS
  <2>4. taken \in [Agent -> Seq([query : Query, items : Answer])]
    OBVIOUS
  <2>5. reviews \in [Agent -> Seq([attempt : Nat, score : 1 .. 10, pass : BOOLEAN, told : Nat])]
    OBVIOUS
  <2>6. /\ cache \in [Keys -> {<<>>} \cup {<<answer>> : answer \in Answer}]
        /\ provided \in [Sources -> SUBSET Answer]
    OBVIOUS
  <2> QED BY <2>1, <2>2, <2>3, <2>4, <2>5, <2>6 DEF TypeOK
<1>3. Sourced
  <2>1. Range(<<>>) = {}
    BY DEF Range
  <2>2. \A k \in Keys : Range(cache[k]) \subseteq provided[k]
    BY <2>1
  <2>3. \A a \in Agent : phase[a] # "store" /\ DOMAIN taken[a] = {}
    OBVIOUS
  <2> QED BY <2>2, <2>3 DEF Sourced
<1>4. ASSUME NEW a \in Agent PROVE Searched(a) /\ Afforded(a) /\ Reviewed(a)
  <2>1. opts[a].rounds \in Nat \ {0} /\ opts[a].followUps \in Int /\ opts[a].retries \in Nat
    <3>1. opts[a] \in Settings
      OBVIOUS
    <3> QED BY <3>1, SettingsFacts
  <2>2. Searched(a)
    <3>1. /\ round[a] = 1 /\ phase[a] = "lookup" /\ queries[a] = <<Question[a]>>
          /\ taken[a] = <<>>
      OBVIOUS
    <3>2. Len(taken[a]) = 0 /\ Len(queries[a]) = 1 /\ queries[a] # <<>>
      BY <3>1
    <3>3. (1 - 1) * opts[a].followUps = 0
      <4>1. \A f \in Int : (1 - 1) * f = 0
        OBVIOUS
      <4> QED BY <4>1, <2>1, Zenon
    <3> HIDE DEF Init, NodeInit
    <3> QED BY <2>1, <3>1, <3>2, <3>3 DEF Searched, Searching
  <2>3. Reviewed(a)
    <3>1. /\ attempt[a] = 1 /\ feedback[a] = 0 /\ phase[a] = "lookup" /\ reviews[a] = <<>>
      OBVIOUS
    <3>2. Len(reviews[a]) = 0 /\ DOMAIN reviews[a] = {}
      BY <3>1
    <3> HIDE DEF Init, NodeInit
    <3> QED BY <2>1, <3>1, <3>2 DEF Reviewed, MaxAttempts
  <2>4. Afforded(a)
    <3>1. left[a] = MaxRetry[a] /\ earlier[a] = 0 /\ MaxRetry[a] \in Nat
      BY MaxRetryAssumption
    <3>2. CallBudget(a) \in Int
      <4>1. \A m, f \in Int : 1 + (m - 1) * f \in Int
        OBVIOUS
      <4>2. opts[a].rounds \in Int /\ opts[a].followUps \in Int
        BY <2>1
      <4> QED BY <4>1, <4>2, Zenon DEF CallBudget
    <3> HIDE DEF Init, NodeInit
    <3>3. MaxRetry[a] - left[a] = 0 /\ 0 * CallBudget(a) = 0
      BY <3>1, <3>2
    <3> QED BY <3>1, <3>3 DEF Afforded
  <2> QED BY <2>2, <2>3, <2>4
<1>6. left \in [Agent -> Nat] /\ earlier \in [Agent -> Nat]
  BY MaxRetryAssumption
<1>5. ASSUME NEW a \in Agent PROVE Firsts(ordered[a], Heard(a))
  <2>1. ordered[a] = <<>> /\ [i \in DOMAIN taken[a] |-> taken[a][i].items] = <<>>
    OBVIOUS
  <2> QED BY <2>1, FlattenNothing, FirstsNothing DEF Heard
<1> QED BY <1>2, <1>3, <1>4, <1>5, <1>6 DEF IInv, FirstSeen

LEMMA Inductive == IInv /\ [NodeNext]_nodeVars => IInv'
<1> SUFFICES ASSUME IInv, [NodeNext]_nodeVars PROVE IInv'
  OBVIOUS
<1>1. /\ TypeOK /\ Sourced /\ FirstSeen
      /\ left \in [Agent -> Nat] /\ earlier \in [Agent -> Nat]
      /\ \A a \in Agent : Searched(a) /\ Afforded(a) /\ Reviewed(a)
  BY DEF IInv
<1>2. TypeOK'
  BY <1>1, TypeStep
<1>3. Sourced'
  BY <1>1, <1>2, SourcedStep
<1>4. \A a \in Agent : Searched(a)'
  BY <1>1, <1>2, SearchedStep
<1>5. \A a \in Agent : Reviewed(a)'
  BY <1>1, ReviewedStep
<1>6. FirstSeen'
  BY <1>1, <1>2, FirstSeenStep
<1>7. /\ left' \in [Agent -> Nat] /\ earlier' \in [Agent -> Nat]
      /\ \A a \in Agent : Afforded(a)'
  BY <1>1, AffordedStep
<1> QED BY <1>2, <1>3, <1>4, <1>5, <1>6, <1>7 DEF IInv

THEOREM Invariance == NodeSpec => []IInv
BY InitialState, Inductive, PTL DEF NodeSpec

(* Every variable keeps its type, whatever Redis, the provider, the model  *)
(* and the critic answer.                                                  *)
THEOREM TypeCorrect == NodeSpec => []TypeOK
<1>1. IInv => TypeOK
  BY DEF IInv
<1> QED BY Invariance, <1>1, PTL

(* The merge of collectSearchResults: the citations are the first items of *)
(* every URL an agent has heard of, in that order.                         *)
THEOREM FirstSeenHolds == NodeSpec => []FirstSeen
<1>1. IInv => FirstSeen
  BY DEF IInv
<1> QED BY Invariance, <1>1, PTL

(* What buildKey keeps apart: an agent works with answers of its own       *)
(* provider to that very query only, fetched or from the shared cache.     *)
THEOREM OwnProviderHolds == NodeSpec => []OwnProvider
<1>1. IInv => OwnProvider
  <2> SUFFICES ASSUME TypeOK, Sourced PROVE OwnProvider
    BY DEF IInv
  <2>1. ASSUME NEW a \in Agent, NEW q \in Query
        PROVE  Range(cache[Key(a, q)]) \subseteq provided[<<opts[a].provider, q>>]
    <3>1. Key(a, q) = <<opts[a].provider, q>> /\ Key(a, q) \in Keys
      BY KeyFacts DEF TypeOK
    <3> QED BY <3>1 DEF Sourced
  <2> QED BY <2>1 DEF OwnProvider, Sourced
<1> QED BY Invariance, <1>1, PTL

(* What a sub-question may cost over all calls of its node, for any number *)
(* of retries and all options that New can make of an environment.         *)
THEOREM SearchBudgetHolds == NodeSpec => []SearchBudget
<1>1. IInv => SearchBudget
  <2> SUFFICES ASSUME TypeOK, NEW a \in Agent, Searched(a), Afforded(a),
                      left[a] \in Nat, earlier[a] \in Nat
               PROVE  /\ CallsMade(a) \in 1 .. MaxRetry[a] + 1
                      /\ earlier[a] + Begun(a) <= CallsMade(a) * CallBudget(a)
    BY DEF IInv, SearchBudget
  <2>1. Begun(a) \in Nat /\ CallBudget(a) \in Nat /\ Begun(a) <= CallBudget(a)
    BY CallAffords
  <2>2. MaxRetry[a] \in Nat /\ left[a] \in 0 .. MaxRetry[a]
    BY MaxRetryAssumption DEF Afforded
  <2> DEFINE k == MaxRetry[a] - left[a]
  <2> DEFINE budget == CallBudget(a)
  <2>3. k \in 0 .. MaxRetry[a] /\ CallsMade(a) = 1 + k /\ earlier[a] <= k * budget
    <3>1. k \in 0 .. MaxRetry[a] /\ CallsMade(a) = 1 + k
      BY <2>2 DEF CallsMade
    <3>2. earlier[a] <= k * budget
      BY Zenon DEF Afforded
    <3> QED BY <3>1, <3>2
  <2>4. budget \in Nat /\ Begun(a) <= budget
    BY <2>1
  <2> HIDE DEF k, budget
  <2>5. (1 + k) * budget = k * budget + budget /\ k * budget \in Int
    <3>1. \A r, f \in Nat : (1 + r) * f = r * f + f /\ r * f \in Int
      OBVIOUS
    <3>2. k \in Nat
      BY <2>2, <2>3
    <3> QED BY <3>1, <3>2, <2>4, Zenon
  <2>6. earlier[a] + Begun(a) <= (1 + k) * budget
    BY <2>1, <2>3, <2>4, <2>5
  <2>7. CallsMade(a) * CallBudget(a) = (1 + k) * budget
    BY <2>3 DEF budget
  <2> QED BY <2>2, <2>3, <2>6, <2>7
<1> QED BY Invariance, <1>1, PTL

(* The loop of Research around Critic.Review, however the scores fall.     *)
THEOREM ReviewsDecideHolds == NodeSpec => []ReviewsDecide
<1>1. IInv => ReviewsDecide
  <2> SUFFICES ASSUME NEW a \in Agent, Reviewed(a), opts[a].critic
               PROVE  /\ \A k \in DOMAIN reviews[a] :
                           /\ reviews[a][k].attempt = k /\ reviews[a][k].told = k - 1
                           /\ k < Len(reviews[a]) => ~ reviews[a][k].pass
                      /\ phase[a] = "done" =>
                           /\ Len(reviews[a]) = attempt[a]
                           /\ (reviews[a][attempt[a]].pass \/ attempt[a] = MaxAttempts(a))
    BY DEF IInv, ReviewsDecide
  <2> QED BY DEF Reviewed
<1> QED BY Invariance, <1>1, PTL

-------------------------------------------------------------------------------
(* The references of the report.                                           *)

LEMMA FirstsDistinct ==
  ASSUME NEW list \in Seq(Result), NEW H \in Seq(Result), Firsts(list, H)
  PROVE  \A i, j \in DOMAIN list : i # j => list[i].url # list[j].url
<1>1. PICK at \in [DOMAIN list -> FirstAt(H)] :
        /\ \A i, j \in DOMAIN list : i < j => at[i] < at[j]
        /\ \A k \in DOMAIN list : list[k] = H[at[k]]
  BY DEF Firsts
<1>2. ASSUME NEW i \in DOMAIN list, NEW j \in DOMAIN list, i < j
      PROVE  list[i].url # list[j].url
  <2>1. at[i] \in FirstAt(H) /\ at[j] \in FirstAt(H) /\ at[i] < at[j]
    BY <1>1, <1>2
  <2>2. at[i] \in 1 .. (at[j] - 1)
    BY <2>1 DEF FirstAt
  <2> QED BY <1>1, <2>1, <2>2 DEF FirstAt
<1>3. \A i, j \in DOMAIN list : i # j => i < j \/ j < i
  OBVIOUS
<1> QED BY <1>2, <1>3

(* Every element of H is from one of the first k lists, and those of the   *)
(* lists before that one are before it.                                    *)
From(H, lists, k) ==
  \A p \in DOMAIN H : \E i \in 1 .. k :
    /\ H[p] \in Range(lists[i])
    /\ \A j \in 1 .. (i - 1) : \A x \in DOMAIN lists[j] :
         \E q \in 1 .. (p - 1) : H[q] = lists[j][x]

(* Every element of these lists is there.                                  *)
All(H, lists, k) ==
  \A j \in 1 .. k : \A x \in DOMAIN lists[j] : \E q \in DOMAIN H : H[q] = lists[j][x]

(* FlattenSeq puts them so.                                                *)
LEMMA FlattenPlaces ==
  ASSUME NEW S, NEW lists \in Seq(Seq(S)), NEW H, H = FlattenSeq(lists)
  PROVE  From(H, lists, Len(lists)) /\ All(H, lists, Len(lists))
<1> DEFINE n == Len(lists)
<1>1. PICK h \in [0 .. n -> Seq(S)] :
        /\ h[0] = <<>>
        /\ \A k \in 1 .. n : h[k] = h[k - 1] \o lists[k]
        /\ H = h[n]
  BY FlattenFold
<1> DEFINE T == {k \in 0 .. n : From(h[k], lists, k) /\ All(h[k], lists, k)}
<1>2. n \in Nat /\ DOMAIN lists = 1 .. n /\ \A k \in 1 .. n : lists[k] \in Seq(S)
  OBVIOUS
<1>3. 0 \in T
  <2>1. DOMAIN h[0] = {} /\ 1 .. 0 = {}
    BY <1>1
  <2> QED BY <1>2, <2>1 DEF From, All
<1>4. ASSUME NEW k \in 1 .. n, k - 1 \in T PROVE k \in T
  <2>1. k \in 0 .. n /\ k - 1 \in 0 .. n
    BY <1>2
  <2> DEFINE old == h[k - 1]
  <2> DEFINE new == h[k]
  <2> DEFINE m == Len(old)
  <2>2. old \in Seq(S) /\ lists[k] \in Seq(S) /\ new = old \o lists[k]
    BY <1>1, <1>2, <2>1
  <2>3. /\ m \in Nat /\ DOMAIN old = 1 .. m
        /\ \A p \in 1 .. m : p \in DOMAIN new /\ new[p] = old[p]
        /\ \A x \in DOMAIN lists[k] : m + x \in DOMAIN new /\ new[m + x] = lists[k][x]
        /\ \A p \in DOMAIN new : p \in 1 .. m
             \/ (p \in Nat /\ p > m /\ \E x \in DOMAIN lists[k] : p = m + x)
    <3> HIDE DEF new, old
    <3>1. /\ m \in Nat /\ DOMAIN old = 1 .. m /\ Len(lists[k]) \in Nat
          /\ DOMAIN lists[k] = 1 .. Len(lists[k])
          /\ DOMAIN new = 1 .. (m + Len(lists[k]))
          /\ \A p \in 1 .. (m + Len(lists[k])) :
               new[p] = IF p <= m THEN old[p] ELSE lists[k][p - m]
      BY <2>2
    <3> HIDE DEF m
    <3>2. \A x \in DOMAIN lists[k] : m + x \in DOMAIN new /\ new[m + x] = lists[k][x]
      BY <3>1
    <3>3. \A p \in 1 .. m : p \in DOMAIN new /\ new[p] = old[p]
      BY <3>1
    <3>4. ASSUME NEW p \in DOMAIN new, p \notin 1 .. m
          PROVE  p \in Nat /\ p > m /\ \E x \in DOMAIN lists[k] : p = m + x
      <4>1. p \in Nat /\ p > m /\ p - m \in DOMAIN lists[k] /\ p = m + (p - m)
        BY <3>1, <3>4
      <4> QED BY <4>1
    <3> QED BY <3>1, <3>2, <3>3, <3>4
  <2> DEFINE i0 == k - 1
  <2>4. From(old, lists, i0) /\ All(old, lists, i0)
    BY <1>4
  <2>7. i0 \in Nat /\ (\A i \in 1 .. i0 : i \in 1 .. k) /\ (\A j \in 1 .. k : j = k \/ j \in 1 .. i0)
    BY <1>2
  <2> HIDE DEF old, new, m, i0
  <2>8. ASSUME NEW p \in DOMAIN new
        PROVE  \E i \in 1 .. k :
                 /\ new[p] \in Range(lists[i])
                 /\ \A j \in 1 .. (i - 1) : \A x \in DOMAIN lists[j] :
                      \E q \in 1 .. (p - 1) : new[q] = lists[j][x]
    <3>1. CASE p \in 1 .. m
      <4>1. PICK i \in 1 .. i0 :
              /\ old[p] \in Range(lists[i])
              /\ \A j \in 1 .. (i - 1) : \A x \in DOMAIN lists[j] :
                   \E q \in 1 .. (p - 1) : old[q] = lists[j][x]
        <5>1. p \in DOMAIN old
          BY <2>3, <3>1
        <5> QED BY <2>4, <5>1, Zenon DEF From
      <4>2. \A q \in 1 .. (p - 1) : q \in 1 .. m
        BY <2>3, <3>1
      <4>3. \A q \in 1 .. (p - 1) : new[q] = old[q]
        BY <4>2, <2>3
      <4>4. i \in 1 .. k /\ new[p] = old[p]
        BY <2>3, <2>7, <3>1
      <4> QED BY <4>1, <4>3, <4>4
    <3>2. CASE p \notin 1 .. m
      <4>1. p \in Nat /\ p > m /\ \E x \in DOMAIN lists[k] : p = m + x
        BY <2>3, <3>2
      <4>2. PICK y \in DOMAIN lists[k] : p = m + y
        BY <4>1
      <4>3. new[p] \in Range(lists[k]) /\ k \in 1 .. k
        BY <4>2, <2>3, <1>2 DEF Range
      <4>4. ASSUME NEW j \in 1 .. (k - 1), NEW x \in DOMAIN lists[j]
            PROVE  \E q \in 1 .. (p - 1) : new[q] = lists[j][x]
        <5>1. PICK q \in 1 .. m : old[q] = lists[j][x]
          BY <2>3, <2>4, <4>4 DEF i0, All
        <5>2. q \in 1 .. (p - 1) /\ new[q] = old[q]
          BY <4>1, <2>3
        <5> QED BY <5>1, <5>2
      <4> QED BY <4>3, <4>4
    <3> QED BY <3>1, <3>2
  <2>9. ASSUME NEW j \in 1 .. k, NEW x \in DOMAIN lists[j]
        PROVE  \E q \in DOMAIN new : new[q] = lists[j][x]
    <3>1. CASE j = k
      BY <3>1, <2>3
    <3>2. CASE j \in 1 .. i0
      <4>1. PICK q \in 1 .. m : old[q] = lists[j][x]
        BY <3>2, <2>3, <2>4 DEF All
      <4> QED BY <4>1, <2>3
    <3> QED BY <3>1, <3>2, <2>7
  <2>10. From(new, lists, k) /\ All(new, lists, k)
    BY <2>8, <2>9 DEF From, All
  <2> QED BY <2>1, <2>10 DEF new
<1>5. n \in T
  <2> HIDE DEF T, n
  <2>1. 0 .. n \subseteq T
    BY <1>2, <1>3, <1>4, SegmentInduction
  <2> QED BY <2>1, <1>2
<1> HIDE DEF n
<1>6. From(h[n], lists, n) /\ All(h[n], lists, n)
  BY <1>5
<1> QED BY <1>1, <1>6 DEF n

(* An order of the agents has every one of them.                           *)
LEMMA PlanFacts ==
  ASSUME NEW plan \in SetToSeqs(Agent)
  PROVE  /\ DOMAIN plan = 1 .. Cardinality(Agent) /\ Cardinality(Agent) \in Nat
         /\ plan \in Seq(Agent)
         /\ \A a \in Agent : \E i \in DOMAIN plan : plan[i] = a
<1> DEFINE n == Cardinality(Agent)
<1>1. n \in Nat
  BY ResearchAssumption, FS_CardinalityType
<1>2. plan \in [1 .. n -> Agent] /\ \A i, j \in 1 .. n : i # j => plan[i] # plan[j]
  BY DEF SetToSeqs
<1>3. plan \in Injection(1 .. n, Agent)
  BY <1>2 DEF Injection, IsInjective
<1>4. IsFiniteSet(1 .. n) /\ Cardinality(1 .. n) = n
  <2>1. 1 \in Int /\ n \in Int /\ (n - 1) + 1 = n /\ (1 > n => n = 0)
    BY <1>1
  <2> HIDE DEF n
  <2> QED BY <2>1, FS_Interval
<1>5. plan \in Surjection(1 .. n, Agent)
  BY <1>3, <1>4, ResearchAssumption, FS_Injection
<1>6. \A a \in Agent : \E i \in 1 .. n : plan[i] = a
  BY <1>5 DEF Surjection
<1> HIDE DEF n
<1> QED BY <1>1, <1>2, <1>6, SeqDef DEF n

(* The writer's table of references, after all retries of all nodes: every *)
(* source once, under the title of the researcher who cited it first.      *)
THEOREM EverySourceOnceHolds == NodeSpec => []EverySourceOnce
<1>1. IInv => EverySourceOnce
  <2> SUFFICES ASSUME TypeOK, FirstSeen, NEW plan \in SetToSeqs(Agent),
                      NEW cited, cited = [i \in DOMAIN plan |-> ordered[plan[i]]],
                      NEW refs, refs = References(cited)
               PROVE  /\ IsInjective([k \in DOMAIN refs |-> refs[k].url])
                      /\ UrlsOf(refs) = UNION {UrlsOf(ordered[a]) : a \in Agent}
                      /\ \A k \in DOMAIN refs : \E i \in DOMAIN plan :
                           /\ refs[k] \in Range(cited[i])
                           /\ \A j \in 1 .. (i - 1) : refs[k].url \notin UrlsOf(cited[j])
    BY DEF IInv, EverySourceOnce
  <2> DEFINE H == FlattenSeq(cited)
  <2> DEFINE n == Cardinality(Agent)
  <2>1. /\ DOMAIN plan = 1 .. n /\ n \in Nat
        /\ \A i \in 1 .. n : plan[i] \in Agent
        /\ \A a \in Agent : \E i \in 1 .. n : plan[i] = a
    BY PlanFacts
  <2>2. cited \in [1 .. n -> Seq(Result)] /\ \A i \in 1 .. n : cited[i] = ordered[plan[i]]
    BY <2>1 DEF TypeOK
  <2>3. cited \in Seq(Seq(Result)) /\ Len(cited) = n
    <3>1. cited \in Seq(Seq(Result))
      BY <2>1, <2>2, SeqDef
    <3> QED BY <3>1, <2>1, <2>2
  <2>4. H \in Seq(Result)
    <3>1. <<>> \in Seq(Result)
      OBVIOUS
    <3> QED BY <2>3, <3>1, FlattenAppend
  <2>5. From(H, cited, n) /\ All(H, cited, n)
    BY <2>3, FlattenPlaces
  <2> HIDE DEF H, n
  <2>6. refs \in Seq(Result) /\ Firsts(refs, H)
    <3>1. refs = DedupAppend(<<>>, H)
      BY DEF References, H
    <3>2. <<>> \in Seq(Result) /\ <<>> \o H = H
      BY <2>4
    <3>3. Firsts(DedupAppend(<<>>, H), <<>> \o H)
      BY <2>4, <3>2, FirstsNothing, FirstsDedup
    <3> QED BY <2>4, <3>1, <3>2, <3>3, DedupType
  <2>7. IsInjective([k \in DOMAIN refs |-> refs[k].url])
    BY <2>4, <2>6, FirstsDistinct DEF IsInjective
  <2>8. UrlsOf(refs) = UrlsOf(H) \ {Blank}
    BY <2>4, <2>6, FirstsUrls
  <2>9. \A a \in Agent : Blank \notin UrlsOf(ordered[a])
    <3> SUFFICES ASSUME NEW a \in Agent PROVE Blank \notin UrlsOf(ordered[a])
      OBVIOUS
    <3>1. PICK at \in [DOMAIN ordered[a] -> FirstAt(Heard(a))] :
            \A k \in DOMAIN ordered[a] : ordered[a][k] = Heard(a)[at[k]]
      BY DEF FirstSeen, Firsts
    <3> QED BY <3>1 DEF FirstAt, UrlsOf
  <2>10. \A u \in UrlsOf(H) : \E i \in 1 .. n : u \in UrlsOf(cited[i])
    <3> SUFFICES ASSUME NEW p \in DOMAIN H PROVE \E i \in 1 .. n : H[p].url \in UrlsOf(cited[i])
      BY DEF UrlsOf
    <3>1. PICK i \in 1 .. n : H[p] \in Range(cited[i])
      BY <2>5, Zenon DEF From
    <3> QED BY <3>1 DEF Range, UrlsOf
  <2>11. \A i \in 1 .. n : UrlsOf(cited[i]) \subseteq UrlsOf(H)
    BY <2>5 DEF All, UrlsOf
  <2>12. UrlsOf(refs) = UNION {UrlsOf(ordered[a]) : a \in Agent}
    <3>1. ASSUME NEW u \in UrlsOf(refs) PROVE \E a \in Agent : u \in UrlsOf(ordered[a])
      <4>1. PICK i \in 1 .. n : u \in UrlsOf(cited[i])
        BY <2>8, <2>10
      <4>2. plan[i] \in Agent /\ cited[i] = ordered[plan[i]]
        BY <2>1, <2>2
      <4> QED BY <4>1, <4>2
    <3>2. ASSUME NEW a \in Agent PROVE UrlsOf(ordered[a]) \subseteq UrlsOf(refs)
      <4>1. PICK i \in 1 .. n : plan[i] = a
        BY <2>1
      <4>2. cited[i] = ordered[a]
        BY <2>2, <4>1
      <4> QED BY <4>2, <2>8, <2>9, <2>11
    <3> QED BY <3>1, <3>2
  <2>13. ASSUME NEW k \in DOMAIN refs
         PROVE  \E i \in DOMAIN plan :
                  /\ refs[k] \in Range(cited[i])
                  /\ \A j \in 1 .. (i - 1) : refs[k].url \notin UrlsOf(cited[j])
    <3>1. PICK p \in FirstAt(H) : refs[k] = H[p]
      BY <2>6 DEF Firsts
    <3>2. p \in DOMAIN H /\ \A q \in 1 .. (p - 1) : H[q].url # H[p].url
      BY <3>1 DEF FirstAt
    <3>3. PICK i \in 1 .. n :
            /\ H[p] \in Range(cited[i])
            /\ \A j \in 1 .. (i - 1) : \A x \in DOMAIN cited[j] :
                 \E q \in 1 .. (p - 1) : H[q] = cited[j][x]
      BY <2>5, <3>2, Zenon DEF From
    <3>4. \A j \in 1 .. (i - 1) : H[p].url \notin UrlsOf(cited[j])
      <4> SUFFICES ASSUME NEW j \in 1 .. (i - 1), NEW x \in DOMAIN cited[j],
                          cited[j][x].url = H[p].url
                   PROVE  FALSE
        BY DEF UrlsOf
      <4>1. PICK q \in 1 .. (p - 1) : H[q] = cited[j][x]
        BY <3>3
      <4> QED BY <4>1, <3>2
    <3> QED BY <2>1, <3>1, <3>3, <3>4
  <2> QED BY <2>7, <2>12, <2>13
<1> QED BY Invariance, <1>1, PTL
===============================================================================
