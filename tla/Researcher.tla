------------------------------- MODULE Researcher -------------------------------
(***************************************************************************)
(* Researcher.Research (internal/agent/researcher): waves of searches      *)
(* through the cache, the merge of their results into the numbered list of *)
(* citations, the synthesis, and the critic that may send it back.  Several *)
(* calls run at once, on one server or on several that share the cache, so *)
(* the cache (internal/tool/search/cached.go) is part of the state and the *)
(* calls interleave between GetSearch, the search itself and SetSearch.    *)
(* Redis, the search provider and the language model answer anything,      *)
(* within small sets, or fail; their timeouts are failures.                *)
(***************************************************************************)
EXTENDS Config, Sequences, SequencesExt

CONSTANTS
  Agent,      \* the calls of Research that run at once
  Servers,    \* agent -> the servers it may run on: an environment, and whether Redis answered
  Question,   \* the sub-question every agent was given; a query
  Query,      \* the queries the model may ask for
  Blank,      \* an empty query, an empty URL
  Answers,    \* query -> what a provider may answer: lists of [url, title]
  FollowUps,  \* what the model may propose: lists of queries
  Scores      \* what the critic may say: any integer the model writes

Answer == UNION Range(Answers)

Result == UNION {Range(answer) : answer \in Answer}

ASSUME ResearchAssumption ==
  /\ IsFiniteSet(Agent)
  /\ Question \in [Agent -> Query]
  /\ DOMAIN Answers = Query /\ Answer \subseteq Seq(Result)
  /\ FollowUps \subseteq Seq(Query \cup {Blank})
  /\ Scores \subseteq Int

(* What a call of Research depends on: the options of its server, the tool *)
(* it searches with, and the cache in front of the tool.                   *)
Options(server) ==
  LET cfg == Load(server.env)
  IN Normalized(
       [rounds |-> cfg.rounds, followUps |-> cfg.followUps, critic |-> cfg.critic,
        minScore |-> cfg.minScore, retries |-> cfg.retries,
        provider |-> Provider(cfg), namespace |-> SearchNS(cfg), cached |-> server.redis])

VARIABLES
  opts,      \* agent -> the Options of its server
  phase,     \* agent -> the call it is at
  round,     \* agent -> collectSearchResults' round
  queries,   \* agent -> the queries of the round still to be searched
  ordered,   \* agent -> the merged results; their order numbers the citations
  fetched,   \* agent -> what the provider just answered, not stored yet
  attempt,   \* agent -> Research's attempt
  feedback,  \* agent -> what the next synthesis is told; 0: nothing
  cache,     \* key -> answer, <<answer>> as a list of at most one
  taken,     \* history: agent -> the queries it searched and what it got
  reviews,   \* history: agent -> the critic's reviews
  provided   \* history: provider and query -> the answers it ever gave

vars == <<opts, phase, round, queries, ordered, fetched, attempt, feedback, cache, taken,
          reviews, provided>>

Phase == {"lookup", "ask", "store", "plan", "write", "review", "done", "failed"}

Settings == {Options(server) : server \in UNION Range(Servers)}

(* buildKey.                                                               *)
Key(a, q) == <<opts[a].namespace, q>>

Keys == {o.namespace : o \in Settings} \X Query

Sources == {o.provider : o \in Settings} \X Query

Init ==
  /\ opts \in [Agent -> Settings] /\ \A a \in Agent : opts[a] \in {Options(v) : v \in Servers[a]}
  /\ phase = [a \in Agent |-> "lookup"]
  /\ round = [a \in Agent |-> 1]
  /\ queries = [a \in Agent |-> <<Question[a]>>]
  /\ ordered = [a \in Agent |-> <<>>]
  /\ fetched = [a \in Agent |-> <<>>]
  /\ attempt = [a \in Agent |-> 1]
  /\ feedback = [a \in Agent |-> 0]
  /\ cache = [k \in Keys |-> <<>>]
  /\ taken = [a \in Agent |-> <<>>]
  /\ reviews = [a \in Agent |-> <<>>]
  /\ provided = [k \in Sources |-> {}]

Unreviewed == UNCHANGED <<attempt, feedback, reviews>>

-------------------------------------------------------------------------------
(* dedupAppend; the seen set is the URLs of the list.                      *)

UrlsOf(items) == {items[i].url : i \in DOMAIN items}

(* An item without a URL, or with one seen before, is left out.            *)
Note(list, item) ==
  IF item.url \in {Blank} \cup UrlsOf(list) THEN list ELSE Append(list, item)

(* Mutant: a fresh seen set for every answer.                              *)
DedupAlone(list, items) == list \o FoldLeft(Note, <<>>, items)

DedupAppend(list, items) == FoldLeft(Note, list, items)

(* The rest of collectSearchResults' inner loop once searchOnce returned:  *)
(* merge, and on to the next query or to the end of the round.  What comes *)
(* after the last round is decided by what was collected.                  *)
Conclude(a, list) ==
  phase' = [phase EXCEPT ![a] = IF list = <<>> THEN "failed" ELSE "write"]

(* Mutant: one round more.                                                 *)
BeyondLastRound(a) == round[a] > opts[a].rounds

LastRound(a) == round[a] >= opts[a].rounds

Merge(a, items) ==
  LET list == DedupAppend(ordered[a], items)
  IN /\ ordered' = [ordered EXCEPT ![a] = list]
     /\ taken' = [taken EXCEPT ![a] = Append(@, [query |-> Head(queries[a]), items |-> items])]
     /\ queries' = [queries EXCEPT ![a] = Tail(@)]
     /\ IF Len(queries[a]) > 1 THEN phase' = [phase EXCEPT ![a] = "lookup"]
        ELSE IF LastRound(a) THEN Conclude(a, list)
        ELSE phase' = [phase EXCEPT ![a] = "plan"]
     /\ UNCHANGED <<opts, round>> /\ Unreviewed

-------------------------------------------------------------------------------
(* Cached.Call, one step per call of the cache or of the provider.         *)

SearchKey(a) == Key(a, Head(queries[a]))

Hit(a) ==
  /\ phase[a] = "lookup" /\ opts[a].cached /\ cache[SearchKey(a)] # <<>>
  /\ Merge(a, Head(cache[SearchKey(a)]))
  /\ UNCHANGED <<fetched, cache, provided>>

(* No cache, no entry, or an error of GetSearch, which counts as none.     *)
Miss(a) ==
  /\ phase[a] = "lookup"
  /\ phase' = [phase EXCEPT ![a] = "ask"]
  /\ UNCHANGED <<opts, round, queries, ordered, fetched, cache, taken, provided>>
  /\ Unreviewed

(* The provider serves what it indexes now: two calls may differ.  It      *)
(* belongs to the server's settings, whatever key the cache uses.          *)
Ask(a) ==
  /\ phase[a] = "ask"
  /\ \E answer \in Answers[Head(queries[a])] :
       /\ fetched' = [fetched EXCEPT ![a] = answer]
       /\ provided' = [provided EXCEPT ![<<opts[a].provider, Head(queries[a])>>] = @ \cup {answer}]
  /\ phase' = [phase EXCEPT ![a] = "store"]
  /\ UNCHANGED <<opts, round, queries, ordered, cache, taken>> /\ Unreviewed

(* SetSearch, whose error is ignored; without a cache just the answer.     *)
Store(a) ==
  /\ phase[a] = "store"
  /\ \E stored \in IF opts[a].cached THEN BOOLEAN ELSE {FALSE} :
       cache' = IF stored THEN [cache EXCEPT ![SearchKey(a)] = <<fetched[a]>>] ELSE cache
  /\ fetched' = [fetched EXCEPT ![a] = <<>>]
  /\ Merge(a, fetched[a])
  /\ UNCHANGED provided

(* An entry lives for an hour.                                             *)
Expire(k) ==
  /\ cache[k] # <<>>
  /\ cache' = [cache EXCEPT ![k] = <<>>]
  /\ UNCHANGED <<opts, phase, round, queries, ordered, fetched, attempt, feedback, taken,
                 reviews, provided>>

-------------------------------------------------------------------------------
(* planFollowUpQueries and parseFollowUps: blank queries are dropped, a    *)
(* reply that is no JSON proposes nothing, and the list is cut.            *)
Keep(list, query) == IF query = Blank THEN list ELSE Append(list, query)

Usable(proposed) == FoldLeft(Keep, <<>>, proposed)

(* Mutant: the list is not cut.                                            *)
Uncut(a, list) == list

Cut(a, list) ==
  SubSeq(list, 1, IF Len(list) > opts[a].followUps THEN opts[a].followUps ELSE Len(list))

Plan(a) ==
  /\ phase[a] = "plan"
  /\ \E proposed \in FollowUps :
       LET next == Cut(a, Usable(proposed))
       IN IF next = <<>>
          THEN Conclude(a, ordered[a]) /\ UNCHANGED <<round, queries>>
          ELSE /\ phase' = [phase EXCEPT ![a] = "lookup"]
               /\ round' = [round EXCEPT ![a] = @ + 1]
               /\ queries' = [queries EXCEPT ![a] = next]
  /\ UNCHANGED <<opts, ordered, fetched, cache, taken, provided>> /\ Unreviewed

-------------------------------------------------------------------------------
(* The loop of Research: synthesize, and Critic.Review if there is one.    *)

(* The synthesis; without a critic it is the result.                       *)
Write(a) ==
  /\ phase[a] = "write"
  /\ phase' = [phase EXCEPT ![a] = IF opts[a].critic THEN "review" ELSE "done"]
  /\ UNCHANGED <<opts, round, queries, ordered, fetched, cache, taken, provided>>
  /\ Unreviewed

MaxAttempts(a) == 1 + opts[a].retries

(* Critic.parseReview.                                                     *)
Clamp(score) == IF score < 1 THEN 1 ELSE IF score > 10 THEN 10 ELSE score

Pass(a, score) == Clamp(score) >= opts[a].minScore

(* Mutant: the verdict is not looked at.                                   *)
Unsettled(a, score) == attempt[a] = MaxAttempts(a)

Settled(a, score) == Pass(a, score) \/ attempt[a] = MaxAttempts(a)

Review(a) ==
  /\ phase[a] = "review"
  /\ \E score \in Scores :
       LET review == [attempt |-> attempt[a], score |-> Clamp(score), pass |-> Pass(a, score),
                      told |-> feedback[a]]
       IN /\ reviews' = [reviews EXCEPT ![a] = Append(@, review)]
          /\ IF Settled(a, score)
             THEN /\ phase' = [phase EXCEPT ![a] = "done"]
                  /\ UNCHANGED <<attempt, feedback>>
             ELSE /\ phase' = [phase EXCEPT ![a] = "write"]
                  /\ attempt' = [attempt EXCEPT ![a] = @ + 1]
                  /\ feedback' = [feedback EXCEPT ![a] = attempt[a]]
  /\ UNCHANGED <<opts, round, queries, ordered, fetched, cache, taken, provided>>

(* The call the agent is at fails: Research returns the error, whatever it *)
(* has collected.  An error also ends the call when its context is done.   *)
FailsIn(a, call) ==
  /\ phase[a] = call
  /\ phase' = [phase EXCEPT ![a] = "failed"]
  /\ UNCHANGED <<opts, round, queries, ordered, fetched, attempt, feedback, cache, taken,
                 reviews, provided>>

SearchFails(a) == FailsIn(a, "ask")
PlanFails(a)   == FailsIn(a, "plan")
WriteFails(a)  == FailsIn(a, "write")

(* The model's error, a reply that is no review, or an empty draft.        *)
ReviewFails(a) == FailsIn(a, "review")

-------------------------------------------------------------------------------
Step(a) ==
  \/ Hit(a) \/ Miss(a) \/ Ask(a) \/ SearchFails(a) \/ Store(a)
  \/ Plan(a) \/ PlanFails(a)
  \/ Write(a) \/ WriteFails(a) \/ Review(a) \/ ReviewFails(a)

Returned == \A a \in Agent : phase[a] \in {"done", "failed"}

Next ==
  \/ \E a \in Agent : Step(a)
  \/ \E k \in Keys : Expire(k)
  \/ Returned /\ UNCHANGED vars

Spec == Init /\ [][Next]_vars

-------------------------------------------------------------------------------
TypeOK ==
  /\ opts \in [Agent -> Settings]
  /\ phase \in [Agent -> Phase]
  /\ round \in [Agent -> Nat] /\ attempt \in [Agent -> Nat] /\ feedback \in [Agent -> Nat]
  /\ queries \in [Agent -> Seq(Query)]
  /\ ordered \in [Agent -> Seq(Result)]
  /\ fetched \in [Agent -> Answer \cup {<<>>}]
  /\ taken \in [Agent -> Seq([query : Query, items : Answer])]
  /\ reviews \in [Agent -> Seq([attempt : Nat, score : 1 .. 10, pass : BOOLEAN, told : Nat])]
  /\ cache \in [Keys -> {<<>>} \cup {<<answer>> : answer \in Answer}]
  /\ provided \in [Sources -> SUBSET Answer]

(* Every item an agent ever received, in the order of its searches.        *)
Heard(a) == FlattenSeq([i \in DOMAIN taken[a] |-> taken[a][i].items])

(* The positions in a list at which a URL appears first.                   *)
FirstAt(list) ==
  {i \in DOMAIN list : list[i].url # Blank /\ \A j \in 1 .. (i - 1) : list[j].url # list[i].url}

(* The list has the first item of every URL, in the order of items.        *)
Firsts(list, items) ==
  \E at \in [DOMAIN list -> FirstAt(items)] :
    /\ \A i, j \in DOMAIN list : i < j => at[i] < at[j]
    /\ FirstAt(items) = Range(at)
    /\ \A k \in DOMAIN list : list[k] = items[at[k]]

(* Citation k is the k-th URL that was ever seen, with the title it had    *)
(* then: what comes later, in the same answer, another query or another    *)
(* round, neither renumbers nor rewrites it.                               *)
FirstSeen == \A a \in Agent : Firsts(ordered[a], Heard(a))

(* Whatever an agent works with, fetched or cached, its own provider once  *)
(* answered to that very query; nothing leaks through the shared cache     *)
(* from a server with other settings.                                      *)
OwnProvider ==
  \A a \in Agent :
    /\ \A q \in Query : opts[a].cached =>
         Range(cache[Key(a, q)]) \subseteq provided[<<opts[a].provider, q>>]
    /\ \A i \in DOMAIN taken[a] :
         taken[a][i].items \in provided[<<opts[a].provider, taken[a][i].query>>]

(* The findings that Research returns passed the critic or used up the     *)
(* attempts; no draft that passed was thrown away, and every attempt was   *)
(* told the feedback of the one before.                                    *)
ReviewsDecide ==
  \A a \in Agent : opts[a].critic =>
    /\ \A k \in DOMAIN reviews[a] :
         /\ reviews[a][k].attempt = k /\ reviews[a][k].told = k - 1
         /\ k < Len(reviews[a]) => ~ reviews[a][k].pass
    /\ phase[a] = "done" =>
         /\ Len(reviews[a]) = attempt[a]
         /\ (reviews[a][attempt[a]].pass \/ attempt[a] = MaxAttempts(a))
===============================================================================
