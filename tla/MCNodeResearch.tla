---------------------------- MODULE MCNodeResearch ----------------------------
(***************************************************************************)
(* Two nodes that ask the same, one of which may be retried, on servers    *)
(* that share Redis: with an environment that is all nonsense, which       *)
(* becomes two rounds of two follow-ups and a critic; with the other depth *)
(* of search, one round, a critic nothing can satisfy and no retry of its  *)
(* own; and with the mock and without Redis.                               *)
(***************************************************************************)
EXTENDS NodeResearchInvariant, TLC

CONSTANTS a1, a2

MCAgent == {a1, a2}

MCMaxRetry == a1 :> 1 @@ a2 :> 0

MCAtoi == "-1" :> -1 @@ "0" :> 0 @@ "1" :> 1 @@ "2" :> 2 @@ "11" :> 11

Env(tavilyKey, depth, rounds, followUps, critic, minScore, retries) ==
  [LLM_API_KEY |-> "key", LLM_BASE_URL |-> "", POSTGRES_PASSWORD |-> "", API_KEY |-> "",
   TAVILY_API_KEY |-> tavilyKey,
   TAVILY_SEARCH_DEPTH |-> depth, RESEARCH_MAX_SEARCH_ROUNDS |-> rounds,
   RESEARCH_MAX_FOLLOWUP_QUERIES |-> followUps, CRITIC_ENABLED |-> critic,
   CRITIC_MIN_SCORE |-> minScore, CRITIC_MAX_RETRIES |-> retries]

Nonsense == [env |-> Env("key", "", "two", "0", "maybe", "-1", ""), redis |-> TRUE]

Advanced == [env |-> Env("key", "advanced", "1", "1", "on", "11", "-1"), redis |-> TRUE]

Mock == [env |-> Env("", "advanced", "1", "1", "off", "", "0"), redis |-> FALSE]

MCServers == a1 :> {Nonsense, Mock} @@ a2 :> {Nonsense, Advanced}

MCQuestion == [a \in MCAgent |-> "q1"]

Item(url, title) == [url |-> url, title |-> title]

(* The second query brings a new title for a URL, a URL twice, and an item *)
(* without one.                                                            *)
MCAnswers ==
  "q1" :> {<<>>, <<Item("u3", "one"), Item("u1", "old")>>} @@
  "q2" :> {<<Item("u2", "new"), Item("", "none"), Item("u1", "new"), Item("u2", "again")>>}

(* One reply has a blank query and one more than is kept.                  *)
MCFollowUps == {<<>>, <<"", "q2", "q1", "q2">>}

MCScores == {0, 11}
===============================================================================
