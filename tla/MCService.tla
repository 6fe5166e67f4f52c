------------------------------ MODULE MCService ------------------------------
(***************************************************************************)
(* Two sessions with one subtask, two lives of the server, and four        *)
(* environments: without the model's key, with a base URL or a password    *)
(* that a library refuses, and a good one with an API key.  The client has *)
(* the key, in the Authorization header.                                   *)
(***************************************************************************)
EXTENDS Service

MCAtoi == [v \in {} |-> 0]

MCRefused == {"no url", "two words"}

Env(llmKey, baseURL, password, apiKey) ==
  [LLM_API_KEY |-> llmKey, LLM_BASE_URL |-> baseURL, POSTGRES_PASSWORD |-> password,
   API_KEY |-> apiKey, TAVILY_API_KEY |-> "",
   TAVILY_SEARCH_DEPTH |-> "", RESEARCH_MAX_SEARCH_ROUNDS |-> "",
   RESEARCH_MAX_FOLLOWUP_QUERIES |-> "", CRITIC_ENABLED |-> "", CRITIC_MIN_SCORE |-> "",
   CRITIC_MAX_RETRIES |-> ""]

MCEnvs == {Env("", "", "", ""), Env("key", "no url", "", ""), Env("key", "", "two words", ""),
           Env("key", "", "", "secret")}

MCRequest == [xApiKey |-> "", authorization |-> "secret"]
===============================================================================
