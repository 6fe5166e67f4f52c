-------------------------------- MODULE Config --------------------------------
(***************************************************************************)
(* What the environment of a server makes of it: config.Load, and the      *)
(* wiring in main of the search tool and of the researcher's options.      *)
(* An environment is a record of strings; "" is a variable that is unset   *)
(* or empty, which the code does not tell apart.                           *)
(***************************************************************************)
EXTENDS Integers

CONSTANTS
  Atoi,         \* the strings that are integers, with their values (external: strconv)
  Refused       \* the strings the libraries of model and database refuse (external)

ASSUME AtoiAssumption == \A v \in DOMAIN Atoi : Atoi[v] \in Int

GetEnv(v, fallback) == IF v # "" THEN v ELSE fallback

GetEnvInt(v, fallback) == IF v \in DOMAIN Atoi THEN Atoi[v] ELSE fallback

(* Of the value in lower case, without the space around it.                *)
GetEnvBool(v, fallback) ==
  \/ v \in {"1", "true", "yes", "on"}
  \/ v \notin {"0", "false", "no", "off"} /\ fallback

Load(env) ==
  [llmKey    |-> env.LLM_API_KEY,
   baseURL   |-> GetEnv(env.LLM_BASE_URL, "https://api.deepseek.com/v1"),
   password  |-> GetEnv(env.POSTGRES_PASSWORD, "research"),
   apiKey    |-> env.API_KEY,
   tavilyKey |-> env.TAVILY_API_KEY,
   depth     |-> GetEnv(env.TAVILY_SEARCH_DEPTH, "basic"),
   rounds    |-> GetEnvInt(env.RESEARCH_MAX_SEARCH_ROUNDS, 2),
   followUps |-> GetEnvInt(env.RESEARCH_MAX_FOLLOWUP_QUERIES, 2),
   critic    |-> GetEnvBool(env.CRITIC_ENABLED, TRUE),
   minScore  |-> GetEnvInt(env.CRITIC_MIN_SCORE, 6),
   retries   |-> GetEnvInt(env.CRITIC_MAX_RETRIES, 1)]

(* Load's own refusal.                                                     *)
Loads(env) == Load(env).llmKey # ""

(* llm.New hands the backend's settings to a library that may refuse them, *)
(* and the DSN, put together without quotes, may not parse: a password     *)
(* with a space is enough.  One string stands for each.                    *)
ModelAccepted(env) == Load(env).baseURL \notin Refused

DSNParses(env) == Load(env).password \notin Refused

(* The search tool, by what its answers depend on.                         *)
Provider(cfg) == IF cfg.tavilyKey # "" THEN <<"tavily", cfg.depth>> ELSE <<"mock">>

(* Mutant: the depth is left out of the cache's namespace.                 *)
NamespaceOfTool(cfg) == IF cfg.tavilyKey # "" THEN <<"tavily">> ELSE <<"mock">>

(* searchNS, under which Redis keeps the answers.                          *)
SearchNS(cfg) == IF cfg.tavilyKey # "" THEN <<"tavily", cfg.depth>> ELSE <<"mock">>

(* Options.normalized, which New and collectSearchResults apply.           *)
Normalized(o) ==
  [o EXCEPT !.rounds    = IF @ <= 0 THEN 2 ELSE @,
            !.followUps = IF @ <= 0 THEN 2 ELSE @,
            !.minScore  = IF @ <= 0 THEN 6 ELSE @,
            !.retries   = IF @ < 0 THEN 0 ELSE @]
===============================================================================
