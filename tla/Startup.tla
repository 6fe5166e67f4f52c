------------------------------- MODULE Startup -------------------------------
(***************************************************************************)
(* The life of the server process: main reads the configuration, waits for *)
(* Postgres, applies the migrations, looks for Redis and listens, or exits *)
(* with log.Fatalf; it may die at any time and be started again, perhaps   *)
(* with another environment.  The schema in Postgres outlives it.          *)
(***************************************************************************)
EXTENDS Config

CONSTANTS
  Envs,        \* the environments a server may be started with
  MaxPings,    \* pgConnectAttempts
  MaxStarts    \* bound: how often the server is started

ASSUME StartupAssumption == MaxPings \in Nat \ {0} /\ MaxStarts \in Nat \ {0}

VARIABLES
  stage,    \* where the process is
  cause,    \* history: why it exited
  env,      \* its environment
  pings,    \* Open's attempts so far
  starts,   \* history: how often it was started
  db,       \* how Postgres is
  seen,     \* history: what was wrong with it since the start
  schema    \* are the tables and indexes of the migration there?

startupVars == <<stage, cause, env, pings, starts, db, seen, schema>>

(* Postgres does not answer, answers but refuses a statement of the        *)
(* migration (a missing grant, another server that creates the same table  *)
(* at the same time, a full disk), or executes it.                         *)
Health == {"down", "refusing", "up"}

StartupInit ==
  /\ stage = "down" /\ cause = "none" /\ env \in Envs /\ pings = 0 /\ starts = 0
  /\ db = "up" /\ seen = {}
  /\ schema = FALSE

Exit(why) == stage' = "exited" /\ cause' = why

GoOn(a, b) == stage = a /\ stage' = b /\ UNCHANGED cause

Start ==
  /\ stage \in {"down", "exited"} /\ starts < MaxStarts
  /\ stage' = "load" /\ cause' = "none" /\ starts' = starts + 1
  /\ env' \in Envs
  /\ db' \in Health /\ seen' = {db'} \ {"up"}
  /\ UNCHANGED <<pings, schema>>

LoadConfig ==
  /\ stage = "load"
  /\ IF Loads(env) THEN GoOn("load", "llm") ELSE Exit("config")
  /\ UNCHANGED <<env, pings, starts, db, seen, schema>>

(* llm.New sends nothing: it checks what it is given.                      *)
NewModel ==
  /\ stage = "llm"
  /\ IF ModelAccepted(env) THEN GoOn("llm", "open") ELSE Exit("llm")
  /\ UNCHANGED <<env, pings, starts, db, seen, schema>>

(* Open: pgxpool.New parses the DSN and connects later.                    *)
OpenPool ==
  /\ stage = "open"
  /\ IF DSNParses(env) THEN GoOn("open", "ping") ELSE Exit("dsn")
  /\ UNCHANGED <<env, pings, starts, db, seen, schema>>

(* Mutant: the loop has no last attempt.                                   *)
NoLastPing(attempt) == FALSE

LastPing(attempt) == attempt >= MaxPings

(* Open pings up to pgConnectAttempts times, a pause apart.                *)
Ping ==
  /\ stage = "ping"
  /\ \/ db # "down" /\ GoOn("ping", "migrate") /\ pings' = 0
     \/ db = "down" /\ LastPing(pings + 1) /\ Exit("ping") /\ pings' = 0
     \/ /\ db = "down" /\ ~ LastPing(pings + 1)
        /\ pings' = IF pings < MaxPings THEN pings + 1 ELSE pings     \* bound
        /\ UNCHANGED <<stage, cause>>
  /\ UNCHANGED <<env, starts, db, seen, schema>>

(* Mutant: CREATE without IF NOT EXISTS.                                   *)
AlreadyExists == schema

(* No statement fails for what the file itself made before.                *)
Conflict == FALSE

(* Mutant: the error of the statement is dropped.                          *)
GoOnAnyway == GoOn("migrate", "redis")

OnStatementError == Exit("migrate")

(* The file of CREATE ... IF NOT EXISTS is one statement without arguments *)
(* and so one transaction; when the connection breaks it may have been     *)
(* committed or not.                                                       *)
Migrate ==
  /\ stage = "migrate"
  /\ \/ db = "up" /\ ~ Conflict /\ GoOn("migrate", "redis") /\ schema' = TRUE
     \/ (db = "refusing" \/ Conflict) /\ OnStatementError /\ UNCHANGED schema
     \/ db = "down" /\ OnStatementError /\ schema' \in {schema, TRUE}
  /\ UNCHANGED <<env, pings, starts, db, seen>>

(* Redis is optional: without it the search tool is not wrapped.           *)
PingRedis ==
  /\ GoOn("redis", "listen")
  /\ UNCHANGED <<env, pings, starts, db, seen, schema>>

Listen ==
  /\ \/ GoOn("listen", "serving")
     \/ stage = "listen" /\ Exit("port")
  /\ db' = "up" /\ seen' = {}     \* nothing looks at them before the next start
  /\ UNCHANGED <<env, pings, starts, schema>>

Boot == LoadConfig \/ NewModel \/ OpenPool \/ Ping \/ Migrate \/ PingRedis \/ Listen

(* Postgres comes and goes.  What this does to the statements of a request *)
(* is that they fail, so here only the boot looks.                         *)
Toggle ==
  /\ stage \in {"ping", "migrate"}
  /\ db' \in Health \ {db}
  /\ seen' = (seen \cup {db'}) \ {"up"}
  /\ UNCHANGED <<stage, cause, env, pings, starts, schema>>

(* The process is killed.                                                  *)
Die ==
  /\ stage \notin {"down", "exited"}
  /\ stage' = "down" /\ pings' = 0
  /\ db' = "up" /\ seen' = {}
  /\ UNCHANGED <<cause, env, starts, schema>>

(* requireAPIKey: the key is in X-API-Key, or else in Authorization.       *)
Authorised(request) ==
  LET key == Load(env).apiKey
      got == IF request.xApiKey # "" THEN request.xApiKey ELSE request.authorization
  IN key = "" \/ got = key

-------------------------------------------------------------------------------
(* Each fatal exit has a cause in this very start: a setting of its own    *)
(* environment, or a Postgres that was down, or refused, while it booted.  *)
(* What an earlier life left in the database, whole or half, never keeps   *)
(* the next from starting.                                                 *)
FatalForCause ==
  stage = "exited" =>
    \/ cause = "config" /\ ~ Loads(env)
    \/ cause = "llm" /\ Loads(env) /\ ~ ModelAccepted(env)
    \/ cause = "dsn" /\ Loads(env) /\ ~ DSNParses(env)
    \/ cause = "ping" /\ "down" \in seen
    \/ cause = "migrate" /\ seen # {}
    \/ cause = "port"

(* No request is served before the tables are there.                       *)
SchemaReady == stage = "serving" => schema

(* However Postgres comes and goes, a start ends in a server that serves   *)
(* or in an exit.                                                          *)
BootEnds == stage = "load" ~> stage \in {"serving", "exited", "down"}
===============================================================================
