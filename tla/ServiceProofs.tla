----------------------------- MODULE ServiceProofs -----------------------------
(***************************************************************************)
(* The boot and the history of Service for every number of sessions, lives *)
(* and subtasks, and for every environment.                                *)
(***************************************************************************)
EXTENDS Service, RecursionLemmas, FiniteSetTheorems, SequenceTheorems

(* The boot: what has been passed has been done, and how Postgres is       *)
(* during the boot has been noted.                                         *)
BootInv ==
  /\ FatalForCause
  /\ stage \in {"redis", "listen", "serving"} => schema
  /\ stage \in {"load", "llm", "open", "ping", "migrate"} => db \in seen \cup {"up"}
  /\ stage \in {"llm", "open"} => Loads(env)
  /\ db \in Health

LEMMA BootInit == Init => BootInv
  BY DEF Init, StartupInit, BootInv, FatalForCause, Health

LEMMA BootStep == BootInv /\ [Next]_vars => BootInv'
<1> SUFFICES ASSUME BootInv, [Next]_vars PROVE BootInv'
  OBVIOUS
<1> USE DEF BootInv, FatalForCause
<1>1. CASE Start
  BY <1>1 DEF Start
<1>2. CASE LoadConfig \/ NewModel \/ OpenPool
  BY <1>2 DEF LoadConfig, NewModel, OpenPool, GoOn, Exit
<1>3. CASE Ping
  BY <1>3 DEF Ping, GoOn, Exit
<1>4. CASE Migrate
  BY <1>4 DEF Migrate, GoOn, Exit, OnStatementError, Conflict, Health
<1>5. CASE PingRedis
  BY <1>5 DEF PingRedis, GoOn
<1>6. CASE Listen
  BY <1>6 DEF Listen, GoOn, Exit, Health
<1>7. CASE Toggle
  BY <1>7 DEF Toggle
<1>8. CASE Down
  BY <1>8 DEF Down, Die, Health
<1>9. CASE Serve \/ Idle \/ UNCHANGED vars
  BY <1>9 DEF Serve, Idle, vars, startupVars
<1> QED
  BY <1>1, <1>2, <1>3, <1>4, <1>5, <1>6, <1>7, <1>8, <1>9 DEF Next, Run, Boot

(* Each fatal exit of main has its cause in the same start: the            *)
(* environment it was started with, or Postgres while it booted.           *)
THEOREM FatalForCauseHolds == Spec => []FatalForCause
<1>1. BootInv => FatalForCause
  BY DEF BootInv
<1> QED
  BY BootInit, BootStep, <1>1, PTL DEF Spec

(* No request is served before the tables are there.                       *)
THEOREM SchemaReadyHolds == Spec => []SchemaReady
<1>1. BootInv => SchemaReady
  BY DEF BootInv, SchemaReady
<1> QED
  BY BootInit, BootStep, <1>1, PTL DEF Spec

-------------------------------------------------------------------------------
(* The history.  Of(s) is the same for every s but for the log itself, so  *)
(* its constants are named once.                                           *)

Rows == {"absent", "pending", "running", "done", "failed"}

Log == [status : {"none", "running", "completed", "failed"}, rows : [Task -> Rows],
        lost : BOOLEAN]

Later(old, new) == old = new \/ Of(1)!Rank[new] > Of(1)!Rank[old]

StatusLater(old, new) == old = new \/ StatusRank[new] > StatusRank[old]

Whole(l) == l.lost \/ \A t \in Task : l.rows[t] = "done"

(* m is l, or l some statements later.                                     *)
Follows(l, m) ==
  /\ m \in Log
  /\ StatusLater(l.status, m.status)
  /\ \A t \in Task : Later(l.rows[t], m.rows[t])
  /\ m.status = "completed" => Whole(m)

LEMMA EmptyLog == NoLog \in Log /\ NoLog.status = "none" /\ \A t \in Task : NoLog.rows[t] = "absent"
  BY DEF NoLog, Of!NoLog, Log, Rows

LEMMA LaterTransitive ==
  ASSUME NEW x \in Rows, NEW y \in Rows, NEW z \in Rows, Later(x, y), Later(y, z)
  PROVE  Later(x, z)
  BY DEF Later, Rows, Of!Rank

LEMMA StatusLaterTransitive ==
  ASSUME NEW x \in DOMAIN StatusRank, NEW y \in DOMAIN StatusRank, NEW z \in DOMAIN StatusRank,
         StatusLater(x, y), StatusLater(y, z)
  PROVE  StatusLater(x, z)
  BY DEF StatusLater, StatusRank

LEMMA RowIsRows == \A s : Of(s)!Row = Rows
  BY DEF Of!Row, Of!Rank, Rows

(* What a request may do to its session.                                   *)
LEMMA Successors ==
  ASSUME NEW s, NEW l \in Log, l.status = "completed" => Whole(l),
         NEW m \in Of(s)!Creations(l) \cup Of(s)!Seedings(l) \cup Of(s)!Saves(l)
                     \cup Of(s)!Closings(l) \cup {l}
  PROVE  Follows(l, m)
<1>1. CASE m \in Of(s)!Creations(l)
  <2>1. m = [l EXCEPT !.status = "running"] /\ l.status = "none"
    BY <1>1 DEF Of!Creations
  <2> QED
    BY <2>1 DEF Follows, Log, StatusLater, StatusRank, Later
<1>2. CASE m \in Of(s)!Seedings(l)
  <2>1. PICK F \in SUBSET Task :
          m = [status |-> l.status,
               rows |-> [t \in Task |-> IF t \in F THEN "absent" ELSE "pending"],
               lost |-> F # {}]
    BY <1>2 DEF Of!Seedings
  <2>2. l.status = "running" /\ \A t \in Task : l.rows[t] = "absent"
    BY <1>2 DEF Of!Seedings, Of!Open, Of!NoLog
  <2>3. m \in Log /\ m.status = l.status /\ \A t \in Task : m.rows[t] \in {"absent", "pending"}
    BY <2>1 DEF Log, Rows
  <2>4. \A t \in Task : Later(l.rows[t], m.rows[t])
    BY <2>2, <2>3 DEF Later, Of!Rank
  <2> QED
    BY <2>2, <2>3, <2>4 DEF Follows, StatusLater
<1>3. CASE m \in Of(s)!Saves(l)
  <2>1. l.status = "running"
    BY <1>3 DEF Of!Saves, Of!Open
  <2>2. CASE m = [l EXCEPT !.lost = TRUE]
    BY <2>1, <2>2 DEF Follows, Log, StatusLater, Later
  <2>3. CASE m # [l EXCEPT !.lost = TRUE]
    <3>1. PICK t \in Task, r \in Rows :
            m = [l EXCEPT !.rows[t] = r] /\ Of(s)!Forward(l.rows[t], r)
      BY <1>3, <2>3, RowIsRows DEF Of!Saves
    <3>2. Later(l.rows[t], r)
      BY <3>1 DEF Of!Forward, Later, Of!Rank
    <3>3. m \in Log /\ m.status = l.status /\ m.rows = [l.rows EXCEPT ![t] = r]
      BY <3>1 DEF Log
    <3>4. \A u \in Task : Later(l.rows[u], m.rows[u])
      BY <3>2, <3>3 DEF Later, Log
    <3> QED
      BY <2>1, <3>3, <3>4 DEF Follows, StatusLater
  <2> QED
    BY <2>2, <2>3
<1>4. CASE m \in Of(s)!Closings(l)
  <2>1. /\ m \in {[l EXCEPT !.status = "completed"], [l EXCEPT !.status = "failed"]}
        /\ l.status = "running" /\ (m.status = "completed" => Whole(l))
    BY <1>4 DEF Of!Closings, Of!Open, Of!Whole, Whole
  <2>2. m \in Log /\ m.rows = l.rows /\ m.lost = l.lost /\ m.status \in {"completed", "failed"}
    BY <2>1 DEF Log
  <2> QED
    BY <2>1, <2>2 DEF Follows, StatusLater, StatusRank, Later, Whole
<1>5. CASE m = l
  BY <1>5 DEF Follows, StatusLater, Later
<1> QED
  BY <1>1, <1>2, <1>3, <1>4, <1>5

(* What the client has and is shown is what its session once was.          *)
Watches ==
  LET now == logs[client.session]
  IN /\ client.session \in Session
     /\ StatusLater(shown.status, now.status)
     /\ \A t \in Task : Later(shown.rows[t], now.rows[t])
     /\ client.at = "rows" => /\ StatusLater(shown.status, client.head.status)
                              /\ StatusLater(client.head.status, now.status)

HistoryInv ==
  /\ logs \in [Session -> Log]
  /\ \A s \in Session : logs[s].status = "completed" => Whole(logs[s])
  /\ client \in [role : {"watcher", "lister"}, session : Session \cup {0},
                 at : {"idle", "rows"}, head : Log]
  /\ shown \in Log
  /\ shown.status = "completed" => Whole(shown)
  /\ client.at = "rows" => client.role = "watcher"
  /\ client.role = "watcher" => Watches

LEMMA HistoryStart == Init => HistoryInv
<1> SUFFICES ASSUME Init PROVE HistoryInv
  OBVIOUS
<1>1. /\ logs = [s \in Session |-> NoLog] /\ shown = NoLog
      /\ client \in [role : {"watcher"}, session : Session, at : {"idle"}, head : {NoLog}]
           \cup [role : {"lister"}, session : {0}, at : {"idle"}, head : {NoLog}]
  BY DEF Init, HistoryInit
<1>2. client.role = "watcher" => Watches
  BY <1>1 DEF Watches, StatusLater, Later
<1> QED
  BY <1>1, <1>2, EmptyLog DEF HistoryInv

(* The requests: every session goes on or stays, nothing of the client     *)
(* moves.                                                                  *)
LEMMA RequestStep ==
  ASSUME HistoryInv, logs' \in [Session -> Log],
         \A s \in Session : Follows(logs[s], logs'[s]), UNCHANGED <<client, shown>>
  PROVE  HistoryInv'
<1>1. ASSUME client.role = "watcher" PROVE Watches'
  <2> DEFINE now == logs[client.session]
             new == logs'[client.session]
  <2>1. client.session \in Session /\ now \in Log /\ new \in Log
    BY <1>1 DEF HistoryInv, Watches
  <2>2. StatusLater(now.status, new.status) /\ \A t \in Task : Later(now.rows[t], new.rows[t])
    BY <2>1 DEF Follows
  <2>3. /\ shown.status \in DOMAIN StatusRank /\ client.head.status \in DOMAIN StatusRank
        /\ now.status \in DOMAIN StatusRank /\ new.status \in DOMAIN StatusRank
    BY <2>1 DEF HistoryInv, Log, StatusRank
  <2>4. \A t \in Task : shown.rows[t] \in Rows /\ now.rows[t] \in Rows /\ new.rows[t] \in Rows
    BY <2>1 DEF HistoryInv, Log
  <2>5. StatusLater(shown.status, now.status) /\ \A t \in Task : Later(shown.rows[t], now.rows[t])
    BY <1>1 DEF HistoryInv, Watches
  <2>6. StatusLater(shown.status, new.status)
    BY <2>2, <2>3, <2>5, StatusLaterTransitive
  <2>7. \A t \in Task : Later(shown.rows[t], new.rows[t])
    BY <2>2, <2>4, <2>5, LaterTransitive
  <2>8. ASSUME client.at = "rows" PROVE StatusLater(client.head.status, new.status)
    <3>1. StatusLater(client.head.status, now.status)
      BY <1>1, <2>8 DEF HistoryInv, Watches
    <3> QED
      BY <2>2, <2>3, <3>1, StatusLaterTransitive
  <2>9. client.at = "rows" => StatusLater(shown.status, client.head.status)
    BY <1>1 DEF HistoryInv, Watches
  <2> HIDE DEF now, new
  <2> QED
    BY <2>1, <2>6, <2>7, <2>8, <2>9 DEF Watches, new
<1>2. \A s \in Session : logs'[s].status = "completed" => Whole(logs'[s])
  BY DEF Follows
<1> QED
  BY <1>1, <1>2 DEF HistoryInv, Whole

LEMMA WriteFollows ==
  ASSUME HistoryInv, Write
  PROVE  /\ logs' \in [Session -> Log] /\ \A s \in Session : Follows(logs[s], logs'[s])
         /\ UNCHANGED <<client, shown>>
<1>1. PICK s \in Session :
        \E l \in Of(s)!Creations(logs[s]) \cup Of(s)!Seedings(logs[s]) \cup Of(s)!Saves(logs[s])
                   \cup Of(s)!Closings(logs[s]) \cup {logs[s]} :
          logs' = [logs EXCEPT ![s] = l]
  <2>1. CASE Post
    BY <2>1 DEF Post
  <2>2. CASE \E s \in Session : Record(s)
    BY <2>2 DEF Record
  <2>3. CASE \E s \in Session : Finalize(s)
    BY <2>3 DEF Finalize
  <2> QED
    BY <2>1, <2>2, <2>3 DEF Write
<1>2. PICK l \in Of(s)!Creations(logs[s]) \cup Of(s)!Seedings(logs[s]) \cup Of(s)!Saves(logs[s])
                   \cup Of(s)!Closings(logs[s]) \cup {logs[s]} :
        logs' = [logs EXCEPT ![s] = l]
  BY <1>1
<1>3. logs \in [Session -> Log] /\ \A u \in Session : logs[u].status = "completed" => Whole(logs[u])
  BY DEF HistoryInv
<1>4. Follows(logs[s], l)
  BY <1>2, <1>3, Successors
<1>5. \A u \in Session : Follows(logs[u], logs[u])
  BY <1>3 DEF Follows, StatusLater, Later
<1>6. UNCHANGED <<client, shown>>
  BY DEF Write, Post, Record, Finalize
<1>7. l \in Log
  BY <1>4 DEF Follows
<1> QED
  BY <1>2, <1>3, <1>4, <1>5, <1>6, <1>7

(* A detail is made of two halves that the session passed in this order.   *)
LEMMA DetailLater ==
  ASSUME HistoryInv, GetTasks
  PROVE  /\ HistoryInv'
         /\ StatusLater(shown.status, shown'.status)
         /\ \A t \in Task : Later(shown.rows[t], shown'.rows[t])
<1> DEFINE now == logs[client.session]
<1>1. client.role = "watcher" /\ Watches /\ client.at = "rows"
  BY DEF HistoryInv, GetTasks
<1>2. now \in Log /\ client.head \in Log /\ (now.status = "completed" => Whole(now))
  BY <1>1 DEF HistoryInv, Watches
<1>3. shown' = [now EXCEPT !.status = client.head.status]
  BY DEF GetTasks, Detail
<1>4. shown' \in Log /\ shown'.status = client.head.status /\ shown'.rows = now.rows
        /\ shown'.lost = now.lost
  BY <1>2, <1>3 DEF Log
<1>5. /\ client' = [client EXCEPT !.at = "idle", !.head = NoLog] /\ UNCHANGED logs
  BY DEF GetTasks, Rest
<1>6. client.head.status = "completed" => now.status = "completed"
  BY <1>1, <1>2 DEF Watches, StatusLater, StatusRank, Log
<1>7. shown'.status = "completed" => Whole(shown')
  BY <1>2, <1>4, <1>6 DEF Whole
<1>8. /\ client' \in [role : {"watcher", "lister"}, session : Session \cup {0},
                      at : {"idle", "rows"}, head : Log]
      /\ client'.session = client.session /\ client'.role = client.role /\ client'.at = "idle"
  BY <1>5, EmptyLog DEF HistoryInv
<1>9. Watches'
  BY <1>1, <1>4, <1>5, <1>8 DEF Watches, Later
<1> QED
  BY <1>1, <1>4, <1>5, <1>7, <1>8, <1>9 DEF HistoryInv, Watches, Whole

LEMMA HistoryStep == HistoryInv /\ [Next]_vars => HistoryInv'
<1> SUFFICES ASSUME HistoryInv, [Next]_vars PROVE HistoryInv'
  OBVIOUS
<1>1. CASE Serve /\ Write
  BY <1>1, WriteFollows, RequestStep
<1>2. CASE GetRow
  <2> DEFINE now == logs[client.session]
  <2>1. client.role = "watcher" /\ Watches /\ now \in Log
    BY <1>2 DEF GetRow, HistoryInv, Watches
  <2>2. /\ client' = [client EXCEPT !.at = "rows", !.head = now]
        /\ UNCHANGED <<logs, shown>>
    BY <1>2 DEF GetRow
  <2>3. /\ client' \in [role : {"watcher", "lister"}, session : Session \cup {0},
                        at : {"idle", "rows"}, head : Log]
        /\ client'.session = client.session /\ client'.role = client.role
        /\ client'.head = now
    BY <2>1, <2>2 DEF HistoryInv
  <2>4. Watches'
    BY <2>1, <2>2, <2>3 DEF Watches, StatusLater
  <2> QED
    BY <2>1, <2>2, <2>3, <2>4 DEF HistoryInv, Whole
<1>3. CASE GetTasks
  BY <1>3, DetailLater
<1>4. CASE Rest /\ UNCHANGED <<logs, shown>>
  <2>1. /\ client' \in [role : {"watcher", "lister"}, session : Session \cup {0},
                        at : {"idle", "rows"}, head : Log]
        /\ client'.session = client.session /\ client'.role = client.role /\ client'.at = "idle"
    BY <1>4, EmptyLog DEF Rest, HistoryInv
  <2>2. client.role = "watcher" => Watches'
    BY <1>4, <2>1 DEF HistoryInv, Watches
  <2> QED
    BY <1>4, <2>1, <2>2 DEF HistoryInv, Whole
<1>5. CASE UNCHANGED <<logs, client, shown>>
  BY <1>5 DEF HistoryInv, Watches, Whole
<1>6. CASE Serve /\ Read
  BY <1>2, <1>3, <1>4, <1>5, <1>6 DEF Read, GetFails, List
<1>7. CASE Down
  BY <1>4, <1>7 DEF Down, CutOff
<1>8. CASE Run \/ Idle \/ UNCHANGED vars
  BY <1>5, <1>8 DEF Run, Idle, vars, historyVars
<1> QED
  BY <1>1, <1>6, <1>7, <1>8 DEF Next, Serve

(* A detail that says completed has every outcome that could be stored,    *)
(* although the session went on between its two statements.                *)
THEOREM DetailWholeHolds == Spec => []DetailWhole
<1>1. HistoryInv => DetailWhole
  BY DEF HistoryInv, DetailWhole, Whole
<1> QED
  BY HistoryStart, HistoryStep, <1>1, PTL DEF Spec

(* A client that asks again sees every status stay or go forward, over any *)
(* number of deaths of the server.                                         *)
THEOREM NeverBackwardsHolds == Spec => NeverBackwards
<1> DEFINE A == /\ shown'.status = shown.status \/ StatusRank[shown'.status] > StatusRank[shown.status]
                /\ \A t \in Task :
                     \/ shown'.rows[t] = shown.rows[t]
                     \/ Of(1)!Rank[shown'.rows[t]] > Of(1)!Rank[shown.rows[t]]
<1>1. ASSUME HistoryInv, [Next]_vars PROVE [A]_shown
  <2>1. CASE GetTasks
    BY <1>1, <2>1, DetailLater DEF StatusLater, Later
  <2>2. CASE UNCHANGED shown
    BY <2>2
  <2> QED
    BY <1>1, <2>1, <2>2 DEF Next, Serve, Write, Read, Post, Record, Finalize, GetRow, GetFails,
       List, Down, CutOff, Run, Idle, vars, historyVars
<1> QED
  BY HistoryStart, HistoryStep, <1>1, PTL DEF Spec, NeverBackwards

-------------------------------------------------------------------------------
(* The listing.                                                            *)

(* The newest first: of the first n sessions, the one at i is n + 1 - i.   *)
LEMMA NewestFirstIs ==
  ASSUME NEW n \in Nat
  PROVE  /\ Cardinality(1 .. n) = n
         /\ NewestFirst(1 .. n) \in [1 .. n -> 1 .. n]
         /\ \A i \in 1 .. n : NewestFirst(1 .. n)[i] = n + 1 - i
<1>1. Cardinality(1 .. n) = n
  BY FS_Interval
<1> DEFINE rows == NewestFirst(1 .. n)
<1>2. rows \in [1 .. n -> 1 .. n] /\ \A i, j \in 1 .. n : i < j => rows[i] > rows[j]
  <2> DEFINE Good(g) == \A i, j \in 1 .. n : i < j => g[i] > g[j]
  <2> DEFINE back == [i \in 1 .. n |-> n + 1 - i]
  <2>1. back \in [1 .. n -> 1 .. n]
    <3>1. \A i \in 1 .. n : n + 1 - i \in 1 .. n
      OBVIOUS
    <3> QED BY <3>1
  <2>2. Good(back)
    OBVIOUS
  <2>3. rows = CHOOSE g \in [1 .. n -> 1 .. n] : Good(g)
    BY <1>1 DEF NewestFirst
  <2> HIDE DEF back, rows
  <2>4. rows \in [1 .. n -> 1 .. n] /\ Good(rows)
    <3> HIDE DEF Good
    <3> QED BY <2>1, <2>2, <2>3, Zenon
  <2> QED BY <2>4
<1> HIDE DEF rows
<1> DEFINE Low == {k \in 0 .. n : k > 0 => rows[k] <= n + 1 - k}
<1>3. 0 .. n \subseteq Low
  <2>1. 0 \in Low
    OBVIOUS
  <2>2. ASSUME NEW k \in 1 .. n, k - 1 \in Low PROVE k \in Low
    <3>1. CASE k = 1
      BY <3>1, <1>2
    <3>2. CASE k > 1
      <4>1. k - 1 \in 1 .. n /\ k \in 1 .. n /\ k - 1 < k
        BY <3>2
      <4>2. rows[k - 1] > rows[k] /\ rows[k - 1] \in 1 .. n /\ rows[k] \in 1 .. n
        BY <4>1, <1>2
      <4>3. rows[k - 1] <= n + 1 - (k - 1)
        BY <2>2, <3>2
      <4>4. rows[k] <= n + 1 - k
        BY <4>2, <4>3
      <4> QED BY <4>4
    <3> QED BY <3>1, <3>2
  <2> HIDE DEF Low
  <2> QED BY <2>1, <2>2, SegmentInduction
<1> DEFINE High == {k \in 0 .. n : k < n => rows[n - k] >= k + 1}
<1>4. 0 .. n \subseteq High
  <2>1. 0 \in High
    <3>1. 0 < n => n \in 1 .. n /\ n - 0 = n
      OBVIOUS
    <3> QED BY <3>1, <1>2
  <2>2. ASSUME NEW k \in 1 .. n, k - 1 \in High PROVE k \in High
    <3> SUFFICES ASSUME k < n PROVE rows[n - k] >= k + 1
      OBVIOUS
    <3>1. /\ n - k \in 1 .. n /\ n - (k - 1) \in 1 .. n /\ n - k < n - (k - 1)
      OBVIOUS
    <3>2. /\ rows[n - k] > rows[n - (k - 1)]
          /\ rows[n - k] \in 1 .. n /\ rows[n - (k - 1)] \in 1 .. n
      BY <3>1, <1>2
    <3>3. rows[n - (k - 1)] >= (k - 1) + 1
      BY <2>2
    <3> QED BY <3>2, <3>3
  <2> HIDE DEF High
  <2> QED BY <2>1, <2>2, SegmentInduction
<1>5. ASSUME NEW i \in 1 .. n PROVE rows[i] = n + 1 - i
  <2>1. i \in 0 .. n /\ i > 0 /\ n - i \in 0 .. n /\ n - i < n /\ n - (n - i) = i
    OBVIOUS
  <2>2. rows[i] <= n + 1 - i /\ rows[i] \in 1 .. n
    BY <2>1, <1>2, <1>3
  <2>3. rows[n - (n - i)] >= (n - i) + 1
    BY <2>1, <1>4
  <2> QED BY <2>1, <2>2, <2>3
<1> QED BY <1>1, <1>2, <1>5 DEF rows

(* Sessions are stored in their order.                                     *)
StoredInOrder == \E n \in 0 .. MaxSessions : Stored = 1 .. n

(* Whom the listing has not yet shown is further down than its offset,     *)
(* and stays there: new sessions push it down, and nothing lifts it.       *)
PageInv ==
  /\ StoredInOrder
  /\ page \in [offset : Nat, seen : SUBSET Session, first : SUBSET Session, done : BOOLEAN]
  /\ page.first \subseteq Stored
  /\ page.offset <= Cardinality(Stored)
  /\ \A s \in page.first : s \in page.seen \/ s + page.offset <= Cardinality(Stored)
  /\ NoSkip

LEMMA PageInit == Init => PageInv
<1> SUFFICES ASSUME Init PROVE PageInv
  OBVIOUS
<1>1. /\ logs = [s \in Session |-> NoLog]
      /\ page = [offset |-> 0, seen |-> {}, first |-> {}, done |-> FALSE]
  BY DEF Init, HistoryInit
<1>2. Stored = {} /\ 1 .. 0 = {} /\ Cardinality({}) = 0
  BY <1>1, EmptyLog, FS_EmptySet DEF Stored
<1>3. 0 \in 0 .. MaxSessions
  BY HistoryAssumption
<1> QED BY <1>1, <1>2, <1>3 DEF PageInv, StoredInOrder, NoSkip

(* A request that goes on neither creates its session nor loses it.        *)
LEMMA StoredStays ==
  ASSUME NEW s, NEW l \in Log,
         NEW m \in Of(s)!Seedings(l) \cup Of(s)!Saves(l) \cup Of(s)!Closings(l) \cup {l}
  PROVE  m.status = "none" <=> l.status = "none"
<1>1. CASE m \in Of(s)!Seedings(l)
  BY <1>1 DEF Of!Seedings, Of!Open
<1>2. CASE m \in Of(s)!Saves(l)
  <2>1. l.status = "running"
    BY <1>2 DEF Of!Saves, Of!Open
  <2>2. m.status = l.status
    <3>1. CASE m = [l EXCEPT !.lost = TRUE]
      BY <3>1 DEF Log
    <3>2. CASE m # [l EXCEPT !.lost = TRUE]
      <4>1. PICK t \in Task, r \in Rows : m = [l EXCEPT !.rows[t] = r]
        BY <1>2, <3>2, RowIsRows DEF Of!Saves
      <4> QED BY <4>1 DEF Log
    <3> QED BY <3>1, <3>2
  <2> QED BY <2>1, <2>2
<1>3. CASE m \in Of(s)!Closings(l)
  <2>1. /\ m \in {[l EXCEPT !.status = "completed"], [l EXCEPT !.status = "failed"]}
        /\ l.status = "running"
    BY <1>3 DEF Of!Closings, Of!Open
  <2> QED BY <2>1 DEF Log
<1> QED BY <1>1, <1>2, <1>3

(* What a request does to the set of stored sessions.                      *)
LEMMA WriteStored ==
  ASSUME HistoryInv, PageInv, Write
  PROVE  /\ page' = page
         /\ StoredInOrder' /\ Stored \subseteq Stored'
         /\ Cardinality(Stored) <= Cardinality(Stored') /\ Cardinality(Stored') \in Nat
<1>1. logs \in [Session -> Log] /\ logs' \in [Session -> Log]
  BY WriteFollows DEF HistoryInv
<1>2. PICK n \in 0 .. MaxSessions : Stored = 1 .. n
  BY DEF PageInv, StoredInOrder
<1>3. Cardinality(Stored) = n /\ n \in Nat /\ n + 1 \in Nat /\ Cardinality(1 .. (n + 1)) = n + 1
  <2>1. n \in Nat /\ n + 1 \in Nat
    BY HistoryAssumption
  <2> QED BY <2>1, <1>2, NewestFirstIs
<1>4. CASE Post
  <2>1. PICK s \in Session : /\ s = Cardinality(Stored) + 1 /\ UNCHANGED page
                             /\ logs' \in {[logs EXCEPT ![s] = l] : l \in Of(s)!Creations(logs[s])}
    BY <1>4 DEF Post
  <2>2. PICK l \in Of(s)!Creations(logs[s]) : logs' = [logs EXCEPT ![s] = l]
    BY <2>1
  <2>3. l = [logs[s] EXCEPT !.status = "running"]
    BY <2>2 DEF Of!Creations
  <2>4. l.status = "running"
    BY <2>3, <1>1 DEF Log
  <2>5. s = n + 1 /\ n + 1 \in 0 .. MaxSessions
    BY <2>1, <1>3, HistoryAssumption DEF Session
  <2>6. Stored' = Stored \cup {s}
    BY <2>1, <2>2, <2>4, <1>1 DEF Stored
  <2>7. Stored' = 1 .. (n + 1)
    BY <2>5, <2>6, <1>2
  <2>8. Cardinality(Stored') = n + 1
    BY <2>7, <1>3
  <2>9. StoredInOrder'
    BY <2>5, <2>7 DEF StoredInOrder
  <2> QED BY <2>1, <2>6, <2>8, <2>9, <1>3
<1>5. CASE \E s \in Session : Record(s) \/ Finalize(s)
  <2>0. PICK s \in Session : Record(s) \/ Finalize(s)
    BY <1>5
  <2>1. PICK l \in Of(s)!Seedings(logs[s]) \cup Of(s)!Saves(logs[s])
                  \cup Of(s)!Closings(logs[s]) \cup {logs[s]} :
          logs' = [logs EXCEPT ![s] = l] /\ UNCHANGED page
    BY <2>0 DEF Record, Finalize
  <2>2. l.status = "none" <=> logs[s].status = "none"
    BY <2>1, <1>1, StoredStays
  <2>3. Stored' = Stored
    BY <2>1, <2>2, <1>1 DEF Stored
  <2> QED BY <2>1, <2>3, <1>2, <1>3 DEF StoredInOrder
<1> QED BY <1>4, <1>5 DEF Write

(* What a page shows.                                                      *)
LEMMA ListPage ==
  ASSUME PageInv, NEW asked \in Limits, List(asked)
  PROVE  PageInv'
<1> DEFINE n == Cardinality(Stored)
           from == page.offset
           last == from + Limit(asked)
           hi == IF last < n THEN last ELSE n
           items == SubSeq(ByCreation, from + 1, hi)
<1>1. PICK k \in 0 .. MaxSessions : Stored = 1 .. k
  BY DEF PageInv, StoredInOrder
<1>2. /\ k \in Nat /\ n = k
      /\ ByCreation \in [1 .. k -> 1 .. k] /\ \A i \in 1 .. k : ByCreation[i] = k + 1 - i
  <2>1. k \in Nat
    BY HistoryAssumption
  <2> QED BY <1>1, <2>1, NewestFirstIs DEF ByCreation
<1>3. ByCreation \in Seq(1 .. k) /\ Len(ByCreation) = k
  BY <1>2
<1>4. /\ page \in [offset : Nat, seen : SUBSET Session, first : SUBSET Session, done : BOOLEAN]
      /\ page.first \subseteq Stored /\ from <= n /\ from \in Nat
      /\ \A s \in page.first : s \in page.seen \/ s + from <= n
  BY DEF PageInv
<1>5. Limit(asked) \in Nat \ {0}
  BY HistoryAssumption DEF Limit
<1>6. hi \in from .. k /\ (hi = from => hi = k)
  BY <1>2, <1>4, <1>5
<1>7. /\ page' = [offset |-> from + Len(items),
                  seen   |-> page.seen \cup Range(items),
                  first  |-> IF from = 0 THEN Stored ELSE page.first,
                  done   |-> items = <<>>]
      /\ UNCHANGED logs
  BY <1>2, <1>3 DEF List
<1>8. /\ items \in Seq(1 .. k) /\ Len(items) = hi - from
      /\ \A i \in 1 .. (hi - from) : items[i] = ByCreation[from + i]
  <2> DEFINE lo == from + 1
  <2>1. lo \in Int /\ hi \in Int /\ hi - lo + 1 = hi - from /\ hi - from \in Nat
        /\ (lo <= hi <=> hi - from # 0)
    BY <1>4, <1>6
  <2>2. \A i \in lo .. hi : ByCreation[i] \in 1 .. k
    <3>1. \A i \in lo .. hi : i \in 1 .. k
      BY <1>2, <1>4, <1>6
    <3> QED BY <3>1, <1>2
  <2>3. \A i \in 1 .. (hi - from) : lo + i - 1 = from + i
    BY <1>4, <1>6
  <2> HIDE DEF lo, hi
  <2>4. /\ SubSeq(ByCreation, lo, hi) \in Seq(1 .. k)
        /\ Len(SubSeq(ByCreation, lo, hi)) = IF lo <= hi THEN hi - lo + 1 ELSE 0
        /\ \A i \in 1 .. hi - lo + 1 : SubSeq(ByCreation, lo, hi)[i] = ByCreation[lo + i - 1]
    BY <2>1, <2>2, SubSeqProperties
  <2>5. items = SubSeq(ByCreation, lo, hi)
    BY DEF lo
  <2> HIDE DEF items
  <2> QED BY <2>1, <2>3, <2>4, <2>5
<1> HIDE DEF items, hi, last
<1>9. Len(items) \in Nat /\ (items = <<>> <=> hi = from) /\ from + Len(items) = hi
  <2>1. items = <<>> <=> Len(items) = 0
    BY <1>8, EmptySeq
  <2> QED BY <2>1, <1>4, <1>6, <1>8
<1>10. Range(items) \subseteq 1 .. k
  BY <1>8 DEF Range
<1>11. ASSUME NEW s \in 1 .. k, s + from <= k PROVE s \in Range(items) \/ s + hi <= k
  <2> SUFFICES ASSUME s + hi > k PROVE s \in Range(items)
    BY <1>2, <1>6
  <2> HIDE DEF from
  <2>0. hi \in Nat /\ from \in Nat /\ k \in Nat /\ s \in Nat /\ s <= k /\ s >= 1
    BY <1>2, <1>4, <1>6
  <2>1. PICK i \in Nat : i = (k + 1 - s) - from
    BY <2>0, <1>11
  <2>2. i \in 1 .. (hi - from) /\ from + i \in 1 .. k /\ k + 1 - (from + i) = s
    BY <2>0, <2>1, <1>11
  <2>3. items[i] = s
    BY <2>2, <1>2, <1>8
  <2>4. i \in DOMAIN items
    BY <2>2, <1>8
  <2> QED BY <2>3, <2>4 DEF Range
<1>12. Stored' = Stored /\ StoredInOrder'
  BY <1>7, <1>1 DEF Stored, StoredInOrder
<1>13. /\ page'.offset = hi /\ page'.seen = page.seen \cup Range(items)
       /\ page'.first = (IF from = 0 THEN Stored ELSE page.first) /\ page'.done = (items = <<>>)
  BY <1>7, <1>9
<1>14. page' \in [offset : Nat, seen : SUBSET Session, first : SUBSET Session, done : BOOLEAN]
  <2>1. Stored \subseteq Session /\ Range(items) \subseteq Session
    BY <1>1, <1>10 DEF Stored
  <2>2. hi \in Nat /\ (items = <<>>) \in BOOLEAN
    BY <1>4, <1>6
  <2> QED BY <2>1, <2>2, <1>4, <1>7, <1>9
<1>15. \A s \in page'.first : s \in 1 .. k /\ (s \in page'.seen \/ s + hi <= k)
  <2> SUFFICES ASSUME NEW s \in page'.first, s \notin page'.seen
               PROVE  s \in 1 .. k /\ s + hi <= k
    BY <1>1, <1>4, <1>13
  <2>1. s \in 1 .. k /\ s + from <= k
    BY <1>1, <1>2, <1>4, <1>13
  <2>2. s \notin Range(items)
    BY <1>13
  <2> QED BY <2>1, <2>2, <1>11
<1>16. NoSkip'
  <2> SUFFICES ASSUME page'.done, NEW s \in page'.first PROVE s \in page'.seen
    BY DEF NoSkip
  <2>1. hi = k
    BY <1>6, <1>9, <1>13
  <2> QED BY <2>1, <1>2, <1>15
<1>17. Cardinality(Stored') = k
  BY <1>2, <1>12
<1>18. page'.first \subseteq Stored' /\ page'.offset <= Cardinality(Stored')
       /\ \A s \in page'.first : s \in page'.seen \/ s + page'.offset <= Cardinality(Stored')
  BY <1>1, <1>2, <1>6, <1>12, <1>13, <1>15, <1>17
<1> QED BY <1>12, <1>14, <1>16, <1>18 DEF PageInv

LEMMA PageStep == HistoryInv /\ PageInv /\ [Next]_vars => PageInv'
<1> SUFFICES ASSUME HistoryInv, PageInv, [Next]_vars PROVE PageInv'
  OBVIOUS
<1>1. CASE Serve /\ Write
  <2>1. /\ page' = page /\ StoredInOrder' /\ Stored \subseteq Stored'
        /\ Cardinality(Stored) <= Cardinality(Stored') /\ Cardinality(Stored') \in Nat
    BY <1>1, WriteStored
  <2>2. Cardinality(Stored) \in Nat
    <3>1. PICK n \in 0 .. MaxSessions : Stored = 1 .. n
      BY DEF PageInv, StoredInOrder
    <3> QED BY <3>1, NewestFirstIs, HistoryAssumption
  <2>3. \A s \in page.first : s \in Nat
    BY DEF PageInv, Session
  <2> QED BY <2>1, <2>2, <2>3 DEF PageInv, NoSkip
<1>2. CASE \E asked \in Limits : List(asked)
  BY <1>2, ListPage
<1>3. CASE UNCHANGED <<logs, page>>
  BY <1>3 DEF PageInv, StoredInOrder, Stored, NoSkip
<1> QED
  BY <1>1, <1>2, <1>3 DEF Next, Serve, Read, GetRow, GetTasks, GetFails, Down, CutOff, Run, Idle,
     vars, historyVars

(* A client that pages through the history misses no session that was      *)
(* there when it began.                                                    *)
THEOREM NoSkipHolds == Spec => []NoSkip
<1>1. PageInv => NoSkip
  BY DEF PageInv
<1>2. Init => HistoryInv /\ PageInv
  BY HistoryStart, PageInit
<1>3. HistoryInv /\ PageInv /\ [Next]_vars => (HistoryInv /\ PageInv)'
  BY HistoryStep, PageStep
<1> QED BY <1>1, <1>2, <1>3, PTL DEF Spec
===============================================================================
