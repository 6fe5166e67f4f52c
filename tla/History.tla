------------------------------- MODULE History -------------------------------
(***************************************************************************)
(* The sessions in Postgres while requests write them and a client reads   *)
(* them back over GET /api/research and /api/research/:id.  Every session  *)
(* is a SessionLog that its request writes; a request may be cut off at    *)
(* any time.  A detail is read with two statements and a listing with one  *)
(* per page, so the sessions change in between.                            *)
(***************************************************************************)
EXTENDS Integers, Sequences, SequencesExt

CONSTANTS
  Task,           \* the subtasks of a session's plan
  MaxSessions,    \* bound: sessions created
  DefaultLimit,   \* ListSessions: 20
  MaxLimit,       \* ListSessions: 100
  Limits          \* the limits a client may ask for

ASSUME HistoryAssumption ==
  /\ MaxSessions \in Nat
  /\ DefaultLimit \in Nat \ {0} /\ MaxLimit \in Nat \ {0}
  /\ Limits \subseteq Int

Session == 1 .. MaxSessions     \* in the order of created_at

VARIABLES
  logs,      \* session -> its rows, a SessionLog
  serving,   \* the sessions whose request is running
  client,    \* what the client is doing
  shown,     \* the last detail it was given
  page       \* its listing: how far, what it saw, what there was at first

historyVars == <<logs, serving, client, shown, page>>

Of(s) == INSTANCE SessionLog WITH log <- logs[s]

NoLog == Of(1)!NoLog

Stored == {s \in Session : logs[s].status # "none"}

(* A client either watches a session or goes through the list.             *)
HistoryInit ==
  /\ logs = [s \in Session |-> NoLog]
  /\ serving = {}
  /\ client \in [role : {"watcher"}, session : Session, at : {"idle"}, head : {NoLog}]
       \cup [role : {"lister"}, session : {0}, at : {"idle"}, head : {NoLog}]
  /\ shown = NoLog
  /\ page = [offset |-> 0, seen |-> {}, first |-> {}, done |-> FALSE]

-------------------------------------------------------------------------------
(* The requests that write.                                                *)

(* handleResearch inserts the next session; if that fails, nothing is      *)
(* stored and the request ends with 500.                                   *)
Post ==
  \E s \in Session :
    /\ s = Cardinality(Stored) + 1
    /\ logs' \in {[logs EXCEPT ![s] = l] : l \in Of(s)!Creations(logs[s])}
    /\ serving' = serving \cup {s}
    /\ UNCHANGED <<client, shown, page>>

Record(s) ==
  /\ s \in serving
  /\ \E l \in Of(s)!Seedings(logs[s]) \cup Of(s)!Saves(logs[s]) : logs' = [logs EXCEPT ![s] = l]
  /\ UNCHANGED <<serving, client, shown, page>>

(* Finalize, whose statement may fail: then the session stays running.     *)
Finalize(s) ==
  /\ s \in serving
  /\ \E l \in Of(s)!Closings(logs[s]) \cup {logs[s]} : logs' = [logs EXCEPT ![s] = l]
  /\ serving' = serving \ {s}
  /\ UNCHANGED <<client, shown, page>>

-------------------------------------------------------------------------------
(* GetSession: the session's row, then the rows of its tasks.              *)

(* Mutant: the tasks are read first, so that the session's row is newer.   *)
TasksFirst(first, second) == [first EXCEPT !.status = second.status]

Detail(first, second) == [second EXCEPT !.status = first.status]

GetRow ==
  /\ client.role = "watcher" /\ client.at = "idle"
  /\ client.session \in Stored     \* else 404
  /\ client' = [client EXCEPT !.at = "rows", !.head = logs[client.session]]
  /\ UNCHANGED <<logs, serving, shown, page>>

Rest == client' = [client EXCEPT !.at = "idle", !.head = NoLog]

GetTasks ==
  /\ client.at = "rows"
  /\ shown' = Detail(client.head, logs[client.session])
  /\ Rest
  /\ UNCHANGED <<logs, serving, page>>

GetFails ==
  /\ client.at = "rows"
  /\ Rest
  /\ UNCHANGED <<logs, serving, shown, page>>

-------------------------------------------------------------------------------
(* ListSessions.                                                           *)

NewestFirst(S) ==
  CHOOSE rows \in [1 .. Cardinality(S) -> S] :
    \A i, j \in 1 .. Cardinality(S) : i < j => rows[i] > rows[j]

(* Mutant: ORDER BY completed_at DESC, which puts the running ones first.  *)
ByCompletion ==
  LET running == {s \in Stored : logs[s].status = "running"}
  IN NewestFirst(running) \o NewestFirst(Stored \ running)

ByCreation == NewestFirst(Stored)

Limit(asked) ==
  IF asked <= 0 THEN DefaultLimit ELSE IF asked > MaxLimit THEN MaxLimit ELSE asked

(* LIMIT and OFFSET; the client goes on behind what it got, until it gets  *)
(* nothing.                                                                *)
List(asked) ==
  LET rows  == ByCreation
      last  == page.offset + Limit(asked)
      items == SubSeq(rows, page.offset + 1, IF last < Len(rows) THEN last ELSE Len(rows))
  IN /\ client.role = "lister" /\ ~ page.done
     /\ page' = [offset |-> page.offset + Len(items),
                 seen   |-> page.seen \cup Range(items),
                 first  |-> IF page.offset = 0 THEN Stored ELSE page.first,
                 done   |-> items = <<>>]
     /\ UNCHANGED <<logs, serving, client, shown>>

(* The server dies, and every request with it.                             *)
CutOff ==
  /\ serving' = {}
  /\ Rest
  /\ UNCHANGED <<logs, shown, page>>

Write == Post \/ \E s \in Session : Record(s) \/ Finalize(s)

Read == GetRow \/ GetTasks \/ GetFails \/ \E asked \in Limits : List(asked)

-------------------------------------------------------------------------------
(* A detail that calls the session completed has the outcome of every      *)
(* subtask, although its two halves were read at different times, unless a *)
(* statement that should have stored one failed.                           *)
DetailWhole ==
  shown.status = "completed" => shown.lost \/ \A t \in Task : shown.rows[t] = "done"

StatusRank == [none |-> 0, running |-> 1, completed |-> 2, failed |-> 2]

(* A client that asks again never sees a session or a subtask go back, be  *)
(* it to an earlier status or from one outcome to the other, whatever      *)
(* failed or died in between.                                              *)
NeverBackwards ==
  [][ /\ shown'.status = shown.status \/ StatusRank[shown'.status] > StatusRank[shown.status]
      /\ \A t \in Task :
           \/ shown'.rows[t] = shown.rows[t]
           \/ Of(1)!Rank[shown'.rows[t]] > Of(1)!Rank[shown.rows[t]] ]_shown

(* A client that pages through the history misses no session that was      *)
(* there when it began, although sessions are created and closed between   *)
(* two pages.                                                              *)
NoSkip == page.done => page.first \subseteq page.seen
===============================================================================
