------------------------------ MODULE SessionLog ------------------------------
(***************************************************************************)
(* What Postgres holds of one research session, and how it may evolve: the *)
(* row of research_sessions and the rows of its tasks.  This is all that   *)
(* the readers of the history know; ResearchPipeline implements it with    *)
(* the engine, the handler and the recorder, and History is made of it.    *)
(***************************************************************************)
EXTENDS Naturals

CONSTANT Task     \* the subtasks of the session's plan

Rank == [absent |-> 0, pending |-> 1, running |-> 2, done |-> 3, failed |-> 3]

Row == DOMAIN Rank

(* lost: some statement on research_tasks failed.                          *)
Log == [status : {"none", "running", "completed", "failed"},
        rows : [Task -> Row], lost : BOOLEAN]

NoLog == [status |-> "none", rows |-> [t \in Task |-> "absent"], lost |-> FALSE]

(* Nothing is written once the session is closed.                          *)
Open(l) == l.status = "running"

(* CreateSession.                                                          *)
Creations(l) == {m \in {[l EXCEPT !.status = "running"]} : l.status = "none"}

(* The recorder at the plan: a row for every task, unless statements fail. *)
Seedings(l) ==
  IF Open(l) /\ l.rows = NoLog.rows /\ ~ l.lost
  THEN {[status |-> l.status,
         rows |-> [t \in Task |-> IF t \in F THEN "absent" ELSE "pending"],
         lost |-> F # {}] : F \in SUBSET Task}
  ELSE {}

(* Mutant: an older status overwrites a newer one.                         *)
AnyWay(old, new) == new \in {"running", "done", "failed"}

(* Statuses of a task only ever get more final.                            *)
Forward(old, new) ==
  /\ new \in {"running", "done", "failed"}
  /\ new = old \/ Rank[new] > Rank[old]

(* The UpsertTask of a node's event, which may fail.                       *)
Saves(l) ==
  IF Open(l)
  THEN {[l EXCEPT !.lost = TRUE]} \cup
       UNION {{[l EXCEPT !.rows[t] = r] : r \in {x \in Row : Forward(l.rows[t], x)}} : t \in Task}
  ELSE {}

(* Mutant: the report decides alone.                                       *)
AnyRows(l) == TRUE

Whole(l) == l.lost \/ \A t \in Task : l.rows[t] = "done"

(* CompleteSession: completed only if every subtask succeeded, so that all *)
(* rows say so which could be written.                                     *)
Closings(l) ==
  {m \in {[l EXCEPT !.status = s] : s \in {"completed", "failed"}} :
     Open(l) /\ (m.status = "completed" => Whole(l))}

After(l) == Creations(l) \cup Seedings(l) \cup Saves(l) \cup Closings(l)

VARIABLE log

Init == log = NoLog

Next == log' \in After(log)

Spec == Init /\ [][Next]_log
===============================================================================
