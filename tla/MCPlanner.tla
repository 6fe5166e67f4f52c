------------------------------- MODULE MCPlanner -------------------------------
(***************************************************************************)
(* Plans of up to three subtasks, of which two are allowed, in a plain     *)
(* reply; and a fit plan in objects with and without braces in a string,   *)
(* cut off or missing, between prose with and without braces, in which     *)
(* there may be a draft: another fit plan.                                 *)
(***************************************************************************)
EXTENDS Planner

o == "open"
c == "close"
q == "quote"
t == "text"

MCName == {"", "t1", "t2", "t3", "t9", "what", "why", "how"}

MCBlank == ""

Task(id, question, deps) == [id |-> id, question |-> question, deps |-> deps]

Fork  == <<Task("t1", "what", {}), Task("t2", "why", {})>>
Chain == <<Task("t1", "what", {"t2"}), Task("t2", "why", {})>>

Tasks ==
  {<<>>, Fork, Chain, Append(Fork, Task("t3", "how", {})),
   <<Task("t1", "what", {"t2"}), Task("t2", "why", {"t1"})>>,
   <<Task("t1", "what", {"t1"})>>,
   <<Task("t1", "what", {"t9"})>>,
   <<Task("t1", "what", {}), Task("t1", "why", {})>>,
   <<Task("", "what", {})>>,
   <<Task("t1", "", {})>>}

Prose == {<<>>, <<t>>, <<o>>, <<c>>, <<o, t, c>>}

Objects ==
  {<<>>, <<o, c>>, <<o, q, t, q, o, q, t, q, c, c>>,
   <<o, q, c, q, c>>, <<o, q, o, q, c>>, <<o, q, o, t, c, q, c>>,
   <<o, q, t, q>>, <<o, q, t>>}

MCReplies ==
  [before : {<<t>>}, object : {<<o, q, t, q, c>>}, after : {<<>>}, subtasks : Tasks,
   draft : {<<>>}]
    \cup [before : Prose, object : Objects, after : Prose, subtasks : {Fork}, draft : {<<>>}]
    \cup [before : {<<o, t, c>>}, object : Objects, after : Prose, subtasks : {Fork},
          draft : {Chain}]
===============================================================================
