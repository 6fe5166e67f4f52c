------------------------------- MODULE Service -------------------------------
(***************************************************************************)
(* The server, started, killed and started again, over the history that    *)
(* its lives share in Postgres: requests are served only while it is up,   *)
(* all end when it dies, and none is taken up again by the next life.      *)
(***************************************************************************)
EXTENDS Startup, History

CONSTANT Request     \* the client's credentials: xApiKey and authorization

vars == <<startupVars, historyVars>>

Init == StartupInit /\ HistoryInit

Serve ==
  /\ stage = "serving"
  /\ Write \/ (Authorised(Request) /\ Read)
  /\ UNCHANGED startupVars

Down == Die /\ CutOff

(* log.Fatalf comes before the first request or after the last.            *)
Run == (Start \/ Boot \/ Toggle) /\ UNCHANGED historyVars

Idle == stage \in {"down", "exited"} /\ starts = MaxStarts /\ UNCHANGED vars

(* The server need not be started again, and requests need not come.       *)
Next == Run \/ Down \/ Serve \/ Idle

(* main goes on with its boot: every ping has an end, as has the pause.    *)
Spec == Init /\ [][Next]_vars /\ WF_vars(Boot /\ UNCHANGED historyVars)
===============================================================================
