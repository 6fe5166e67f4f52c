-------------------------- MODULE NodeResearchInvariant --------------------------
(***************************************************************************)
(* The inductive invariant behind the properties of Researcher and of      *)
(* NodeResearch, in parts that do not need one another: how much has been  *)
(* searched, where the answers come from, what the citations are, and what *)
(* the critic has said.                                                    *)
(***************************************************************************)
EXTENDS NodeResearch

Searching(a) == phase[a] \in {"lookup", "ask", "store"}

(* The searches done, and in the middle of a round those to come, are what *)
(* the rounds so far allow; a round follows only if there is one left.     *)
Searched(a) ==
  /\ round[a] \in 1 .. opts[a].rounds
  /\ Searching(a) => queries[a] # <<>>
  /\ phase[a] = "plan" => round[a] < opts[a].rounds
  /\ Len(taken[a]) + Len(queries[a]) <= 1 + (round[a] - 1) * opts[a].followUps

(* The calls that failed kept to the budget of a call.                     *)
Afforded(a) ==
  /\ left[a] \in 0 .. MaxRetry[a]
  /\ earlier[a] <= (MaxRetry[a] - left[a]) * CallBudget(a)

(* A key of the cache stands for one provider, and an entry is an answer   *)
(* of that provider; so is what is on the way to the cache.                *)
Sourced ==
  /\ \A k \in Keys : Range(cache[k]) \subseteq provided[k]
  /\ \A a \in Agent :
       /\ phase[a] = "store" => fetched[a] \in provided[<<opts[a].provider, Head(queries[a])>>]
       /\ \A i \in DOMAIN taken[a] :
            taken[a][i].items \in provided[<<opts[a].provider, taken[a][i].query>>]

(* Every review before the one that ends the call rejected its draft, and  *)
(* the next attempt knows of it.                                           *)
Reviewed(a) ==
  opts[a].critic =>
    /\ attempt[a] \in 1 .. MaxAttempts(a)
    /\ feedback[a] = attempt[a] - 1
    /\ Len(reviews[a]) = IF phase[a] = "done" THEN attempt[a] ELSE attempt[a] - 1
    /\ \A k \in DOMAIN reviews[a] :
         /\ reviews[a][k].attempt = k /\ reviews[a][k].told = k - 1
         /\ k < Len(reviews[a]) \/ phase[a] # "done" => ~ reviews[a][k].pass
    /\ phase[a] = "done" => reviews[a][attempt[a]].pass \/ attempt[a] = MaxAttempts(a)

IInv ==
  /\ TypeOK /\ left \in [Agent -> Nat] /\ earlier \in [Agent -> Nat]
  /\ Sourced
  /\ \A a \in Agent : Searched(a) /\ Afforded(a) /\ Reviewed(a)
  /\ FirstSeen
===============================================================================
