----------------------------- MODULE NodeResearch -----------------------------
(***************************************************************************)
(* The calls of Research as the nodes of the scheduler make them: a call   *)
(* that fails is made again, from nothing, while the cache remembers what  *)
(* the failed one had found (internal/agent/orchestrator, execute in       *)
(* internal/agent/dag/scheduler.go).  When every node has its findings the *)
(* writer numbers the references of the whole report.                      *)
(***************************************************************************)
EXTENDS Researcher

CONSTANT MaxRetry     \* agent -> additional calls of its node

ASSUME MaxRetryAssumption == MaxRetry \in [Agent -> Nat]

VARIABLES
  left,     \* agent -> retries its node has left
  earlier   \* history: agent -> the searches of the calls that failed

nodeVars == <<vars, left, earlier>>

NodeInit == Init /\ left = MaxRetry /\ earlier = [a \in Agent |-> 0]

(* The searches of this call: those that ended, and the one it is at or    *)
(* failed in.                                                              *)
Begun(a) == Len(taken[a]) + (IF queries[a] = <<>> THEN 0 ELSE 1)

(* Mutant: the failed call is not counted.                                 *)
NotCounted(a) == UNCHANGED <<left, earlier>>

Count(a) ==
  /\ left' = [left EXCEPT ![a] = @ - 1]
  /\ earlier' = [earlier EXCEPT ![a] = @ + Begun(a)]

(* The next turn of execute's loop calls Research again.                   *)
Retry(a) ==
  /\ phase[a] = "failed" /\ left[a] > 0
  /\ Count(a)
  /\ phase' = [phase EXCEPT ![a] = "lookup"]
  /\ round' = [round EXCEPT ![a] = 1]
  /\ queries' = [queries EXCEPT ![a] = <<Question[a]>>]
  /\ ordered' = [ordered EXCEPT ![a] = <<>>]
  /\ fetched' = [fetched EXCEPT ![a] = <<>>]
  /\ attempt' = [attempt EXCEPT ![a] = 1]
  /\ feedback' = [feedback EXCEPT ![a] = 0]
  /\ taken' = [taken EXCEPT ![a] = <<>>]
  /\ reviews' = [reviews EXCEPT ![a] = <<>>]
  /\ UNCHANGED <<opts, cache, provided>>

Ended(a) == phase[a] = "done" \/ (phase[a] = "failed" /\ left[a] = 0)

NodeStep(a) == (Step(a) /\ UNCHANGED <<left, earlier>>) \/ Retry(a)

NodeNext ==
  \/ \E a \in Agent : NodeStep(a)
  \/ \E k \in Keys : Expire(k) /\ UNCHANGED <<left, earlier>>
  \/ (\A a \in Agent : Ended(a)) /\ UNCHANGED nodeVars

(* Every call of the model, the provider and Redis returns: they are made  *)
(* under the context of an attempt, which has a timeout.                   *)
NodeSpec ==
  /\ NodeInit /\ [][NodeNext]_nodeVars
  /\ \A a \in Agent : WF_nodeVars(NodeStep(a))

-------------------------------------------------------------------------------
(* What one call of Research may cost, and the calls of a node so far.     *)
CallBudget(a) == 1 + (opts[a].rounds - 1) * opts[a].followUps

CallsMade(a) == 1 + (MaxRetry[a] - left[a])

(* A sub-question is called once, and once more for every retry its node   *)
(* has; and all its calls together cost for each of them at most one       *)
(* search and MaxFollowUpQueries more for every further round, whatever    *)
(* the model proposes and wherever the calls fail.  A search that fails    *)
(* counts, and one that the cache answers counts as well.                  *)
SearchBudget ==
  \A a \in Agent :
    /\ CallsMade(a) \in 1 .. MaxRetry[a] + 1
    /\ earlier[a] + Begun(a) <= CallsMade(a) * CallBudget(a)

(* Mutant: the URLs are noted per findings.                                *)
Concatenated(citations) == FlattenSeq(citations)

(* The consolidated references of the writer's buildPrompt.                *)
References(citations) == DedupAppend(<<>>, FlattenSeq(citations))

(* The table of references the writer is given for its report has every    *)
(* source that some researcher cited, once, under the title it was first   *)
(* cited with, however often a node was retried and whatever the cache     *)
(* gave to another.                                                        *)
EverySourceOnce ==
  (\A a \in Agent : phase[a] = "done") =>
    \A plan \in SetToSeqs(Agent) :
      LET cited == [i \in DOMAIN plan |-> ordered[plan[i]]]
          refs  == References(cited)
      IN /\ IsInjective([k \in DOMAIN refs |-> refs[k].url])
         /\ UrlsOf(refs) = UNION {UrlsOf(ordered[a]) : a \in Agent}
         /\ \A k \in DOMAIN refs : \E i \in DOMAIN plan :
              /\ refs[k] \in Range(cited[i])
              /\ \A j \in 1 .. (i - 1) : refs[k].url \notin UrlsOf(cited[j])

(* Every node ends, however the model proposes further queries, the critic *)
(* rejects, entries expire and calls fail.                                 *)
Returns == \A a \in Agent : <>Ended(a)
===============================================================================
