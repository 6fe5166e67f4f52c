-------------------------------- MODULE Limiter --------------------------------
(***************************************************************************)
(* ratelimit.Limiter (internal/ratelimit/limiter.go): a token bucket and a *)
(* semaphore that many callers share.  Acquire waits for a token and then  *)
(* for a slot, TryAcquire takes what is there; the release function that   *)
(* both return gives back the slot and never the token.  A caller calls    *)
(* its release exactly once, after an error too, as Acquire demands.       *)
(***************************************************************************)
EXTENDS Integers, FiniteSets

CONSTANTS
  Client,     \* the callers
  Limiters,   \* the arguments of New: [qps, burst, maxInFlight]; qps in tenths
  MaxTicks,   \* bound: how often the bucket is refilled
  MaxCalls    \* bound: how many calls are made

ASSUME ClientAssumption == IsFiniteSet(Client)
ASSUME LimitersAssumption ==
  Limiters \subseteq [qps : Int, burst : Int, maxInFlight : Int]
ASSUME BoundsAssumption == MaxTicks \in Nat /\ MaxCalls \in Nat

VARIABLES
  limiter,    \* the arguments it was made with
  tokens,     \* in the bucket
  sem,        \* in the channel
  pc,         \* client -> idle, token, slot: what it waits for; admitted, refused
  ended,      \* client -> the context of its call is done
  ticks,      \* how often a token was added
  calls,      \* how many calls were made
  admissions  \* history: how many of them were admitted

vars == <<limiter, tokens, sem, pc, ended, ticks, calls, admissions>>

(* The defaults of New.                                                    *)
HasRate == limiter.qps > 0
HasSem  == limiter.maxInFlight > 0

(* Mutant: the burst is int(qps) also if that is zero.                     *)
BurstOfRate(l) == IF l.burst >= 1 THEN l.burst ELSE l.qps \div 10

Burst(l) ==
  IF l.burst >= 1 THEN l.burst ELSE IF l.qps \div 10 >= 1 THEN l.qps \div 10 ELSE 1

Init ==
  /\ limiter \in Limiters
  /\ tokens = Burst(limiter)
  /\ sem = 0
  /\ pc = [c \in Client |-> "idle"]
  /\ ended = [c \in Client |-> FALSE]
  /\ ticks = 0 /\ calls = 0 /\ admissions = 0

Goes(c, p) == pc' = [pc EXCEPT ![c] = p]

Admit(c) == Goes(c, "admitted") /\ admissions' = admissions + 1

(* The context of a call may be done already: Wait refuses it, a limiter   *)
(* without a rate does not ask yet.                                        *)
Acquire(c) ==
  /\ pc[c] = "idle" /\ calls < MaxCalls
  /\ calls' = calls + 1
  /\ \E done \in BOOLEAN :
       /\ ended' = [ended EXCEPT ![c] = done]
       /\ Goes(c, IF ~ HasRate THEN "slot" ELSE IF done THEN "refused" ELSE "token")
  /\ UNCHANGED <<limiter, tokens, sem, ticks, admissions>>

TakeToken(c) ==
  /\ pc[c] = "token" /\ tokens > 0
  /\ tokens' = tokens - 1
  /\ Goes(c, "slot")
  /\ UNCHANGED <<limiter, sem, ended, ticks, calls, admissions>>

(* No token, or another Acquire that waits has claimed the last.           *)
Contended(c) == tokens = 0 \/ \E d \in Client \ {c} : pc[d] = "token"

(* The error is the context's, or Wait foresees that its deadline passes   *)
(* before the token comes.                                                 *)
WaitFails(c) ==
  /\ pc[c] = "token"
  /\ ended[c] \/ Contended(c)
  /\ Goes(c, "refused")
  /\ UNCHANGED <<limiter, tokens, sem, ended, ticks, calls, admissions>>

Room == HasSem => sem < limiter.maxInFlight

(* The select: a slot that is free may be taken although the context is    *)
(* done, and without a semaphore nothing is asked.                         *)
TakeSlot(c) ==
  /\ pc[c] = "slot" /\ Room
  /\ sem' = IF HasSem THEN sem + 1 ELSE sem
  /\ Admit(c)
  /\ UNCHANGED <<limiter, tokens, ended, ticks, calls>>

(* Mutant: a select without the context.                                   *)
NeverGivesUp(c) == FALSE

GivesUp(c) == ended[c] /\ HasSem

(* The token is gone.                                                      *)
SlotFails(c) ==
  /\ pc[c] = "slot" /\ GivesUp(c)
  /\ Goes(c, "refused")
  /\ UNCHANGED <<limiter, tokens, sem, ended, ticks, calls, admissions>>

(* What TryAcquire takes from the bucket; 0 if it has nothing.             *)
(* Mutant: the bucket is not asked.                                        *)
NoSpend == 0
Spend == IF HasRate THEN 1 ELSE 0

(* Mutant: the answer of Allow is not looked at.                           *)
NotAsked == TRUE
Allow == tokens >= Spend

(* TryAcquire: refused for want of a token; or for want of a slot, and     *)
(* then the token is gone; or admitted.                                    *)
TryNoToken(c) ==
  /\ pc[c] = "idle" /\ calls < MaxCalls
  /\ HasRate /\ Contended(c)
  /\ Goes(c, "refused")
  /\ calls' = calls + 1
  /\ UNCHANGED <<limiter, tokens, sem, ended, ticks, admissions>>

TryAcquire(c) ==
  /\ pc[c] = "idle" /\ calls < MaxCalls
  /\ Allow
  /\ tokens' = tokens - Spend
  /\ IF Room
     THEN Admit(c) /\ sem' = (IF HasSem THEN sem + 1 ELSE sem)
     ELSE Goes(c, "refused") /\ UNCHANGED <<sem, admissions>>
  /\ calls' = calls + 1
  /\ UNCHANGED <<limiter, ended, ticks>>

(* The release function: a receive that takes nothing from an empty        *)
(* channel; the one that comes with an error does nothing.                 *)
(* Mutant: every release function receives.                                *)
AnyHolds(c) == HasSem

HoldsSlot(c) == pc[c] = "admitted" /\ HasSem

Release(c) ==
  /\ pc[c] \in {"admitted", "refused"}
  /\ sem' = IF HoldsSlot(c) /\ sem > 0 THEN sem - 1 ELSE sem
  /\ Goes(c, "idle")
  /\ UNCHANGED <<limiter, tokens, ended, ticks, calls, admissions>>

(* The caller's context ends.                                              *)
End(c) ==
  /\ ~ ended[c]
  /\ ended' = [ended EXCEPT ![c] = TRUE]
  /\ UNCHANGED <<limiter, tokens, sem, pc, ticks, calls, admissions>>

(* Time passes: the bucket gets a token, if it is not full.                *)
Tick ==
  /\ HasRate /\ tokens < Burst(limiter) /\ ticks < MaxTicks
  /\ tokens' = tokens + 1 /\ ticks' = ticks + 1
  /\ UNCHANGED <<limiter, sem, pc, ended, calls, admissions>>

Waits(c) == TakeToken(c) \/ WaitFails(c) \/ TakeSlot(c) \/ SlotFails(c)

Next ==
  \/ \E c \in Client :
       Acquire(c) \/ Waits(c) \/ TryNoToken(c) \/ TryAcquire(c) \/ Release(c) \/ End(c)
  \/ Tick

Spec == Init /\ [][Next]_vars

(* A goroutine whose wait can end goes on.                                 *)
FairSpec == Spec /\ \A c \in Client : WF_vars(Waits(c))

-------------------------------------------------------------------------------
Admitted == {c \in Client : pc[c] = "admitted"}
AtToken  == {c \in Client : pc[c] = "token"}
AtSlot   == {c \in Client : pc[c] = "slot"}

TypeOK ==
  /\ limiter \in Limiters
  /\ tokens \in 0 .. Burst(limiter)
  /\ sem \in Nat
  /\ pc \in [Client -> {"idle", "token", "slot", "admitted", "refused"}]
  /\ ended \in [Client -> BOOLEAN]
  /\ ticks \in 0 .. MaxTicks /\ calls \in 0 .. MaxCalls /\ admissions \in Nat

(* The channel holds one element for every admitted caller and none else,  *)
(* however calls fail, give up or are released, so the cap on the calls in *)
(* flight is exact: never exceeded, and no slot is ever lost.              *)
SlotsExact ==
  IF HasSem THEN sem = Cardinality(Admitted) /\ sem <= limiter.maxInFlight ELSE sem = 0

(* No more calls are admitted than the burst and the time that passed      *)
(* allow, by Acquire and TryAcquire together.  And the bucket is dry only  *)
(* if earlier calls have dried it: a caller that waits has not spent yet,  *)
(* so the first call of a limiter that rested is never kept waiting, for   *)
(* a rate below one and the default burst too.                             *)
RateCap ==
  HasRate =>
    /\ admissions + tokens + Cardinality(AtSlot) <= Burst(limiter) + ticks
    /\ tokens + calls > ticks + Cardinality(AtToken)

(* An Acquire whose context is done returns, even if no slot and no token  *)
(* ever comes.                                                             *)
EndReturns ==
  \A c \in Client : ended[c] /\ pc[c] \in {"token", "slot"} ~> pc[c] \in {"admitted", "refused"}
===============================================================================
