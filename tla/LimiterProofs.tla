----------------------------- MODULE LimiterProofs -----------------------------
(***************************************************************************)
(* Proofs about Limiter: for any number of callers and any arguments of    *)
(* New, the semaphore is exact and the rate is kept.                       *)
(***************************************************************************)
EXTENDS Limiter, FiniteSetTheorems, TLAPS

LimiterInv == TypeOK /\ SlotsExact /\ RateCap

-------------------------------------------------------------------------------
LEMMA BurstType == ASSUME NEW l \in Limiters PROVE Burst(l) \in Nat \ {0}
BY LimitersAssumption DEF Burst

LEMMA Counted ==
  ASSUME TypeOK
  PROVE  /\ IsFiniteSet(Admitted) /\ Cardinality(Admitted) \in Nat
         /\ IsFiniteSet(AtToken) /\ Cardinality(AtToken) \in Nat
         /\ IsFiniteSet(AtSlot) /\ Cardinality(AtSlot) \in Nat
<1>1. Admitted \in SUBSET Client /\ AtToken \in SUBSET Client /\ AtSlot \in SUBSET Client
  BY DEF Admitted, AtToken, AtSlot
<1>2. IsFiniteSet(Admitted) /\ IsFiniteSet(AtToken) /\ IsFiniteSet(AtSlot)
  BY <1>1, FS_Subset, ClientAssumption
<1> QED BY <1>2, FS_CardinalityType

(* One caller goes from one place to another: the counts follow.           *)
LEMMA Moves ==
  ASSUME TypeOK, NEW c \in Client, NEW p \in {"idle", "token", "slot", "admitted", "refused"},
         pc[c] # p, Goes(c, p)
  PROVE  /\ Cardinality(Admitted') =
              IF p = "admitted" THEN Cardinality(Admitted) + 1
              ELSE IF pc[c] = "admitted" THEN Cardinality(Admitted) - 1 ELSE Cardinality(Admitted)
         /\ Cardinality(AtToken') =
              IF p = "token" THEN Cardinality(AtToken) + 1
              ELSE IF pc[c] = "token" THEN Cardinality(AtToken) - 1 ELSE Cardinality(AtToken)
         /\ Cardinality(AtSlot') =
              IF p = "slot" THEN Cardinality(AtSlot) + 1
              ELSE IF pc[c] = "slot" THEN Cardinality(AtSlot) - 1 ELSE Cardinality(AtSlot)
<1>1. pc' = [pc EXCEPT ![c] = p] /\ pc \in [Client -> {"idle", "token", "slot", "admitted", "refused"}]
  BY DEF Goes, TypeOK
<1>2. /\ Admitted' = IF p = "admitted" THEN Admitted \cup {c} ELSE Admitted \ {c}
      /\ AtToken' = IF p = "token" THEN AtToken \cup {c} ELSE AtToken \ {c}
      /\ AtSlot' = IF p = "slot" THEN AtSlot \cup {c} ELSE AtSlot \ {c}
  BY <1>1 DEF Admitted, AtToken, AtSlot
<1>3. /\ c \in Admitted <=> pc[c] = "admitted"
      /\ c \in AtToken <=> pc[c] = "token"
      /\ c \in AtSlot <=> pc[c] = "slot"
  BY DEF Admitted, AtToken, AtSlot
<1>4. ASSUME NEW S, IsFiniteSet(S)
      PROVE  /\ c \notin S => Cardinality(S \cup {c}) = Cardinality(S) + 1
             /\ Cardinality(S \ {c}) =
                  IF c \in S THEN Cardinality(S) - 1 ELSE Cardinality(S)
  BY <1>4, FS_AddElement, FS_RemoveElement
<1>5. Cardinality(Admitted') =
        IF p = "admitted" THEN Cardinality(Admitted) + 1
        ELSE IF pc[c] = "admitted" THEN Cardinality(Admitted) - 1 ELSE Cardinality(Admitted)
  <2>1. /\ c \notin Admitted => Cardinality(Admitted \cup {c}) = Cardinality(Admitted) + 1
        /\ Cardinality(Admitted \ {c}) =
             IF c \in Admitted THEN Cardinality(Admitted) - 1 ELSE Cardinality(Admitted)
    BY <1>4, Counted
  <2>2. p = "admitted" => c \notin Admitted
    BY <1>3
  <2>3. CASE p = "admitted"
    BY <1>2, <2>1, <2>2, <2>3
  <2>4. CASE p # "admitted"
    BY <1>2, <1>3, <2>1, <2>4
  <2> QED BY <2>3, <2>4
<1>6. Cardinality(AtToken') =
        IF p = "token" THEN Cardinality(AtToken) + 1
        ELSE IF pc[c] = "token" THEN Cardinality(AtToken) - 1 ELSE Cardinality(AtToken)
  <2>1. /\ c \notin AtToken => Cardinality(AtToken \cup {c}) = Cardinality(AtToken) + 1
        /\ Cardinality(AtToken \ {c}) =
             IF c \in AtToken THEN Cardinality(AtToken) - 1 ELSE Cardinality(AtToken)
    BY <1>4, Counted
  <2>2. p = "token" => c \notin AtToken
    BY <1>3
  <2>3. CASE p = "token"
    BY <1>2, <2>1, <2>2, <2>3
  <2>4. CASE p # "token"
    BY <1>2, <1>3, <2>1, <2>4
  <2> QED BY <2>3, <2>4
<1>7. Cardinality(AtSlot') =
        IF p = "slot" THEN Cardinality(AtSlot) + 1
        ELSE IF pc[c] = "slot" THEN Cardinality(AtSlot) - 1 ELSE Cardinality(AtSlot)
  <2>1. /\ c \notin AtSlot => Cardinality(AtSlot \cup {c}) = Cardinality(AtSlot) + 1
        /\ Cardinality(AtSlot \ {c}) =
             IF c \in AtSlot THEN Cardinality(AtSlot) - 1 ELSE Cardinality(AtSlot)
    BY <1>4, Counted
  <2>2. p = "slot" => c \notin AtSlot
    BY <1>3
  <2>3. CASE p = "slot"
    BY <1>2, <2>1, <2>2, <2>3
  <2>4. CASE p # "slot"
    BY <1>2, <1>3, <2>1, <2>4
  <2> QED BY <2>3, <2>4
<1> QED BY <1>5, <1>6, <1>7

-------------------------------------------------------------------------------
LEMMA InitOK == Init => LimiterInv
<1> SUFFICES ASSUME Init PROVE LimiterInv
  OBVIOUS
<1>1. Admitted = {} /\ AtToken = {} /\ AtSlot = {}
  BY DEF Init, Admitted, AtToken, AtSlot
<1>2. Cardinality(Admitted) = 0 /\ Cardinality(AtToken) = 0 /\ Cardinality(AtSlot) = 0
  BY <1>1, FS_EmptySet
<1>3. limiter \in Limiters /\ Burst(limiter) \in Nat \ {0} /\ limiter.maxInFlight \in Int
  BY BurstType, LimitersAssumption DEF Init
<1>4. TypeOK
  BY <1>3, BoundsAssumption DEF Init, TypeOK
<1>5. SlotsExact /\ RateCap
  BY <1>2, <1>3 DEF Init, SlotsExact, RateCap, HasSem, HasRate
<1> QED BY <1>4, <1>5 DEF LimiterInv

LEMMA StepOK ==
  ASSUME LimiterInv, [Next]_vars
  PROVE  LimiterInv'
<1>t. /\ TypeOK /\ SlotsExact /\ RateCap /\ limiter \in Limiters
      /\ tokens \in 0 .. Burst(limiter) /\ sem \in Nat /\ calls \in 0 .. MaxCalls
      /\ admissions \in Nat /\ ticks \in 0 .. MaxTicks
      /\ pc \in [Client -> {"idle", "token", "slot", "admitted", "refused"}]
      /\ ended \in [Client -> BOOLEAN]
      /\ MaxTicks \in Nat /\ MaxCalls \in Nat
      /\ Cardinality(Admitted) \in Nat
      /\ Cardinality(AtToken) \in Nat /\ Cardinality(AtSlot) \in Nat
      /\ Burst(limiter) \in Nat \ {0} /\ limiter.maxInFlight \in Int
  BY Counted, BurstType, BoundsAssumption, LimitersAssumption DEF LimiterInv, TypeOK
<1>1. ASSUME NEW c \in Client, Acquire(c)
      PROVE  LimiterInv'
  <2>1. PICK p \in {"token", "slot", "refused"} :
          (HasRate => p # "slot") /\ Goes(c, p) /\ pc[c] = "idle"
    BY <1>1 DEF Acquire
  <2>2. /\ Cardinality(Admitted') = Cardinality(Admitted)
        /\ Cardinality(AtToken') <= Cardinality(AtToken) + 1
        /\ Cardinality(AtToken') \in Nat
        /\ HasRate => Cardinality(AtSlot') = Cardinality(AtSlot)
    BY <1>t, <2>1, Moves
  <2>3. TypeOK'
    BY <1>t, <1>1 DEF Acquire, TypeOK, Goes
  <2>4. SlotsExact'
    BY <1>t, <1>1, <2>1, <2>2 DEF Acquire, SlotsExact, HasSem
  <2>5. RateCap'
    BY <1>t, <1>1, <2>1, <2>2 DEF Acquire, RateCap, HasRate
  <2> QED BY <2>3, <2>4, <2>5 DEF LimiterInv
<1>2. ASSUME NEW c \in Client, TakeToken(c)
      PROVE  LimiterInv'
  <2>1. Goes(c, "slot") /\ pc[c] = "token"
    BY <1>2 DEF TakeToken
  <2>2. /\ Cardinality(Admitted') = Cardinality(Admitted)
        /\ Cardinality(AtSlot') = Cardinality(AtSlot) + 1
        /\ Cardinality(AtToken') = Cardinality(AtToken) - 1
    BY <1>t, <2>1, Moves
  <2>3. TypeOK'
    BY <1>t, <1>2 DEF TakeToken, TypeOK, Goes
  <2>4. SlotsExact'
    BY <1>t, <1>2, <2>1, <2>2 DEF TakeToken, SlotsExact, HasSem
  <2>5. RateCap'
    BY <1>t, <1>2, <2>1, <2>2 DEF TakeToken, RateCap, HasRate
  <2> QED BY <2>3, <2>4, <2>5 DEF LimiterInv
<1>3. ASSUME NEW c \in Client, WaitFails(c)
      PROVE  LimiterInv'
  <2>1. Goes(c, "refused") /\ pc[c] = "token"
    BY <1>3 DEF WaitFails
  <2>2. /\ Cardinality(Admitted') = Cardinality(Admitted)
        /\ Cardinality(AtSlot') = Cardinality(AtSlot)
        /\ Cardinality(AtToken') = Cardinality(AtToken) - 1
    BY <1>t, <2>1, Moves
  <2>3. TypeOK'
    BY <1>t, <1>3 DEF WaitFails, TypeOK, Goes
  <2>4. SlotsExact'
    BY <1>t, <1>3, <2>1, <2>2 DEF WaitFails, SlotsExact, HasSem
  <2>5. RateCap'
    BY <1>t, <1>3, <2>1, <2>2 DEF WaitFails, RateCap, HasRate
  <2> QED BY <2>3, <2>4, <2>5 DEF LimiterInv
<1>4. ASSUME NEW c \in Client, TakeSlot(c)
      PROVE  LimiterInv'
  <2>1. Goes(c, "admitted") /\ pc[c] = "slot"
    BY <1>4 DEF TakeSlot, Admit
  <2>2. /\ Cardinality(Admitted') = Cardinality(Admitted) + 1
        /\ Cardinality(AtSlot') = Cardinality(AtSlot) - 1
        /\ Cardinality(AtToken') = Cardinality(AtToken)
    BY <1>t, <2>1, Moves
  <2>3. TypeOK'
    BY <1>t, <1>4 DEF TakeSlot, TypeOK, Goes, Admit, Room
  <2>4. SlotsExact'
    BY <1>t, <1>4, <2>1, <2>2 DEF TakeSlot, SlotsExact, HasSem, Admit, Room
  <2>5. RateCap'
    BY <1>t, <1>4, <2>1, <2>2 DEF TakeSlot, RateCap, HasRate, Admit, Room
  <2> QED BY <2>3, <2>4, <2>5 DEF LimiterInv
<1>5. ASSUME NEW c \in Client, SlotFails(c)
      PROVE  LimiterInv'
  <2>1. Goes(c, "refused") /\ pc[c] = "slot"
    BY <1>5 DEF SlotFails
  <2>2. /\ Cardinality(Admitted') = Cardinality(Admitted)
        /\ Cardinality(AtSlot') = Cardinality(AtSlot) - 1
        /\ Cardinality(AtToken') = Cardinality(AtToken)
    BY <1>t, <2>1, Moves
  <2>3. TypeOK'
    BY <1>t, <1>5 DEF SlotFails, TypeOK, Goes
  <2>4. SlotsExact'
    BY <1>t, <1>5, <2>1, <2>2 DEF SlotFails, SlotsExact, HasSem
  <2>5. RateCap'
    BY <1>t, <1>5, <2>1, <2>2 DEF SlotFails, RateCap, HasRate
  <2> QED BY <2>3, <2>4, <2>5 DEF LimiterInv
<1>6. ASSUME NEW c \in Client, TryNoToken(c)
      PROVE  LimiterInv'
  <2>1. Goes(c, "refused") /\ pc[c] = "idle"
    BY <1>6 DEF TryNoToken
  <2>2. /\ Cardinality(Admitted') = Cardinality(Admitted)
        /\ Cardinality(AtSlot') = Cardinality(AtSlot)
        /\ Cardinality(AtToken') = Cardinality(AtToken)
    BY <1>t, <2>1, Moves
  <2>3. TypeOK'
    BY <1>t, <1>6 DEF TryNoToken, TypeOK, Goes
  <2>4. SlotsExact'
    BY <1>t, <1>6, <2>1, <2>2 DEF TryNoToken, SlotsExact, HasSem
  <2>5. RateCap'
    BY <1>t, <1>6, <2>1, <2>2 DEF TryNoToken, RateCap, HasRate
  <2> QED BY <2>3, <2>4, <2>5 DEF LimiterInv
<1>7. ASSUME NEW c \in Client, TryAcquire(c)
      PROVE  LimiterInv'
  <2>1. pc[c] = "idle" /\ (IF Room THEN Goes(c, "admitted") ELSE Goes(c, "refused"))
    BY <1>7 DEF TryAcquire, Admit
  <2>2. /\ Cardinality(Admitted') = IF Room THEN Cardinality(Admitted) + 1 ELSE Cardinality(Admitted)
        /\ Cardinality(AtSlot') = Cardinality(AtSlot)
        /\ Cardinality(AtToken') = Cardinality(AtToken)
    BY <1>t, <2>1, Moves
  <2>3. TypeOK'
    BY <1>t, <1>7 DEF TryAcquire, TypeOK, Goes, Admit, Room, Allow, Spend, HasRate
  <2>4. SlotsExact'
    BY <1>t, <1>7, <2>1, <2>2 DEF TryAcquire, SlotsExact, HasSem, Admit, Room, Spend
  <2>5. RateCap'
    BY <1>t, <1>7, <2>1, <2>2 DEF TryAcquire, RateCap, HasRate, Admit, Room, Allow, Spend
  <2> QED BY <2>3, <2>4, <2>5 DEF LimiterInv
<1>8. ASSUME NEW c \in Client, Release(c)
      PROVE  LimiterInv'
  <2>1. Goes(c, "idle") /\ pc[c] \in {"admitted", "refused"}
    BY <1>8 DEF Release
  <2>2. /\ Cardinality(Admitted') =
             IF pc[c] = "admitted" THEN Cardinality(Admitted) - 1 ELSE Cardinality(Admitted)
        /\ Cardinality(AtSlot') = Cardinality(AtSlot)
        /\ Cardinality(AtToken') = Cardinality(AtToken)
    BY <1>t, <2>1, Moves
  <2>3. TypeOK'
    BY <1>t, <1>8 DEF Release, TypeOK, Goes, HoldsSlot
  <2>4. SlotsExact'
    <3>1. pc[c] = "admitted" => Cardinality(Admitted) > 0
      <4>1. pc[c] = "admitted" => Admitted # {}
        BY DEF Admitted
      <4> QED BY <1>t, <4>1, Counted, FS_EmptySet
    <3>2. CASE pc[c] = "admitted"
      BY <1>t, <1>8, <2>2, <3>1, <3>2 DEF Release, SlotsExact, HasSem, HoldsSlot
    <3>3. CASE pc[c] = "refused"
      BY <1>t, <1>8, <2>2, <3>3 DEF Release, SlotsExact, HasSem, HoldsSlot
    <3> QED BY <2>1, <3>2, <3>3
  <2>5. RateCap'
    BY <1>t, <1>8, <2>1, <2>2 DEF Release, RateCap, HasRate, HoldsSlot
  <2> QED BY <2>3, <2>4, <2>5 DEF LimiterInv
<1>9. ASSUME NEW c \in Client, End(c)
      PROVE  LimiterInv'
  BY <1>t, <1>9 DEF End, LimiterInv, TypeOK, SlotsExact, RateCap, HasSem, HasRate, Admitted, AtToken, AtSlot
<1>10. CASE Tick
  BY <1>t, <1>10 DEF Tick, LimiterInv, TypeOK, SlotsExact, RateCap, HasSem, HasRate, Admitted, AtToken, AtSlot
<1>11. CASE UNCHANGED vars
  BY <1>t, <1>11 DEF vars, LimiterInv, TypeOK, SlotsExact, RateCap, HasSem, HasRate, Admitted, AtToken, AtSlot
<1> QED
  BY <1>1, <1>2, <1>3, <1>4, <1>5, <1>6, <1>7, <1>8, <1>9, <1>10, <1>11 DEF Next, Waits

-------------------------------------------------------------------------------
(* The cap on the calls in flight holds and no slot is lost, for any       *)
(* number of callers and any cap.                                          *)
THEOREM SlotsExactHolds == Spec => []SlotsExact
<1>1. LimiterInv => SlotsExact
  BY DEF LimiterInv
<1> QED BY <1>1, InitOK, StepOK, PTL DEF Spec

(* The admissions never outrun the bucket, and only calls can dry it, for  *)
(* any burst and rate.                                                     *)
THEOREM RateCapHolds == Spec => []RateCap
<1>1. LimiterInv => RateCap
  BY DEF LimiterInv
<1> QED BY <1>1, InitOK, StepOK, PTL DEF Spec
===============================================================================
