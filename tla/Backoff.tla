-------------------------------- MODULE Backoff --------------------------------
(***************************************************************************)
(* ExponentialBackoff (internal/agent/dag/scheduler.go): the delays of     *)
(* a node that keeps failing, in integers of Width bits, which wrap.       *)
(* time.Duration counts nanoseconds in 64.                                 *)
(***************************************************************************)
EXTENDS Integers

CONSTANTS
  Width,       \* bits of the integer
  Settings,    \* the pairs [base, max] a scheduler may be built with
  MaxAttempts  \* bound: attempts of the node

(* Shifting 1 to the left n times, in integers without bounds.             *)
Power[n \in Nat] == IF n = 0 THEN 1 ELSE 2 * Power[n - 1]

ASSUME SettingsAssumption ==
  /\ Width \in Nat \ {0} /\ MaxAttempts \in Nat
  /\ \A s \in Settings : s.max \in Nat /\ s.base \in 1 .. s.max /\ s.max < Power[Width - 1]

VARIABLES
  setting,  \* base and max
  failures, \* attempts that failed
  delay     \* what BackoffFn returned for them

delayVars == <<setting, failures, delay>>

(* The two's complement integer a value becomes.                           *)
Wrap(x) == ((x + Power[Width - 1]) % Power[Width]) - Power[Width - 1]

Shift(a) == IF a < 1 THEN 0 ELSE a - 1

(* Mutant: only a negative result is taken for an overflow.                *)
NegativeOnly(d) == d < 0

Overflowed(d) == d <= 0

ExponentialBackoff(base, max, a) ==
  LET d == Wrap(base * Power[Shift(a)])
  IN IF Overflowed(d) \/ d > max THEN max ELSE d

DelayInit ==
  /\ setting \in Settings
  /\ failures = 0
  /\ delay = ExponentialBackoff(setting.base, setting.max, 0)

Fail ==
  /\ failures < MaxAttempts
  /\ failures' = failures + 1
  /\ delay' = ExponentialBackoff(setting.base, setting.max, failures')
  /\ UNCHANGED setting

GaveUp == failures = MaxAttempts /\ UNCHANGED delayVars

DelayNext == Fail \/ GaveUp

DelaySpec == DelayInit /\ [][DelayNext]_delayVars

-------------------------------------------------------------------------------
(* Mild: the square of the cap fits.  The server's 3 s and the scheduler's *)
(* default of 2 s are, 3.04 s would not be.                                *)
Mild == setting.max * setting.max < Power[Width - 1]

(* "ExponentialBackoff doubles the base delay each attempt, capped at      *)
(* max": the shift loses its high bits, and a result that has wrapped      *)
(* around to a positive number is not noticed; for a mild cap there is     *)
(* none below it, so that every delay is the exact power, or the cap.      *)
DelayExact ==
  LET exact == setting.base * Power[Shift(failures)]
  IN Mild => delay = IF exact < setting.max THEN exact ELSE setting.max
===============================================================================
