------------------------------- MODULE MCLimiter -------------------------------
(***************************************************************************)
(* Three callers of a limiter with one slot and a burst of two, with a     *)
(* slow rate only, with two slots only, and with the default burst.        *)
(***************************************************************************)
EXTENDS Limiter

MCLimiters ==
  {[qps |-> 10, burst |-> 2, maxInFlight |-> 1], [qps |-> 5, burst |-> 0, maxInFlight |-> 0],
   [qps |-> 0, burst |-> 0, maxInFlight |-> 2], [qps |-> 25, burst |-> 0, maxInFlight |-> 2]}
===============================================================================
