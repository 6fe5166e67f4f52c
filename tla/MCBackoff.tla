------------------------------- MODULE MCBackoff -------------------------------
(***************************************************************************)
(* Bases and caps of eight-bit integers, on both sides of the last mild    *)
(* cap (11), and more attempts than bits.                                  *)
(***************************************************************************)
EXTENDS Backoff

MCSettings == {s \in [base : 1 .. 24, max : 1 .. 24] : s.base <= s.max}
===============================================================================
