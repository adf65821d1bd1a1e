------------------------------- MODULE Backoff -------------------------------
(***************************************************************************)
(* The exponential part of calculateBackoff in internal/uploader/uploader. *)
(* go: baseDelay * multiplier^attempt, capped.  The multiplier is given in *)
(* halves, so that 1.5 exists.  A delay is rounded down to a whole unit.   *)
(***************************************************************************)
EXTENDS Integers

\* math.Pow
Power(base) ==
  LET power[k \in Nat] == IF k = 0 THEN 1 ELSE base * power[k - 1]
  IN  power

\* The delay before the attempt after this one, without the jitter.
ExponentialBackoff(first, multiplier, cap, attempt) ==
  LET backoff == (first * Power(multiplier)[attempt]) \div Power(2)[attempt]
  IN  IF backoff > cap THEN cap ELSE backoff
=============================================================================
