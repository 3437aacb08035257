-------------------------------- MODULE Cents --------------------------------
(***************************************************************************)
(* Money.  The code keeps yuan in a float64; here an amount is the exact    *)
(* number x/d of cents, and what matters of the float is how it is rounded. *)
(***************************************************************************)
EXTENDS Integers

\* round2(v) of split.go, int64(v*100+0.5)/100, on v = x/d cents.  The
\* conversion to int64 truncates towards zero, so below zero this is not
\* rounding half up: round2 of -1 cent is 0, of -5 cents -4 cents.
round2(x, d) ==
  LET n == 2 * x + d
  IN  IF n >= 0 THEN n \div (2 * d) ELSE -((-n) \div (2 * d))
=============================================================================
