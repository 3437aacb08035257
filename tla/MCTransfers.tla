----------------------------- MODULE MCTransfers -----------------------------
(* Model values and bounds for Transfers: every balance of four users within  *)
(* MaxCents of zero, whether or not the balances add up to zero.              *)
EXTENDS Transfers

CONSTANTS u1, u2, u3, u4, MaxCents

Spread == [Users -> -MaxCents .. MaxCents]
=============================================================================
