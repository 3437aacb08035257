---------------------------- MODULE MCRateLimiter ----------------------------
(* Bounds for RateLimiter: a limit of two and two ticks to the minute, and the  *)
(* six requests that would break MinuteBound, or fewer and some of their        *)
(* pipelines sent again.                                                        *)
EXTENDS RateLimiter
=============================================================================
