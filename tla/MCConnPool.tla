----------------------------- MODULE MCConnPool -----------------------------
(* Bounds for ConnPool: three connections; four requests of every kind, more   *)
(* than enough to exhaust the pool, and one that only reads.                  *)
EXTENDS ConnPool, TLC

CONSTANTS a, b, c, d, e

MCScript ==
     a :> {CreateExpense, DeleteExpense}
  @@ b :> {UpdateExpense, CreateGroup}
  @@ c :> {CreateExpense, Settle, Others}
  @@ d :> {Generate, CreateGroup}
  @@ e :> {Others}
=============================================================================
