--------------------------- MODULE MCExpenseLedger ---------------------------
(* Model values and bounds for ExpenseLedger: two users, one of them the      *)
(* owner, and bills that share a participant or do not.  r1 creates the only  *)
(* expense; r2 and r3 edit it, refund it, or name one that does not exist.    *)
EXTENDS ExpenseLedger, TLC

CONSTANTS u1, u2, r1, r2, r3

Both == [amount |-> 3, owed |-> (u1 :> 1 @@ u2 :> 2)]
OnU1 == [amount |-> 2, owed |-> (u1 :> 2)]
OnU2 == [amount |-> 2, owed |-> (u2 :> 2)]

MCBills == {Both, OnU1, OnU2}

Ask(op, u, e, b, p) == [op |-> op, user |-> u, exp |-> e, bill |-> b, payer |-> p]

MCScript ==
     r1 :> {Ask("create", u2, r1, Both, u1), Ask("create", u1, r1, OnU1, u1)}
  @@ r2 :> {Ask("update", u1, r1, b, u2) : b \in MCBills} \cup {Ask("delete", u2, r1, OnU1, u1)}
  @@ r3 :> {Ask("update", u2, r1, Both, u1), Ask("update", u1, r1, OnU2, u2),
            Ask("delete", u1, r1, OnU1, u1), Ask("delete", u1, r2, OnU1, u1)}
=============================================================================
