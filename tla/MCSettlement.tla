---------------------------- MODULE MCSettlement ----------------------------
(* Model values and bounds for Settlement: two users, totals that leave one or *)
(* the other in debt, and as many concurrent requests as the configuration has. *)
EXTENDS Settlement, TLC

CONSTANTS u1, u2, g1, g2, s1, s2

Of(p1, o1, p2, o2) == [paid |-> (u1 :> p1 @@ u2 :> p2), owed |-> (u1 :> o1 @@ u2 :> o2)]

MCBooks == {Of(4, 2, 0, 2), Of(4, 5, 6, 5)}

OneBook == {Of(4, 2, 0, 2)}

MCOp == (g1 :> "generate" @@ g2 :> "generate" @@ s1 :> "settle" @@ s2 :> "settle")

MCCallers == (g1 :> u1 @@ g2 :> u2 @@ s1 :> u1 @@ s2 :> u2)
=============================================================================
