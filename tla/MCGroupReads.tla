---------------------------- MODULE MCGroupReads ----------------------------
(* Bounds for GroupReads: two expenses of different categories, one of them    *)
(* old, and a bill whose shares leave a cent.                                 *)
EXTENDS GroupReads, TLC

CONSTANTS ann, bob, e1, e2, food, rent

MCBills == { [amount |-> 4, owed |-> ann :> 2 @@ bob :> 2],
             [amount |-> 3, owed |-> ann :> 1 @@ bob :> 1],
             [amount |-> 5, owed |-> bob :> 5] }
MCCategoryOf == e1 :> food @@ e2 :> rent
=============================================================================
