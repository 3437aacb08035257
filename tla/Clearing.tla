------------------------------ MODULE Clearing ------------------------------
(***************************************************************************)
(* What a settlement plan promises the members of a group: every transfer   *)
(* goes from somebody who owes to somebody who is owed, and brings both     *)
(* closer to zero, never past it.                                          *)
(***************************************************************************)
EXTENDS Integers

CONSTANT Users

VARIABLE due     \* what each user is owed (positive) or owes (negative)

Init == due \in [Users -> Int]

Pay(from, to) ==
  \E cents \in 1 .. -due[from] :
    /\ cents <= due[to]
    /\ due' = [due EXCEPT ![from] = @ + cents, ![to] = @ - cents]

Next == \E from, to \in Users : Pay(from, to)

Spec == Init /\ [][Next]_due
=============================================================================
