-------------------------------- MODULE Book --------------------------------
(***************************************************************************)
(* What the expense tables of one group promise to a reader of committed   *)
(* data: a book of bills, each posted, edited and refunded as a whole.  An *)
(* entry's amount and what each participant owes always come from one and  *)
(* the same bill, and the payer is fixed when the entry is posted.         *)
(***************************************************************************)
CONSTANTS Ids,      \* expense ids
          Users,
          Bills     \* [amount, owed], owed a function from participants to cents

VARIABLE book

NoEntry == [status |-> "absent"]

Entry(b, p, s) == [amount |-> b.amount, owed |-> b.owed, payer |-> p, status |-> s]

Init == book = [e \in Ids |-> NoEntry]

Post(e) ==
  /\ book[e] = NoEntry
  /\ \E b \in Bills, p \in Users : book' = [book EXCEPT ![e] = Entry(b, p, "active")]

Edit(e) ==
  /\ book[e] # NoEntry
  /\ book[e].status = "active"
  /\ \E b \in Bills : book' = [book EXCEPT ![e] = Entry(b, book[e].payer, "active")]

Refund(e) ==
  /\ book[e] # NoEntry
  /\ book' = [book EXCEPT ![e].status = "refunded"]

\* The handler that edits an expense may have read it before it was refunded:
\* its write then makes the expense active again.
LateEdit(e) ==
  /\ book[e] # NoEntry
  /\ book[e].status = "refunded"
  /\ \E b \in Bills : book' = [book EXCEPT ![e] = Entry(b, book[e].payer, "active")]

Next == \E e \in Ids : Post(e) \/ Edit(e) \/ Refund(e) \/ LateEdit(e)

Spec == Init /\ [][Next]_book
=============================================================================
