------------------------------ MODULE Transfers ------------------------------
(***************************************************************************)
(* OptimizeTransfers: the loop that turns net balances into a settlement    *)
(* plan, one iteration a step.  Balances arrive in whole cents, because     *)
(* Generate rounds them (util.Round2); a behaviour starts where the loop    *)
(* does, after the balances have been split into debtors and creditors and  *)
(* sorted.  sort.Slice is not stable, so equal amounts come in any order.   *)
(***************************************************************************)
EXTENDS Cents, FiniteSets, Sequences, Functions

CONSTANTS Users,
          Inputs      \* the net balances considered, cents per user

ASSUME InputsAssumption == Inputs \subseteq [Users -> Int]
ASSUME UsersFinite == IsFiniteSet(Users)

VARIABLES bal,        \* the argument: every member's net balance
          debtors,    \* [user, cents] still to pay, largest first
          creditors,  \* [user, cents] still to receive, largest first
          i, j,       \* the debtor and the creditor being matched
          transfers   \* the plan so far

vars == <<bal, debtors, creditors, i, j, transfers>>

Entry    == [user : Users, cents : Nat]
Transfer == [from : Users, to : Users, cents : Nat \ {0}]

\* Variant: debts of two cents are taken for rounding noise.
DebtorsAboveTwo(b) == {u \in Users : round2(b[u], 1) < -1}

\* Who takes part, by the rounded balance: a user who owes one cent does not.
Debtors(b)   == {u \in Users : round2(b[u], 1) < 0}
Creditors(b) == {u \in Users : round2(b[u], 1) > 0}

\* The orders sort.Slice may leave the users S in, by amount[u] descending.
Sorted(S, amount) ==
  {[k \in DOMAIN p |-> [user |-> p[k], cents |-> amount[p[k]]]] :
     p \in {p \in Bijection(1 .. Cardinality(S), S) :
              \A k, l \in DOMAIN p : k < l => amount[p[k]] >= amount[p[l]]}}

Init ==
  /\ bal \in Inputs
  /\ debtors \in Sorted(Debtors(bal), [u \in Users |-> -bal[u]])
  /\ creditors \in Sorted(Creditors(bal), bal)
  /\ i = 1 /\ j = 1
  /\ transfers = <<>>

Done == i > Len(debtors) \/ j > Len(creditors)

\* Variant: a larger debt is paid in halves.
PayableHalf ==
  LET pay  == debtors[i].cents
      recv == creditors[j].cents
      less == IF recv < pay THEN recv ELSE pay
  IN  IF less > 1 THEN less \div 2 ELSE less

\* Variant: one cent is held back.
PayableShort ==
  LET pay  == debtors[i].cents
      recv == creditors[j].cents
  IN  (IF recv < pay THEN recv ELSE pay) - 1

\* The lesser of what the two still have open.
Payable ==
  LET pay  == round2(debtors[i].cents, 1)
      recv == round2(creditors[j].cents, 1)
  IN  round2(IF recv < pay THEN recv ELSE pay, 1)

\* Variant: transfers of a single cent are not written down.
MatchSkipsCents ==
  /\ ~Done
  /\ transfers' = IF Payable > 1
                    THEN Append(transfers, [from  |-> debtors[i].user,
                                            to    |-> creditors[j].user,
                                            cents |-> Payable])
                    ELSE transfers
  /\ debtors'   = [debtors   EXCEPT ![i].cents = round2(@ - Payable, 1)]
  /\ creditors' = [creditors EXCEPT ![j].cents = round2(@ - Payable, 1)]
  /\ i' = IF round2(debtors'[i].cents, 1) <= 0 THEN i + 1 ELSE i
  /\ j' = IF round2(creditors'[j].cents, 1) <= 0 THEN j + 1 ELSE j
  /\ UNCHANGED bal

\* Variant: the creditor's side is not brought up to date.
MatchKeepsCredit ==
  /\ ~Done
  /\ transfers' = Append(transfers, [from  |-> debtors[i].user,
                                     to    |-> creditors[j].user,
                                     cents |-> Payable])
  /\ debtors' = [debtors EXCEPT ![i].cents = round2(@ - Payable, 1)]
  /\ i' = IF round2(debtors'[i].cents, 1) <= 0 THEN i + 1 ELSE i
  /\ j' = IF round2(creditors[j].cents - Payable, 1) <= 0 THEN j + 1 ELSE j
  /\ UNCHANGED <<bal, creditors>>

\* Variant: somebody with one cent left is passed over.
MatchLeavesCent ==
  /\ ~Done
  /\ transfers' = Append(transfers, [from  |-> debtors[i].user,
                                     to    |-> creditors[j].user,
                                     cents |-> Payable])
  /\ debtors'   = [debtors   EXCEPT ![i].cents = round2(@ - Payable, 1)]
  /\ creditors' = [creditors EXCEPT ![j].cents = round2(@ - Payable, 1)]
  /\ i' = IF debtors'[i].cents <= 1 THEN i + 1 ELSE i
  /\ j' = IF creditors'[j].cents <= 1 THEN j + 1 ELSE j
  /\ UNCHANGED bal

\* One iteration of the loop.
Match ==
  /\ ~Done
  /\ transfers' = IF Payable > 0
                    THEN Append(transfers, [from  |-> debtors[i].user,
                                            to    |-> creditors[j].user,
                                            cents |-> Payable])
                    ELSE transfers
  /\ debtors'   = [debtors   EXCEPT ![i].cents = round2(@ - Payable, 1)]
  /\ creditors' = [creditors EXCEPT ![j].cents = round2(@ - Payable, 1)]
  /\ i' = IF round2(debtors'[i].cents, 1) <= 0 THEN i + 1 ELSE i
  /\ j' = IF round2(creditors'[j].cents, 1) <= 0 THEN j + 1 ELSE j
  /\ UNCHANGED bal

Return == Done /\ UNCHANGED vars

Next == Match \/ Return

Spec == Init /\ [][Next]_vars

\* The loop is sequential code: it runs as long as it can.
FairSpec == Spec /\ WF_vars(Match)

-----------------------------------------------------------------------------
(* Properties *)

\* The types of the two lists, the indices and the plan.
TypeOK ==
  /\ bal \in [Users -> Int]
  /\ debtors \in Seq(Entry) /\ creditors \in Seq(Entry)
  /\ i \in 1 .. Len(debtors) + 1
  /\ j \in 1 .. Len(creditors) + 1
  /\ transfers \in Seq(Transfer)

\* What a user still owes or is owed, while the plan is being made.
Open(q, u) == \E k \in DOMAIN q : q[k].user = u
Cents(q, u) == q[CHOOSE k \in DOMAIN q : q[k].user = u].cents

Due == [u \in Users |-> IF Open(debtors, u) THEN -Cents(debtors, u)
                        ELSE IF Open(creditors, u) THEN Cents(creditors, u)
                        ELSE 0]

\* Nobody is asked to pay past their debt or given more than they are owed.
Plan == INSTANCE Clearing WITH due <- Due

IsClearing == Plan!Spec

\* A plan does not send money in circles: who pays does not receive, and no
\* pair meets twice.
OneWay ==
  \A m, n \in DOMAIN transfers :
    /\ transfers[m].from # transfers[n].to
    /\ m # n => \/ transfers[m].from # transfers[n].from
                \/ transfers[m].to # transfers[n].to

\* Fewer transfers than people.
FewTransfers ==
  transfers # <<>> => Len(transfers) < Len(debtors) + Len(creditors)

\* The plan accounts for every cent: what a user has open is the balance less
\* the transfers that user takes part in.
Sum(S) == SumFunctionOnSet([m \in DOMAIN transfers |-> transfers[m].cents], S)
Given(u) == Sum({m \in DOMAIN transfers : transfers[m].from = u})
Taken(u) == Sum({m \in DOMAIN transfers : transfers[m].to = u})

EveryCentCounted ==
  \A u \in Users : round2(bal[u], 1) # 0 => Due[u] = bal[u] + Given(u) - Taken(u)

\* The plan pays all that can be paid: in the end no debtor owes anything, or no
\* creditor is owed anything, also when the balances do not add up to zero.
OneSideCleared ==
  Done => \/ \A u \in Debtors(bal) : Due[u] = 0
          \/ \A u \in Creditors(bal) : Due[u] = 0

\* A finished plan is one its callers may count on.
Promised == INSTANCE Plans

Paid(u, v) == Sum({m \in DOMAIN transfers : transfers[m].from = u /\ transfers[m].to = v})

PlanIsPromised ==
  Done =>
    /\ \A m \in DOMAIN transfers :
         transfers[m].from \in Promised!Owing(bal) /\ transfers[m].to \in Promised!Due(bal)
    /\ [p \in Promised!Owing(bal) \X Promised!Due(bal) |-> Paid(p[1], p[2])]
         \in Promised!Flows(bal)

\* When the balances of all users add up to zero, a finished plan leaves no
\* debtor with a debt; creditors wait only for the cents of those who owe one.
Clears ==
  Done /\ SumFunction(bal) = 0 =>
    /\ \A u \in Users : bal[u] < 0 => Due[u] = 0
    /\ SumFunction(Due) = Cardinality({u \in Users : bal[u] = -1})

\* The loop ends.
Returns == <>Done

-----------------------------------------------------------------------------
(* The inductive invariant *)

\* A user has one entry at most, on one side.
OneEntryEach ==
  /\ \A k, l \in DOMAIN debtors : debtors[k].user = debtors[l].user => k = l
  /\ \A k, l \in DOMAIN creditors : creditors[k].user = creditors[l].user => k = l
  /\ \A k \in DOMAIN debtors, l \in DOMAIN creditors : debtors[k].user # creditors[l].user

\* Whoever the loop has passed is done, whoever it has not still has something
\* open.
AheadIsOpen ==
  /\ \A k \in DOMAIN debtors : k >= i <=> debtors[k].cents > 0
  /\ \A k \in DOMAIN creditors : k >= j <=> creditors[k].cents > 0

\* The lists hold exactly the users with a balance.
ListsComplete ==
  /\ {debtors[k].user : k \in DOMAIN debtors} = Debtors(bal)
  /\ {creditors[k].user : k \in DOMAIN creditors} = Creditors(bal)

\* Every transfer is between a pair the loop has moved on from.
PairsBehind ==
  /\ \A m \in DOMAIN transfers :
       \E k \in DOMAIN debtors, l \in DOMAIN creditors :
         /\ k <= i /\ l <= j /\ <<k, l>> # <<i, j>>
         /\ transfers[m].from = debtors[k].user /\ transfers[m].to = creditors[l].user
  /\ \A m, n \in DOMAIN transfers :
       m # n => \/ transfers[m].from # transfers[n].from
                \/ transfers[m].to # transfers[n].to

\* Each transfer settles one side at least, and the last one may settle both.
Counted ==
  /\ Len(transfers) + 2 <= i + j
  /\ transfers # <<>> /\ i > Len(debtors) /\ j > Len(creditors) =>
       Len(transfers) + 3 <= i + j

\* What a user brings into the plan: who owes one cent brings nothing.
Brought(u) == IF round2(bal[u], 1) = 0 THEN 0 ELSE bal[u]

\* What is open is what was brought in less the transfers, for each user; all of
\* it together stays what it was at the start.
Accounted ==
  /\ \A u \in Users : Due[u] = Brought(u) + Given(u) - Taken(u)
  /\ SumFunction(Due) = SumFunction(bal) + Cardinality({u \in Users : bal[u] = -1})

\* What holds at the start and after every iteration.
Inductive ==
  /\ TypeOK /\ OneEntryEach /\ AheadIsOpen /\ ListsComplete /\ PairsBehind /\ Counted
  /\ Accounted
=============================================================================
