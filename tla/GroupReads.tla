----------------------------- MODULE GroupReads -----------------------------
(***************************************************************************)
(* GroupReads: the two requests that add up a group's expenses, the         *)
(* statistics (GetGroupStats) and the balances (Balances).  Each is a       *)
(* sequence of statements with no transaction around them, while expenses   *)
(* are posted, edited and refunded, and members come and go.                *)
(*                                                                         *)
(* Expenses are the entries of Book, in cents, so that Round2 has nothing   *)
(* to round.  One request: readers do not disturb each other.               *)
(***************************************************************************)
EXTENDS Integers, FiniteSets, Functions

CONSTANTS Ids, Users, Bills,
          Categories, CategoryOf,   \* the category of each expense
          Recent,                   \* expenses of the last twelve months
          MaxCommits                \* bounds what is committed between two figures

ASSUME ReadsAssumption ==
  /\ IsFiniteSet(Ids) /\ IsFiniteSet(Users) /\ IsFiniteSet(Categories)
  /\ CategoryOf \in [Ids -> Categories]
  /\ Recent \subseteq Ids
  /\ MaxCommits \in Nat
  /\ \A b \in Bills :
       /\ b.amount \in Nat
       /\ DOMAIN b.owed \subseteq Users /\ \A u \in DOMAIN b.owed : b.owed[u] \in Int

VARIABLES book,      \* expenses and expense_shares, as committed
          members,   \* active members
          pc,        \* the statement the request runs next
          op,        \* "stats" or "balances"
          got,       \* what the statements have returned
          commits    \* history: changes of the book since the first figure was read

B == INSTANCE Book

env  == <<book, members>>
vars == <<book, members, pc, op, got, commits>>

Ops  == {"stats", "balances"}
Nothing == [category |-> <<>>, month |-> 0, total |-> <<0, 0>>, ranked |-> {},
            paid |-> <<>>, owed |-> <<>>]

Init ==
  /\ B!Init
  /\ members = Users
  /\ pc = "exists"
  /\ op \in Ops
  /\ got = Nothing
  /\ commits = 0

-----------------------------------------------------------------------------
(* The statements *)

\* WHERE status = 'active'
Active == {e \in Ids : book[e] # B!NoEntry /\ book[e].status = "active"}
Amount == [e \in Active |-> book[e].amount]

SumByCategory ==
  [c \in Categories |-> LET own == {e \in Active : CategoryOf[e] = c}
                        IN <<SumFunctionOnSet(Amount, own), Cardinality(own)>>]

SumByMonth == SumFunctionOnSet(Amount, Recent \cap Active)

TotalByGroup == <<SumFunctionOnSet(Amount, Active), Cardinality(Active)>>

SumPaidByGroup == [u \in Users |-> SumFunctionOnSet(Amount, {e \in Active : book[e].payer = u})]

\* Variant: the join forgets the status of the expense.
SumOwedAnyStatus ==
  LET posted == {e \in Ids : book[e] # B!NoEntry}
      of(u) == [e \in {x \in posted : u \in DOMAIN book[x].owed} |-> book[e].owed[u]]
  IN [u \in Users |-> SumFunctionOnSet(of(u), DOMAIN of(u))]

SumOwedByGroup ==
  LET of(u) == [e \in {x \in Active : u \in DOMAIN book[x].owed} |-> book[e].owed[u]]
  IN [u \in Users |-> SumFunctionOnSet(of(u), DOMAIN of(u))]

-----------------------------------------------------------------------------
(* The request *)

Step(from, to) == pc = from /\ pc' = to /\ UNCHANGED <<env, op, commits>>

Final == {"answered", "refused", "failed"}
\* No figure has been read yet.
Early == pc \in {"exists", "category"} \/ (op = "balances" /\ pc \in {"members", "paid"})

\* memberRepo.Exists: only members may ask.
CheckMember ==
  /\ pc = "exists"
  /\ \E u \in Users :
       pc' = IF u \notin members THEN "refused" ELSE IF op = "stats" THEN "category" ELSE "members"
  /\ UNCHANGED <<env, op, got, commits>>

ReadCategories == Step("category", "month") /\ got' = [got EXCEPT !.category = SumByCategory]
ReadMonths     == Step("month", "total")    /\ got' = [got EXCEPT !.month = SumByMonth]
ReadTotal      == Step("total", "members")  /\ got' = [got EXCEPT !.total = TotalByGroup]
ListMembers    == Step("members", "paid")   /\ got' = [got EXCEPT !.ranked = members]
ReadPaid       == Step("paid", "owed")      /\ got' = [got EXCEPT !.paid = SumPaidByGroup]
ReadOwed       == Step("owed", "answered")  /\ got' = [got EXCEPT !.owed = SumOwedByGroup]

\* Any statement may return an error.
Fail ==
  /\ pc \notin Final
  /\ pc' = "failed"
  /\ UNCHANGED <<env, op, got, commits>>

BookStep ==
  /\ pc \notin Final
  /\ B!Next
  /\ IF Early THEN UNCHANGED commits
              ELSE commits < MaxCommits /\ commits' = commits + 1
  /\ UNCHANGED <<members, pc, op, got>>

MemberStep ==
  /\ pc \notin Final
  /\ \E u \in Users : members' \in {members \cup {u}, members \ {u}}
  /\ UNCHANGED <<book, pc, op, got, commits>>

Done == pc \in Final /\ UNCHANGED vars

Next ==
  \/ Done \/ CheckMember \/ ReadCategories \/ ReadMonths \/ ReadTotal \/ ListMembers
  \/ ReadPaid \/ ReadOwed \/ Fail \/ BookStep \/ MemberStep

Spec == Init /\ [][Next]_vars

-----------------------------------------------------------------------------
(* Properties *)

Net(u) == got.paid[u] - got.owed[u]

\* What an expense's shares leave of its amount, a matter of rounding.
Slack == [e \in Active |-> book[e].amount - SumFunctionOnSet(book[e].owed, DOMAIN book[e].owed)]

\* The figures of one answer are of the same expenses, although each statement
\* selects them for itself: what everybody paid, less what everybody owes, is
\* the rounding of the expenses; so are the nets that are shown, those of the
\* members, when payers and participants are still members; and the statistics
\* add up.  This holds for an answer during which nothing was committed, and may
\* fail for any other.
FiguresAgree ==
  pc = "answered" /\ commits = 0 =>
    /\ SumFunctionOnSet([u \in Users |-> Net(u)], Users) = SumFunctionOnSet(Slack, Active)
    /\ (\A e \in Active : book[e].payer \in got.ranked /\ DOMAIN book[e].owed \subseteq got.ranked) =>
         SumFunctionOnSet([u \in Users |-> Net(u)], got.ranked) = SumFunctionOnSet(Slack, Active)
    /\ op = "stats" =>
         /\ SumFunctionOnSet([c \in Categories |-> got.category[c][1]], Categories) = got.total[1]
         /\ SumFunctionOnSet([c \in Categories |-> got.category[c][2]], Categories) = got.total[2]
         /\ got.total[1] = SumFunctionOnSet(got.paid, Users)
         /\ got.month <= got.total[1]
=============================================================================
