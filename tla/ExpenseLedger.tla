---------------------------- MODULE ExpenseLedger ----------------------------
(***************************************************************************)
(* ExpenseService.Create, Update and Delete of one group, run by concurrent *)
(* HTTP requests against Postgres (READ COMMITTED).  A request is one       *)
(* goroutine; every step below is one SQL statement of its handler.  What a *)
(* transaction writes becomes visible at its COMMIT; the group row "lock"   *)
(* is a plain read, because LockByID runs outside the transaction and its   *)
(* autocommit releases the row at once.  The only lock that lasts is the    *)
(* one the UPDATE of an expenses row takes, held until the transaction ends.*)
(*                                                                         *)
(* An expense is identified by the request that creates it, and a share row *)
(* by its expense, its user and the request that inserted it, so database   *)
(* sequences need no counter here.  Amounts are cents.                      *)
(***************************************************************************)
EXTENDS GroupTable, Integers

CONSTANTS Requests,   \* the HTTP requests of a run, each handled once
          Bills,      \* splits CalculateShares accepts: [amount, owed]
          Script      \* what each request may ask for, a set of Arg

Ops == {"create", "update", "delete"}
Arg == [op : Ops \cup {"none"}, user : Users, exp : Requests, bill : Bills, payer : Users]

\* Create carries a group and makes a new expense, the others name an expense.
ASSUME ScriptAssumption ==
  /\ Script \in [Requests -> SUBSET Arg]
  /\ \A r \in Requests : \A a \in Script[r] :
       a.op \in Ops /\ (a.op = "create" <=> a.exp = r)

\* A bill is what CalculateShares returned: an amount, and what each of at
\* least one participant owes.  How the two relate is SplitCalc's matter; with
\* a tiny amount a share may be negative.
ASSUME BillsAssumption ==
  \A b \in Bills :
    /\ b = [amount |-> b.amount, owed |-> b.owed]
    /\ b.amount \in Nat
    /\ \E P \in (SUBSET Users) \ {{}} : b.owed \in [P -> Int]

ASSUME SomeBill == Bills # {}

VARIABLES expense,   \* the expenses table, committed
          shares,    \* the expense_shares table, committed
          pc,        \* the statement each request runs next
          arg,       \* what the request asks for
          row,       \* the expenses row FindByID read into memory
          seen,      \* the share rows FindByID preloaded with it
          purged     \* the rows this transaction's DELETE removed

ledgerVars  == <<expense, shares>>
requestVars == <<pc, arg, row, seen, purged>>
vars == <<groupStatus, member, expense, shares, pc, arg, row, seen, purged>>

-----------------------------------------------------------------------------
Amounts == {b.amount : b \in Bills} \cup {0}
RowStatus == {"absent", "active", "refunded"}
Row      == [amount : Amounts, payer : Users, status : RowStatus]
ShareRow == [exp : Requests, user : Users, cents : Int, by : Requests]

Final   == {"ok", "failed"}
Working == {"find", "preload", "lock", "user", "payer", "shares", "save",
            "purge", "insert", "mark", "commit", "reload"}
Stage   == {"idle"} \cup Working \cup Final

NoRow    == [amount |-> 0, payer |-> Owner, status |-> "absent"]
NoArg(r) == [op |-> "none", user |-> Owner, exp |-> r,
             bill |-> CHOOSE b \in Bills : TRUE, payer |-> Owner]

SharesOf(e) == {s \in shares : s.exp = e}

\* The rows CreateShares inserts for bill b of expense e.
ShareRows(b, e, r) ==
  {[exp |-> e, user |-> u, cents |-> b.owed[u], by |-> r] : u \in DOMAIN b.owed}

\* idx_share_expense_user: no two rows of one expense for one user.
Clash(S, T) == \E s \in S, t \in T : s.exp = t.exp /\ s.user = t.user

\* The transaction of r has written the expenses row e and not ended.
Holds(r, e) == arg[r].exp = e /\ pc[r] \in {"purge", "insert", "commit"}

RowLocked(e) == \E r \in Requests : Holds(r, e)
-----------------------------------------------------------------------------
\* The types of the tables and of what requests keep in memory.
TypeOK ==
  /\ GroupTypeOK
  /\ expense \in [Requests -> Row]
  /\ shares \subseteq ShareRow
  /\ pc \in [Requests -> Stage]
  /\ arg \in [Requests -> Arg]
  /\ row \in [Requests -> Row]
  /\ seen \in [Requests -> SUBSET ShareRow]
  /\ purged \in [Requests -> SUBSET ShareRow]

Init ==
  /\ groupStatus = "active"
  /\ member \in [Users -> MemberStatus] /\ member[Owner] # "archived"
  /\ expense = [e \in Requests |-> NoRow]
  /\ shares = {}
  /\ pc = [r \in Requests |-> "idle"]
  /\ arg = [r \in Requests |-> NoArg(r)]
  /\ row = [r \in Requests |-> NoRow]
  /\ seen = [r \in Requests |-> {}]
  /\ purged = [r \in Requests |-> {}]

-----------------------------------------------------------------------------
Advance(r, stage) ==
  /\ pc' = [pc EXCEPT ![r] = stage]
  /\ UNCHANGED arg

\* The handler returns and its local state is gone; an open transaction ends.
Answer(r, outcome) ==
  /\ pc' = [pc EXCEPT ![r] = outcome]
  /\ arg' = [arg EXCEPT ![r] = NoArg(r)]
  /\ row' = [row EXCEPT ![r] = NoRow]
  /\ seen' = [seen EXCEPT ![r] = {}]
  /\ purged' = [purged EXCEPT ![r] = {}]

\* The answer to a COMMIT that took effect: "failed" when its reply is lost.
AnswerWritten(r) == \E outcome \in Final : Answer(r, outcome)

\* A check of the handler: carry on, or answer with an error.
Check(r, ok, stage) ==
  /\ IF ok THEN Advance(r, stage) /\ UNCHANGED <<row, seen, purged>>
           ELSE Answer(r, "failed")
  /\ UNCHANGED <<groupVars, ledgerVars>>

\* A request arrives.
Begin(r) ==
  /\ pc[r] = "idle"
  /\ \E a \in Script[r] :
       /\ arg' = [arg EXCEPT ![r] = a]
       /\ pc' = [pc EXCEPT ![r] = IF a.op = "create" THEN "lock" ELSE "find"]
  /\ UNCHANGED <<groupVars, ledgerVars, row, seen, purged>>

\* expenseRepo.FindByID: the row; for Delete the preloads are of no consequence.
FindExpense(r) ==
  /\ pc[r] = "find"
  /\ IF expense[arg[r].exp].status = "absent"
       THEN Answer(r, "failed")
       ELSE /\ row' = [row EXCEPT ![r] = expense[arg[r].exp]]
            /\ Advance(r, IF arg[r].op = "update" THEN "preload" ELSE "user")
            /\ UNCHANGED <<seen, purged>>
  /\ UNCHANGED <<groupVars, ledgerVars>>

\* Preload("Shares.User"): a statement of its own, after the row.
PreloadShares(r) ==
  /\ pc[r] = "preload"
  /\ seen' = [seen EXCEPT ![r] = SharesOf(arg[r].exp)]
  /\ Advance(r, "lock")
  /\ UNCHANGED <<groupVars, ledgerVars, row, purged>>

\* groupRepo.LockByID on the pool, not on tx: reads the status, keeps no lock.
LockGroup(r) ==
  /\ pc[r] = "lock"
  /\ Check(r, groupStatus = "active", "user")

\* Variant: the status read before is not looked at.
EnsureUserAnyStatus(r) ==
  /\ pc[r] = "user"
  /\ Check(r, IsMember(arg[r].user), IF arg[r].op = "delete" THEN "mark" ELSE "payer")

\* Variant: a refunded expense is read again instead of being refused.
EnsureUserRetry(r) ==
  /\ pc[r] = "user"
  /\ IF arg[r].op # "create" /\ row[r].status # "active"
       THEN /\ Advance(r, "find")
            /\ UNCHANGED <<groupVars, ledgerVars, row, seen, purged>>
       ELSE Check(r, IsMember(arg[r].user), IF arg[r].op = "delete" THEN "mark" ELSE "payer")

\* ensureMember(user) and, for an existing expense, the status read before.
EnsureUser(r) ==
  /\ pc[r] = "user"
  /\ Check(r, /\ IsMember(arg[r].user)
              /\ arg[r].op \in {"update", "delete"} => row[r].status = "active",
           IF arg[r].op = "delete" THEN "mark" ELSE "payer")

EnsurePayer(r) ==
  /\ pc[r] = "payer"
  /\ Check(r, IsMember(arg[r].payer), "shares")

\* calcShares: ListUserIDs, then every participant must be among them.
CalcShares(r) ==
  /\ pc[r] = "shares"
  /\ Check(r, DOMAIN arg[r].bill.owed \subseteq ActiveMembers,
           IF arg[r].op = "create" THEN "insert" ELSE "save")

\* Variant: the update takes no lock on the row.
SaveExpenseUnlocked(r) ==
  /\ pc[r] = "save"
  /\ Check(r, ~Clash(seen[r] \ shares, shares), "purge")

\* Variant: the preloaded share rows are left out of the Save.
SaveExpenseAlone(r) ==
  /\ pc[r] = "save"
  /\ ~RowLocked(arg[r].exp)
  /\ Check(r, TRUE, "purge")

\* expenseRepo.Update, Save of the whole row: waits for the row lock and takes
\* it, then upserts the preloaded share rows by primary key.  A preloaded row
\* that is gone is inserted again, which the unique index refuses when another
\* row has taken its place.
SaveExpense(r) ==
  /\ pc[r] = "save"
  /\ ~RowLocked(arg[r].exp)
  /\ Check(r, ~Clash(seen[r] \ shares, shares), "purge")

\* Variant: only the rows preloaded earlier are deleted.
PurgeSeenShares(r) ==
  /\ pc[r] = "purge"
  /\ purged' = [purged EXCEPT ![r] = seen[r] \cap shares]
  /\ Advance(r, "insert")
  /\ UNCHANGED <<groupVars, ledgerVars, row, seen>>

\* DeleteShares: every committed row of the expense.
PurgeShares(r) ==
  /\ pc[r] = "purge"
  /\ purged' = [purged EXCEPT ![r] = SharesOf(arg[r].exp)]
  /\ Advance(r, "insert")
  /\ UNCHANGED <<groupVars, ledgerVars, row, seen>>

\* expenseRepo.Create (for a new expense) and CreateShares.
InsertShares(r) ==
  /\ pc[r] = "insert"
  /\ Check(r, ~Clash(shares \ purged[r], ShareRows(arg[r].bill, arg[r].exp, r)), "commit")

\* Delete's UpdateStatus: one UPDATE, under the row lock.
MarkRefunded(r) ==
  /\ pc[r] = "mark"
  /\ ~RowLocked(arg[r].exp)
  /\ Advance(r, "commit")
  /\ UNCHANGED <<groupVars, ledgerVars, row, seen, purged>>

\* Variant: an Update keeps the amount it read.
WrittenRowOldAmount(r) ==
  CASE arg[r].op = "create" ->
         [amount |-> arg[r].bill.amount, payer |-> arg[r].payer, status |-> "active"]
    [] arg[r].op = "update" -> row[r]
    [] OTHER -> [expense[arg[r].exp] EXCEPT !.status = "refunded"]

\* The row the transaction of r wrote.  Save writes back every column, so the
\* status is the one read by FindByID; and it resets payer_id to the id of the
\* preloaded Payer, so the payer asked for is lost.
WrittenRow(r) ==
  CASE arg[r].op = "create" ->
         [amount |-> arg[r].bill.amount, payer |-> arg[r].payer, status |-> "active"]
    [] arg[r].op = "update" ->
         [amount |-> arg[r].bill.amount, payer |-> row[r].payer, status |-> row[r].status]
    [] OTHER -> [expense[arg[r].exp] EXCEPT !.status = "refunded"]

WrittenShares(r) ==
  IF arg[r].op = "delete"
    THEN shares
    ELSE (shares \ purged[r]) \cup ShareRows(arg[r].bill, arg[r].exp, r)

\* COMMIT.  That the reply to Create's is lost is its failure before Reload.
Commit(r) ==
  /\ pc[r] = "commit"
  /\ expense' = [expense EXCEPT ![arg[r].exp] = WrittenRow(r)]
  /\ shares' = WrittenShares(r)
  /\ IF arg[r].op = "create"
       THEN Advance(r, "reload") /\ UNCHANGED <<row, seen, purged>>
       ELSE AnswerWritten(r)
  /\ UNCHANGED groupVars

\* Create ends with s.Get, which asks for membership once more.
Reload(r) ==
  /\ pc[r] = "reload"
  /\ Answer(r, IF IsMember(arg[r].user) THEN "ok" ELSE "failed")
  /\ UNCHANGED <<groupVars, ledgerVars>>

\* Any statement may return an error without having taken effect (and the
\* process may die): the handler answers 500, and a transaction that has not
\* committed is rolled back.
Fail(r) ==
  /\ pc[r] \in Working
  /\ Answer(r, "failed")
  /\ UNCHANGED <<groupVars, ledgerVars>>

Handle(r) ==
  \/ FindExpense(r) \/ PreloadShares(r) \/ LockGroup(r) \/ EnsureUser(r)
  \/ EnsurePayer(r) \/ CalcShares(r) \/ SaveExpense(r) \/ PurgeShares(r)
  \/ InsertShares(r) \/ MarkRefunded(r) \/ Commit(r) \/ Reload(r)

\* The group's own handlers, as their writes.
GroupStep == GroupNext /\ UNCHANGED <<ledgerVars, requestVars>>

Next ==
  \/ \E r \in Requests : Begin(r) \/ Handle(r) \/ Fail(r)
  \/ GroupStep

Spec == Init /\ [][Next]_vars

\* A goroutine runs until it answers, and Postgres grants a row lock in turn.
FairSpec == Spec /\ \A r \in Requests : WF_vars(Handle(r))

-----------------------------------------------------------------------------
(* Properties *)

\* Rows of one table that the code writes in two statements stay in step: an
\* expense has the shares of one bill, inserted by one request, and that bill
\* is the one its amount comes from.  An expense that is not there has none.
SharesMatchExpense ==
  \A e \in Requests :
    IF expense[e].status = "absent"
      THEN SharesOf(e) = {}
      ELSE \E b \in Bills, r \in Requests :
             b.amount = expense[e].amount /\ SharesOf(e) = ShareRows(b, e, r)

\* Two transactions never hold one expenses row, whatever they do to it.
OneWriter ==
  \A r, q \in Requests : \A e \in Requests : Holds(r, e) /\ Holds(q, e) => r = q

\* An Update replaces either the very shares its own FindByID preloaded, or
\* shares of other people: an edit of the same participants that commits
\* between that read and the Save makes the Save fail.  It says nothing of the
\* page the caller edited: a request sent from an older page reads the newer
\* shares itself and overwrites them.
NoBlindOverwrite ==
  \A r \in Requests :
    pc[r] = "commit" /\ arg[r].op = "update" =>
      ~Clash(purged[r], seen[r] \ purged[r])

\* Once Save has passed, putting in the new shares cannot meet a leftover row.
InsertNeverClashes ==
  \A r \in Requests :
    pc[r] = "insert" => ~Clash(shares \ purged[r], ShareRows(arg[r].bill, arg[r].exp, r))

\* Every request that arrives is answered; nobody waits for a row for ever.
EveryRequestAnswered ==
  \A r \in Requests : pc[r] \in Working ~> pc[r] \in Final

\* Whoever changes a refunded expense is an Update that read it before the
\* refund: an edit that arrives afterwards is turned away.
RefundedChangesOnlyByStaleRead ==
  [][\A e \in Requests :
       expense[e].status = "refunded" /\ expense'[e] # expense[e] =>
         \E r \in Requests :
           Holds(r, e) /\ arg[r].op = "update" /\ row[r].status = "active"]_vars

\* What a reader of the committed tables sees of an expense.
OwedIn(S) == [u \in {s.user : s \in S} |-> (CHOOSE s \in S : s.user = u).cents]

Entry(x, S) ==
  IF x.status = "absent"
    THEN [status |-> "absent"]
    ELSE [amount |-> x.amount, owed |-> OwedIn(S), payer |-> x.payer, status |-> x.status]

BookOf == [e \in Requests |-> Entry(expense[e], SharesOf(e))]

Ledger == INSTANCE Book WITH Ids <- Requests, book <- BookOf

\* The committed tables are a Book.
IsBook == Ledger!Spec

-----------------------------------------------------------------------------
(* The inductive invariant behind SharesMatchExpense *)

\* Which statements each operation runs.
CreateStages == {"lock", "user", "payer", "shares", "insert", "commit", "reload"}
UpdateStages == {"find", "preload", "lock", "user", "payer", "shares", "save",
                 "purge", "insert", "commit"}
DeleteStages == {"find", "user", "mark", "commit"}

StagesOK ==
  \A r \in Requests :
    /\ arg[r].op = "create" => pc[r] \in CreateStages
    /\ arg[r].op = "update" => pc[r] \in UpdateStages
    /\ arg[r].op = "delete" => pc[r] \in DeleteStages
    /\ arg[r].op = "none"   => pc[r] \in {"idle"} \cup Final

\* A request without a task has no local state, and one that has not arrived
\* has created nothing.
IdleOK ==
  \A r \in Requests :
    /\ arg[r].op = "none" => seen[r] = {} /\ purged[r] = {}
    /\ pc[r] = "idle" => arg[r].op = "none" /\ expense[r].status = "absent"

\* A new expense is nobody else's until its request commits, and an expense
\* that was found stays.
TargetOK ==
  \A r \in Requests :
    /\ arg[r].op = "create" =>
         /\ arg[r].exp = r /\ purged[r] = {}
         /\ pc[r] # "reload" => expense[r].status = "absent"
    /\ arg[r].op \in {"update", "delete"} /\ pc[r] # "find" =>
         expense[arg[r].exp].status # "absent"

\* An Update gets past the membership checks only with an active row in hand.
StatusReadOK ==
  \A r \in Requests :
    arg[r].op = "update" /\ pc[r] \in {"payer", "shares", "save", "purge", "insert", "commit"} =>
      row[r].status = "active"

\* The payer an expense was posted with is the one everybody has read.
PayerReadOK ==
  \A r \in Requests :
    arg[r].op \in {"update", "delete"} /\ pc[r] # "find" =>
      row[r].payer = expense[arg[r].exp].payer

\* While it holds the row, what a transaction deleted is still all there is.
PurgeOK ==
  \A r \in Requests :
    arg[r].op \in {"create", "update"} /\ pc[r] \in {"insert", "commit"} =>
      purged[r] = SharesOf(arg[r].exp)

\* What was preloaded belongs to the expense, and from Save on no preloaded
\* row has been replaced by another.
SeenOK ==
  \A r \in Requests :
    /\ \A s \in seen[r] : s.exp = arg[r].exp
    /\ arg[r].op = "update" /\ pc[r] \in {"purge", "insert", "commit"} =>
         ~Clash(seen[r] \ SharesOf(arg[r].exp), SharesOf(arg[r].exp))

\* What holds at the start and after every statement of every request.
Inductive ==
  /\ TypeOK /\ StagesOK /\ IdleOK /\ TargetOK /\ StatusReadOK /\ PayerReadOK /\ PurgeOK
  /\ SeenOK /\ OneWriter /\ SharesMatchExpense

-----------------------------------------------------------------------------
(* What the code says and does not do *)

\* Update turns a refunded expense away ("已退款，无法修改"): once refunded, an
\* expense does not change.
RefundIsFinal ==
  [][\A e \in Requests : expense[e].status = "refunded" => expense'[e] = expense[e]]_vars
=============================================================================
