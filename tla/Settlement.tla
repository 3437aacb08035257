----------------------------- MODULE Settlement -----------------------------
(***************************************************************************)
(* SettlementService.Generate and Settle of one group, run by concurrent    *)
(* HTTP requests against Postgres (READ COMMITTED).  Every step is one SQL  *)
(* statement, except that a DELETE or UPDATE of several rows takes them one *)
(* by one, in an order nobody fixes, and waits where another transaction    *)
(* holds the row.  Generate reads on the pool, not on its transaction: each *)
(* of its statements sees what is committed at that moment.                 *)
(*                                                                         *)
(* A suggestion is identified by the request that inserted it and the pair  *)
(* it is for, so database sequences need no counter here.  The group's      *)
(* members and the expenses are written by others, as their environment.    *)
(***************************************************************************)
EXTENDS GroupTable, Integers, FiniteSets

CONSTANTS Requests,   \* the HTTP requests of a run, each handled once
          Op,         \* what each of them is for
          Callers,    \* the user who sends each of them
          Books       \* [paid, owed]: the totals the expenses may add up to

Ops == {"generate", "settle"}

ASSUME RequestsAssumption == \A r \in Requests : Op[r] \in Ops /\ Callers[r] \in Users

ASSUME BooksAssumption ==
  /\ Books # {}
  /\ \A b \in Books : b.paid \in [Users -> Int] /\ b.owed \in [Users -> Int]

VARIABLES book,      \* what SumPaidByGroup and SumOwedByGroup would return
          pending,   \* the settlements table, committed: rows to be paid
          settled,   \* ... and rows marked as paid
          pc,        \* the statement each request runs next
          people,    \* Generate: the members it read
          paid,      \* ... and what they paid
          owed,      \* ... and what they owe
          asked,     \* Settle: the ids of the request still to be looked up
          wanted,    \* the rows the DELETE or UPDATE of the request will visit
          held       \* the rows it has deleted or updated, locked until it ends

bookVars    == <<book>>
tableVars   == <<pending, settled>>
requestVars == <<pc, people, paid, owed, asked, wanted, held>>
vars == <<groupStatus, member, book, pending, settled, pc, people, paid, owed, asked,
          wanted, held>>

-----------------------------------------------------------------------------
Row == [by : Requests, from : Users, to : Users, cents : Nat \ {0}]

Final == {"ok", "failed"}
Working == {"lock", "members", "paid", "owed", "delete", "take", "insert", "list",
            "find", "member", "update"}
Stage == {"idle"} \cup Working \cup Final

\* A request that has had its effect, or has given up.
Over == {"list"} \cup Final

NoTotals == [u \in Users |-> 0]

\* Round2 of whole cents leaves them alone.
Balances(r) == [u \in Users |-> IF u \in people[r] THEN paid[r][u] - owed[r][u] ELSE 0]

Optimized == INSTANCE Plans

\* The rows Generate inserts for a plan OptimizeTransfers may return.
Suggested(bal, r) ==
  {{[by |-> r, from |-> p[1], to |-> p[2], cents |-> f[p]] : p \in {p \in DOMAIN f : f[p] > 0}} :
     f \in Optimized!Flows(bal)}

Rows == pending \cup settled

\* A row another transaction has deleted or updated makes this one wait.
Locked(t, r) == \E q \in Requests \ {r} : t \in held[q]

-----------------------------------------------------------------------------
\* The types of the table and of what requests keep in memory.
TypeOK ==
  /\ GroupTypeOK
  /\ book \in Books
  /\ pending \subseteq Row /\ settled \subseteq Row /\ pending \cap settled = {}
  /\ pc \in [Requests -> Stage]
  /\ people \in [Requests -> SUBSET Users]
  /\ paid \in [Requests -> [Users -> Int]] /\ owed \in [Requests -> [Users -> Int]]
  /\ asked \in [Requests -> SUBSET Row]
  /\ wanted \in [Requests -> SUBSET Row] /\ held \in [Requests -> SUBSET Row]

Init ==
  /\ groupStatus = "active"
  /\ member \in [Users -> MemberStatus] /\ member[Owner] # "archived"
  /\ book \in Books
  /\ pending = {} /\ settled = {}
  /\ pc = [r \in Requests |-> "idle"]
  /\ people = [r \in Requests |-> {}]
  /\ paid = [r \in Requests |-> NoTotals]
  /\ owed = [r \in Requests |-> NoTotals]
  /\ asked = [r \in Requests |-> {}]
  /\ wanted = [r \in Requests |-> {}]
  /\ held = [r \in Requests |-> {}]

-----------------------------------------------------------------------------
Goto(r, stage) == pc' = [pc EXCEPT ![r] = stage]

\* The handler returns; an open transaction has ended.
Answer(r, outcome) ==
  /\ Goto(r, outcome)
  /\ people' = [people EXCEPT ![r] = {}]
  /\ paid' = [paid EXCEPT ![r] = NoTotals]
  /\ owed' = [owed EXCEPT ![r] = NoTotals]
  /\ asked' = [asked EXCEPT ![r] = {}]
  /\ wanted' = [wanted EXCEPT ![r] = {}]
  /\ held' = [held EXCEPT ![r] = {}]

\* The answer to a COMMIT that took effect: "failed" when its reply is lost.
AnswerWritten(r) == \E outcome \in Final : Answer(r, outcome)

\* A check of the handler: carry on, or answer with an error.
Check(r, ok, stage) ==
  /\ IF ok THEN Goto(r, stage) /\ UNCHANGED <<people, paid, owed, asked, wanted, held>>
           ELSE Answer(r, "failed")
  /\ UNCHANGED <<groupVars, bookVars, tableVars>>

-----------------------------------------------------------------------------
(* Generate *)

BeginGenerate(r) ==
  /\ pc[r] = "idle" /\ Op[r] = "generate"
  /\ Goto(r, "lock")
  /\ UNCHANGED <<groupVars, bookVars, tableVars, people, paid, owed, asked, wanted, held>>

\* groupRepo.LockByID on the pool, not on tx: reads the status, keeps no lock.
LockGroup(r) == pc[r] = "lock" /\ Check(r, groupStatus = "active", "members")

\* ListUserIDs; fewer than two members is an error.
ReadMembers(r) ==
  /\ pc[r] = "members"
  /\ IF Cardinality(ActiveMembers) < 2
       THEN Answer(r, "failed")
       ELSE /\ people' = [people EXCEPT ![r] = ActiveMembers]
            /\ Goto(r, "paid")
            /\ UNCHANGED <<paid, owed, asked, wanted, held>>
  /\ UNCHANGED <<groupVars, bookVars, tableVars>>

ReadPaid(r) ==
  /\ pc[r] = "paid"
  /\ paid' = [paid EXCEPT ![r] = book.paid]
  /\ Goto(r, "owed")
  /\ UNCHANGED <<groupVars, bookVars, tableVars, people, owed, asked, wanted, held>>

ReadOwed(r) ==
  /\ pc[r] = "owed"
  /\ owed' = [owed EXCEPT ![r] = book.owed]
  /\ Goto(r, "delete")
  /\ UNCHANGED <<groupVars, bookVars, tableVars, people, paid, asked, wanted, held>>

\* DeleteAllByGroup: visits the rows committed when the statement starts.
DeleteAllByGroup(r) ==
  /\ pc[r] = "delete"
  /\ wanted' = [wanted EXCEPT ![r] = Rows]
  /\ Goto(r, "take")
  /\ UNCHANGED <<groupVars, bookVars, tableVars, people, paid, owed, asked, held>>

\* CreateBatch and COMMIT.  The plan is computed before the DELETE, from what
\* was read; its rows are nobody else's until the commit.  That the reply to the
\* COMMIT is lost is a failure before List.
CommitGenerate(r) ==
  /\ pc[r] = "insert" /\ Op[r] = "generate"
  /\ \E plan \in Suggested(Balances(r), r) :
       /\ pending' = (pending \ held[r]) \cup plan
       /\ settled' = settled \ held[r]
  /\ held' = [held EXCEPT ![r] = {}]
  /\ Goto(r, "list")
  /\ UNCHANGED <<groupVars, bookVars, people, paid, owed, asked, wanted>>

\* After the commit the list is read once more for the answer.
List(r) ==
  /\ pc[r] = "list"
  /\ Answer(r, "ok")
  /\ UNCHANGED <<groupVars, bookVars, tableVars>>

-----------------------------------------------------------------------------
(* Settle *)

\* A request names suggestions its caller has been shown.
BeginSettle(r) ==
  /\ pc[r] = "idle" /\ Op[r] = "settle"
  /\ \E S \in (SUBSET Rows) \ {{}} :
       /\ asked' = [asked EXCEPT ![r] = S]
       /\ wanted' = [wanted EXCEPT ![r] = S]
  /\ Goto(r, "find")
  /\ UNCHANGED <<groupVars, bookVars, tableVars, people, paid, owed, held>>

\* Variant: an id that is not there is looked for again.
FindSuggestionAgain(r) ==
  /\ pc[r] = "find"
  /\ \E t \in asked[r] :
       IF t \in Rows
         THEN /\ asked' = [asked EXCEPT ![r] = @ \ {t}]
              /\ Goto(r, "member")
         ELSE UNCHANGED <<asked, pc>>
  /\ UNCHANGED <<groupVars, bookVars, tableVars, people, paid, owed, wanted, held>>

\* FindByID of the next id.
FindSuggestion(r) ==
  /\ pc[r] = "find"
  /\ \E t \in asked[r] :
       IF t \in Rows
         THEN /\ asked' = [asked EXCEPT ![r] = @ \ {t}]
              /\ Goto(r, "member")
              /\ UNCHANGED <<people, paid, owed, wanted, held>>
         ELSE Answer(r, "failed")
  /\ UNCHANGED <<groupVars, bookVars, tableVars>>

\* memberRepo.Exists of the caller, once for each id.
CheckMember(r) ==
  /\ pc[r] = "member"
  /\ Check(r, IsMember(Callers[r]), IF asked[r] = {} THEN "update" ELSE "find")

\* UPDATE ... WHERE id IN ? AND status = 'pending' starts: it will visit the
\* rows that qualify now.
UpdatePending(r) ==
  /\ pc[r] = "update"
  /\ wanted' = [wanted EXCEPT ![r] = @ \cap pending]
  /\ Goto(r, "take")
  /\ UNCHANGED <<groupVars, bookVars, tableVars, people, paid, owed, asked, held>>

CommitSettle(r) ==
  /\ pc[r] = "insert" /\ Op[r] = "settle"
  /\ pending' = pending \ held[r]
  /\ settled' = settled \cup held[r]
  /\ AnswerWritten(r)
  /\ UNCHANGED <<groupVars, bookVars>>

-----------------------------------------------------------------------------
(* Rows *)

\* Variant: Settle saves the rows it looked up, whatever has become of them.
QualifiesAsFound(r, t) == Op[r] = "generate" => t \in Rows

\* Variant: the DELETE leaves rows that have been paid in the meantime.
QualifiesPending(r, t) == t \in pending

\* Whether the latest version of a row is still to be deleted or updated.
Qualifies(r, t) == t \in IF Op[r] = "generate" THEN Rows ELSE pending

\* Variant: rows are taken without waiting for whoever holds them.
TakeRowAtOnce(r) ==
  /\ pc[r] = "take"
  /\ \E t \in wanted[r] \ held[r] :
       IF Qualifies(r, t)
         THEN held' = [held EXCEPT ![r] = @ \cup {t}] /\ UNCHANGED wanted
         ELSE wanted' = [wanted EXCEPT ![r] = @ \ {t}] /\ UNCHANGED held
  /\ UNCHANGED <<groupVars, bookVars, tableVars, pc, people, paid, owed, asked>>

\* The statement visits a row: it waits until nobody else holds it, looks at
\* it again, and takes it or passes over it.
TakeRow(r) ==
  /\ pc[r] = "take"
  /\ \E t \in wanted[r] \ held[r] :
       /\ ~Locked(t, r)
       /\ IF Qualifies(r, t)
            THEN held' = [held EXCEPT ![r] = @ \cup {t}] /\ UNCHANGED wanted
            ELSE wanted' = [wanted EXCEPT ![r] = @ \ {t}] /\ UNCHANGED held
  /\ UNCHANGED <<groupVars, bookVars, tableVars, pc, people, paid, owed, asked>>

RowsTaken(r) ==
  /\ pc[r] = "take" /\ wanted[r] = held[r]
  /\ Check(r, TRUE, "insert")

\* Requests that wait for nothing but rows of each other: Postgres notices, and
\* aborts one of them.
Deadlocked(S) ==
  \A r \in S :
    /\ pc[r] = "take" /\ wanted[r] # held[r]
    /\ \A t \in wanted[r] \ held[r] : \E q \in S \ {r} : t \in held[q]

AbortDeadlock(r) ==
  /\ \E S \in SUBSET Requests : r \in S /\ Deadlocked(S)
  /\ Answer(r, "failed")
  /\ UNCHANGED <<groupVars, bookVars, tableVars>>

-----------------------------------------------------------------------------
\* Any statement may return an error without having taken effect (and the
\* process may die): the handler answers 500, and a transaction that has not
\* committed is rolled back.
Fail(r) ==
  /\ pc[r] \in Working
  /\ Answer(r, "failed")
  /\ UNCHANGED <<groupVars, bookVars, tableVars>>

Handle(r) ==
  \/ LockGroup(r) \/ ReadMembers(r) \/ ReadPaid(r) \/ ReadOwed(r)
  \/ DeleteAllByGroup(r) \/ CommitGenerate(r) \/ List(r)
  \/ FindSuggestion(r) \/ CheckMember(r) \/ UpdatePending(r) \/ CommitSettle(r)
  \/ TakeRow(r) \/ RowsTaken(r) \/ AbortDeadlock(r)

\* Bookkeeping goes on meanwhile, and so do the group's own handlers.
BookStep ==
  /\ book' \in Books
  /\ UNCHANGED <<groupVars, tableVars, requestVars>>

GroupStep == GroupNext /\ UNCHANGED <<bookVars, tableVars, requestVars>>

Next ==
  \/ \E r \in Requests : BeginGenerate(r) \/ BeginSettle(r) \/ Handle(r) \/ Fail(r)
  \/ BookStep
  \/ GroupStep

Spec == Init /\ [][Next]_vars

\* A goroutine runs until it answers, and Postgres resolves every deadlock.
FairSpec == Spec /\ \A r \in Requests : WF_vars(Handle(r))

-----------------------------------------------------------------------------
(* Properties *)

\* Part of the inductive invariant: a row is never in the hands of two
\* transactions, and it stays in the table as long as it is in the hands of one.
RowsHeldByOne ==
  /\ \A r, q \in Requests : r # q => held[r] \cap held[q] = {}
  /\ \A r \in Requests : held[r] \subseteq Rows

\* What a Settle is about to count as paid is still to be paid: of two Settles
\* that name a suggestion, one counts it.
PaidOnce ==
  \A r \in Requests : Op[r] = "settle" => held[r] \subseteq pending

\* What the DELETE of a Generate saw is gone when it commits, also what a
\* Settle marked as paid while the DELETE waited for it.
SweptIsGone ==
  [][\A r \in Requests :
       Op[r] = "generate" /\ pc[r] \in {"take", "insert"} =>
         /\ pc'[r] \in {"take", "insert"} => wanted[r] \cap Rows' \subseteq wanted'[r]
         /\ pc'[r] = "list" => wanted[r] \cap Rows' = {}]_vars

\* Each request changes the table in one step and at most once, whatever it
\* runs into: it proposes a batch of its own, or pays what was to be paid.
SuggestionList ==
  INSTANCE Suggestions WITH spent <- {r \in Requests : pc[r] \in Over}

IsSuggestionList == SuggestionList!Spec

\* Every request that arrives is answered; nobody waits for a row for ever.
EveryRequestAnswered ==
  \A r \in Requests : pc[r] \in Working ~> pc[r] \in Final

-----------------------------------------------------------------------------
(* The inductive invariant *)

\* A request holds rows only from its statement to its commit, and at the commit
\* all those its statement was to visit.
HoldsWhatItTook(r) ==
  /\ pc[r] \notin {"take", "insert"} => held[r] = {}
  /\ held[r] \subseteq wanted[r]
  /\ pc[r] = "insert" => wanted[r] = held[r]

\* The rows a Generate inserts are new, for it has not committed any before.
RowsAreCommitted == \A t \in Rows : pc[t.by] \in Over

\* What holds at the start and after every statement: who holds rows, and when.
Inductive ==
  /\ TypeOK
  /\ RowsHeldByOne
  /\ PaidOnce
  /\ \A r \in Requests : HoldsWhatItTook(r)
  /\ RowsAreCommitted

-----------------------------------------------------------------------------
(* What the code says and does not do *)

\* Generate runs under "事务 + 群组行锁 + 清除旧建议": the suggestions to be paid
\* are those of one plan.
OnePlanOnly == \A s, t \in pending : s.by = t.by
=============================================================================
