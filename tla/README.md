# A verification project for aasplit

aasplit is a bill-splitting application: a Go backend (Gin, GORM, PostgreSQL,
Redis) and a Vue client. People form groups, record who paid for what, split
each bill, and ask for a plan of transfers that settles the group. This
directory holds TLA+ modules of its core, the TLC configurations that check
them on small instances, and TLAPS proofs for every instance.

Paths below are relative to `src/backend` unless they begin with `src/`.

## 1. Inventory

### Components

| Component | State | Operations | What makes it correct | Status |
| --- | --- | --- | --- | --- |
| Expense bookkeeping (`internal/service/expense_service.go`, expense repositories) | tables `expenses`, `expense_shares` | Create, Update, Delete (a refund); Get, List, ExportCSV read | amount and shares of an expense always come from one bill; concurrent edits do not mix; a refund stays; every request is answered | modelled |
| Bill splitting (`pkg/splitcalc/split.go`, CalculateShares) | none | four ways to split | parts add up, are close to the exact ones, nobody pays a negative part; no int64 overflow | modelled |
| Settlement plan (`pkg/splitcalc/split.go`, OptimizeTransfers) | the local state of a loop | one greedy pass over debtors and creditors | ends; nobody overpays; everything that can be paid is; few transfers | modelled |
| Settlement suggestions (`internal/service/settlement_service.go`) | table `settlements` | Generate, Settle; ListByGroup, ListPending, Balances read | a suggestion is paid once; one plan at a time; nothing half done; no waiting for ever | modelled |
| Groups and members (`internal/service/group_service.go`) | tables `groups`, `group_members` | Create, Update, Archive, InviteMember, RemoveMember | the owner is a member; an archived group stays closed; one row for each user | modelled |
| User accounts (`internal/service/user_service.go`) | table `users` | Register, Login, GetMe, UpdateProfile, ChangePassword, ListUsers, ChangeRole | one account for each name and email; a password changes only through its owner | modelled |
| Authentication and roles (`internal/middleware/auth.go`, `rbac.go`, `internal/util/jwt.go`) | a signed token | issue, check | nobody is an administrator whom no administrator made one | modelled |
| Rate limiter (`internal/middleware/rate_limit.go`) | counters in Redis, buckets in memory | count a request | a bound on what is let through; nobody refused who has not come, or been sent again, more often than the limit | modelled |
| Database connections (`internal/database/database.go`, `internal/repository/common.go`) | a pool of 20 connections | take, give back | none is lost; who waits is served in the end, or it is known why not | modelled |
| Statistics (`internal/service/stats_service.go`) | none | reads in several statements | the figures shown belong together | modelled, with Balances |
| Audit log (`internal/service/audit_service.go`, `internal/middleware/audit.go`) | table `audit_logs` | append after the commit | nothing depends on it | not modelled |
| HTTP plumbing, start and shutdown | none | routing, wording, configuration | nothing a state machine would say | not modelled |
| Web client state (`src/frontend/src/stores`, `utils/request.ts`, `router`) | token, lists, loading flags | fetch, submit, log out | the last answer wins; an expired login leads to the login page | not modelled |
| Web pages | none | layout and forms | nothing a state machine would say | not modelled |

### How they interact

- A request is one goroutine; handlers share nothing but the database and Redis.
  The interleavings that matter are therefore those of SQL statements.
- Expense and settlement handlers ask the group repository for the group's
  status and members. `LockByID` (`internal/repository/group_repository.go:61-70`)
  is written to lock the groups row, but runs on the repository's own
  connection instead of the caller's transaction: the row is free again when
  the call returns. The same holds for every repository method that is not
  handed `tx`.
- Generate reads what members paid and owe from the expense tables and calls
  OptimizeTransfers; Create and Update call CalculateShares.
- `Save` of GORM writes back every column of the row read earlier, and with it
  the associations that were preloaded: the id of the preloaded payer and the
  preloaded share rows.

### Which behaviours are hard

1. Rows read before a transaction and written back inside it (Update of an
   expense, Update of a group, UpdateProfile).
2. Statements of several rows that lock them one by one in no fixed order.
3. Transactions that are none, or only in part, because a repository uses the
   pool.
4. Rounding: `round2` is half up above zero and truncates below zero, and it is
   applied again after every subtraction.
5. A statement that fails, or a process that dies, between two others.
6. Twenty connections and handlers that need two.
7. A token that outlives the role it names.
8. Two counters for one limit, the second in use only while the first fails, and
   calls that count, fail, and are made again.
9. Writes that take effect while their reply is lost, so that the caller is told
   they failed.
10. Figures of one answer that come from up to seven statements.

`PROJECT.json` lists each hazard at its line with the properties aimed at it.

## 2. The modules

    GroupTable      what groups and group_members may do        (abstract, environment)
      Book            what a reader sees of the expense tables    (abstract)
      ExpenseLedger   Create, Update, Delete, statement by statement   implements Book
        ExpenseLedgerProofs
      Suggestions     what a reader sees of the settlements table (abstract)
      Settlement      Generate, Settle, row by row                     implements Suggestions
        SettlementProofs
      GroupService    Create, Update, Archive, Invite, Remove          implements GroupTable
        GroupServiceProofs
    GroupReads      statistics and balances, read from a Book
      BillProofs
    Cents           round2 on exact amounts
      SplitCalc       CalculateShares
        BillProofs
      Clearing        what a plan promises its members             (abstract)
      Plans           what a plan promises its callers             (operators)
      Transfers       OptimizeTransfers, an iteration a step           implements Clearing, Plans
        TransfersProofs
    Accounts        users, passwords, roles, tokens
      AccountsProofs
    RateLimiter     counters in Redis and in memory
      ServerProofs
    ConnPool        connections the handlers hold and ask for
      ServerProofs
    SumTheorems     sums over finite sets: lemmas for the proofs

Two modules of proofs are about two components each: BillProofs extends SplitCalc
and GroupReads, ServerProofs extends ConnPool and RateLimiter. SplitCalc and
ConnPool therefore name their specification after themselves (`SplitSpec`,
`PoolSpec`); in the others it is `Spec`.

Each component has an MC module with its model values and bounds (`MCAccounts`
for `Accounts`, and so on) and one configuration for each run.

The composition is by assume and guarantee. ExpenseLedger and Settlement extend
GroupTable and take its four writes as the steps of their environment;
GroupService, which has the handlers behind those writes, is checked to make no
others (`IsGroupTable`). Settlement takes a plan from `Plans!Flows`; Transfers,
which has the loop, is checked to return nothing else (`PlanIsPromised`).
ExpenseLedger takes bills from a set `Bills` of which it assumes only their shape;
SplitCalc says what such bills look like. GroupReads takes `Book` as its
environment, which ExpenseLedger implements. `IsGroupTable`, `IsBook` and
`PlanIsPromised` are proved.

### Module and code

**GroupTable** has one group: `groupStatus` and, for each user, `member` ("none"
when there is no row). `ReopenGroup` is in it because the code can do it:
Save of a row read before the group was archived.

**ExpenseLedger** has the committed tables (`expense`, `shares`) and what each
handler keeps in memory: the statement it runs next (`pc`), the request (`arg`),
the row and the share rows `FindByID` read (`row`, `seen`), and what its DELETE
removed (`purged`). One action is one statement with the checks that follow it,
in the order of the code:

| Action | Code (`internal/service/expense_service.go` unless named) |
| --- | --- |
| `FindExpense`, `PreloadShares` | `FindByID` with its preloads, two statements |
| `LockGroup` | `LockByID` and `IsActive` |
| `EnsureUser`, `EnsurePayer` | `ensureMember`, and the status check of Update and Delete |
| `CalcShares` | `calcShares`: ListUserIDs, participants are members |
| `SaveExpense` | `expenseRepo.Update`: Save of row, payer and preloaded shares |
| `PurgeShares`, `InsertShares` | `DeleteShares`, `CreateShares` |
| `MarkRefunded` | `UpdateStatus` of Delete |
| `Commit`, `Reload` | COMMIT, and the Get that ends Create; the reply to the COMMIT may be lost (`AnswerWritten`) |
| `Fail` | any statement returns an error without taking effect, or the process dies: rollback |

What a transaction writes is in its own local state until `Commit`, which is how
READ COMMITTED shows it to the others. The row lock is not a variable: it is held
by whoever has written the row and not yet ended (`Holds`).

**SplitCalc** is one call a behaviour: arguments, then the result. Amounts of a
request are multiples of 1/Grain cent, results are whole cents. Split by share
is int64 arithmetic and has its width: `Wrap` is where an overflow would show.
`HandOut` and `TakeBack` are the two loops that distribute a remainder; `Pass` is
one round of the second. The arms of a CASE exclude each other here: in TLA+ a CASE
with two true guards is either of its arms, while the code takes the first.

**Transfers** begins where the loop of OptimizeTransfers begins. sort.Slice is
not stable, so `Sorted` is a set of orders and Init chooses one. `Match` is one
iteration.

**Settlement** has the committed rows in two sets, `pending` and `settled`, and
for each request what it has read and which rows its DELETE or UPDATE still has
to visit (`wanted`) and has taken (`held`). A row is taken only when nobody else
holds it, and is looked at again when the wait is over, as Postgres does.
`AbortDeadlock` is the deadlock detector. `BookStep` changes the totals while
Generate reads them.

**GroupService** has the groups row, the members, and the row each handler has
read. Every statement commits by itself, those of Create too, and may do so while
its reply is lost: `AnswerWritten`.

**Accounts** has the table `users`, the valid `tokens`, and for each request the
statement it runs next (`pc`), what it was asked with which token (`arg`), and the
users row it has read (`row`). A request slot handles one request after another, so
sequences of calls are covered and not only overlaps. `Begin` is Auth and
RequireRoles: who asks, and with which role, is what the token says at that
moment, and no handler looks again. `SaveProfile` writes back the whole row that
`FindCaller` read; `SetHash` and `SetRole` write one column. `Clashes` are the
unique indexes, to which a missing email is equal to nothing. A write that took
effect is answered ok or, when its reply is lost, with 500 (`AnswerWritten`, and the
two alternatives of `SetHash`). `Fail` is a statement that took no effect, and has the
one handler that turns an error into success: ChangePassword returns nil when its
FindByID fails (`ErrorAnswer`, `internal/service/user_service.go:136`). Two history variables
say what the properties are about: `granted`, who has been made an administrator
by one who had been, and `told`, the password each owner was told is set.

**RateLimiter** follows the requests of one client address, which differ only in
the time they read and the attempt they are at, and are therefore counted, not
named: `calls[<<t, k>>]` are those who read the clock at t and whose pipeline has
been sent again k times, `fallen` those on their way to memory. The client library
sends a pipeline again after a broken connection or a time-out, `MaxRetries` times
(3, since `internal/database/database.go:49` leaves the options alone): `Resend`.
`ExecFails` is a call that has run out of attempts, or met an error that is not
tried again. What becomes of an attempt that was given up is `Arrive`: `stray`
counts them by minute, and each may reach Redis at once, later or never, INCR alone
or with EXPIRE. `rdb = "nil"` is a server whose Redis did not answer at the start.

**ConnPool** writes each handler as the sequence of what it asks of the pool:

| Handler | Sequence | Code |
| --- | --- | --- |
| Create, Update of an expense | begin, pool, tx, pool, tx, commit, pool | LockByID and members on the pool, row and shares on tx, audit |
| Delete, Generate, Settle | begin, pool, tx, commit, pool | reads on the pool, one write on tx, audit or list |
| Create of a group | begin, pool, commit, pool | both inserts on the pool |
| all others | pool | |

`Fail` gives everything back, from any statement that runs; a request that waits
for a connection has no deadline and cannot fail.

**GroupReads** is one request, GetGroupStats or Balances, with `got` for what its
statements have returned. Six queries select the expenses, each with its own
WHERE; each is an operator of its own here.

## 3. What the runs show

| Run | Question | Answer |
| --- | --- | --- |
| `ledger` | Do three concurrent requests keep amount and shares together, whatever else the group does? | Yes; the tables are a Book; an edit that commits between another's own FindByID and its Save, for people in common, makes that Save fail; everybody is answered. |
| `refund_final` | Does a refund stay? | No: an Update that read the expense before writes it back as active. |
| `transfers` | Does the loop end with a plan as promised, for every small balance? | Yes. |
| `split` | How far may a part, or the sum of parts, be off? | By share: the sum is exact. Equally and by ratio: a cent too much at most, and only when the last participant is left with nothing to pay or less. By amount: the sum is exact when the amounts are whole cents; of parts of a cent nothing is said. |
| `split_sum` | Do the parts add up to the total ("保证合计等于总额")? | No: one cent split 1:1:0 by ratio is charged twice. |
| `settlement` | Two Generates and two Settles at once: is a suggestion, that is a row, paid twice, lost or brought back, and is everybody answered? | None is, and everybody is, deadlocks included. (A debt may be suggested again, in a new row, after it was paid: see the observations.) |
| `one_plan` | Is there one plan at a time ("事务 + 群组行锁 + 清除旧建议")? | No: two Generates may both insert. |
| `group` | Do the handlers keep the group tables as the other modules expect? | Yes; an archived group reopens only by a stale edit; what an edit wrote is changed only by an edit, never taken back by an Archive; and the owner is missing only when creation failed. |
| `accounts` | Do names and emails stay unique, and who may become an administrator, or find another password? | Unique, by the indexes and not by the counts; administrators only by way of administrators; the password that works is another than the owner was told only after the owner's own stale profile edit, when ChangePassword swallows an error, or when it took effect and was answered 500. |
| `limiter` | How many requests pass in a minute, and who is refused, when pipelines fail, are sent again or come late? | Redis lets no more than the limit through, both counters together less than three times the limit; whom Redis refuses came when requests and pipelines sent again were more than the limit together. With the 3 retries of the default a client can be refused that has come only a little more than a quarter as often as the limit, never one that has come less. |
| `pool` | Can the server stop? | Yes: as many transactions as connections, each waiting for a second one, stop it for good. Nothing else does. |
| `reads` | Do the figures of one answer belong together? | When no expense was committed in between; otherwise they may not. |

The three runs that expect a violation each check one statement of the
repository; the line is quoted under "findings" in `PROJECT.json`.

The properties worth reading first:

- `SharesMatchExpense` (ExpenseLedger): two tables written by two statements of
  each of several transactions stay in step.
- `NoBlindOverwrite`: it holds, and by accident. Save puts back preloaded share
  rows that another edit has deleted, and the unique index refuses them when
  another row is in the place. It covers the window between the handler's
  own FindByID (`internal/service/expense_service.go:105`) and its Save, no more: no
  version travels with a request, so one that was written on an older page reads
  the newer shares and overwrites them.
- `RefundedChangesOnlyByStaleRead`, `ReopenedOnlyByStaleEdit`: the flaws of
  `refund_final` and of reopening have no other way to happen. `EditsStay` is the
  other direction: an Archive that read the group before an edit was saved leaves
  the edit there, because it writes one column.
- `PasswordStaysAsTold`: the three ways in which a password comes to be another
  than its owner was told, and that there is no fourth.
- `IsBook`, `IsSuggestionList`, `IsClearing`, `IsGroupTable`: refinements.
- `AdminsAreMade`: holds for tokens and for rows still to be saved too, so it
  stays true when either is written back. It does not say that who is an
  administrator should be one: a role that was taken away comes back through the
  owner's stale profile edit, or through a token issued before.
- `MinuteBound`: less than three times the limit, not twice, because a minute of the
  clock can see the end of one bucket in memory and all of a second one.
- `FrozenOnceExhausted` and `AnsweredUnlessExhausted`: together they say that one
  condition, and no other, stops the server.
- `Clears`, `OneSideCleared`, `EveryCentCounted`: the plan with balances that do
  not add up to zero (a removed member) and with debts of one cent, which
  `round2` drops.

### Bounds, and why they are enough

| Run | Bounds | Why |
| --- | --- | --- |
| `ledger`, `refund_final` | 2 users, 3 requests, 3 bills; `r1` creates, `r2` and `r3` edit or refund, with the same or other participants | A conflict needs one expense and two transactions; the third request makes the row exist and may still be in its last statement. Bills with the same, overlapping and disjoint participants decide every outcome of the unique index. |
| `transfers` | every balance of 4 users within 4 cents (`MaxCents`) | Two debtors and two creditors give every way the two indices can move; 4 cents give unequal, equal and one-cent amounts. |
| `split`, `split_sum` | amounts in half cents (`Grain` = 2) up to 12, 4 people, 8 for equal parts (`MaxPeople`), `MaxInt` = 25 | Halves are where rounding turns; the excess of a cent needs more people than cents; 25 is small enough for products beyond the range. Calls of their own (`AtTheEnd`) have totals of 23 to 26 cents and sums of shares up to 75, on both sides of what fits. |
| `settlement` | 2 users, 2 Generates, 2 Settles, one set of totals (`OneBook`) | Rows of two plans exist at once, so a DELETE and an UPDATE can meet in both orders and deadlock; who owes whom does not matter to that. A second set of totals makes the liveness graph ten times as large; that totals which change between two reads disturb no safety property is proved. |
| `one_plan` | the same with two sets of totals (`MCBooks`), in which the debt has opposite directions | The two plans differ. |
| `group` | 3 users (owner, guest, administrator), a Create and 3 more requests | A stale edit needs an edit, an archive and one more; the owner can be invited by the administrator before Create has inserted them. |
| `accounts` | 3 accounts, the first of them the bootstrap administrator; 3 names, 2 emails, 2 passwords; 2 request slots, each used again and again; 15 things to ask for (`MCScript`) | Two registrations of one name meet, two of one email under two names, and a registration and a profile edit of one email; two stale writers meet; slots that are used again give every sequence of calls. A third concurrent request adds another stale writer of the same two kinds. |
| `limiter` | limit 2, a window of 2 ticks, `Horizon` 3, 6 pipelines of all requests together (`MaxPipelines`), each sent again at most once (`MaxRetries` 1) | Two clock minutes; a bucket can end within one; 5 requests is the most a minute lets through, and 6 would break the bound. Two requests, one of them sent again, are refused; one never is. A key outlives the run: that one which expires and is made anew by a late attempt changes nothing is proved, as are all larger numbers. |
| `pool` | 3 connections, 5 requests, one of which only reads | Three transactions exhaust the pool, in every mixture of handlers; two more requests show that nobody is spared. |
| `reads` | 2 expenses, 2 users, 3 bills one of which leaves a cent, one commit between the figures (`MaxCommits`) | Every query has an expense that it selects and one that it does not. A torn answer needs one commit. |

Requests are handled once, except in `accounts`, where slots are used again; so
behaviours are finite but for those slots and for the environment, which goes round. Nothing else is
counted without a bound.

### Fairness

`FairSpec` of ExpenseLedger and of Settlement says `WF(Handle(r))` for each
request: a goroutine that can run its next statement does so eventually. Nothing
is assumed of whether requests arrive, of failures, or of the environment. Weak
fairness of a wait for a row is justified because the wait ends when the holder
ends, and stays over: in ExpenseLedger a transaction holds one row and waits for
none while it does; in Settlement the deadlock detector is itself a step of a
waiting request. Each model gives a request one order of waiting; Postgres
queues waiters, so nobody is passed over for ever by requests that keep coming
(a run has finitely many). FairSpec of Transfers says the loop runs, which
sequential code does.

PoolFairSpec of ConnPool says `WF(Work(r))` for each request: statements end, and a
connection that is given back goes to somebody who waits. Weak fairness is enough
there because a run has finitely many requests: each takes and gives back
connections a bounded number of times, so from some moment on connections stay
free, or the pool is exhausted. The queue of database/sql gives more than that.

Deadlock checking is on in every run but `pool`, where an exhausted pool is the end
and the run is about just that. The environment of ExpenseLedger and
Settlement can always take a step, so there `EveryRequestAnswered` is what
rules out a request that is stuck.

## 4. What is proved

For all values of the constants that meet the assumptions named below.

**ExpenseLedgerProofs**: `TypesHold`, `InductiveHolds`, `SharesAlwaysMatch`,
`OneWriterAtATime`, `InsertsAreClean`, `NoLostEdit`, `RefundsFallToStaleReads`,
and `LedgerIsBook`, the refinement. Assumptions: `OwnerAssumption`,
`ScriptAssumption`, `BillsAssumption`, `SomeBill`. `NoLostEdit` says what
`NoBlindOverwrite` says and no more: it begins at the FindByID of the handler.

`SharesMatchExpense` is not inductive: COMMIT replaces the rows the transaction
deleted, and nothing in it says that those are still all the rows there are. The
argument is the row lock. `OneWriter` says that two transactions never hold one
row; so from its DELETE to its COMMIT nobody else's COMMIT can touch the shares
of its expense, and `PurgeOK` (what it deleted is still all there is) survives
every step of others. `TargetOK` adds that an expense in the making is nobody
else's, which is why Create needs no lock; `StagesOK` and `IdleOK` keep the three
operations apart. `PayerReadOK` is needed for the refinement (Edit keeps the
payer: the payer everybody has read is the one the expense was posted with),
`StatusReadOK` for the two status properties, and `SeenOK` for
`NoBlindOverwrite`: from Save on, no preloaded row has been replaced. `Inductive`
is the conjunction, and the run `ledger` checks it too.

**TransfersProofs**: `TypesHold`, `InductiveHolds`, `PlansAreOneWay`,
`PlansAreShort`, `PlansPayAllTheyCan`, `EveryCentIsCounted`, `PlansClear`,
`PlansArePromised`, and `PlanIsClearing`, the refinement. Assumptions:
`InputsAssumption`, `UsersFinite`.

The invariant says where the loop stands: whoever is behind an index has nothing
open and whoever is ahead has (`AheadIsOpen`), the lists hold the people with a
balance and each once (`ListsComplete`, `OneEntryEach`), each transfer is of a
pair the loop has moved on from (`PairsBehind`), and each iteration moves an index
(`Counted`). With that, `Payable` is at least one cent in every iteration, and no
pair can come again.

The three theorems about sums rest on `Accounted`. `EveryCentCounted` is not inductive,
since it says nothing of those whose balance rounds to zero; `Accounted` has all users
in it, with what each one brings into the plan (`Brought`), and adds that the sum of
all that is open stays what it was at the start. For `Clears` that sum is what the
balances leave when the debts of one cent are dropped; for `PlanIsPromised` what a
debtor has paid all creditors together is what the transfers from that debtor come to.

**SettlementProofs**: `InductiveHolds`, `RowsAreHeldByOne`, `SuggestionsArePaidOnce`,
`SweptRowsAreGone`, and `SettlementIsSuggestionList`, the refinement. Assumptions:
`OwnerAssumption`, `RequestsAssumption`, `BooksAssumption`. `PaidOnce` needs
`RowsHeldByOne` (what a Settle holds nobody else commits), and that needs to know
when rows are held at all (`HoldsWhatItTook`). The commit of a Generate adds rows:
they are nobody's, because rows carry the request that inserted them and a row of
the table belongs to a request that is over (`RowsAreCommitted`). Most statements
neither take a row nor commit; `QuietStep` deals with all of them at once.

**GroupServiceProofs**: `InductiveHolds`, `OwnersAreMembers`, `TablesAreGroupTable` (the
refinement), `StaleEditsReopen` and `ArchivingKeepsEdits`. Assumptions: `OwnerAssumption`,
`NamesAssumption`, `ScriptAssumption`. The invariant says that nobody touches the
tables before the group is there (`Untouched`), so that InsertGroup is a step of
nothing but the name, and comes before every edit, and that whom a removal has looked up is not the owner and
has a row (`Fitting`).

**AccountsProofs**: `InductiveHolds`, `AccountsAreDistinct`, `RolesAreGranted`,
`OnlyOwnerOrAdminWrites`, `PasswordsStay`. Assumption: `AccountsAssumption`.
`OneAccountEach` alone is not inductive: SaveProfile writes a name it read earlier,
and nothing in the property says that the name is still its account's.
`RowsAreOld` does (names never change), `IdsAreOwn` says that a row is saved where
it was read, and `Fitting` that a request in a given statement carries what the
statement uses. `AdminsAreMade` covers tokens and rows in memory because each of
them is written back or acted on. `PasswordsStay` looks at the four statements that
write a hash or the history: a write whose reply is lost has its place in each.

**BillProofs, splitting**: `SharesAreExact`, `SharesAreFair`, `SumsAreClose`,
`ErrorsAreBounded`. Assumptions: `GrainAssumption`, `MaxIntAssumption`,
`CallsAssumption`. A behaviour is one call, so the invariant (`Answered`) is only that
an outcome is what CalculateShares returns; the work is in what that is.

Equally and by ratio: a rounded part is off by half a cent at most (`RoundIs`), errors
add up (`ErrorsAddUp`), and the last participant gets the sum of all of them with the
sign turned (`DividedIsClose`). The excess of a cent comes from the last `round2`,
which truncates below zero (`DividedAddsUp`).

By share: the check of total times sum keeps every product within an int64, so
`Wrap` changes nothing (`ProductsFit`, `WrapsNot`). The parts are rounded, so what is
left over is half a cent at most for each participant, and what is missing half a cent
at most for each who has a cent to give back (`RemainderIsSmall`); one round of either
loop is therefore enough: `HandOut` gives a cent to the first ones in the order and to
nobody twice (`HandedOut`), `TakeBack` finds as many participants with a cent as it
needs (`TakenBack`). Both count who comes before whom, and in a strict order of
finitely many just `e` have fewer than `e` before them (`TopOf`). That the order is by
shares makes the result fair (`SharesAreSplit`).

**BillProofs, reading**: `AnswersAgree`. Assumption: `ReadsAssumption`, by which ids,
users and categories are finite sets and shares whole cents. The invariant
(`ReadsInductive`) says that every entry of the book is a bill with a payer, and that,
as long as nothing has been committed since the first figure, each figure that was
read is what its statement would return now. The figures of an answer are then sums
over one book: every expense has one payer and one category (`PaidAddsUp`,
`CategoriesAddUp`), the table of who owes what in which expense adds up to the same by
row and by column (`OwedAddsUp`), and who is neither payer nor participant has no
figures, so the members that are shown are enough (`NetsAddUp`).

**ServerProofs, connections**: `PoolInductiveHolds`, `ConnectionsAreKept`,
`ExhaustionIsFinal`. Assumption: `PoolAssumption`. What a request still has to do tells
whether its transaction is open (`Inside`, `Outside`), so a COMMIT gives back a
connection that was taken. When as many transactions wait as there are connections,
counting leaves none for anybody else: no statement is running, and who is not in a
transaction begins with something that needs a connection.

**ServerProofs, limiter**: `InductiveHolds`, `RedisHoldsTheLimit`, `MinutesAreBounded`,
`RefusalsAreNeeded`. Assumption: `LimiterAssumption`. A call lasts less than a window, a
key lives at least two windows from the start of its minute, so INCR never starts again
within a minute's calls and the key counts at least what was let through (`RedisPart`).
For memory the invariant says in which minute the bucket was made (`Made`): in the
minute of its making, one that ended in the same minute has let less than the limit
through, and the new one has let through at most what it counts (`MemoryPart`).
That nobody is refused without need is the other direction: a key's count, with the
calls that are still on their way to it and the attempts that were given up, is no more
than the requests that came in its minute and the pipelines sent again; of these there
are at most `MaxRetries` for each request, because a call under way has been sent again
as often as its attempt says; and a bucket's count is no more than were counted since it
was made. The calls have to be in it, since a request comes before it is counted, and
so do the attempts, which may count long after the request was answered.

**SumTheorems** is what the other proofs need of sums. SumFunctionOnSet is a recursive
function, and to a prover a recursive function is a CHOOSE: something that satisfies
the equation, if anything does. The library's induction theorems cannot be used for
it, as they take a property as an operator. The lemmas go around that: a set of
subsets of a finite set has a smallest member (`Smallest`), so the smallest set where
two solutions differ, or where none exists, leads to a contradiction (`OneSolution`,
`SolutionExists`); from then on induction is about the set of those subsets that have
the property (`SetInduction`). The recursion of `TakeBack` is dealt with in the same
way (`TakeBackIs`), by the least excess where it fails.

### What is only model-checked

- Liveness: `EveryRequestAnswered`, `Returns`, `AnsweredUnlessExhausted`. It is out of
  the prover's reach.
- The three statements of the repository that the runs refute.

Every invariant, action property and refinement the passing runs check is a theorem.

### What is taken from outside the repository

- PostgreSQL 16 at READ COMMITTED: a statement sees what is committed when it
  starts; an UPDATE or DELETE waits for a locked row and looks at its latest
  version; a deadlock aborts one of those in it; a unique index refuses a second
  row.
- GORM 1.25.12: `Save` of a struct with a preloaded belongs-to association sets the
  foreign key from it, and upserts a preloaded has-many association by primary
  key.
- database/sql and GORM: a transaction keeps its connection until it ends; asking
  for one when all are taken waits without a deadline, since no handler passes a
  context; connections that are given back go to those who wait.
- PostgreSQL and the connection to it: the reply to a write, or to a COMMIT, may be
  lost although it has taken effect; GORM then returns an error. In the models the
  effect comes no later than the answer. One that comes later is to the tables what a
  request is that is still under way.
- Redis 7 and go-redis 9.7: INCR of a missing or expired key returns 1 and leaves no
  expiry; an attempt may be executed in part, and after the client has given it up. A
  pipeline is sent again, the whole of it, after a broken connection, a time-out or a
  failure to connect, up to 3 times with the default options; one request is
  thus counted up to 4 times. A call with all its attempts takes less than the
  limiter's window of a minute: time-outs are 3 and 5 seconds, the back-off half a
  second at most.
- bcrypt: all one learns from a hash is whether a password matches it; JWT: a token
  that is accepted was issued and has not expired.
- Go: sort.Slice is not stable, so equal amounts come in any order.
- float64 amounts are exact here. What the code does to them, rounding to cents
  after each operation, is kept; that a float is not quite a decimal is not. It
  shows in one place: a part exactly between two cents, which the model rounds
  up, may be a hair less in the float and be rounded down. Whole cents are never
  between two, so the plan of transfers and split by share do not meet the case.

### What is not modelled, and why

- Wording, logging, pagination, CSV layout: no property is about them.
- Lists (of expenses, groups, members, suggestions, users, audit records): one
  statement each, or one and a count, and they change nothing.
- Audit log: rows are appended after the commit they tell of, by themselves, and
  only administrators read them. When it fails, or the process stops first, the
  operation has no record, which the code accepts (`internal/service/audit_service.go:26`).
  In ConnPool it is a statement like others.
- HTTP plumbing: routing, headers, request ids and logs keep no state. What ErrorHandler
  makes of a panic is in RateLimiter, the one place where a handler panics.
- Start and shutdown: what they leave to the rest is in Init (the bootstrap
  administrator, a Redis that does not answer); a shutdown that runs out of time
  ends handlers between two statements, which is `Fail`.
- Web client and pages: the stores assign what an await returns, and the browser is
  the only scheduler; nothing of it reaches the server, which keeps the state
  that matters. Two hazards there are listed in `PROJECT.json` with a note.
- The columns nickname, avatar and status of users, title, receipt and split type of
  expenses, settled_at: nothing the properties say depends on them.
- Several client addresses of the limiter: they share neither keys nor buckets.
- Validation of a request's shape before a handler: `Script` and `Calls` are what
  passes it.
- Several groups: no handler but Settle touches two, and a Settle of several groups
  is several row sets to it, which the model has.

### Observations that no run states

- The plan is short but not always the shortest, as `src/README.md:28` has it
  ("最小化转账次数"): creditors 5 and 4, debtors 4, 3 and 2 get four transfers where
  three would do.
- An Update that asks for another payer answers ok and leaves the old one
  (`internal/service/expense_service.go:136`): GORM's Save sets the foreign key back to
  the preloaded payer. `IsBook` has it: an entry's payer is fixed when it is posted.
- Settle never looks at the status of the group, so an archived group settles, while
  `src/README.md:305` says "归档群组禁止记账/结算".
- Create of a group is two inserts that commit alone, inside a transaction that has
  neither (`internal/service/group_service.go:31` says "（事务）"): when the second fails the
  group stays. `OwnerMissingOnlyAfterFailure` says that this is the only way to a
  group without its owner.
- ChangePassword answers "密码修改成功" when it could not read the user.
- A PUT of an expense carries no version of what its sender was shown. When it
  arrives after another edit was committed it reads the newer shares and overwrites
  them; only edits that overlap in time are told apart (`NoBlindOverwrite`).
- A request that was answered 500 may have taken effect, and requests have no identity:
  who posts a bill again after that has it twice.
- A request whose pipeline is sent again counts more than once in Redis: when Redis is
  slow a client is refused before it has come as often as the limit says.
- When Redis does not answer at the start, `cmd/server/main.go:45` logs "rate limit falls
  back to in-memory". It does not: the nil client panics in each request, before the
  fallback is reached, and every request is answered 500.
- A pipeline of which only INCR is executed leaves a key without expiry; the next
  minute has a key of its own, so it does no harm but to stay.
- Two failures in different places make one request count twice, in Redis and in
  memory.
- An administrator whose role was taken away acts as one until his token expires,
  and may give himself the role again.
- Settle does not set settled_at; the repository's MarkSettled, which does, has no
  caller.
- An archived group can take a bill when it is archived after `LockByID`.
- Generate deletes settled suggestions as well, and computes balances from
  expenses alone: what has been paid is suggested again.
