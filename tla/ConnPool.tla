------------------------------ MODULE ConnPool ------------------------------
(***************************************************************************)
(* ConnPool: the pool of database connections, and what the handlers ask of *)
(* it.  A transaction keeps one connection until it ends.  The repositories *)
(* hold the pool, not the transaction, so most handlers ask for a second    *)
(* connection while they keep the first.  Nothing bounds the wait: gorm     *)
(* passes a context that never ends.                                       *)
(*                                                                         *)
(* A handler is the sequence of what it does next: "begin" and "commit",    *)
(* "tx" for statements of its transaction, "pool" for statements on a       *)
(* connection of their own.  Successive statements of one kind are one, and *)
(* row locks are left to the other modules: no handler asks the pool for    *)
(* anything while it holds one.                                            *)
(***************************************************************************)
EXTENDS Integers, Sequences, FiniteSets

CONSTANTS Requests,
          Conns,      \* SetMaxOpenConns
          Script      \* which handlers a request may call

CreateExpense == <<"begin", "pool", "tx", "pool", "tx", "commit", "pool">>
UpdateExpense == <<"begin", "pool", "tx", "pool", "tx", "commit", "pool">>
DeleteExpense == <<"begin", "pool", "tx", "commit", "pool">>
Generate      == <<"begin", "pool", "tx", "commit", "pool">>
Settle        == <<"begin", "pool", "tx", "commit", "pool">>
CreateGroup   == <<"begin", "pool", "commit", "pool">>
Others        == <<"pool">>

Handlers == {CreateExpense, UpdateExpense, DeleteExpense, Generate, Settle, CreateGroup, Others}

ASSUME PoolAssumption ==
  /\ IsFiniteSet(Requests)
  /\ Conns \in Nat \ {0}
  /\ Script \in [Requests -> SUBSET Handlers]

VARIABLES todo,      \* what each request has still to do
          inTx,      \* requests that keep a connection for their transaction
          running,   \* requests with a statement on a connection of its own
          free       \* connections that may be taken

poolVars == <<todo, inTx, running, free>>

Kinds == {"begin", "pool", "tx", "commit"}

PoolInit ==
  /\ todo \in {f \in [Requests -> Handlers] : \A r \in Requests : f[r] \in Script[r]}
  /\ inTx = {}
  /\ running = {}
  /\ free = Conns

-----------------------------------------------------------------------------
Finished(r) == todo[r] = <<>>
IsNext(r, kind) == ~Finished(r) /\ Head(todo[r]) = kind
Advance(r) == todo' = [todo EXCEPT ![r] = Tail(@)]

\* db.Begin takes a connection, or waits for one.
Begin(r) ==
  /\ IsNext(r, "begin")
  /\ free > 0 /\ free' = free - 1
  /\ inTx' = inTx \cup {r}
  /\ Advance(r)
  /\ UNCHANGED running

\* A statement on the pool takes a connection, or waits for one.
TakeConn(r) ==
  /\ IsNext(r, "pool") /\ r \notin running
  /\ free > 0 /\ free' = free - 1
  /\ running' = running \cup {r}
  /\ UNCHANGED <<todo, inTx>>

EndStatement(r) ==
  /\ r \in running
  /\ running' = running \ {r}
  /\ free' = free + 1
  /\ Advance(r)
  /\ UNCHANGED inTx

TxStatement(r) ==
  /\ IsNext(r, "tx")
  /\ Advance(r)
  /\ UNCHANGED <<inTx, running, free>>

\* Variant: the connection is not given back.
CommitKeeps(r) ==
  /\ IsNext(r, "commit")
  /\ inTx' = inTx \ {r}
  /\ Advance(r)
  /\ UNCHANGED <<running, free>>

Commit(r) ==
  /\ IsNext(r, "commit")
  /\ inTx' = inTx \ {r}
  /\ free' = free + 1
  /\ Advance(r)
  /\ UNCHANGED running

\* What has no end of its own: waiting for a connection.
Waiting(r) == r \notin running /\ free = 0 /\ (IsNext(r, "begin") \/ IsNext(r, "pool"))

Held(r) == Cardinality({r} \cap inTx) + Cardinality({r} \cap running)

\* Variant: a wait ends with the request's deadline.
FailWaiting(r) ==
  /\ ~Finished(r)
  /\ todo' = [todo EXCEPT ![r] = <<>>]
  /\ inTx' = inTx \ {r}
  /\ running' = running \ {r}
  /\ free' = free + Held(r)

\* Variant: a failed transaction is not rolled back.
FailNoRollback(r) ==
  /\ ~Finished(r) /\ ~Waiting(r)
  /\ todo' = [todo EXCEPT ![r] = <<>>]
  /\ inTx' = inTx \ {r}
  /\ running' = running \ {r}
  /\ free' = free + Cardinality({r} \cap running)

\* A statement returns an error: the transaction is rolled back, and every
\* connection of the request goes back.
Fail(r) ==
  /\ ~Finished(r) /\ ~Waiting(r)
  /\ todo' = [todo EXCEPT ![r] = <<>>]
  /\ inTx' = inTx \ {r}
  /\ running' = running \ {r}
  /\ free' = free + Held(r)

Work(r) == Begin(r) \/ TakeConn(r) \/ EndStatement(r) \/ TxStatement(r) \/ Commit(r)

PoolNext == \E r \in Requests : Work(r) \/ Fail(r)

\* A statement that runs comes to an end, and a connection that is free is
\* given to a request that waits: database/sql keeps a queue.
PoolFairness == \A r \in Requests : WF_poolVars(Work(r))

PoolSpec == PoolInit /\ [][PoolNext]_poolVars
PoolFairSpec == PoolSpec /\ PoolFairness

-----------------------------------------------------------------------------
(* Properties *)

\* The types of what requests have to do, and of the pool.
PoolTypeOK ==
  /\ todo \in [Requests -> Seq(Kinds)]
  /\ inTx \subseteq Requests /\ running \subseteq Requests
  /\ free \in 0 .. Conns

\* Every connection is free, or somebody's: none is lost, whatever fails, and
\* none is used by two.
NoneLost == PoolTypeOK /\ free + Cardinality(inTx) + Cardinality(running) = Conns

\* Transactions that wait for a second connection.
HoldAndWait == {r \in inTx \ running : IsNext(r, "pool")}

Exhausted == Cardinality(HoldAndWait) = Conns

\* When such transactions have all connections, nobody does anything any more:
\* no request is answered, not even one that only reads.
FrozenOnceExhausted == [][Exhausted => Exhausted' /\ todo' = todo]_poolVars

\* Nothing else stops the server: unless the pool is exhausted in this way,
\* every request is answered.
AnsweredUnlessExhausted == [](~Exhausted) => \A r \in Requests : <>Finished(r)
=============================================================================
