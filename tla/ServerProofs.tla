----------------------------- MODULE ServerProofs ---------------------------
(***************************************************************************)
(* The two things every request passes before a handler runs its           *)
(* statements: the rate limiter and the pool of database connections.       *)
(*                                                                         *)
(* Connections, for every number of requests and connections: none is lost, *)
(* and once transactions that wait for a second one have all of them,       *)
(* nothing happens any more.                                               *)
(*                                                                         *)
(* The limiter, for every limit, window, and number of requests: what a     *)
(* client gets in a clock minute, from Redis alone and from Redis and       *)
(* memory together.  Redis: a call lasts less than a window, and a key two  *)
(* of them from its last count, so no call finds the key of its minute      *)
(* expired, and attempts that arrive late only count.  Memory: a bucket made within a minute lasts to its end, so a   *)
(* minute sees one bucket begin, and of the one before it the minute gets   *)
(* less than the limit, as its first request came earlier.                  *)
(* Nobody is refused without need: a count, and the calls and attempts on   *)
(* their way to it, are no more than the requests that came and the         *)
(* pipelines sent again for them, and a request has only so many of these.  *)
(***************************************************************************)
EXTENDS ConnPool, RateLimiter, SumTheorems, FiniteSetTheorems, TLAPS

-----------------------------------------------------------------------------
(* The pool of connections *)

\* What is left to do while a transaction is open, and while none is.
Inside ==
  { <<"pool", "tx", "pool", "tx", "commit", "pool">>, <<"tx", "pool", "tx", "commit", "pool">>,
    <<"pool", "tx", "commit", "pool">>, <<"tx", "commit", "pool">>, <<"commit", "pool">>,
    <<"pool", "commit", "pool">> }

Outside == Handlers \cup { <<"pool">>, <<>> }

\* How the two follow from one another.
LEMMA Tails ==
  /\ \A s \in Inside :
       /\ s # <<>> /\ Head(s) \in {"pool", "tx", "commit"}
       /\ Head(s) = "commit" => Tail(s) \in Outside
       /\ Head(s) # "commit" => Tail(s) \in Inside
  /\ \A s \in Outside : s # <<>> =>
       /\ Head(s) \in {"begin", "pool"}
       /\ Head(s) = "begin" => Tail(s) \in Inside
       /\ Head(s) = "pool" => Tail(s) \in Outside
  BY DEF Inside, Outside, Handlers, CreateExpense, UpdateExpense, DeleteExpense, Generate, Settle,
         CreateGroup, Others

\* So all of them are sequences of what a request may do.
LEMMA TailsAreTyped == Inside \cup Outside \subseteq Seq(Kinds)
  BY DEF Inside, Outside, Handlers, CreateExpense, UpdateExpense, DeleteExpense, Generate, Settle,
         CreateGroup, Others, Kinds

\* What a request still has to do tells whether its transaction is open; while
\* a statement of its own runs, that statement is what comes next.
Fits(r) ==
  /\ r \in inTx => todo[r] \in Inside
  /\ r \notin inTx => todo[r] \in Outside
  /\ r \in running => IsNext(r, "pool")

\* The connections add up, and each request is where its handler may be.
PoolInductive == NoneLost /\ \A r \in Requests : Fits(r)

\* Adding to and taking from the finite sets of requests.
LEMMA Counts ==
  ASSUME NEW S \in SUBSET Requests
  PROVE  /\ Cardinality(S) \in Nat
         /\ \A r \in Requests :
              /\ Cardinality(S \cup {r}) = IF r \in S THEN Cardinality(S) ELSE Cardinality(S) + 1
              /\ Cardinality(S \ {r}) = IF r \in S THEN Cardinality(S) - 1 ELSE Cardinality(S)
              /\ Cardinality({r} \cap S) = IF r \in S THEN 1 ELSE 0
  <1>1. IsFiniteSet(S)
    BY PoolAssumption, FS_Subset
  <1>2. Cardinality(S) \in Nat
    BY <1>1, FS_CardinalityType
  <1>3. \A r : Cardinality(S \cup {r}) = IF r \in S THEN Cardinality(S) ELSE Cardinality(S) + 1
    BY <1>1, FS_AddElement
  <1>4. \A r : Cardinality(S \ {r}) = IF r \in S THEN Cardinality(S) - 1 ELSE Cardinality(S)
    BY <1>1, FS_RemoveElement
  <1>5. \A r : Cardinality({r} \cap S) = IF r \in S THEN 1 ELSE 0
    <2> SUFFICES ASSUME NEW r PROVE Cardinality({r} \cap S) = IF r \in S THEN 1 ELSE 0
      OBVIOUS
    <2>1. CASE r \in S
      <3>1. {r} \cap S = {r}
        BY <2>1
      <3> QED
        BY <2>1, <3>1, FS_Singleton
    <2>2. CASE r \notin S
      <3>1. {r} \cap S = {}
        BY <2>2
      <3> QED
        BY <2>2, <3>1, FS_EmptySet
    <2> QED
      BY <2>1, <2>2
  <1> QED
    BY <1>2, <1>3, <1>4, <1>5

\* One request moves on, and what it takes or gives back is accounted for.
Moves(r, rest) ==
  /\ todo' = [todo EXCEPT ![r] = rest]
  /\ inTx' \in {inTx, inTx \cup {r}, inTx \ {r}}
  /\ running' \in {running, running \cup {r}, running \ {r}}
  /\ free' \in Nat
  /\ free' + Cardinality(inTx') + Cardinality(running') =
       free + Cardinality(inTx) + Cardinality(running)
  /\ r \in inTx' => rest \in Inside
  /\ r \notin inTx' => rest \in Outside
  /\ r \in running' => rest # <<>> /\ Head(rest) = "pool"

\* Such a move of one request keeps the invariant.
LEMMA MoveStep ==
  ASSUME PoolInductive, NEW r \in Requests, NEW rest, Moves(r, rest)
  PROVE  PoolInductive'
  <1> USE DEF Moves
  <1>1. PoolTypeOK /\ free + Cardinality(inTx) + Cardinality(running) = Conns
    BY DEF PoolInductive, NoneLost
  <1>2. rest \in Seq(Kinds)
    BY TailsAreTyped
  <1>3. todo' \in [Requests -> Seq(Kinds)] /\ inTx' \subseteq Requests /\ running' \subseteq Requests
    BY <1>1, <1>2 DEF PoolTypeOK
  <1>4. Cardinality(inTx') \in Nat /\ Cardinality(running') \in Nat
    BY <1>3, Counts
  <1>5. free' \in 0 .. Conns
    BY <1>1, <1>4, PoolAssumption
  <1>6. \A q \in Requests : Fits(q)'
    <2>1. todo'[r] = rest /\ Fits(r)'
      BY <1>1 DEF PoolTypeOK, Fits, IsNext, Finished
    <2>2. ASSUME NEW q \in Requests, q # r
          PROVE  Fits(q)'
      BY <1>1, <2>2 DEF PoolTypeOK, PoolInductive, Fits, IsNext, Finished
    <2> QED
      BY <2>1, <2>2
  <1> QED
    BY <1>1, <1>3, <1>5, <1>6 DEF PoolInductive, NoneLost, PoolTypeOK

\* Every step is such a move.
LEMMA InductiveStep ==
  ASSUME PoolInductive, [PoolNext]_poolVars
  PROVE  PoolInductive'
  <1>1. PoolTypeOK /\ free \in Nat
    BY PoolAssumption DEF PoolInductive, NoneLost, PoolTypeOK
  <1>2. Cardinality(inTx) \in Nat /\ Cardinality(running) \in Nat
    BY <1>1, Counts DEF PoolTypeOK
  <1>3. ASSUME NEW r \in Requests, Begin(r)
        PROVE  PoolInductive'
    <2>1. r \notin inTx /\ r \notin running /\ Tail(todo[r]) \in Inside
      BY <1>3, Tails DEF Begin, IsNext, Finished, PoolInductive, Fits
    <2>2. Cardinality(inTx') = Cardinality(inTx) + 1
      BY <1>1, <1>3, <2>1, Counts DEF Begin, PoolTypeOK
    <2>3. Moves(r, Tail(todo[r]))
      BY <1>1, <1>2, <1>3, <2>1, <2>2 DEF Begin, Advance, Moves
    <2> QED
      BY <2>3, MoveStep
  <1>4. ASSUME NEW r \in Requests, TakeConn(r)
        PROVE  PoolInductive'
    <2>1. todo' = [todo EXCEPT ![r] = todo[r]]
      BY <1>1, <1>4 DEF TakeConn, PoolTypeOK
    <2>2. Cardinality(running') = Cardinality(running) + 1
      BY <1>1, <1>4, Counts DEF TakeConn, PoolTypeOK
    <2>3. /\ IsNext(r, "pool")
          /\ r \in inTx => todo[r] \in Inside
          /\ r \notin inTx => todo[r] \in Outside
      BY <1>4 DEF TakeConn, PoolInductive, Fits
    <2>4. Moves(r, todo[r])
      <3>1. /\ free' \in Nat
            /\ free' + Cardinality(inTx') + Cardinality(running') =
                 free + Cardinality(inTx) + Cardinality(running)
        BY <1>1, <1>2, <1>4, <2>2 DEF TakeConn
      <3>2. inTx' = inTx /\ running' = running \cup {r}
        BY <1>4 DEF TakeConn
      <3> QED
        BY <2>1, <2>3, <3>1, <3>2 DEF IsNext, Finished, Moves
    <2> QED
      BY <2>4, MoveStep
  <1>5. ASSUME NEW r \in Requests, EndStatement(r)
        PROVE  PoolInductive'
    <2>1. /\ r \in inTx => Tail(todo[r]) \in Inside
          /\ r \notin inTx => Tail(todo[r]) \in Outside
      BY <1>5, Tails DEF EndStatement, IsNext, Finished, PoolInductive, Fits
    <2>2. Cardinality(running') = Cardinality(running) - 1
      BY <1>1, <1>5, Counts DEF EndStatement, PoolTypeOK
    <2>3. Moves(r, Tail(todo[r]))
      BY <1>1, <1>2, <1>5, <2>1, <2>2 DEF EndStatement, Advance, Moves
    <2> QED
      BY <2>3, MoveStep
  <1>6. ASSUME NEW r \in Requests, TxStatement(r)
        PROVE  PoolInductive'
    <2>1. r \in inTx /\ r \notin running /\ Tail(todo[r]) \in Inside
      BY <1>6, Tails DEF TxStatement, IsNext, Finished, PoolInductive, Fits
    <2>3. Moves(r, Tail(todo[r]))
      BY <1>1, <1>2, <1>6, <2>1 DEF TxStatement, Advance, Moves
    <2> QED
      BY <2>3, MoveStep
  <1>7. ASSUME NEW r \in Requests, Commit(r)
        PROVE  PoolInductive'
    <2>1. r \in inTx /\ r \notin running /\ Tail(todo[r]) \in Outside
      BY <1>7, Tails DEF Commit, IsNext, Finished, PoolInductive, Fits
    <2>2. Cardinality(inTx') = Cardinality(inTx) - 1
      BY <1>1, <1>7, <2>1, Counts DEF Commit, PoolTypeOK
    <2>3. Moves(r, Tail(todo[r]))
      BY <1>1, <1>2, <1>7, <2>1, <2>2 DEF Commit, Advance, Moves
    <2> QED
      BY <2>3, MoveStep
  <1>8. ASSUME NEW r \in Requests, Fail(r)
        PROVE  PoolInductive'
    <2>1. /\ Cardinality(inTx') = Cardinality(inTx) - Cardinality({r} \cap inTx)
          /\ Cardinality(running') = Cardinality(running) - Cardinality({r} \cap running)
          /\ Cardinality({r} \cap inTx) \in Nat /\ Cardinality({r} \cap running) \in Nat
      <3>1. ASSUME NEW S \in SUBSET Requests
            PROVE  /\ Cardinality(S \ {r}) = Cardinality(S) - Cardinality({r} \cap S)
                   /\ Cardinality({r} \cap S) \in Nat
        <4>1. Cardinality(S \ {r}) = IF r \in S THEN Cardinality(S) - 1 ELSE Cardinality(S)
          BY Counts
        <4>2. Cardinality({r} \cap S) = IF r \in S THEN 1 ELSE 0
          BY Counts
        <4>3. Cardinality(S) \in Nat
          BY Counts
        <4> QED
          BY <4>1, <4>2, <4>3
      <3>2. inTx' = inTx \ {r} /\ running' = running \ {r}
        BY <1>8 DEF Fail
      <3> QED
        BY <1>1, <3>1, <3>2 DEF PoolTypeOK
    <2> DEFINE a == Cardinality({r} \cap inTx)
               b == Cardinality({r} \cap running)
    <2>2. free' = free + (a + b)
      BY <1>8 DEF Fail, Held
    <2> HIDE DEF a, b
    <2>3. /\ free' \in Nat
          /\ free' + Cardinality(inTx') + Cardinality(running') =
               free + Cardinality(inTx) + Cardinality(running)
      <3>1. Cardinality(inTx') = Cardinality(inTx) - a /\ a \in Nat
            /\ Cardinality(running') = Cardinality(running) - b /\ b \in Nat
        BY <2>1 DEF a, b
      <3> QED
        BY <1>1, <1>2, <2>2, <3>1
    <2>4. Moves(r, <<>>)
      BY <1>8, <2>3 DEF Fail, Outside, Moves
    <2> QED
      BY <2>4, MoveStep
  <1>9. ASSUME UNCHANGED poolVars
        PROVE  PoolInductive'
    BY <1>9 DEF poolVars, PoolInductive, NoneLost, PoolTypeOK, Fits, IsNext, Finished
  <1> QED
    BY <1>3, <1>4, <1>5, <1>6, <1>7, <1>8, <1>9 DEF PoolNext, Work

\* At any time each request is where its handler keeps a connection, or where
\* it does not, and the connections add up.
THEOREM PoolInductiveHolds == PoolSpec => []PoolInductive
  <1>1. PoolInit => PoolInductive
    <2> SUFFICES ASSUME PoolInit PROVE PoolInductive
      OBVIOUS
    <2>1. \A r \in Requests : todo[r] \in Handlers
      BY DEF PoolInit
    <2>2. Handlers \subseteq Outside
      BY DEF Outside
    <2>3. PoolTypeOK
      BY <2>1, <2>2, TailsAreTyped, PoolAssumption DEF PoolInit, PoolTypeOK
    <2>4. NoneLost
      BY <2>3, FS_EmptySet, PoolAssumption DEF PoolInit, NoneLost
    <2> QED
      BY <2>1, <2>2, <2>4 DEF PoolInit, PoolInductive, Fits
  <1> QED
    BY <1>1, InductiveStep, PTL DEF PoolSpec

\* Every connection is free or in one request's hands.
THEOREM ConnectionsAreKept == PoolSpec => []NoneLost
  <1>1. PoolInductive => NoneLost
    BY DEF PoolInductive
  <1> QED
    BY <1>1, PoolInductiveHolds, PTL

\* When transactions that wait for a second connection have all of them, they
\* are all there is: nothing else runs, and no request can do anything.
THEOREM ExhaustionIsFinal == PoolSpec => FrozenOnceExhausted
  <1> DEFINE Frozen == Exhausted => Exhausted' /\ todo' = todo
  <1>1. PoolInductive /\ [PoolNext]_poolVars => [Frozen]_poolVars
    <2> SUFFICES ASSUME PoolInductive, [PoolNext]_poolVars, Exhausted
                 PROVE  UNCHANGED poolVars
      BY DEF poolVars, Exhausted, HoldAndWait, IsNext, Finished
    <2>1. PoolTypeOK /\ free \in Nat /\ free + Cardinality(inTx) + Cardinality(running) = Conns
      BY PoolAssumption DEF PoolInductive, NoneLost, PoolTypeOK
    <2>2. IsFiniteSet(inTx) /\ IsFiniteSet(running) /\ HoldAndWait \subseteq inTx
      BY <2>1, PoolAssumption, FS_Subset DEF PoolTypeOK, HoldAndWait
    <2>3. Cardinality(HoldAndWait) <= Cardinality(inTx) /\ Cardinality(inTx) \in Nat
          /\ Cardinality(running) \in Nat
      BY <2>2, FS_Subset, FS_CardinalityType
    <2>4. free = 0 /\ Cardinality(running) = 0 /\ Cardinality(inTx) = Cardinality(HoldAndWait)
      BY <2>1, <2>3, PoolAssumption DEF Exhausted
    <2>5. running = {} /\ inTx = HoldAndWait
      BY <2>2, <2>4, FS_EmptySet, FS_Subset
    <2>6. \A r \in Requests : ~Finished(r) => Waiting(r)
      <3> SUFFICES ASSUME NEW r \in Requests, ~Finished(r) PROVE Waiting(r)
        OBVIOUS
      <3>1. CASE r \in inTx
        BY <2>4, <2>5, <3>1 DEF HoldAndWait, Waiting
      <3>2. CASE r \notin inTx
        <4>1. Head(todo[r]) \in {"begin", "pool"}
          BY <3>2, Tails DEF Finished, PoolInductive, Fits
        <4> QED
          BY <2>4, <2>5, <4>1 DEF Waiting, IsNext
      <3> QED
        BY <3>1, <3>2
    <2>7. ASSUME NEW r \in Requests, Work(r) \/ Fail(r)
          PROVE  FALSE
      <3>1. ~Finished(r) /\ Waiting(r)
        BY <2>5, <2>6, <2>7
        DEF Work, Begin, TakeConn, EndStatement, TxStatement, Commit, Fail, IsNext
      <3> QED
        BY <2>4, <2>7, <3>1
        DEF Work, Begin, TakeConn, EndStatement, TxStatement, Commit, Fail, IsNext, Waiting
    <2> QED
      BY <2>7 DEF PoolNext
  <1> QED
    BY <1>1, PoolInductiveHolds, PTL DEF PoolSpec, FrozenOnceExhausted

-----------------------------------------------------------------------------
(* The rate limiter *)

\* The clock counts minutes of Window ticks.
LEMMA Clock ==
  ASSUME NEW t \in Nat
  PROVE  Minute(t) \in Nat /\ Minute(t) * Window <= t /\ t < Minute(t) * Window + Window
  <1>1. Window \in Nat /\ Window > 0
    BY LimiterAssumption
  <1> QED
    BY <1>1, SMT DEF Minute

\* Minutes follow one another; more than a window later it is another minute.
LEMMA LaterMinute ==
  ASSUME NEW t \in Nat, NEW u \in Nat, t <= u
  PROVE  /\ Minute(t) <= Minute(u)
         /\ t + Window < u => Minute(t) < Minute(u)
  <1>1. Window \in Nat /\ Window > 0
    BY LimiterAssumption
  <1>2. /\ Minute(t) \in Nat /\ Minute(t) * Window <= t /\ t < Minute(t) * Window + Window
        /\ Minute(u) \in Nat /\ Minute(u) * Window <= u /\ u < Minute(u) * Window + Window
    BY Clock
  <1>3. \A m, n \in Nat : m < n => m * Window + Window <= n * Window
    <2> SUFFICES ASSUME NEW m \in Nat, NEW n \in Nat, m < n
                 PROVE  m * Window + Window <= n * Window
      OBVIOUS
    <2>1. n - m - 1 \in Nat /\ (n - m - 1) * Window >= 0
      BY <1>1, SMT
    <2>2. (n - m - 1) * Window = n * Window - m * Window - Window
      BY <1>1, SMT
    <2> QED
      BY <1>1, <2>1, <2>2, SMT
  <1>4. \A m \in Nat : m * Window \in Nat
    BY <1>1, SMT
  <1>5. CASE Minute(u) < Minute(t)
    BY <1>1, <1>2, <1>3, <1>4, <1>5, SMT
  <1>6. CASE Minute(u) = Minute(t)
    BY <1>1, <1>2, <1>4, <1>6, SMT
  <1>7. CASE Minute(t) < Minute(u)
    BY <1>2, <1>7, SMT
  <1> QED
    BY <1>2, <1>5, <1>6, <1>7, SMT

\* The ranges of the constants, and the minutes of the clock.
LEMMA Bounds ==
  /\ Limit \in Nat /\ Limit > 0 /\ Window \in Nat /\ Window > 0 /\ Horizon \in Nat
  /\ \A t \in Ticks : t \in Nat /\ Minute(t) \in Minutes
  <1>1. Limit \in Nat /\ Limit > 0 /\ Window \in Nat /\ Window > 0 /\ Horizon \in Nat
    BY LimiterAssumption DEF Limit
  <1>2. \A t \in Ticks : t \in Nat /\ t <= Horizon
    BY <1>1 DEF Ticks
  <1>3. \A t \in Ticks : Minute(t) \in Minutes
    BY <1>1, <1>2, Clock, LaterMinute DEF Minutes
  <1> QED
    BY <1>1, <1>2, <1>3

\* The time read, the attempt and the minute of a call, and the attempt after it.
LEMMA CallParts ==
  /\ MaxRetries \in Nat
  /\ \A c \in Calls :
       /\ c[1] \in Ticks /\ c[1] \in Nat /\ KeyOf(c) \in Minutes
       /\ c[2] \in Nat /\ c[2] <= MaxRetries
       /\ c[2] < MaxRetries => <<c[1], c[2] + 1>> \in Calls
  /\ \A t \in Ticks : <<t, 0>> \in Calls
  <1>1. MaxRetries \in Nat
    BY LimiterAssumption
  <1>2. \A t \in Ticks : t \in Nat /\ Minute(t) \in Minutes
    BY Bounds
  <1> QED
    BY <1>1, <1>2 DEF Calls, KeyOf

\* Calls are short; attempts come no earlier than their minute; a key outlives the
\* calls that count in it, and counts for as long what has been let through.
RedisPart ==
  /\ \A c \in Calls : calls[c] > 0 => c[1] <= now /\ now < c[1] + Window
  /\ \A m \in Minutes : stray[m] > 0 => m * Window <= now
  /\ \A m \in Minutes : keys[m].expires # Never => m * Window + 2 * Window <= keys[m].expires
  /\ \A m \in Minutes :
       /\ allowed["redis"][m] <= Limit
       /\ now < m * Window + 2 * Window => allowed["redis"][m] <= keys[m].count

\* When the bucket was made, and what a minute has got from it and from the one
\* before.
Made == bucket.reset - Window

MemoryPart ==
  LET got == allowed["memory"]
      current == Minute(now)
  IN
  /\ \A m \in Minutes : got[m] < 2 * Limit /\ (m > current => got[m] = 0)
  /\ bucket.reset = Never => \A m \in Minutes : got[m] = 0
  /\ bucket.reset # Never =>
       /\ bucket.count > 0 /\ Made \in Nat /\ Made <= now
       /\ Minute(Made) < current => got[current] < Limit /\ got[current] < bucket.count
       /\ Minute(Made) = current => got[current] < Limit + bucket.count

\* What is known of the counters in Redis and of the bucket in memory.
Inductive == TypeOK /\ RedisPart /\ MemoryPart

-----------------------------------------------------------------------------
\* A verdict adds one at most to one count of one minute.
LEMMA VerdictEffect ==
  ASSUME TypeOK, NEW c \in Counters, NEW ok, NEW t \in Ticks, Verdict(c, ok, t)
  PROVE  /\ allowed' \in [Counters -> [Minutes -> Nat]]
         /\ \A d \in Counters : d # c => allowed'[d] = allowed[d]
         /\ \A m \in Minutes :
              allowed'[c][m] = IF ok /\ m = Minute(t) THEN allowed[c][m] + 1 ELSE allowed[c][m]
  <1>1. Minute(t) \in Minutes
    BY Bounds
  <1> QED
    BY <1>1 DEF Verdict, TypeOK

\* What reaches Redis keeps the type of the keys.
LEMMA KeyTypes ==
  ASSUME TypeOK, NEW m \in Minutes
  PROVE  /\ keys[m] \in [count : Nat, expires : Times]
         /\ AfterIncr(m) \in [count : Nat, expires : Times]
         /\ AfterBoth(m) \in [count : Nat, expires : Times]
  BY Bounds DEF TypeOK, AfterIncr, AfterBoth, Incr, KeyTTL, Times, Never, Ticks

\* Every step keeps the types.
LEMMA TypeStep ==
  ASSUME TypeOK, [Next]_vars
  PROVE  TypeOK'
  <1> USE DEF shared, tallies
  <1>1. now \in Ticks /\ Minute(now) \in Minutes
    BY Bounds DEF TypeOK
  <1>2. CASE ReadClock
    <2>1. came' \in [Minutes -> Nat] /\ calls' \in [Calls -> Nat]
      BY <1>1, <1>2, CallParts DEF ReadClock, TypeOK
    <2> QED
      BY <1>2, <2>1 DEF ReadClock, TypeOK
  <1>3. CASE AllowMem
    <2>1. allowed' \in [Counters -> [Minutes -> Nat]]
      BY <1>1, <1>3, VerdictEffect DEF AllowMem, Counters
    <2>2. counted' \in [Ticks -> Nat] /\ fallen' \in Nat
      BY <1>1, <1>3 DEF AllowMem, TypeOK
    <2>3. bucket' \in [count : Nat, reset : Times]
      <3>1. now + Window \in Nat /\ Nat \subseteq Times
        BY <1>1, Bounds DEF Times
      <3>2. CASE BucketOver
        BY <1>3, <3>1, <3>2 DEF AllowMem
      <3>3. CASE ~BucketOver
        BY <1>3, <3>3 DEF AllowMem, TypeOK
      <3> QED
        BY <3>2, <3>3
    <2> QED
      BY <1>3, <2>1, <2>2, <2>3 DEF AllowMem, TypeOK
  <1>4. CASE Tick
    <2>1. now' \in Ticks
      BY <1>4, Bounds DEF Tick, TypeOK, Ticks
    <2> QED
      BY <1>4, <2>1 DEF Tick, TypeOK
  <1>5. ASSUME NEW c \in Calls, Exec(c) \/ Resend(c) \/ ExecFails(c)
        PROVE  TypeOK'
    <2> DEFINE m == KeyOf(c)
    <2>1. m \in Minutes /\ c[1] \in Ticks /\ calls \in [Calls -> Nat] /\ stray \in [Minutes -> Nat]
      BY CallParts DEF TypeOK
    <2> HIDE DEF m
    <2>2. CASE Exec(c)
      <3>1. allowed' \in [Counters -> [Minutes -> Nat]]
        BY <2>1, <2>2, VerdictEffect DEF Exec, Counters
      <3>2. keys' \in [Minutes -> [count : Nat, expires : Times]]
        BY <2>1, <2>2, KeyTypes DEF Exec, TypeOK, m
      <3>3. calls' \in [Calls -> Nat]
        BY <2>1, <2>2 DEF Exec, EndCall
      <3> QED
        BY <2>2, <3>1, <3>2, <3>3 DEF Exec, TypeOK
    <2>3. CASE Resend(c)
      <3> DEFINE d == <<c[1], c[2] + 1>>
      <3>1. d \in Calls /\ d # c /\ calls[c] > 0
            /\ calls' = [calls EXCEPT ![c] = @ - 1, ![d] = @ + 1]
        BY <2>3, CallParts DEF Resend
      <3> HIDE DEF d
      <3>2. calls' \in [Calls -> Nat]
        BY <2>1, <3>1
      <3>3. stray' \in [Minutes -> Nat] /\ resent' \in [Minutes -> Nat]
        BY <2>1, <2>3 DEF Resend, TypeOK, m
      <3> QED
        BY <2>3, <3>2, <3>3 DEF Resend, TypeOK
    <2>4. CASE ExecFails(c)
      <3>1. calls' \in [Calls -> Nat] /\ stray' \in [Minutes -> Nat] /\ fallen' \in Nat
        BY <2>1, <2>4 DEF ExecFails, EndCall, TypeOK, m
      <3> QED
        BY <2>4, <3>1 DEF ExecFails, TypeOK
    <2> QED
      BY <1>5, <2>2, <2>3, <2>4
  <1>6. ASSUME NEW m \in Minutes, Arrive(m)
        PROVE  TypeOK'
    <2>1. keys' \in [Minutes -> [count : Nat, expires : Times]] /\ stray' \in [Minutes -> Nat]
      BY <1>6, KeyTypes DEF Arrive, TypeOK
    <2> QED
      BY <1>6, <2>1 DEF Arrive, TypeOK
  <1>7. CASE UNCHANGED vars
    BY <1>7 DEF vars, TypeOK
  <1> QED
    BY <1>2, <1>3, <1>4, <1>5, <1>6, <1>7 DEF Next, Done

-----------------------------------------------------------------------------
(* Redis *)

\* A call under way is of a minute that has begun, and began less than two
\* windows ago.
LEMMA CallsAreInTime ==
  ASSUME TypeOK, RedisPart, NEW c \in Calls, calls[c] > 0
  PROVE  KeyOf(c) * Window <= now /\ now < KeyOf(c) * Window + 2 * Window
  <1>1. /\ c[1] \in Nat /\ Minute(c[1]) \in Nat /\ Minute(c[1]) * Window \in Int
        /\ Minute(c[1]) * Window <= c[1] /\ c[1] < Minute(c[1]) * Window + Window
    <2>1. c[1] \in Nat
      BY CallParts
    <2>2. /\ Minute(c[1]) \in Nat
          /\ Minute(c[1]) * Window <= c[1] /\ c[1] < Minute(c[1]) * Window + Window
      BY <2>1, Clock
    <2> HIDE DEF Minute
    <2>3. Minute(c[1]) * Window \in Int
      BY <2>2, Bounds, SMT
    <2> QED
      BY <2>1, <2>2, <2>3
  <1>2. now \in Nat /\ c[1] <= now /\ now < c[1] + Window /\ Window \in Nat
    BY Bounds DEF TypeOK, RedisPart
  <1> HIDE DEF Minute
  <1> QED
    BY <1>1, <1>2, SMT DEF KeyOf

\* What reaches Redis sets no early expiry, and counts up while calls of the
\* minute may be under way.
LEMMA KeysStay ==
  ASSUME TypeOK, RedisPart, NEW m \in Minutes, m * Window <= now,
         NEW k \in {AfterIncr(m), AfterBoth(m)}
  PROVE  /\ k.expires # Never => m * Window + 2 * Window <= k.expires
         /\ now < m * Window + 2 * Window =>
              k.count = keys[m].count + 1 /\ Incr(m) = keys[m].count + 1
  <1>1. m * Window \in Int /\ now \in Nat /\ Window \in Nat
    BY Bounds, SMT DEF TypeOK, Minutes
  <1>2. keys[m].count \in Nat /\ keys[m].expires \in Int
        /\ (keys[m].expires # Never => m * Window + 2 * Window <= keys[m].expires)
    BY DEF TypeOK, RedisPart, Times, Never
  <1> QED
    BY <1>1, <1>2, SMT DEF AfterIncr, AfterBoth, Incr, Expired, KeyTTL

\* Every step keeps what is known of the keys in Redis.
LEMMA RedisStep ==
  ASSUME Inductive, TypeOK', [Next]_vars
  PROVE  RedisPart'
  <1> USE DEF shared, tallies
  <1>0. TypeOK /\ RedisPart /\ now \in Nat /\ now \in Ticks /\ Window \in Nat /\ Window > 0
        /\ calls \in [Calls -> Nat] /\ stray \in [Minutes -> Nat]
        /\ \A m \in Minutes : m * Window \in Int
    <2>1. TypeOK /\ RedisPart /\ now \in Ticks
          /\ calls \in [Calls -> Nat] /\ stray \in [Minutes -> Nat]
      BY DEF Inductive, TypeOK
    <2>2. now \in Nat /\ Window \in Nat /\ Window > 0
      BY <2>1, Bounds
    <2>3. Minutes \subseteq Int
      BY DEF Minutes
    <2>4. \A m \in Minutes : m * Window \in Int
      BY <2>2, <2>3, SMT
    <2> QED
      BY <2>1, <2>2, <2>4
  <1>1. CASE ReadClock
    <2>1. \A c \in Calls : calls'[c] > 0 => c[1] <= now /\ now < c[1] + Window
      <3>1. \A c \in Calls : calls'[c] > 0 => calls[c] > 0 \/ c = <<now, 0>>
        BY <1>0, <1>1 DEF ReadClock
      <3> QED
        BY <1>0, <3>1 DEF RedisPart
    <2> QED
      BY <1>0, <1>1, <2>1 DEF ReadClock, RedisPart
  <1>2. CASE AllowMem
    <2>1. allowed'["redis"] = allowed["redis"]
      BY <1>0, <1>2, VerdictEffect DEF AllowMem, Counters
    <2> QED
      BY <1>0, <1>2, <2>1 DEF AllowMem, RedisPart
  <1>3. CASE Tick
    <2>1. now' = now + 1 /\ keys' = keys /\ calls' = calls /\ stray' = stray /\ allowed' = allowed
      BY <1>3 DEF Tick
    <2>2. \A c \in Calls : calls[c] > 0 => c[1] <= now + 1 /\ now + 1 < c[1] + Window
      <3>1. \A c \in Calls : c[1] \in Nat /\ (calls[c] > 0 => c[1] <= now)
        BY <1>0, CallParts DEF RedisPart
      <3>2. \A c \in Calls : calls[c] > 0 => now + 1 < c[1] + Window
        BY <1>3 DEF Tick
      <3> QED
        BY <1>0, <3>1, <3>2
    <2>3. \A m \in Minutes : stray[m] > 0 => m * Window <= now + 1
      BY <1>0 DEF RedisPart
    <2>4. \A m \in Minutes : now + 1 < m * Window + 2 * Window => now < m * Window + 2 * Window
      BY <1>0
    <2> QED
      BY <1>0, <2>1, <2>2, <2>3, <2>4 DEF RedisPart
  <1>4. ASSUME NEW m \in Minutes, m * Window <= now, NEW k \in {AfterIncr(m), AfterBoth(m)},
               keys' = [keys EXCEPT ![m] = k], now' = now
        PROVE  /\ \A n \in Minutes :
                    keys'[n].expires # Never => n * Window + 2 * Window <= keys'[n].expires
               /\ \A n \in Minutes : now < n * Window + 2 * Window =>
                    keys'[n].count = IF n = m THEN keys[n].count + 1 ELSE keys[n].count
    <2>1. \A n \in Minutes : keys'[n] = IF n = m THEN k ELSE keys[n]
      BY <1>0, <1>4 DEF TypeOK
    <2>2. /\ k.expires # Never => m * Window + 2 * Window <= k.expires
          /\ now < m * Window + 2 * Window => k.count = keys[m].count + 1
      BY <1>0, <1>4, KeysStay
    <2> QED
      BY <1>0, <2>1, <2>2 DEF RedisPart
  <1>5. ASSUME NEW c \in Calls, Exec(c)
        PROVE  RedisPart'
    <2> DEFINE n == KeyOf(c)
    <2>1. EndCall(c) /\ keys' = [keys EXCEPT ![n] = AfterBoth(n)] /\ now' = now /\ stray' = stray
          /\ Verdict("redis", Incr(n) <= Limit, c[1])
      BY <1>5 DEF Exec
    <2>2. n \in Minutes /\ calls[c] > 0 /\ Limit \in Nat /\ c[1] \in Ticks
      BY <2>1, Bounds, CallParts DEF EndCall
    <2>3. n * Window <= now /\ now < n * Window + 2 * Window
      BY <1>0, <2>2, CallsAreInTime
    <2> DEFINE ok == Incr(n) <= Limit
    <2>4. \A m \in Minutes :
            allowed'["redis"][m] = IF ok /\ m = n THEN allowed["redis"][m] + 1
                                                   ELSE allowed["redis"][m]
      <3>1. Verdict("redis", ok, c[1]) /\ n = Minute(c[1])
        BY <2>1 DEF KeyOf
      <3> HIDE DEF n, ok
      <3> QED
        BY <1>0, <2>2, <3>1, VerdictEffect DEF Counters
    <2> HIDE DEF n
    <2>5. Incr(n) = keys[n].count + 1 /\ keys[n].count \in Nat
      <3>1. AfterBoth(n) \in {AfterIncr(n), AfterBoth(n)}
        OBVIOUS
      <3> QED
        BY <1>0, <2>2, <2>3, <3>1, KeysStay DEF TypeOK
    <2>6. /\ \A m \in Minutes :
               keys'[m].expires # Never => m * Window + 2 * Window <= keys'[m].expires
          /\ \A m \in Minutes : now < m * Window + 2 * Window =>
               keys'[m].count = IF m = n THEN keys[m].count + 1 ELSE keys[m].count
      <3>1. AfterBoth(n) \in {AfterIncr(n), AfterBoth(n)}
        OBVIOUS
      <3> QED
        BY <1>4, <2>1, <2>2, <2>3, <3>1
    <2>7. \A d \in Calls : calls'[d] > 0 => d[1] <= now /\ now < d[1] + Window
      <3>1. \A d \in Calls : calls'[d] > 0 => calls[d] > 0
        BY <1>0, <2>1 DEF EndCall
      <3> QED
        BY <1>0, <3>1 DEF RedisPart
    <2>8. ASSUME NEW m \in Minutes
          PROVE  /\ allowed'["redis"][m] <= Limit
                 /\ now < m * Window + 2 * Window => allowed'["redis"][m] <= keys'[m].count
      <3>1. /\ allowed["redis"][m] \in Nat /\ keys[m].count \in Nat
            /\ allowed["redis"][m] <= Limit
            /\ now < m * Window + 2 * Window => allowed["redis"][m] <= keys[m].count
        BY <1>0 DEF TypeOK, RedisPart, Counters
      <3>2. CASE m = n
        BY <2>2, <2>3, <2>4, <2>5, <2>6, <3>1, <3>2
      <3>3. CASE m # n
        BY <2>4, <2>6, <3>1, <3>3
      <3> QED
        BY <3>2, <3>3
    <2> QED
      BY <1>0, <2>1, <2>6, <2>7, <2>8 DEF RedisPart
  <1>6. ASSUME NEW c \in Calls, Resend(c) \/ ExecFails(c)
        PROVE  RedisPart'
    <2>1. /\ calls[c] > 0 /\ now' = now /\ keys' = keys /\ allowed' = allowed
          /\ stray' = [stray EXCEPT ![KeyOf(c)] = @ + 1]
      BY <1>6 DEF Resend, ExecFails, EndCall
    <2>2. \A d \in Calls : calls'[d] > 0 => \E e \in Calls : calls[e] > 0 /\ e[1] = d[1]
      <3>1. CASE Resend(c)
        <4> DEFINE after == <<c[1], c[2] + 1>>
        <4>1. calls' = [calls EXCEPT ![c] = @ - 1, ![after] = @ + 1] /\ after[1] = c[1]
          BY <3>1 DEF Resend
        <4> HIDE DEF after
        <4> QED
          BY <1>0, <2>1, <4>1
      <3>2. CASE ExecFails(c)
        BY <1>0, <3>2 DEF ExecFails, EndCall
      <3> QED
        BY <1>6, <3>1, <3>2
    <2>3. \A d \in Calls : calls'[d] > 0 => d[1] <= now /\ now < d[1] + Window
      BY <1>0, <2>2 DEF RedisPart
    <2>4. KeyOf(c) * Window <= now
      BY <1>0, <2>1, CallsAreInTime
    <2>5. \A m \in Minutes : stray'[m] > 0 => m * Window <= now
      <3>1. \A m \in Minutes : stray'[m] > 0 => stray[m] > 0 \/ m = KeyOf(c)
        BY <1>0, <2>1
      <3> QED
        BY <1>0, <2>4, <3>1 DEF RedisPart
    <2> QED
      BY <1>0, <2>1, <2>3, <2>5 DEF RedisPart
  <1>7. ASSUME NEW m \in Minutes, Arrive(m)
        PROVE  RedisPart'
    <2>1. PICK k \in {AfterIncr(m), AfterBoth(m)} : keys' = [keys EXCEPT ![m] = k]
      BY <1>7 DEF Arrive
    <2>2. /\ stray[m] > 0 /\ stray' = [stray EXCEPT ![m] = @ - 1]
          /\ now' = now /\ calls' = calls /\ allowed' = allowed
      BY <1>7 DEF Arrive
    <2>3. m * Window <= now
      BY <1>0, <2>2 DEF RedisPart
    <2>4. /\ \A n \in Minutes :
               keys'[n].expires # Never => n * Window + 2 * Window <= keys'[n].expires
          /\ \A n \in Minutes : now < n * Window + 2 * Window =>
               keys'[n].count = IF n = m THEN keys[n].count + 1 ELSE keys[n].count
      BY <1>4, <2>1, <2>2, <2>3
    <2>5. \A n \in Minutes : stray'[n] > 0 => n * Window <= now
      BY <1>0, <2>2 DEF RedisPart
    <2>6. ASSUME NEW n \in Minutes
          PROVE  /\ allowed["redis"][n] <= Limit
                 /\ now < n * Window + 2 * Window => allowed["redis"][n] <= keys'[n].count
      <3>1. /\ allowed["redis"][n] \in Nat /\ keys[n].count \in Nat
            /\ allowed["redis"][n] <= Limit
            /\ now < n * Window + 2 * Window => allowed["redis"][n] <= keys[n].count
        BY <1>0 DEF TypeOK, RedisPart, Counters
      <3> QED
        BY <2>4, <3>1
    <2> QED
      BY <1>0, <2>2, <2>4, <2>5, <2>6 DEF RedisPart
  <1>8. CASE UNCHANGED vars
    BY <1>0, <1>8 DEF vars, RedisPart
  <1> QED
    BY <1>1, <1>2, <1>3, <1>5, <1>6, <1>7, <1>8 DEF Next, Done

-----------------------------------------------------------------------------
(* Memory *)

\* Every step keeps what is known of the bucket in memory.
LEMMA MemoryStep ==
  ASSUME Inductive, TypeOK', [Next]_vars
  PROVE  MemoryPart'
  <1> USE DEF shared, tallies
  <1> DEFINE got == allowed["memory"]
             current == Minute(now)
  <1>0. /\ TypeOK /\ MemoryPart /\ now \in Nat /\ now \in Ticks /\ current \in Minutes /\ current \in Nat
        /\ Window \in Nat /\ Window > 0 /\ Limit \in Nat /\ Limit > 0
        /\ bucket.count \in Nat /\ got \in [Minutes -> Nat] /\ Minutes \subseteq Nat
        /\ bucket \in [count : Nat, reset : Times]
    <2>1. TypeOK /\ MemoryPart /\ now \in Ticks
      BY DEF Inductive, TypeOK
    <2>2. now \in Nat /\ current \in Minutes /\ current \in Nat
      BY <2>1, Bounds, Clock
    <2>3. bucket \in [count : Nat, reset : Times] /\ bucket.count \in Nat
      BY <2>1 DEF TypeOK
    <2>4. got \in [Minutes -> Nat]
      BY <2>1 DEF TypeOK, Counters
    <2>5. Minutes \subseteq Nat
      BY DEF Minutes
    <2> QED
      BY <2>1, <2>2, <2>3, <2>4, <2>5, Bounds
  <1>1. CASE bucket' = bucket /\ now' = now /\ allowed'["memory"] = allowed["memory"]
    BY <1>0, <1>1 DEF MemoryPart, Made
  <1>2. CASE Tick
    <2>1. now' = now + 1 /\ now' \in Nat /\ bucket' = bucket /\ allowed' = allowed /\ Made' = Made
          /\ now' \in Ticks
      BY <1>0, <1>2 DEF Tick, Made, TypeOK
    <2>2. current <= Minute(now') /\ Minute(now') \in Minutes /\ Minute(now') \in Nat
      BY <1>0, <2>1, Bounds, Clock, LaterMinute
    <2>3. bucket.reset # Never => Minute(Made) \in Nat /\ Minute(Made) <= current
      BY <1>0, Clock, LaterMinute DEF MemoryPart
    <2> DEFINE next == Minute(now')
    <2>4. current' = next
      OBVIOUS
    <2> HIDE DEF current, next
    <2>5. CASE next = current
      BY <1>0, <2>1, <2>4, <2>5 DEF MemoryPart, current, next
    <2>6. CASE next > current
      <3>1. got[next] = 0
        BY <1>0, <2>2, <2>6 DEF MemoryPart, current, next
      <3>2. \A m \in Minutes : m > next => got[m] = 0
        BY <1>0, <2>2, <2>6 DEF MemoryPart, current, next
      <3>3. bucket.reset # Never => Minute(Made) < next
        BY <1>0, <2>2, <2>3, <2>6 DEF next
      <3> QED
        BY <1>0, <2>1, <2>2, <3>1, <3>2, <3>3 DEF MemoryPart, next
    <2> QED
      BY <1>0, <2>2, <2>5, <2>6 DEF next
  <1>3. CASE AllowMem
    <2> DEFINE ok == BucketOver \/ bucket'.count <= Limit
    <2>1. now' = now /\ Verdict("memory", ok, now)
      BY <1>3 DEF AllowMem
    <2>2. \A m \in Minutes : allowed'["memory"][m] = IF ok /\ m = current THEN got[m] + 1 ELSE got[m]
      BY <1>0, <2>1, VerdictEffect DEF Counters
    <2>3. \A m \in Minutes : got[m] \in Nat /\ got[m] < 2 * Limit /\ (m > current => got[m] = 0)
      BY <1>0 DEF MemoryPart
    <2>4. CASE BucketOver
      <3>1. bucket' = [count |-> 1, reset |-> now + Window]
        BY <1>3, <2>4 DEF AllowMem
      <3>2. bucket'.count = 1 /\ bucket'.reset = now + Window /\ Made' = now /\ bucket'.reset # Never
        BY <1>0, <3>1 DEF Made, Never
      <3>3. got[current] < Limit
        <4>1. CASE bucket.reset = Never
          BY <1>0, <4>1 DEF MemoryPart
        <4>2. CASE bucket.reset # Never
          <5>1. Made \in Nat /\ Made + Window < now
            BY <1>0, <2>4, <4>2 DEF BucketOver, MemoryPart, Made, Times, Never
          <5>2. Minute(Made) < current
            BY <1>0, <5>1, LaterMinute
          <5> QED
            BY <1>0, <4>2, <5>2 DEF MemoryPart
        <4> QED
          BY <4>1, <4>2
      <3>4. \A m \in Minutes : allowed'["memory"][m] < 2 * Limit
                               /\ (m > current => allowed'["memory"][m] = 0)
        BY <1>0, <2>2, <2>3, <3>3
      <3>5. allowed'["memory"][current] < Limit + 1
        BY <1>0, <2>2, <2>3, <3>3
      <3> HIDE DEF current
      <3> QED
        BY <1>0, <2>1, <3>2, <3>4, <3>5 DEF MemoryPart, current
    <2>5. CASE ~BucketOver
      <3>1. bucket.reset # Never /\ bucket' = [bucket EXCEPT !.count = @ + 1]
        BY <1>3, <2>5 DEF AllowMem, BucketOver
      <3>2. bucket'.count = bucket.count + 1 /\ bucket'.reset = bucket.reset /\ Made' = Made
        BY <1>0, <3>1 DEF Made
      <3>3. /\ bucket.count > 0 /\ Made \in Nat /\ Made <= now
            /\ Minute(Made) < current => got[current] < Limit /\ got[current] < bucket.count
            /\ Minute(Made) = current => got[current] < Limit + bucket.count
        BY <1>0, <3>1 DEF MemoryPart
      <3>4. Minute(Made) \in Nat /\ Minute(Made) <= current
        BY <1>0, <3>3, Clock, LaterMinute
      <3>5. ok => bucket.count + 1 <= Limit
        BY <2>5, <3>2
      <3> HIDE DEF current, ok
      <3>6. /\ Minute(Made) < current =>
                 allowed'["memory"][current] < Limit /\ allowed'["memory"][current] < bucket'.count
            /\ Minute(Made) = current => allowed'["memory"][current] < Limit + bucket'.count
            /\ allowed'["memory"][current] < 2 * Limit
        <4> DEFINE before == allowed["memory"][current]
                   after  == allowed'["memory"][current]
        <4>1. after = IF ok THEN before + 1 ELSE before
          BY <1>0, <2>2
        <4>2. before \in Nat /\ before < 2 * Limit
          BY <1>0, <2>3
        <4>3. /\ Minute(Made) < current => before < Limit /\ before < bucket.count
              /\ Minute(Made) = current => before < Limit + bucket.count
          BY <3>3
        <4>4. Minute(Made) < current \/ Minute(Made) = current
          BY <1>0, <3>4
        <4>5. Limit \in Nat /\ Limit > 0 /\ bucket.count \in Nat /\ bucket'.count = bucket.count + 1
          BY <1>0, <3>2
        <4> DEFINE first == Minute(Made) < current
                   rest  == Minute(Made) = current
        <4> HIDE DEF before, after, first, rest
        <4>6. /\ first => before < Limit /\ before < bucket.count
              /\ rest => before < Limit + bucket.count
              /\ first \/ rest
          BY <4>3, <4>4 DEF first, rest
        <4>7. /\ first => after < Limit /\ after < bucket'.count
              /\ rest => after < Limit + bucket'.count
              /\ after < 2 * Limit
          BY <3>5, <4>1, <4>2, <4>5, <4>6
        <4> QED
          BY <4>7 DEF after, first, rest
      <3>7. \A m \in Minutes : allowed'["memory"][m] < 2 * Limit
                               /\ (m > current => allowed'["memory"][m] = 0)
        <4> SUFFICES ASSUME NEW m \in Minutes
                     PROVE  allowed'["memory"][m] < 2 * Limit
                            /\ (m > current => allowed'["memory"][m] = 0)
          OBVIOUS
        <4>1. CASE m = current
          BY <1>0, <3>6, <4>1
        <4>2. CASE m # current
          BY <2>2, <2>3, <4>2
        <4> QED
          BY <4>1, <4>2
      <3> QED
        BY <1>0, <2>1, <3>1, <3>2, <3>3, <3>6, <3>7 DEF MemoryPart, current
    <2> QED
      BY <2>4, <2>5
  <1>4. CASE ReadClock
    BY <1>1, <1>4 DEF ReadClock
  <1>5. ASSUME NEW c \in Calls, Exec(c)
        PROVE  MemoryPart'
    <2>1. c[1] \in Ticks
      BY CallParts
    <2> QED
      BY <1>0, <1>1, <1>5, <2>1, VerdictEffect DEF Exec, Counters
  <1>6. ASSUME NEW c \in Calls, Resend(c) \/ ExecFails(c)
        PROVE  MemoryPart'
    BY <1>1, <1>6 DEF Resend, ExecFails
  <1>8. ASSUME NEW m \in Minutes, Arrive(m)
        PROVE  MemoryPart'
    BY <1>1, <1>8 DEF Arrive
  <1>7. CASE UNCHANGED vars
    BY <1>1, <1>7 DEF vars
  <1> QED
    BY <1>2, <1>3, <1>4, <1>5, <1>6, <1>7, <1>8 DEF Next, Done

-----------------------------------------------------------------------------
\* The inductive invariant holds at the start and after every step.
THEOREM InductiveHolds == Spec => []Inductive
  <1>1. Init => Inductive
    <2> SUFFICES ASSUME Init PROVE Inductive
      OBVIOUS
    <2>1. TypeOK
      BY Bounds DEF Init, TypeOK, Ticks, Times, Never, Counters
    <2>2. RedisPart
      BY <2>1, Bounds DEF Init, RedisPart, Counters
    <2>3. MemoryPart
      BY <2>1, Bounds DEF Init, MemoryPart, Counters
    <2> QED
      BY <2>1, <2>2, <2>3 DEF Inductive
  <1>2. Inductive /\ [Next]_vars => Inductive'
    BY TypeStep, RedisStep, MemoryStep DEF Inductive
  <1> QED
    BY <1>1, <1>2, PTL DEF Spec

\* Redis lets no more than the limit through in a clock minute.
THEOREM RedisHoldsTheLimit == Spec => []RedisKeepsLimit
  <1>1. Inductive => RedisKeepsLimit
    BY DEF Inductive, RedisPart, RedisKeepsLimit
  <1> QED
    BY <1>1, InductiveHolds, PTL

\* Redis and memory together let through less than three times the limit.
THEOREM MinutesAreBounded == Spec => []MinuteBound
  <1>1. Inductive => MinuteBound
    BY Bounds DEF Inductive, TypeOK, RedisPart, MemoryPart, MinuteBound, Counters
  <1> QED
    BY <1>1, InductiveHolds, PTL


-----------------------------------------------------------------------------
(* Nobody is refused without need *)

CallsOf(m)   == {c \in Calls : KeyOf(c) = m}
TicksFrom(s) == {t \in Ticks : t >= s}

\* The calls of a minute under way, and how often they may still be sent again.
Attempted      == [c \in Calls |-> 1]
Left           == [c \in Calls |-> MaxRetries - c[2]]
Weighted(w, f) == [c \in Calls |-> w[c] * f[c]]
Total(w, f, m) == SumFunctionOnSet(Weighted(w, f), CallsOf(m))

\* Every count is of requests that came: a key counts, with the attempts on their
\* way to it, no more than came in its minute or were sent again, and what is sent
\* again keeps to MaxRetries for each that came; a bucket counts no more than were
\* counted since it was made.
RedisCounts ==
  \A m \in Minutes :
    /\ keys[m].count + stray[m] + Total(Attempted, calls, m) <= came[m] + resent[m]
    /\ resent[m] + Total(Left, calls, m) <= MaxRetries * came[m]

MemoryCounts ==
  bucket.reset # Never => bucket.count <= SumFunctionOnSet(counted, TicksFrom(Made))

CountsAreOfRequests == RedisCounts /\ MemoryCounts

LEMMA TicksAreFinite ==
  \A S \in SUBSET Ticks : IsFiniteSet(S)
  <1>1. IsFiniteSet(Ticks)
    <2>1. 0 \in Int /\ Horizon \in Int
      BY Bounds
    <2>2. IsFiniteSet(0 .. Horizon)
      BY <2>1, FS_Interval
    <2>3. QED
      BY <2>2 DEF Ticks
  <1>2. QED
    BY <1>1, FS_Subset

LEMMA CallsAreFinite ==
  ASSUME NEW m
  PROVE  IsFiniteSet(CallsOf(m))
  <1>1. IsFiniteSet(Ticks) /\ IsFiniteSet(0 .. MaxRetries)
    BY TicksAreFinite, CallParts, FS_Interval
  <1>2. IsFiniteSet(Calls)
    BY <1>1, FS_Product DEF Calls
  <1> QED
    BY <1>2, FS_Subset DEF CallsOf

\* The calls at c become k more.
Changes(f, g, c, k) ==
  /\ f \in [Calls -> Nat] /\ g \in [Calls -> Nat]
  /\ \A d \in Calls : g[d] = f[d] + (IF d = c THEN k ELSE 0)

\* A request is counted in memory now.
CountedNow ==
  \A u \in Ticks : /\ counted[u] \in Nat /\ counted'[u] \in Nat
                   /\ counted'[u] = counted[u] + (IF u = now THEN 1 ELSE 0)

\* k calls at c have weight p.
Weighs(w, c, k, p) == w \in [Calls -> Nat] /\ p \in Int /\ p = w[c] * k

\* What that does to the total of a minute.
GrowsBy(p, w, f, g, c, m) ==
  /\ Total(w, f, m) \in Nat
  /\ m = KeyOf(c) => Total(w, g, m) = Total(w, f, m) + p
  /\ m # KeyOf(c) => Total(w, g, m) = Total(w, f, m)

LEMMA TotalChanges ==
  ASSUME NEW w, NEW f, NEW g, NEW c \in Calls, NEW k \in Int, NEW p,
         Weighs(w, c, k, p), Changes(f, g, c, k), NEW m \in Minutes
  PROVE  GrowsBy(p, w, f, g, c, m)
  <1> DEFINE S == CallsOf(m)
             x == Weighted(w, f)
             y == Weighted(w, g)
  <1>1. /\ IsFiniteSet(S) /\ (c \in S <=> m = KeyOf(c)) /\ S \subseteq Calls
    BY CallsAreFinite DEF CallsOf
  <1>2. p \in Int /\ p = w[c] * k /\ \A d \in Calls : w[d] \in Nat /\ f[d] \in Nat /\ g[d] \in Nat
    BY DEF Changes, Weighs
  <1>3. \A d \in Calls : w[d] * f[d] \in Nat /\ w[d] * g[d] \in Nat
    BY <1>2, SMT
  <1>4. \A d \in Calls : x[d] = w[d] * f[d] /\ y[d] = w[d] * g[d]
    BY DEF Weighted
  <1>5. \A d \in Calls : d # c => y[d] = x[d]
    BY <1>2, <1>4 DEF Changes
  <1>6. y[c] - x[c] = w[c] * k
    <2>1. g[c] = f[c] + k
      BY DEF Changes
    <2>2. w[c] * (f[c] + k) - w[c] * f[c] = w[c] * k
      BY <1>2, SMT
    <2> QED
      BY <1>4, <2>1, <2>2
  <1>7. \A d \in S : x[d] \in Nat /\ x[d] \in Int /\ y[d] \in Int
    BY <1>1, <1>3, <1>4
  <1>8. x[c] \in Int /\ y[c] \in Int
    BY <1>2, <1>3, <1>4
  <1> HIDE DEF S, x, y
  <1>9. SumFunctionOnSet(x, S) \in Nat
    BY <1>1, <1>7, SumNat
  <1>10. /\ m = KeyOf(c) => SumFunctionOnSet(y, S) = SumFunctionOnSet(x, S) + p
         /\ m # KeyOf(c) => SumFunctionOnSet(y, S) = SumFunctionOnSet(x, S)
    <2>1. CASE c \in S
      <3>1. SumFunctionOnSet(y, S) = SumFunctionOnSet(x, S) + (y[c] - x[c])
        BY <1>1, <1>5, <1>7, <2>1, SumOneChanges
      <3> QED
        BY <1>1, <1>2, <1>6, <2>1, <3>1
    <2>2. CASE c \notin S
      <3>1. \A d \in S : x[d] = y[d]
        BY <1>1, <1>5, <2>2
      <3>2. SumFunctionOnSet(x, S) = SumFunctionOnSet(y, S)
        BY <1>1, <3>1, SumSame
      <3> QED
        BY <1>1, <1>9, <2>2, <3>2
    <2> QED
      BY <2>1, <2>2
  <1> QED
    BY <1>9, <1>10 DEF GrowsBy, Total, S, x, y

\* The two totals, when the calls at c become k more.
BothGrow(f, g, c, k, m) ==
  /\ Total(Attempted, f, m) \in Nat /\ Total(Left, f, m) \in Nat
  /\ m = KeyOf(c) => /\ Total(Attempted, g, m) = Total(Attempted, f, m) + k
                     /\ Total(Left, g, m) = Total(Left, f, m) + (MaxRetries - c[2]) * k
  /\ m # KeyOf(c) => /\ Total(Attempted, g, m) = Total(Attempted, f, m)
                     /\ Total(Left, g, m) = Total(Left, f, m)

LEMMA TotalsChange ==
  ASSUME NEW f, NEW g, NEW c \in Calls, NEW k \in Int, Changes(f, g, c, k), NEW m \in Minutes
  PROVE  BothGrow(f, g, c, k, m)
  <1> DEFINE one  == Attempted
             left == Left
             p    == (MaxRetries - c[2]) * k
  <1>1. Weighs(one, c, k, k)
    BY DEF Attempted, Weighs
  <1>2. MaxRetries \in Nat /\ \A d \in Calls : d[2] \in Nat /\ d[2] <= MaxRetries
    BY CallParts, Zenon
  <1>3. \A d \in Calls : MaxRetries - d[2] \in Nat
    BY <1>2
  <1>4. left \in [Calls -> Nat] /\ p = left[c] * k
    BY <1>3 DEF Left
  <1>5. p \in Int
    BY <1>3, SMT
  <1> HIDE DEF one, left, p
  <1>6. Weighs(left, c, k, p)
    BY <1>4, <1>5 DEF Weighs
  <1>7. GrowsBy(k, one, f, g, c, m)
    BY <1>1, TotalChanges, Zenon
  <1>8. GrowsBy(p, left, f, g, c, m)
    BY <1>6, TotalChanges, Zenon
  <1> QED
    BY <1>7, <1>8 DEF GrowsBy, BothGrow, one, left, p

\* A request that is counted in memory now is counted in every sum up to now.
LEMMA CountedOnce ==
  ASSUME now \in Ticks, CountedNow, NEW s \in Int, s <= now
  PROVE  /\ SumFunctionOnSet(counted, TicksFrom(s)) \in Nat
         /\ SumFunctionOnSet(counted', TicksFrom(s)) = SumFunctionOnSet(counted, TicksFrom(s)) + 1
  <1> DEFINE S == TicksFrom(s)
             f == counted
             g == counted'
  <1>1. /\ IsFiniteSet(S) /\ now \in S
        /\ \A u \in S : f[u] \in Nat
        /\ \A u \in S : f[u] \in Int /\ g[u] \in Int /\ (u # now => g[u] = f[u])
        /\ g[now] - f[now] = 1
    BY TicksAreFinite, Bounds DEF TicksFrom, CountedNow
  <1> HIDE DEF S, f, g
  <1>2. SumFunctionOnSet(f, S) \in Nat
    BY <1>1, SumNat
  <1>3. SumFunctionOnSet(g, S) = SumFunctionOnSet(f, S) + (g[now] - f[now])
    BY <1>1, SumOneChanges
  <1>4. QED
    BY <1>1, <1>2, <1>3 DEF S, f, g

\* What reaches a key adds one at most to its count.
LEMMA CountsOne ==
  ASSUME TypeOK, NEW m \in Minutes, NEW k \in {AfterIncr(m), AfterBoth(m)}
  PROVE  k.count \in Nat /\ k.count <= keys[m].count + 1
  BY KeyTypes DEF AfterIncr, AfterBoth, Incr, TypeOK

\* Every step keeps the counts of Redis to requests and what was sent again.
LEMMA RedisCountsStep ==
  ASSUME TypeOK, TypeOK', RedisCounts, [Next]_vars
  PROVE  RedisCounts'
  <1> USE DEF shared, tallies
  <1>0. /\ calls \in [Calls -> Nat] /\ calls' \in [Calls -> Nat] /\ MaxRetries \in Nat
        /\ now \in Ticks /\ Minute(now) \in Minutes
        /\ \A m \in Minutes : /\ keys[m].count \in Nat /\ stray[m] \in Nat
                              /\ came[m] \in Nat /\ resent[m] \in Nat
    BY Bounds, CallParts DEF TypeOK
  <1>1. ASSUME keys' = keys, stray' = stray, calls' = calls, came' = came, resent' = resent
        PROVE  RedisCounts'
    BY <1>1 DEF RedisCounts
  <1>2. CASE ReadClock
    <2> DEFINE c == <<now, 0>>
    <2>1. c \in Calls /\ KeyOf(c) = Minute(now) /\ c[2] = 0
      BY <1>0, CallParts DEF KeyOf
    <2>2. \E k \in {0, 1} : Changes(calls, calls', c, k)
      <3>1. CASE rdb = "nil"
        BY <1>0, <1>2, <3>1 DEF ReadClock, Changes
      <3>2. CASE rdb # "nil"
        BY <1>0, <1>2, <2>1, <3>2 DEF ReadClock, Changes
      <3> QED
        BY <3>1, <3>2
    <2>3. PICK k \in {0, 1} : Changes(calls, calls', c, k)
      BY <2>2
    <2> HIDE DEF c
    <2>4. ASSUME NEW m \in Minutes
          PROVE  /\ keys'[m].count + stray'[m] + Total(Attempted, calls', m) <= came'[m] + resent'[m]
                 /\ resent'[m] + Total(Left, calls', m) <= MaxRetries * came'[m]
      <3> DEFINE a == Total(Attempted, calls, m)
                 b == Total(Attempted, calls', m)
                 l == Total(Left, calls, m)
                 n == Total(Left, calls', m)
      <3>1. /\ a \in Nat /\ l \in Nat
            /\ m = KeyOf(c) => b = a + k /\ n = l + (MaxRetries - c[2]) * k
            /\ m # KeyOf(c) => b = a /\ n = l
        <4>1. k \in Int
          OBVIOUS
        <4>2. BothGrow(calls, calls', c, k, m)
          BY <2>1, <2>3, <4>1, TotalsChange, Zenon
        <4> QED
          BY <4>2 DEF BothGrow
      <3>2. keys[m].count + stray[m] + a <= came[m] + resent[m] /\ resent[m] + l <= MaxRetries * came[m]
        BY DEF RedisCounts
      <3>3. /\ keys'[m] = keys[m] /\ stray'[m] = stray[m] /\ resent'[m] = resent[m]
            /\ came'[m] = came[m] + (IF m = KeyOf(c) THEN 1 ELSE 0)
        BY <1>0, <1>2, <2>1 DEF ReadClock, TypeOK
      <3>4. MaxRetries * (came[m] + 1) = MaxRetries * came[m] + MaxRetries
            /\ MaxRetries * came[m] \in Nat
        BY <1>0, SMT
      <3>5. (MaxRetries - c[2]) * k = IF k = 0 THEN 0 ELSE MaxRetries
        BY <1>0, <2>1
      <3> HIDE DEF a, b, l, n
      <3>6. CASE m = KeyOf(c)
        BY <1>0, <3>1, <3>2, <3>3, <3>4, <3>5, <3>6 DEF b, n
      <3>7. CASE m # KeyOf(c)
        BY <1>0, <3>1, <3>2, <3>3, <3>7 DEF b, n
      <3> QED
        BY <3>6, <3>7
    <2> QED
      BY <2>4 DEF RedisCounts
  <1>3. ASSUME NEW c \in Calls, Exec(c) \/ ExecFails(c)
        PROVE  RedisCounts'
    <2>1. KeyOf(c) \in Minutes /\ c[2] \in Nat /\ c[2] <= MaxRetries
      BY CallParts
    <2>2. Changes(calls, calls', c, -1) /\ -1 \in Int
      BY <1>0, <1>3 DEF Exec, ExecFails, EndCall, Changes
    <2>3. ASSUME NEW m \in Minutes
          PROVE  /\ came'[m] = came[m] /\ resent'[m] = resent[m]
                 /\ keys'[m].count \in Nat /\ stray'[m] \in Nat
                 /\ keys'[m].count + stray'[m]
                      <= keys[m].count + stray[m] + (IF m = KeyOf(c) THEN 1 ELSE 0)
      <3>1. CASE Exec(c)
        <4> DEFINE k == AfterBoth(KeyOf(c))
        <4>1. k \in {AfterIncr(KeyOf(c)), AfterBoth(KeyOf(c))}
          OBVIOUS
        <4>2. keys' = [keys EXCEPT ![KeyOf(c)] = k] /\ stray' = stray /\ came' = came /\ resent' = resent
          BY <3>1 DEF Exec
        <4> HIDE DEF k
        <4>3. k.count \in Nat /\ k.count <= keys[KeyOf(c)].count + 1
          BY <2>1, <4>1, CountsOne
        <4>4. keys'[m] = IF m = KeyOf(c) THEN k ELSE keys[m]
          BY <4>2 DEF TypeOK
        <4> QED
          BY <1>0, <2>1, <4>2, <4>3, <4>4
      <3>2. CASE ExecFails(c)
        BY <1>0, <2>1, <3>2 DEF ExecFails, TypeOK
      <3> QED
        BY <1>3, <3>1, <3>2
    <2>4. ASSUME NEW m \in Minutes
          PROVE  /\ keys'[m].count + stray'[m] + Total(Attempted, calls', m) <= came'[m] + resent'[m]
                 /\ resent'[m] + Total(Left, calls', m) <= MaxRetries * came'[m]
      <3> DEFINE a == Total(Attempted, calls, m)
                 b == Total(Attempted, calls', m)
                 l == Total(Left, calls, m)
                 n == Total(Left, calls', m)
                 x == MaxRetries * came[m]
                 w == (MaxRetries - c[2]) * (-1)
      <3>1. /\ a \in Nat /\ l \in Nat
            /\ m = KeyOf(c) => b = a + (-1) /\ n = l + w
            /\ m # KeyOf(c) => b = a /\ n = l
        <4>1. BothGrow(calls, calls', c, -1, m)
          BY <2>2, TotalsChange, Zenon
        <4> QED
          BY <4>1 DEF BothGrow
      <3>2. keys[m].count + stray[m] + a <= came[m] + resent[m] /\ resent[m] + l <= x
        BY DEF RedisCounts
      <3>3. w \in Int /\ w <= 0
        BY <1>0, <2>1
      <3>4. x \in Int /\ MaxRetries * came'[m] = x
        BY <1>0, <2>3, SMT
      <3> HIDE DEF a, b, l, n, x, w
      <3>5. keys'[m].count + stray'[m] + b <= came'[m] + resent'[m]
        BY <1>0, <2>3, <3>1, <3>2
      <3>6. resent'[m] + n <= x
        BY <1>0, <2>3, <3>1, <3>2, <3>3, <3>4
      <3> QED
        BY <3>4, <3>5, <3>6 DEF b, n
    <2> QED
      BY <2>4 DEF RedisCounts
  <1>4. ASSUME NEW c \in Calls, Resend(c)
        PROVE  RedisCounts'
    <2> DEFINE d == <<c[1], c[2] + 1>>
               h == [calls EXCEPT ![c] = @ - 1]
    <2>1. /\ d \in Calls /\ d # c /\ KeyOf(d) = KeyOf(c) /\ d[2] = c[2] + 1
          /\ KeyOf(c) \in Minutes /\ c[2] \in Nat /\ c[2] <= MaxRetries
      BY <1>4, CallParts DEF Resend, KeyOf
    <2>2. calls[c] > 0 /\ calls' = [h EXCEPT ![d] = @ + 1]
      BY <1>0, <1>4, <2>1 DEF Resend
    <2> HIDE DEF d
    <2>3. Changes(calls, h, c, -1) /\ -1 \in Int
      BY <1>0, <2>2 DEF Changes
    <2> HIDE DEF h
    <2>4. Changes(h, calls', d, 1) /\ 1 \in Int
      BY <1>0, <2>1, <2>2, <2>3 DEF Changes
    <2>5. ASSUME NEW m \in Minutes
          PROVE  /\ keys'[m].count + stray'[m] + Total(Attempted, calls', m) <= came'[m] + resent'[m]
                 /\ resent'[m] + Total(Left, calls', m) <= MaxRetries * came'[m]
      <3> DEFINE a == Total(Attempted, calls, m)
                 i == Total(Attempted, h, m)
                 b == Total(Attempted, calls', m)
                 l == Total(Left, calls, m)
                 j == Total(Left, h, m)
                 n == Total(Left, calls', m)
                 x == MaxRetries * came[m]
      <3>1. /\ a \in Nat /\ l \in Nat
            /\ m = KeyOf(c) => i = a + (-1) /\ j = l + (MaxRetries - c[2]) * (-1)
            /\ m # KeyOf(c) => i = a /\ j = l
        <4>1. BothGrow(calls, h, c, -1, m)
          BY <2>3, TotalsChange, Zenon
        <4> QED
          BY <4>1 DEF BothGrow
      <3>2. /\ i \in Nat /\ j \in Nat
            /\ m = KeyOf(d) => b = i + 1 /\ n = j + (MaxRetries - d[2]) * 1
            /\ m # KeyOf(d) => b = i /\ n = j
        <4>1. BothGrow(h, calls', d, 1, m)
          BY <2>1, <2>4, TotalsChange, Zenon
        <4> QED
          BY <4>1 DEF BothGrow
      <3>3. keys[m].count + stray[m] + a <= came[m] + resent[m] /\ resent[m] + l <= x
        BY DEF RedisCounts
      <3>4. /\ keys'[m] = keys[m] /\ came'[m] = came[m]
            /\ stray'[m] = stray[m] + (IF m = KeyOf(c) THEN 1 ELSE 0)
            /\ resent'[m] = resent[m] + (IF m = KeyOf(c) THEN 1 ELSE 0)
        BY <1>0, <1>4 DEF Resend, TypeOK
      <3>5. x \in Int /\ MaxRetries * came'[m] = x
        BY <1>0, <3>4, SMT
      <3> HIDE DEF a, b, i, j, l, n, x
      <3>6. b = a /\ n = l - (IF m = KeyOf(c) THEN 1 ELSE 0)
        BY <1>0, <2>1, <3>1, <3>2
      <3>7. keys'[m].count + stray'[m] + b <= came'[m] + resent'[m] /\ resent'[m] + n <= x
        BY <1>0, <3>1, <3>3, <3>4, <3>5, <3>6
      <3> QED
        BY <3>5, <3>7 DEF b, n
    <2> QED
      BY <2>5 DEF RedisCounts
  <1>5. ASSUME NEW u \in Minutes, Arrive(u)
        PROVE  RedisCounts'
    <2>1. PICK k \in {AfterIncr(u), AfterBoth(u)} : keys' = [keys EXCEPT ![u] = k]
      BY <1>5 DEF Arrive
    <2>2. k.count \in Nat /\ k.count <= keys[u].count + 1
      BY CountsOne
    <2>3. calls' = calls /\ came' = came /\ resent' = resent /\ stray[u] > 0
          /\ stray' = [stray EXCEPT ![u] = @ - 1]
      BY <1>5 DEF Arrive
    <2>4. ASSUME NEW m \in Minutes
          PROVE  keys'[m].count \in Nat /\ stray'[m] \in Nat
                 /\ keys'[m].count + stray'[m] <= keys[m].count + stray[m]
      BY <1>0, <2>1, <2>2, <2>3 DEF TypeOK
    <2>5. ASSUME NEW m \in Minutes
          PROVE  /\ keys'[m].count + stray'[m] + Total(Attempted, calls', m) <= came'[m] + resent'[m]
                 /\ resent'[m] + Total(Left, calls', m) <= MaxRetries * came'[m]
      <3> DEFINE a == Total(Attempted, calls, m)
      <3>1. a \in Nat
        <4>1. 0 \in Int /\ \A e \in Calls : Changes(calls, calls, e, 0)
          BY <1>0 DEF Changes
        <4>2. PICK e \in Calls : TRUE
          BY <1>0, CallParts
        <4> QED
          BY <4>1, <4>2, TotalsChange DEF BothGrow
      <3>2. /\ keys[m].count + stray[m] + a <= came[m] + resent[m]
            /\ resent'[m] + Total(Left, calls', m) <= MaxRetries * came'[m]
            /\ Total(Attempted, calls', m) = a
        BY <2>3 DEF RedisCounts
      <3> HIDE DEF a
      <3>3. keys'[m].count + stray'[m] + a <= came'[m] + resent'[m]
        BY <1>0, <2>3, <2>4, <3>1, <3>2
      <3> QED
        BY <3>2, <3>3
    <2> QED
      BY <2>5 DEF RedisCounts
  <1>6. CASE AllowMem \/ Tick \/ UNCHANGED vars
    BY <1>1, <1>6 DEF AllowMem, Tick, vars
  <1> QED
    BY <1>2, <1>3, <1>4, <1>5, <1>6 DEF Next, Done

\* Every step keeps the count of the bucket to requests counted since it was made.
LEMMA MemoryCountsStep ==
  ASSUME Inductive, MemoryCounts, [Next]_vars
  PROVE  MemoryCounts'
  <1> USE DEF shared, tallies
  <1>0. TypeOK /\ now \in Ticks /\ now \in Nat /\ Minute(now) \in Minutes
    BY Bounds DEF Inductive, TypeOK
  <1>1. CASE bucket' = bucket /\ counted' = counted
    BY <1>1 DEF MemoryCounts, Made
  <1>2. CASE AllowMem
    <2>1. /\ CountedNow
          /\ bucket.count \in Nat /\ bucket.reset \in Times /\ Window \in Nat
      BY <1>0, <1>2, Bounds DEF AllowMem, TypeOK, CountedNow
    <2>2. CASE BucketOver
      <3>1. bucket'.count = 1 /\ bucket'.reset - Window = now
        BY <1>0, <1>2, <2>1, <2>2 DEF AllowMem
      <3>2. /\ SumFunctionOnSet(counted, TicksFrom(now)) \in Nat
            /\ SumFunctionOnSet(counted', TicksFrom(now)) = SumFunctionOnSet(counted, TicksFrom(now)) + 1
        <4>1. now \in Int /\ now <= now
          BY <1>0
        <4>2. QED
          BY <1>0, <2>1, <4>1, CountedOnce
      <3>3. bucket'.count <= SumFunctionOnSet(counted', TicksFrom(bucket'.reset - Window))
        BY <3>1, <3>2
      <3>4. QED
        BY <3>3 DEF MemoryCounts, Made
    <2>3. CASE ~BucketOver
      <3>1. /\ bucket'.count = bucket.count + 1 /\ bucket'.reset = bucket.reset
            /\ bucket.reset # Never /\ Made \in Int /\ Made <= now
        BY <1>0, <1>2, <2>1, <2>3 DEF AllowMem, BucketOver, Inductive, MemoryPart, TypeOK
      <3>2. bucket.count <= SumFunctionOnSet(counted, TicksFrom(Made))
        BY <3>1 DEF MemoryCounts
      <3>3. /\ SumFunctionOnSet(counted, TicksFrom(Made)) \in Nat
            /\ SumFunctionOnSet(counted', TicksFrom(Made)) = SumFunctionOnSet(counted, TicksFrom(Made)) + 1
        BY <1>0, <2>1, <3>1, CountedOnce
      <3>4. bucket'.count <= SumFunctionOnSet(counted', TicksFrom(Made))
        BY <2>1, <3>1, <3>2, <3>3
      <3>5. QED
        BY <3>1, <3>4 DEF MemoryCounts, Made
    <2>4. QED
      BY <2>2, <2>3
  <1>3. CASE ReadClock \/ Tick \/ UNCHANGED vars
    BY <1>1, <1>3 DEF ReadClock, Tick, vars
  <1>4. ASSUME NEW c \in Calls, Exec(c) \/ Resend(c) \/ ExecFails(c)
        PROVE  MemoryCounts'
    BY <1>1, <1>4 DEF Exec, Resend, ExecFails
  <1>5. ASSUME NEW m \in Minutes, Arrive(m)
        PROVE  MemoryCounts'
    BY <1>1, <1>5 DEF Arrive
  <1> QED
    BY <1>2, <1>3, <1>4, <1>5 DEF Next, Done

LEMMA CountsHold == Spec => []CountsAreOfRequests
  <1>1. Init => CountsAreOfRequests
    <2> SUFFICES ASSUME Init, NEW m \in Minutes
                 PROVE  /\ keys[m].count + stray[m] + Total(Attempted, calls, m) <= came[m] + resent[m]
                        /\ resent[m] + Total(Left, calls, m) <= MaxRetries * came[m]
      BY DEF Init, CountsAreOfRequests, RedisCounts, MemoryCounts
    <2>1. IsFiniteSet(CallsOf(m)) /\ MaxRetries \in Nat
          /\ \A c \in CallsOf(m) : c \in Calls /\ c[2] \in Nat /\ calls[c] = 0
      BY CallsAreFinite, CallParts DEF Init, CallsOf
    <2>2. \A c \in CallsOf(m) : Weighted(Attempted, calls)[c] = 0 /\ Weighted(Left, calls)[c] = 0
      BY <2>1 DEF Weighted, Attempted, Left
    <2>3. Total(Attempted, calls, m) = 0 /\ Total(Left, calls, m) = 0
      BY <2>1, <2>2, SumZero DEF Total
    <2> QED
      BY <2>1, <2>3 DEF Init
  <1>2. Inductive /\ Inductive' /\ CountsAreOfRequests /\ [Next]_vars => CountsAreOfRequests'
    BY RedisCountsStep, MemoryCountsStep DEF CountsAreOfRequests, Inductive
  <1>3. QED
    BY <1>1, <1>2, InductiveHolds, PTL DEF Spec

\* Redis refuses when its count is over the limit, and that is of requests of
\* the same minute and of what was sent again for them.
LEMMA RedisRefusal ==
  ASSUME Inductive, CountsAreOfRequests, [Next]_vars, NEW c \in Calls, RefusedByRedis(c)
  PROVE  came[KeyOf(c)] + resent[KeyOf(c)] > Limit /\ (MaxRetries + 1) * came[KeyOf(c)] > Limit
  <1> USE DEF shared, tallies
  <1>1. TypeOK /\ now \in Ticks /\ MaxRetries \in Nat
    BY CallParts DEF Inductive, TypeOK
  <1>2. calls'[c] < calls[c] /\ stray' = stray /\ allowed' = allowed
    BY DEF RefusedByRedis
  <1>3. \A d \in Calls : calls[d] \in Nat
    BY <1>1 DEF TypeOK
  <1>4. ~(UNCHANGED vars) /\ ~Tick /\ ~AllowMem /\ ~Done
    BY <1>2, <1>3 DEF vars, Tick, AllowMem, Done
  <1>5. ~ReadClock
    <2>1. ASSUME ReadClock
          PROVE  calls'[c] >= calls[c]
      <3>1. <<now, 0>> \in Calls /\ calls \in [Calls -> Nat] /\ calls[c] \in Nat
        BY <1>1, <1>3, CallParts DEF TypeOK
      <3>2. calls' = calls \/ calls' = [calls EXCEPT ![<<now, 0>>] = @ + 1]
        BY <2>1 DEF ReadClock
      <3> QED
        BY <3>1, <3>2
    <2>2. ReadClock => calls'[c] \in Nat
      BY <1>1, CallParts DEF ReadClock, TypeOK
    <2> QED
      BY <1>2, <1>3, <2>1, <2>2
  <1>6. \A d \in Calls : ~ExecFails(d) /\ ~Resend(d)
    <2> SUFFICES ASSUME NEW d \in Calls, stray' = [stray EXCEPT ![KeyOf(d)] = @ + 1]
                 PROVE  FALSE
      BY DEF ExecFails, Resend
    <2>1. KeyOf(d) \in Minutes /\ stray[KeyOf(d)] \in Nat
      BY <1>1, CallParts DEF TypeOK
    <2> QED
      BY <1>1, <1>2, <2>1 DEF TypeOK
  <1>7. \A m \in Minutes : ~Arrive(m)
    BY <1>1, <1>2 DEF Arrive, TypeOK
  <1>8. Exec(c)
    <2>1. PICK d \in Calls : Exec(d)
      BY <1>4, <1>5, <1>6, <1>7 DEF Next
    <2>2. d = c
      BY <1>1, <1>2, <1>3, <2>1 DEF Exec, EndCall, TypeOK
    <2> QED
      BY <2>1, <2>2
  <1> DEFINE m == KeyOf(c)
  <1>9. m \in Minutes /\ Limit \in Nat /\ c[1] \in Ticks
    BY Bounds, CallParts
  <1>10. ~(Incr(m) <= Limit)
    <2> DEFINE ok == Incr(m) <= Limit
    <2>1. Verdict("redis", ok, c[1]) /\ m = Minute(c[1])
      BY <1>8 DEF Exec, KeyOf
    <2>2. allowed'["redis"][m] = IF ok THEN allowed["redis"][m] + 1 ELSE allowed["redis"][m]
      <3> HIDE DEF ok, m
      <3> QED
        BY <1>1, <1>9, <2>1, VerdictEffect DEF Counters
    <2>3. allowed["redis"][m] \in Nat
      BY <1>1, <1>9 DEF TypeOK, Counters
    <2> QED
      BY <1>2, <2>2, <2>3
  <1>11. /\ Incr(m) \in Nat /\ Incr(m) <= keys[m].count + 1 /\ keys[m].count \in Nat
         /\ stray[m] \in Nat /\ came[m] \in Nat /\ resent[m] \in Nat
    BY <1>1, <1>9 DEF Incr, TypeOK
  <1> DEFINE a == Total(Attempted, calls, m)
             l == Total(Left, calls, m)
             x == MaxRetries * came[m]
  <1>12. a \in Nat /\ 1 <= a /\ l \in Nat
    <2> DEFINE h == [calls EXCEPT ![c] = @ - 1]
    <2>1. calls[c] > 0
      BY <1>8 DEF Exec, EndCall
    <2>2. Changes(calls, h, c, -1) /\ -1 \in Int /\ Changes(h, h, c, 0) /\ 0 \in Int
      BY <1>1, <2>1 DEF Changes, TypeOK
    <2> HIDE DEF h
    <2>3. BothGrow(calls, h, c, -1, m) /\ BothGrow(h, h, c, 0, m)
      BY <1>9, <2>2, TotalsChange, Zenon
    <2> QED
      BY <2>3 DEF BothGrow
  <1>13. keys[m].count + stray[m] + a <= came[m] + resent[m] /\ resent[m] + l <= x
    BY <1>9 DEF CountsAreOfRequests, RedisCounts
  <1>14. x \in Nat /\ (MaxRetries + 1) * came[m] = x + came[m]
    BY <1>1, <1>11, SMT
  <1> HIDE DEF m, a, l, x
  <1>15. came[m] + resent[m] > Limit /\ x + came[m] > Limit
    BY <1>9, <1>10, <1>11, <1>12, <1>13, <1>14
  <1> QED
    BY <1>14, <1>15 DEF m

\* Memory refuses when the bucket is full, and that has all been counted within
\* a window.
LEMMA MemoryRefusal ==
  ASSUME Inductive, CountsAreOfRequests, CountsAreOfRequests', [Next]_vars, RefusedByMemory
  PROVE  SumFunctionOnSet(counted', {t \in Ticks : t >= now - Window}) > Limit
  <1> USE DEF shared, tallies
  <1>1. TypeOK /\ now \in Ticks /\ now \in Nat /\ Minute(now) \in Minutes
        /\ Limit \in Nat /\ Window \in Nat
    BY Bounds DEF Inductive, TypeOK
  <1>2. fallen' < fallen /\ allowed' = allowed /\ fallen \in Nat
    BY <1>1 DEF RefusedByMemory, TypeOK
  <1>3. AllowMem
    <2>1. ~(UNCHANGED vars) /\ ~Tick /\ ~ReadClock /\ ~Done
      BY <1>2 DEF vars, Tick, ReadClock, Done
    <2>2. \A c \in Calls : ~Exec(c) /\ ~Resend(c) /\ ~ExecFails(c)
      BY <1>2 DEF Exec, Resend, ExecFails
    <2>4. \A m \in Minutes : ~Arrive(m)
      BY <1>2 DEF Arrive
    <2>3. QED
      BY <2>1, <2>2, <2>4 DEF Next
  <1>4. ~(BucketOver \/ bucket'.count <= Limit)
    <2> DEFINE ok == BucketOver \/ bucket'.count <= Limit
    <2>1. Verdict("memory", ok, now)
      BY <1>3 DEF AllowMem
    <2>2. allowed'["memory"][Minute(now)] = IF ok THEN allowed["memory"][Minute(now)] + 1
                                                  ELSE allowed["memory"][Minute(now)]
      <3> HIDE DEF ok
      <3>1. QED
        BY <1>1, <2>1, VerdictEffect DEF Counters
    <2>3. allowed["memory"][Minute(now)] \in Nat
      BY <1>1 DEF TypeOK, Counters
    <2>4. QED
      BY <1>2, <2>2, <2>3
  <1>5. /\ bucket'.reset = bucket.reset /\ bucket.reset # Never /\ now <= bucket.reset
        /\ bucket.reset \in Int
        /\ bucket'.count > Limit /\ bucket'.count \in Nat
    BY <1>1, <1>3, <1>4 DEF AllowMem, BucketOver, TypeOK, Times, Never
  <1> DEFINE T == TicksFrom(bucket.reset - Window)
             S == {t \in Ticks : t >= now - Window}
  <1>6. bucket'.count <= SumFunctionOnSet(counted', T)
    BY <1>5 DEF CountsAreOfRequests, MemoryCounts, Made
  <1>7. T \subseteq S
    <2> SUFFICES ASSUME NEW t \in Ticks, t >= bucket.reset - Window
                 PROVE  t >= now - Window
      BY DEF TicksFrom
    <2>1. t \in Int /\ bucket.reset - Window \in Int /\ now - Window <= bucket.reset - Window
      BY <1>1, <1>5, Bounds
    <2>2. QED
      BY <1>1, <2>1
  <1>8. S \in SUBSET Ticks /\ \A t \in Ticks : counted'[t] \in Int /\ counted'[t] \in Nat
    BY <1>1, <1>3 DEF AllowMem, TypeOK
  <1> DEFINE f == counted'
             R == S \ T
  <1>9. /\ IsFiniteSet(T) /\ IsFiniteSet(R) /\ T \cap R = {} /\ T \cup R = S
        /\ \A t \in T \cup R : f[t] \in Int
        /\ \A t \in T : f[t] \in Nat
        /\ \A t \in R : f[t] \in Nat
    BY <1>7, <1>8, TicksAreFinite
  <1> HIDE DEF T, S, R, f
  <1>10. SumFunctionOnSet(f, T \cup R) = SumFunctionOnSet(f, T) + SumFunctionOnSet(f, R)
    BY <1>9, SumDisjoint
  <1>11. SumFunctionOnSet(f, T) \in Nat /\ SumFunctionOnSet(f, R) \in Nat
    BY <1>9, SumNat
  <1>12. bucket'.count <= SumFunctionOnSet(f, T)
    BY <1>6 DEF f
  <1>13. SumFunctionOnSet(f, T \cup R) > Limit
    BY <1>1, <1>5, <1>10, <1>11, <1>12
  <1>14. SumFunctionOnSet(f, S) > Limit
    BY <1>9, <1>13
  <1>15. QED
    BY <1>14 DEF f, S

\* allowRedis and allowMem: a request is refused only when more than the limit
\* came in its clock minute, pipelines sent again counted as well, or were counted
\* in memory within a window; never by Redis while the requests of a minute are
\* within the limit divided by the attempts a call may take.
THEOREM RefusalsAreNeeded == Spec => RefusedOnlyWhenBusy
  <1>1. Inductive /\ CountsAreOfRequests /\ CountsAreOfRequests' /\ [Next]_vars =>
          [/\ \A c \in Calls : RefusedByRedis(c) =>
                /\ came[KeyOf(c)] + resent[KeyOf(c)] > Limit
                /\ (MaxRetries + 1) * came[KeyOf(c)] > Limit
           /\ RefusedByMemory =>
                SumFunctionOnSet(counted', {t \in Ticks : t >= now - Window}) > Limit]_vars
    BY RedisRefusal, MemoryRefusal
  <1>2. QED
    BY <1>1, InductiveHolds, CountsHold, PTL DEF Spec, RefusedOnlyWhenBusy
=============================================================================
