----------------------------- MODULE RateLimiter -----------------------------
(***************************************************************************)
(* RateLimiter: the middleware that counts the requests of one client       *)
(* address, in Redis by clock minutes, and in memory when the call to Redis *)
(* returns an error.  A call to Redis is a pipeline of INCR and EXPIRE.  The *)
(* client library gives an attempt up when its connection breaks or its     *)
(* time-out is over, and sends the whole pipeline again, up to MaxRetries   *)
(* times; an attempt it has given up may still reach Redis, in part or in   *)
(* full, at any later time.  A call with all its attempts takes time, but   *)
(* less than a window: the time-outs and the back-off are seconds.          *)
(*                                                                         *)
(* Requests of one client differ in nothing but the time they read and the  *)
(* attempt they are at, so they are counted, not named.  Time is counted in *)
(* ticks, Window of them to the minute.                                    *)
(***************************************************************************)
EXTENDS Integers, Functions

CONSTANTS LimitPerMin, DefaultLimit,   \* RATE_LIMIT_PER_MIN, and what replaces it
          Window,
          MaxRetries,                  \* of the Redis client, 3 unless configured
          Horizon,                     \* bounds the clock of a run
          MaxPipelines                 \* bounds the pipelines a run asks for

ASSUME LimiterAssumption ==
  /\ LimitPerMin \in Int
  /\ DefaultLimit \in Nat \ {0}
  /\ Window \in Nat \ {0}
  /\ MaxRetries \in Nat
  /\ Horizon \in Nat
  /\ MaxPipelines \in Nat

VARIABLES rdb,       \* "client", or "nil" when Redis did not answer at the start
          now,       \* the clock
          keys,      \* Redis: the count and the expiry of each minute's key
          bucket,    \* memCounts[key]: how many, and until when
          calls,     \* calls to Redis under way, by time read and attempt
          stray,     \* attempts given up that may still reach Redis, by minute
          fallen,    \* requests whose call has failed, on their way to allowMem
          came,      \* history: requests that read the clock, by minute
          resent,    \* history: pipelines sent again, by minute
          counted,   \* history: requests counted in memory, by time
          allowed    \* history: requests let through, by counter and minute

shared  == <<rdb, now, keys, bucket>>
tallies == <<came, resent, counted, allowed>>
vars    == <<rdb, now, keys, bucket, calls, stray, fallen, came, resent, counted, allowed>>

Ticks     == 0 .. Horizon
Minute(t) == t \div Window
Minutes   == 0 .. Minute(Horizon)
Never     == -1                  \* a key without EXPIRE, a bucket not made yet
Times     == Nat \cup {Never}
Counters  == {"redis", "memory"}
Calls     == Ticks \X (0 .. MaxRetries)
KeyOf(c)  == Minute(c[1])        \* the minute whose key a call counts in

\* The types of the counters, and of what is under way.
TypeOK ==
  /\ rdb \in {"client", "nil"}
  /\ now \in Ticks
  /\ keys \in [Minutes -> [count : Nat, expires : Times]]
  /\ bucket \in [count : Nat, reset : Times]
  /\ calls \in [Calls -> Nat] /\ stray \in [Minutes -> Nat] /\ fallen \in Nat
  /\ came \in [Minutes -> Nat] /\ resent \in [Minutes -> Nat] /\ counted \in [Ticks -> Nat]
  /\ allowed \in [Counters -> [Minutes -> Nat]]

\* NewRateLimiter
Limit == IF LimitPerMin <= 0 THEN DefaultLimit ELSE LimitPerMin

Init ==
  /\ rdb \in {"client", "nil"}
  /\ now = 0
  /\ keys = [m \in Minutes |-> [count |-> 0, expires |-> Never]]
  /\ bucket = [count |-> 0, reset |-> Never]
  /\ calls = [c \in Calls |-> 0] /\ stray = [m \in Minutes |-> 0] /\ fallen = 0
  /\ came = [m \in Minutes |-> 0] /\ resent = [m \in Minutes |-> 0] /\ counted = [t \in Ticks |-> 0]
  /\ allowed = [c \in Counters |-> [m \in Minutes |-> 0]]

-----------------------------------------------------------------------------
\* What one request comes to: it is let through at the time given, or not.
Verdict(c, ok, time) ==
  allowed' = IF ok THEN [allowed EXCEPT ![c][Minute(time)] = @ + 1] ELSE allowed

\* Bound of a run: the pipelines of all requests, those sent again included.
Another == SumFunction(came) + SumFunction(resent) < MaxPipelines

\* allowRedis reads the clock.  Without a client there is nothing to make the
\* pipeline from: the request panics, ErrorHandler answers 500, and the memory
\* is not asked.
ReadClock ==
  /\ Another
  /\ came' = [came EXCEPT ![Minute(now)] = @ + 1]
  /\ calls' = IF rdb = "nil" THEN calls ELSE [calls EXCEPT ![<<now, 0>>] = @ + 1]
  /\ UNCHANGED <<shared, stray, fallen, resent, counted, allowed>>

Expired(m) == keys[m].expires # Never /\ now >= keys[m].expires

\* What INCR returns.
Incr(m) == IF Expired(m) THEN 1 ELSE keys[m].count + 1

\* Variant: a key lives for one window.
KeyTTLShort == Window

KeyTTL == 2 * Window

\* A key keeps its expiry when only INCR reaches Redis, and a new key has none.
AfterIncr(m) == [count |-> Incr(m), expires |-> IF Expired(m) THEN Never ELSE keys[m].expires]
AfterBoth(m) == [count |-> Incr(m), expires |-> now + KeyTTL]

EndCall(c) == calls[c] > 0 /\ calls' = [calls EXCEPT ![c] = @ - 1]

\* Variant: the count of the minute before is added.
ExecTwoMinutes(c) ==
  LET m == KeyOf(c)
      before == IF m = 0 THEN 0 ELSE keys[m - 1].count
  IN
  /\ EndCall(c)
  /\ keys' = [keys EXCEPT ![m] = AfterBoth(m)]
  /\ Verdict("redis", Incr(m) + before <= Limit, c[1])
  /\ UNCHANGED <<rdb, now, bucket, stray, fallen, came, resent, counted>>

\* The attempt is answered.
Exec(c) ==
  LET m == KeyOf(c) IN
  /\ EndCall(c)
  /\ keys' = [keys EXCEPT ![m] = AfterBoth(m)]
  /\ Verdict("redis", Incr(m) <= Limit, c[1])
  /\ UNCHANGED <<rdb, now, bucket, stray, fallen, came, resent, counted>>

\* The attempt is given up, and there is another.
Resend(c) ==
  /\ calls[c] > 0 /\ c[2] < MaxRetries /\ Another
  /\ calls' = [calls EXCEPT ![c] = @ - 1, ![<<c[1], c[2] + 1>>] = @ + 1]
  /\ stray' = [stray EXCEPT ![KeyOf(c)] = @ + 1]
  /\ resent' = [resent EXCEPT ![KeyOf(c)] = @ + 1]
  /\ UNCHANGED <<shared, fallen, came, counted, allowed>>

\* The attempt is given up, and with it the call: it was the last, or the error
\* is not one the client tries again after.
ExecFails(c) ==
  /\ EndCall(c)
  /\ stray' = [stray EXCEPT ![KeyOf(c)] = @ + 1]
  /\ fallen' = fallen + 1
  /\ UNCHANGED <<shared, tallies>>

\* An attempt that was given up reaches Redis, INCR alone or with EXPIRE.  One
\* that is lost stays on its way for ever.
Arrive(m) ==
  /\ stray[m] > 0 /\ stray' = [stray EXCEPT ![m] = @ - 1]
  /\ \E reached \in {AfterIncr(m), AfterBoth(m)} : keys' = [keys EXCEPT ![m] = reached]
  /\ UNCHANGED <<rdb, now, bucket, calls, fallen, tallies>>

\* Variant: a full bucket makes room for a new one.
BucketOverWhenFull == bucket.reset = Never \/ now > bucket.reset \/ bucket.count >= Limit

BucketOver == bucket.reset = Never \/ now > bucket.reset

\* allowMem, under the mutex.
AllowMem ==
  /\ fallen > 0 /\ fallen' = fallen - 1
  /\ bucket' = IF BucketOver THEN [count |-> 1, reset |-> now + Window]
                             ELSE [bucket EXCEPT !.count = @ + 1]
  /\ counted' = [counted EXCEPT ![now] = @ + 1]
  /\ Verdict("memory", BucketOver \/ bucket'.count <= Limit, now)
  /\ UNCHANGED <<rdb, now, keys, calls, stray, came, resent>>

\* Time passes, never so much that a call to Redis lasts for a window.
Tick ==
  /\ now < Horizon
  /\ \A c \in Calls : calls[c] > 0 => now + 1 < c[1] + Window
  /\ now' = now + 1
  /\ UNCHANGED <<rdb, keys, bucket, calls, stray, fallen, tallies>>

Done == now = Horizon /\ fallen + SumFunction(calls) = 0 /\ UNCHANGED vars

Next ==
  \/ ReadClock \/ AllowMem \/ Tick \/ Done
  \/ \E c \in Calls : Exec(c) \/ Resend(c) \/ ExecFails(c)
  \/ \E m \in Minutes : Arrive(m)

Spec == Init /\ [][Next]_vars

-----------------------------------------------------------------------------
(* Properties *)

\* Redis lets no more than the limit through in a clock minute: the key of a
\* minute outlives every call that counts in it.
RedisKeepsLimit == \A m \in Minutes : allowed["redis"][m] <= Limit

\* A client that finds Redis working for some requests and failing for others
\* gets less than three times the limit in a clock minute: once from Redis, and
\* from memory the rest of one bucket and a second one.
MinuteBound == \A m \in Minutes : allowed["redis"][m] + allowed["memory"][m] < 3 * Limit

RefusedByRedis(c) ==
  calls'[c] < calls[c] /\ stray' = stray /\ allowed' = allowed
RefusedByMemory   == fallen' < fallen /\ allowed' = allowed

\* Nobody is turned away unless busy.  Redis turns a request away only when more
\* than the limit have come in its clock minute, every pipeline the client sent
\* again counted as one more; so a client is safe while its requests of a minute
\* are no more than the limit divided by the attempts a call may take.  Memory
\* turns a request away only when more than the limit have been counted there
\* within a window.
RefusedOnlyWhenBusy ==
  [][/\ \A c \in Calls : RefusedByRedis(c) =>
          /\ came[KeyOf(c)] + resent[KeyOf(c)] > Limit
          /\ (MaxRetries + 1) * came[KeyOf(c)] > Limit
     /\ RefusedByMemory =>
          SumFunctionOnSet(counted', {t \in Ticks : t >= now - Window}) > Limit]_vars
=============================================================================
