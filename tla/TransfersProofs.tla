--------------------------- MODULE TransfersProofs ---------------------------
(***************************************************************************)
(* For every set of users and every balances: the plan OptimizeTransfers    *)
(* makes never takes a user past zero, never pays in circles, has fewer     *)
(* transfers than it has people, accounts for every cent, and in the end is *)
(* one of the plans that Settlement takes it to be.                         *)
(***************************************************************************)
EXTENDS Transfers, SumTheorems, FiniteSetTheorems, TLAPS

\* On whole cents round2 changes nothing from zero up, and below zero adds one.
LEMMA RoundWhole ==
  ASSUME NEW c \in Int
  PROVE  round2(c, 1) = IF c >= 0 THEN c ELSE c + 1
  BY DEF round2

\* A list of the users of S, none twice, each with something open.
Listing(q, S) ==
  /\ q \in Seq(Entry)
  /\ {q[k].user : k \in DOMAIN q} = S
  /\ \A k \in DOMAIN q : q[k].user \in S /\ q[k].cents > 0
  /\ \A k, l \in DOMAIN q : q[k].user = q[l].user => k = l

\* What sorting leaves is such a list.
LEMMA SortedIs ==
  ASSUME NEW S, S \subseteq Users, NEW amount, NEW q, q \in Sorted(S, amount),
         \A u \in S : amount[u] \in Nat \ {0}
  PROVE  Listing(q, S) /\ \A k \in DOMAIN q : q[k].cents = amount[q[k].user]
  <1>1. Cardinality(S) \in Nat
    BY UsersFinite, FS_Subset, FS_CardinalityType
  <1>2. PICK p \in Bijection(1 .. Cardinality(S), S) :
          q = [k \in DOMAIN p |-> [user |-> p[k], cents |-> amount[p[k]]]]
    BY DEF Sorted
  <1>3. /\ p \in [1 .. Cardinality(S) -> S]
        /\ \A k, l \in DOMAIN p : p[k] = p[l] => k = l
        /\ \A u \in S : \E k \in DOMAIN p : p[k] = u
    BY <1>2 DEF Bijection, Injection, Surjection, IsInjective
  <1>4. /\ DOMAIN q = 1 .. Cardinality(S)
        /\ \A k \in DOMAIN q : q[k] = [user |-> p[k], cents |-> amount[p[k]]] /\ p[k] \in S
    BY <1>2, <1>3
  <1>5. \A k \in DOMAIN q : q[k] \in Entry
    BY <1>4 DEF Entry
  <1>6. q \in [1 .. Cardinality(S) -> Entry]
    BY <1>2, <1>3, <1>4, <1>5
  <1>7. q \in Seq(Entry)
    BY <1>1, <1>6
  <1>8. {q[k].user : k \in DOMAIN q} = S
    <2>1. \A k \in DOMAIN q : q[k].user \in S
      BY <1>4
    <2>2. \A u \in S : \E k \in DOMAIN q : q[k].user = u
      BY <1>3, <1>4
    <2>3. QED
      BY <2>1, <2>2
  <1>9. QED
    BY <1>3, <1>4, <1>7, <1>8 DEF Listing

-----------------------------------------------------------------------------
(* What is open *)

\* A user with one entry in a list has that entry's cents open.
LEMMA CentsOfEntry ==
  ASSUME NEW q \in Seq(Entry),
         \A k, l \in DOMAIN q : q[k].user = q[l].user => k = l,
         NEW k \in DOMAIN q
  PROVE  Open(q, q[k].user) /\ Cents(q, q[k].user) = q[k].cents
  <1> DEFINE here == CHOOSE l \in DOMAIN q : q[l].user = q[k].user
  <1>1. here \in DOMAIN q /\ q[here].user = q[k].user
    OBVIOUS
  <1>2. here = k
    BY <1>1
  <1>3. QED
    BY <1>2 DEF Open, Cents

\* What users have open, as a function of the two lists.
DueIn(d, c) == [u \in Users |-> IF Open(d, u) THEN -Cents(d, u)
                                ELSE IF Open(c, u) THEN Cents(c, u)
                                ELSE 0]

\* What a user has open is a number.
LEMMA DueInType ==
  ASSUME NEW d \in Seq(Entry), NEW c \in Seq(Entry)
  PROVE  DueIn(d, c) \in [Users -> Int]
  <1>1. ASSUME NEW q \in Seq(Entry), NEW u \in Users, Open(q, u)
        PROVE  Cents(q, u) \in Int
    <2>1. PICK k \in DOMAIN q : k = CHOOSE l \in DOMAIN q : q[l].user = u
      BY <1>1 DEF Open
    <2>2. q[k] \in Entry
      BY <2>1
    <2>3. QED
      BY <2>1, <2>2 DEF Cents, Entry
  <1>2. ASSUME NEW u \in Users
        PROVE  (IF Open(d, u) THEN -Cents(d, u)
                ELSE IF Open(c, u) THEN Cents(c, u) ELSE 0) \in Int
    <2>1. Open(d, u) => Cents(d, u) \in Int
      BY <1>1
    <2>2. Open(c, u) => Cents(c, u) \in Int
      BY <1>1
    <2>3. QED
      BY <2>1, <2>2
  <1>3. QED
    BY <1>2 DEF DueIn

\* From the lists d and c, with one entry per user, to d1 and c1: entry a of d
\* and entry b of c are lowered by cents.
Lowers(d, c, d1, c1, a, b, cents) ==
  /\ d \in Seq(Entry) /\ c \in Seq(Entry) /\ d1 \in Seq(Entry) /\ c1 \in Seq(Entry)
  /\ a \in DOMAIN d /\ b \in DOMAIN c /\ cents \in Nat
  /\ \A k, l \in DOMAIN d : d[k].user = d[l].user => k = l
  /\ \A k, l \in DOMAIN c : c[k].user = c[l].user => k = l
  /\ \A k \in DOMAIN d, l \in DOMAIN c : d[k].user # c[l].user
  /\ DOMAIN d1 = DOMAIN d /\ DOMAIN c1 = DOMAIN c
  /\ \A k \in DOMAIN d : d1[k].user = d[k].user
  /\ \A k \in DOMAIN c : c1[k].user = c[k].user
  /\ \A k \in DOMAIN d : d1[k].cents = IF k = a THEN d[k].cents - cents ELSE d[k].cents
  /\ \A k \in DOMAIN c : c1[k].cents = IF k = b THEN c[k].cents - cents ELSE c[k].cents

\* Lowering one entry of each list pays as much from the one user to the other.
LEMMA LowerBoth ==
  ASSUME NEW d, NEW c, NEW d1, NEW c1, NEW a, NEW b, NEW cents,
         Lowers(d, c, d1, c1, a, b, cents)
  PROVE  /\ DueIn(d, c)[d[a].user] = -d[a].cents
         /\ DueIn(d, c)[c[b].user] = c[b].cents
         /\ DueIn(d1, c1) = [DueIn(d, c) EXCEPT ![d[a].user] = @ + cents,
                                                ![c[b].user] = @ - cents]
  <1> USE DEF Lowers
  <1>1. /\ d[a] \in Entry /\ c[b] \in Entry
        /\ d[a].user \in Users /\ c[b].user \in Users
        /\ d[a].cents \in Nat /\ c[b].cents \in Nat
        /\ \A k \in DOMAIN d : d[k].cents \in Nat
        /\ \A k \in DOMAIN c : c[k].cents \in Nat
    <2>1. \A k \in DOMAIN d : d[k] \in Entry
      OBVIOUS
    <2>2. \A k \in DOMAIN c : c[k] \in Entry
      OBVIOUS
    <2>3. d[a] \in Entry /\ c[b] \in Entry
      BY <2>1, <2>2
    <2>4. QED
      BY <2>1, <2>2, <2>3 DEF Entry
  <1>2. ASSUME NEW k \in DOMAIN d
        PROVE  /\ Open(d, d[k].user) /\ Cents(d, d[k].user) = d[k].cents
               /\ Open(d1, d[k].user) /\ Cents(d1, d[k].user) = d1[k].cents
    <2>1. Open(d, d[k].user) /\ Cents(d, d[k].user) = d[k].cents
      BY CentsOfEntry
    <2>2. Open(d1, d1[k].user) /\ Cents(d1, d1[k].user) = d1[k].cents
      BY CentsOfEntry
    <2>3. QED
      BY <2>1, <2>2
  <1>3. ASSUME NEW k \in DOMAIN c
        PROVE  /\ Open(c, c[k].user) /\ Cents(c, c[k].user) = c[k].cents
               /\ Open(c1, c[k].user) /\ Cents(c1, c[k].user) = c1[k].cents
               /\ ~Open(d, c[k].user) /\ ~Open(d1, c[k].user)
    <2>1. Open(c, c[k].user) /\ Cents(c, c[k].user) = c[k].cents
      BY CentsOfEntry
    <2>2. Open(c1, c1[k].user) /\ Cents(c1, c1[k].user) = c1[k].cents
      BY CentsOfEntry
    <2>3. ~Open(d, c[k].user) /\ ~Open(d1, c[k].user)
      BY DEF Open
    <2>4. QED
      BY <2>1, <2>2, <2>3
  <1>4. ASSUME NEW u \in Users
        PROVE  /\ Open(d1, u) <=> Open(d, u)
               /\ Open(c1, u) <=> Open(c, u)
    BY DEF Open
  <1>5. DueIn(d, c)[d[a].user] = -d[a].cents
    BY <1>1, <1>2 DEF DueIn
  <1>6. DueIn(d, c)[c[b].user] = c[b].cents
    BY <1>1, <1>3 DEF DueIn
  <1>7. ASSUME NEW u \in Users
        PROVE  DueIn(d1, c1)[u] = IF u = d[a].user THEN DueIn(d, c)[u] + cents
                                  ELSE IF u = c[b].user THEN DueIn(d, c)[u] - cents
                                  ELSE DueIn(d, c)[u]
    <2>1. CASE Open(d, u)
      <3>1. PICK k \in DOMAIN d : d[k].user = u
        BY <2>1 DEF Open
      <3>2. DueIn(d, c)[u] = -d[k].cents /\ DueIn(d1, c1)[u] = -d1[k].cents
        BY <1>2, <3>1 DEF DueIn
      <3>3. d[k].cents \in Nat /\ u # c[b].user /\ (u = d[a].user <=> k = a)
        BY <1>1, <3>1
      <3>4. d1[k].cents = IF k = a THEN d[k].cents - cents ELSE d[k].cents
        OBVIOUS
      <3>5. QED
        BY <3>2, <3>3, <3>4
    <2>2. CASE Open(c, u)
      <3>1. PICK k \in DOMAIN c : c[k].user = u
        BY <2>2 DEF Open
      <3>2. DueIn(d, c)[u] = c[k].cents /\ DueIn(d1, c1)[u] = c1[k].cents
        BY <1>3, <3>1 DEF DueIn
      <3>3. c[k].cents \in Nat /\ u # d[a].user /\ (u = c[b].user <=> k = b)
        BY <1>1, <3>1
      <3>4. c1[k].cents = IF k = b THEN c[k].cents - cents ELSE c[k].cents
        OBVIOUS
      <3>5. QED
        BY <3>2, <3>3, <3>4
    <2>3. CASE ~Open(d, u) /\ ~Open(c, u)
      <3>1. DueIn(d, c)[u] = 0 /\ DueIn(d1, c1)[u] = 0
        BY <1>4, <2>3 DEF DueIn
      <3>2. u # d[a].user /\ u # c[b].user
        BY <1>2, <1>3, <2>3
      <3>3. QED
        BY <3>1, <3>2
    <2>4. QED
      BY <2>1, <2>2, <2>3
  <1>8. d[a].user # c[b].user
    OBVIOUS
  <1>9. DOMAIN DueIn(d, c) = Users /\ DOMAIN DueIn(d1, c1) = Users
    BY DEF DueIn
  <1>10. DueIn(d1, c1) = [u \in Users |-> DueIn(d1, c1)[u]]
    BY DEF DueIn
  <1> DEFINE old == DueIn(d, c)
             new == [old EXCEPT ![d[a].user] = @ + cents, ![c[b].user] = @ - cents]
  <1>11. ASSUME NEW u \in Users
         PROVE  new[u] = IF u = d[a].user THEN old[u] + cents
                         ELSE IF u = c[b].user THEN old[u] - cents
                         ELSE old[u]
    BY <1>1, <1>8, <1>9
  <1>12. new = [u \in Users |-> new[u]]
    BY <1>9
  <1>13. \A u \in Users : DueIn(d1, c1)[u] = new[u]
    BY <1>7, <1>11
  <1>14. DueIn(d1, c1) = new
    BY <1>10, <1>12, <1>13
  <1>15. QED
    BY <1>5, <1>6, <1>14

-----------------------------------------------------------------------------
(* The invariant *)

\* Taking from one and giving to another leaves the sum of all as it was.
LEMMA PayKeepsSum ==
  ASSUME NEW f, NEW g, NEW S, IsFiniteSet(S), NEW a \in S, NEW b \in S, a # b, NEW p \in Int,
         \A x \in S : f[x] \in Int,
         \A x \in S : g[x] = IF x = a THEN f[x] + p ELSE IF x = b THEN f[x] - p ELSE f[x]
  PROVE  SumFunctionOnSet(g, S) = SumFunctionOnSet(f, S)
  <1> DEFINE d == [x \in S |-> IF x = a THEN p ELSE IF x = b THEN -p ELSE 0]
  <1>1. \A x \in S : d[x] \in Int /\ g[x] \in Int /\ g[x] = f[x] + d[x]
    OBVIOUS
  <1>2. /\ d[a] = p /\ d[b] = -p /\ b \in S \ {a}
        /\ \A x \in S \ {a} : x # b => d[x] = 0
    OBVIOUS
  <1> HIDE DEF d
  <1>3. SumFunctionOnSet(g, S) = SumFunctionOnSet(f, S) + SumFunctionOnSet(d, S)
    BY <1>1, SumPlus
  <1>4. SumFunctionOnSet(d, S) = d[a] + SumFunctionOnSet(d, S \ {a})
    BY <1>1, SumRemove
  <1>5. SumFunctionOnSet(d, S \ {a}) = d[b]
    <2>1. IsFiniteSet(S \ {a})
      BY FS_RemoveElement
    <2> DEFINE R == S \ {a}
    <2>2. IsFiniteSet(R) /\ b \in R /\ d[b] \in Int /\ \A x \in R : x # b => d[x] = 0
      BY <1>1, <1>2, <2>1
    <2> HIDE DEF R
    <2>3. SumFunctionOnSet(d, R) = d[b]
      BY <2>2, SumOneTerm
    <2>4. QED
      BY <2>3 DEF R
  <1>6. SumFunctionOnSet(d, S) = 0
    BY <1>2, <1>4, <1>5
  <1>7. SumFunctionOnSet(f, S) \in Int
    BY SumInt
  <1>8. QED
    BY <1>3, <1>6, <1>7

\* At the start everybody has open what they brought in.
LEMMA InitAccounted ==
  ASSUME Init, TypeOK, OneEntryEach, ListsComplete,
         \A k \in DOMAIN debtors : debtors[k].cents = -bal[debtors[k].user],
         \A k \in DOMAIN creditors : creditors[k].cents = bal[creditors[k].user]
  PROVE  Accounted
  <1>1. /\ bal \in [Users -> Int] /\ debtors \in Seq(Entry) /\ creditors \in Seq(Entry)
        /\ \A k \in DOMAIN debtors : debtors[k] \in Entry
        /\ \A k \in DOMAIN creditors : creditors[k] \in Entry
    BY DEF TypeOK
  <1>2. ASSUME NEW u \in Users
        PROVE  Due[u] = Brought(u) /\ Due[u] \in Int
    <2>1. Due[u] = IF Open(debtors, u) THEN -Cents(debtors, u)
                   ELSE IF Open(creditors, u) THEN Cents(creditors, u) ELSE 0
      BY DEF Due
    <2>2. /\ bal[u] \in Int
          /\ round2(bal[u], 1) = IF bal[u] >= 0 THEN bal[u] ELSE bal[u] + 1
      BY <1>1, RoundWhole
    <2>3. CASE u \in Debtors(bal)
      <3>1. PICK k \in DOMAIN debtors : debtors[k].user = u
        BY <2>3 DEF ListsComplete
      <3>2. Open(debtors, u) /\ Cents(debtors, u) = debtors[k].cents
        BY <1>1, <3>1, CentsOfEntry DEF OneEntryEach
      <3>3. debtors[k].cents = -bal[u]
        BY <3>1
      <3>4. Due[u] = bal[u]
        BY <2>1, <2>2, <3>2, <3>3
      <3>5. QED
        BY <2>2, <2>3, <3>4 DEF Brought, Debtors
    <2>4. CASE u \in Creditors(bal)
      <3>1. PICK k \in DOMAIN creditors : creditors[k].user = u
        BY <2>4 DEF ListsComplete
      <3>2. Open(creditors, u) /\ Cents(creditors, u) = creditors[k].cents
        BY <1>1, <3>1, CentsOfEntry DEF OneEntryEach
      <3>3. creditors[k].cents = bal[u]
        BY <3>1
      <3>4. ~Open(debtors, u)
        BY <3>1 DEF OneEntryEach, Open
      <3>5. Due[u] = bal[u]
        BY <2>1, <3>2, <3>3, <3>4
      <3>6. QED
        BY <2>2, <2>4, <3>5 DEF Brought, Creditors
    <2>5. CASE u \notin Debtors(bal) /\ u \notin Creditors(bal)
      <3>1. ~Open(debtors, u) /\ ~Open(creditors, u)
        BY <2>5 DEF ListsComplete, Open
      <3>2. round2(bal[u], 1) = 0
        BY <2>2, <2>5 DEF Debtors, Creditors
      <3>3. QED
        BY <2>1, <3>1, <3>2 DEF Brought
    <2>6. QED
      BY <2>3, <2>4, <2>5
  <1>3. ASSUME NEW u \in Users
        PROVE  Given(u) = 0 /\ Taken(u) = 0
    <2>1. DOMAIN transfers = {}
      BY DEF Init
    <2>2. /\ {m \in DOMAIN transfers : transfers[m].from = u} = {}
          /\ {m \in DOMAIN transfers : transfers[m].to = u} = {}
      BY <2>1
    <2>3. QED
      BY <2>2, SumEmpty DEF Given, Taken, Sum
  <1>4. \A u \in Users : Due[u] = Brought(u) + Given(u) - Taken(u)
    BY <1>2, <1>3
  <1>5. SumFunction(Due) = SumFunction(bal) + Cardinality({u \in Users : bal[u] = -1})
    <2> DEFINE lost == [u \in Users |-> IF bal[u] = -1 THEN 1 ELSE 0]
    <2>1. \A u \in Users : /\ bal[u] \in Int /\ lost[u] \in Int /\ Due[u] \in Int
                           /\ Due[u] = bal[u] + lost[u]
      <3> SUFFICES ASSUME NEW u \in Users
                   PROVE  /\ bal[u] \in Int /\ lost[u] \in Int /\ Due[u] \in Int
                          /\ Due[u] = bal[u] + lost[u]
        OBVIOUS
      <3>1. bal[u] \in Int
        BY <1>1
      <3>2. round2(bal[u], 1) = IF bal[u] >= 0 THEN bal[u] ELSE bal[u] + 1
        BY <3>1, RoundWhole
      <3>3. Due[u] = (IF round2(bal[u], 1) = 0 THEN 0 ELSE bal[u]) /\ Due[u] \in Int
        BY <1>2 DEF Brought
      <3>4. QED
        BY <3>1, <3>2, <3>3
    <2>2. \A u \in Users : lost[u] \in {0, 1} /\ (lost[u] = 1 <=> bal[u] = -1)
      OBVIOUS
    <2>3. DOMAIN Due = Users /\ DOMAIN bal = Users
      BY <1>1 DEF Due
    <2> HIDE DEF lost
    <2>4. SumFunctionOnSet(Due, Users) = SumFunctionOnSet(bal, Users) + SumFunctionOnSet(lost, Users)
      BY <2>1, UsersFinite, SumPlus
    <2>5. SumFunctionOnSet(lost, Users) = Cardinality({u \in Users : lost[u] = 1})
      BY <2>2, UsersFinite, SumCount
    <2>6. {u \in Users : lost[u] = 1} = {u \in Users : bal[u] = -1}
      BY <2>2
    <2>7. QED
      BY <2>3, <2>4, <2>5, <2>6 DEF SumFunction
  <1>6. QED
    BY <1>4, <1>5 DEF Accounted

\* The loop starts in the invariant.
LEMMA InitInductive == Init => Inductive
  <1> SUFFICES ASSUME Init
               PROVE  Inductive
    OBVIOUS
  <1>1. bal \in [Users -> Int]
    BY InputsAssumption DEF Init
  <1>o. PICK owed : owed = [u \in Users |-> -bal[u]]
    OBVIOUS
  <1>2. /\ Debtors(bal) \in SUBSET Users /\ Creditors(bal) \in SUBSET Users
        /\ \A u \in Debtors(bal) : owed[u] \in Nat \ {0}
        /\ \A u \in Creditors(bal) : bal[u] \in Nat \ {0}
        /\ Debtors(bal) \cap Creditors(bal) = {}
    BY <1>o, <1>1, RoundWhole DEF Debtors, Creditors
  <1>3. debtors \in Sorted(Debtors(bal), owed) /\ creditors \in Sorted(Creditors(bal), bal)
    BY <1>o DEF Init
  <1>4. /\ Listing(debtors, Debtors(bal)) /\ Listing(creditors, Creditors(bal))
        /\ \A k \in DOMAIN debtors : debtors[k].cents = owed[debtors[k].user]
        /\ \A k \in DOMAIN creditors : creditors[k].cents = bal[creditors[k].user]
    <2>1. /\ Listing(debtors, Debtors(bal))
          /\ \A k \in DOMAIN debtors : debtors[k].cents = owed[debtors[k].user]
      BY <1>2, <1>3, SortedIs
    <2>2. /\ Listing(creditors, Creditors(bal))
          /\ \A k \in DOMAIN creditors : creditors[k].cents = bal[creditors[k].user]
      BY <1>2, <1>3, SortedIs
    <2>3. QED
      BY <2>1, <2>2
  <1>6. TypeOK
    BY <1>1, <1>4 DEF Init, TypeOK, Listing
  <1>7. OneEntryEach
    BY <1>2, <1>4 DEF OneEntryEach, Listing
  <1>8. AheadIsOpen
    <2>1. /\ \A k \in DOMAIN debtors : k >= 1 /\ debtors[k].cents > 0
          /\ \A k \in DOMAIN creditors : k >= 1 /\ creditors[k].cents > 0
      BY <1>4, <1>6 DEF Listing, TypeOK
    <2>2. QED
      BY <2>1 DEF Init, AheadIsOpen
  <1>9. ListsComplete
    BY <1>4 DEF ListsComplete, Listing
  <1>10. PairsBehind /\ Counted
    BY DEF Init, PairsBehind, Counted
  <1>11. Accounted
    <2>1. \A k \in DOMAIN debtors : debtors[k].cents = -bal[debtors[k].user]
      BY <1>o, <1>2, <1>4 DEF Listing
    <2>2. QED
      BY <1>4, <1>6, <1>7, <1>9, <2>1, InitAccounted
  <1>12. QED
    BY <1>6, <1>7, <1>8, <1>9, <1>10, <1>11 DEF Inductive

\* One iteration pays the lesser of the two open amounts, which is positive,
\* and moves past whichever side that settles.
LEMMA MatchDoes ==
  ASSUME Inductive, Match
  PROVE  /\ i \in 1 .. Len(debtors) /\ j \in 1 .. Len(creditors)
         /\ debtors[i] \in Entry /\ creditors[j] \in Entry
         /\ Payable \in 1 .. debtors[i].cents /\ Payable \in 1 .. creditors[j].cents
         /\ transfers' = Append(transfers, [from |-> debtors[i].user,
                                            to |-> creditors[j].user,
                                            cents |-> Payable])
         /\ debtors' = [debtors EXCEPT ![i].cents = @ - Payable]
         /\ creditors' = [creditors EXCEPT ![j].cents = @ - Payable]
         /\ i' = IF debtors[i].cents = Payable THEN i + 1 ELSE i
         /\ j' = IF creditors[j].cents = Payable THEN j + 1 ELSE j
         /\ i' # i \/ j' # j
         /\ bal' = bal
  <1>1. /\ i \in 1 .. Len(debtors) /\ j \in 1 .. Len(creditors)
        /\ debtors \in Seq(Entry) /\ creditors \in Seq(Entry)
    BY DEF Inductive, TypeOK, Match, Done
  <1>2. /\ i \in DOMAIN debtors /\ j \in DOMAIN creditors
        /\ debtors[i] \in Entry /\ creditors[j] \in Entry
    BY <1>1
  <1>3. PICK d \in Nat \ {0}, c \in Nat \ {0} :
          d = debtors[i].cents /\ c = creditors[j].cents
    <2>1. debtors[i].cents \in Nat /\ creditors[j].cents \in Nat
      BY <1>2 DEF Entry
    <2>2. debtors[i].cents > 0 /\ creditors[j].cents > 0
      BY <1>1, <1>2 DEF Inductive, AheadIsOpen
    <2>3. QED
      BY <2>1, <2>2
  <1>4. /\ Payable = (IF c < d THEN c ELSE d) /\ Payable \in 1 .. d /\ Payable \in 1 .. c
        /\ d = Payable \/ c = Payable
    BY <1>3, RoundWhole DEF Payable
  <1>5. round2(d - Payable, 1) = d - Payable /\ round2(c - Payable, 1) = c - Payable
    BY <1>3, <1>4, RoundWhole
  <1>6. /\ debtors' = [debtors EXCEPT ![i].cents = d - Payable]
        /\ creditors' = [creditors EXCEPT ![j].cents = c - Payable]
    BY <1>3, <1>5 DEF Match
  <1>7. debtors'[i] = [debtors[i] EXCEPT !.cents = d - Payable]
    BY <1>1, <1>2, <1>6
  <1>8. creditors'[j] = [creditors[j] EXCEPT !.cents = c - Payable]
    BY <1>1, <1>2, <1>6
  <1>9. debtors'[i].cents = d - Payable /\ creditors'[j].cents = c - Payable
    BY <1>2, <1>7, <1>8 DEF Entry
  <1>10. /\ i' = IF d - Payable <= 0 THEN i + 1 ELSE i
         /\ j' = IF c - Payable <= 0 THEN j + 1 ELSE j
    BY <1>5, <1>9 DEF Match
  <1>11. /\ i' = IF d = Payable THEN i + 1 ELSE i
         /\ j' = IF c = Payable THEN j + 1 ELSE j
    BY <1>3, <1>4, <1>10
  <1>12. i' # i \/ j' # j
    BY <1>1, <1>4, <1>11
  <1>13. Payable > 0
    BY <1>3, <1>4
  <1>14. transfers' = Append(transfers, [from |-> debtors[i].user, to |-> creditors[j].user,
                                         cents |-> Payable])
    BY <1>13 DEF Match
  <1>15. QED
    BY <1>1, <1>2, <1>3, <1>4, <1>6, <1>11, <1>12, <1>14 DEF Match

\* Match lowers one entry of each list and touches nothing else of them.
LEMMA MatchLowers ==
  ASSUME Inductive, Match
  PROVE  /\ debtors' \in Seq(Entry) /\ Len(debtors') = Len(debtors)
         /\ \A k \in DOMAIN debtors : debtors'[k].user = debtors[k].user
         /\ \A k \in DOMAIN debtors :
              debtors'[k].cents = IF k = i THEN debtors[k].cents - Payable ELSE debtors[k].cents
         /\ DOMAIN debtors' = DOMAIN debtors
         /\ creditors' \in Seq(Entry) /\ Len(creditors') = Len(creditors)
         /\ \A k \in DOMAIN creditors : creditors'[k].user = creditors[k].user
         /\ \A k \in DOMAIN creditors :
              creditors'[k].cents = IF k = j THEN creditors[k].cents - Payable
                                    ELSE creditors[k].cents
         /\ DOMAIN creditors' = DOMAIN creditors
  <1>1. /\ i \in 1 .. Len(debtors) /\ j \in 1 .. Len(creditors)
        /\ debtors[i] \in Entry /\ creditors[j] \in Entry
        /\ Payable \in 1 .. debtors[i].cents /\ Payable \in 1 .. creditors[j].cents
        /\ debtors' = [debtors EXCEPT ![i].cents = @ - Payable]
        /\ creditors' = [creditors EXCEPT ![j].cents = @ - Payable]
        /\ i' = IF debtors[i].cents = Payable THEN i + 1 ELSE i
        /\ j' = IF creditors[j].cents = Payable THEN j + 1 ELSE j
        /\ i' # i \/ j' # j
        /\ bal' = bal
    BY MatchDoes
  <1>2. /\ debtors \in Seq(Entry) /\ creditors \in Seq(Entry) /\ transfers \in Seq(Transfer)
        /\ bal \in [Users -> Int]
    BY DEF Inductive, TypeOK
  <1>3. /\ debtors[i].user \in Users /\ debtors[i].cents \in Nat
        /\ creditors[j].user \in Users /\ creditors[j].cents \in Nat
        /\ Payable \in Nat \ {0}
        /\ debtors[i].cents - Payable \in Nat /\ creditors[j].cents - Payable \in Nat
    BY <1>1 DEF Entry
  <1>4. /\ debtors' \in Seq(Entry) /\ Len(debtors') = Len(debtors)
        /\ \A k \in DOMAIN debtors : debtors'[k].user = debtors[k].user
        /\ \A k \in DOMAIN debtors :
             debtors'[k].cents = IF k = i THEN debtors[k].cents - Payable ELSE debtors[k].cents
        /\ DOMAIN debtors' = DOMAIN debtors
    <2>1. [debtors[i] EXCEPT !.cents = @ - Payable] \in Entry
      BY <1>1, <1>3 DEF Entry
    <2>2. debtors' = [debtors EXCEPT ![i] = [debtors[i] EXCEPT !.cents = @ - Payable]]
      BY <1>1
    <2>3. /\ debtors' \in Seq(Entry) /\ Len(debtors') = Len(debtors)
          /\ DOMAIN debtors' = DOMAIN debtors
      BY <1>1, <1>2, <2>1, <2>2
    <2>4. \A k \in DOMAIN debtors : k # i => debtors'[k] = debtors[k]
      BY <1>2, <2>2
    <2> DEFINE rest == [debtors[i] EXCEPT !.cents = @ - Payable]
    <2>5. debtors'[i] = rest
      <3>1. i \in DOMAIN debtors
        BY <1>1, <1>2
      <3>2. debtors' = [debtors EXCEPT ![i] = rest]
        BY <2>2
      <3> HIDE DEF rest
      <3>3. QED
        BY <3>1, <3>2
    <2>6. /\ debtors'[i].user = debtors[i].user
          /\ debtors'[i].cents = debtors[i].cents - Payable
      BY <1>1, <2>5 DEF Entry
    <2>7. QED
      BY <2>3, <2>4, <2>6
  <1>5. /\ creditors' \in Seq(Entry) /\ Len(creditors') = Len(creditors)
        /\ \A k \in DOMAIN creditors : creditors'[k].user = creditors[k].user
        /\ \A k \in DOMAIN creditors :
             creditors'[k].cents = IF k = j THEN creditors[k].cents - Payable
                                   ELSE creditors[k].cents
        /\ DOMAIN creditors' = DOMAIN creditors
    <2>1. [creditors[j] EXCEPT !.cents = @ - Payable] \in Entry
      BY <1>1, <1>3 DEF Entry
    <2>2. creditors' = [creditors EXCEPT ![j] = [creditors[j] EXCEPT !.cents = @ - Payable]]
      BY <1>1
    <2>3. /\ creditors' \in Seq(Entry) /\ Len(creditors') = Len(creditors)
          /\ DOMAIN creditors' = DOMAIN creditors
      BY <1>1, <1>2, <2>1, <2>2
    <2>4. \A k \in DOMAIN creditors : k # j => creditors'[k] = creditors[k]
      BY <1>2, <2>2
    <2> DEFINE rest == [creditors[j] EXCEPT !.cents = @ - Payable]
    <2>5. creditors'[j] = rest
      <3>1. j \in DOMAIN creditors
        BY <1>1, <1>2
      <3>2. creditors' = [creditors EXCEPT ![j] = rest]
        BY <2>2
      <3> HIDE DEF rest
      <3>3. QED
        BY <3>1, <3>2
    <2>6. /\ creditors'[j].user = creditors[j].user
          /\ creditors'[j].cents = creditors[j].cents - Payable
      BY <1>1, <2>5 DEF Entry
    <2>7. QED
      BY <2>3, <2>4, <2>6
  <1>6. QED
    BY <1>4, <1>5

\* One iteration pays what is open to both, and no more.
LEMMA MatchPays ==
  ASSUME Inductive, Match
  PROVE  /\ debtors[i].user \in Users /\ creditors[j].user \in Users
         /\ debtors[i].user # creditors[j].user
         /\ Payable \in 1 .. -Due[debtors[i].user] /\ Payable <= Due[creditors[j].user]
         /\ Due' = [Due EXCEPT ![debtors[i].user] = @ + Payable,
                              ![creditors[j].user] = @ - Payable]
  <1> DEFINE from == debtors[i].user
             to   == creditors[j].user
  <1>d. Due = DueIn(debtors, creditors) /\ Due' = DueIn(debtors', creditors')
    BY DEF Due, DueIn
  <1>1. /\ i \in DOMAIN debtors /\ j \in DOMAIN creditors
        /\ Payable \in 1 .. debtors[i].cents /\ Payable \in 1 .. creditors[j].cents
        /\ debtors[i] \in Entry /\ creditors[j] \in Entry
    BY MatchDoes DEF Inductive, TypeOK
  <1>2. /\ debtors' \in Seq(Entry) /\ creditors' \in Seq(Entry)
        /\ DOMAIN debtors' = DOMAIN debtors /\ DOMAIN creditors' = DOMAIN creditors
        /\ \A k \in DOMAIN debtors : debtors'[k].user = debtors[k].user
        /\ \A k \in DOMAIN creditors : creditors'[k].user = creditors[k].user
        /\ \A k \in DOMAIN debtors :
             debtors'[k].cents = IF k = i THEN debtors[k].cents - Payable
                                 ELSE debtors[k].cents
        /\ \A k \in DOMAIN creditors :
             creditors'[k].cents = IF k = j THEN creditors[k].cents - Payable
                                   ELSE creditors[k].cents
    BY MatchLowers
  <1>3. /\ Payable \in Nat /\ from \in Users /\ to \in Users
        /\ debtors[i].cents \in Nat /\ creditors[j].cents \in Nat
    BY <1>1 DEF Entry
  <1>4. /\ Due[from] = -debtors[i].cents /\ Due[to] = creditors[j].cents
        /\ Due' = [Due EXCEPT ![from] = @ + Payable, ![to] = @ - Payable]
    <2>1. /\ debtors \in Seq(Entry) /\ creditors \in Seq(Entry)
          /\ \A k, l \in DOMAIN debtors : debtors[k].user = debtors[l].user => k = l
          /\ \A k, l \in DOMAIN creditors : creditors[k].user = creditors[l].user => k = l
          /\ \A k \in DOMAIN debtors, l \in DOMAIN creditors :
               debtors[k].user # creditors[l].user
      BY DEF Inductive, TypeOK, OneEntryEach
    <2> DEFINE d1 == debtors'
               c1 == creditors'
    <2>2. /\ DueIn(debtors, creditors)[from] = -debtors[i].cents
          /\ DueIn(debtors, creditors)[to] = creditors[j].cents
          /\ DueIn(d1, c1) = [DueIn(debtors, creditors) EXCEPT ![from] = @ + Payable,
                                                               ![to] = @ - Payable]
      <3> HIDE DEF d1, c1
      <3>1. /\ d1 \in Seq(Entry) /\ c1 \in Seq(Entry)
            /\ DOMAIN d1 = DOMAIN debtors /\ DOMAIN c1 = DOMAIN creditors
            /\ \A k \in DOMAIN debtors : d1[k].user = debtors[k].user
            /\ \A k \in DOMAIN creditors : c1[k].user = creditors[k].user
            /\ \A k \in DOMAIN debtors :
                 d1[k].cents = IF k = i THEN debtors[k].cents - Payable
                               ELSE debtors[k].cents
            /\ \A k \in DOMAIN creditors :
                 c1[k].cents = IF k = j THEN creditors[k].cents - Payable
                               ELSE creditors[k].cents
        BY <1>2 DEF d1, c1
      <3>2. Lowers(debtors, creditors, d1, c1, i, j, Payable)
        BY <1>1, <1>3, <2>1, <3>1 DEF Lowers
      <3>3. QED
        BY <3>2, LowerBoth DEF from, to
    <2>3. QED
      BY <1>d, <2>2
  <1>5. Payable \in 1 .. -Due[from] /\ Payable <= Due[to]
    BY <1>1, <1>3, <1>4
  <1>6. from # to
    BY <1>1 DEF Inductive, OneEntryEach
  <1>7. QED
    BY <1>3, <1>4, <1>5, <1>6

\* One iteration keeps the accounts.
LEMMA MatchAccounted ==
  ASSUME Inductive, Match
  PROVE  Accounted'
  <1> DEFINE from == debtors[i].user
             to   == creditors[j].user
             n    == Len(transfers)
             next == n + 1
             old  == [m \in DOMAIN transfers |-> transfers[m].cents]
             new  == [m \in DOMAIN transfers' |-> transfers'[m].cents]
             gave(u) == {m \in DOMAIN transfers : transfers[m].from = u}
             took(u) == {m \in DOMAIN transfers : transfers[m].to = u}
             places  == 1 .. n
  <1>1. /\ from \in Users /\ to \in Users /\ from # to /\ Payable \in Nat
        /\ Due' = [Due EXCEPT ![from] = @ + Payable, ![to] = @ - Payable]
    BY MatchPays
  <1>2. /\ transfers \in Seq(Transfer) /\ n \in Nat /\ DOMAIN transfers = 1 .. n
        /\ \A m \in 1 .. n : transfers[m] \in Transfer
        /\ bal \in [Users -> Int] /\ bal' = bal
    BY MatchDoes DEF Inductive, TypeOK
  <1>3. transfers' = Append(transfers, [from |-> from, to |-> to, cents |-> Payable])
    BY MatchDoes
  <1>4. /\ DOMAIN transfers' = (1 .. n) \cup {n + 1}
        /\ \A m \in 1 .. n : transfers'[m] = transfers[m] /\ m # n + 1
        /\ transfers'[n + 1] = [from |-> from, to |-> to, cents |-> Payable]
    BY <1>2, <1>3
  <1>5. /\ \A m \in 1 .. n : old[m] \in Int /\ new[m] = old[m]
        /\ new[next] = Payable
    BY <1>2, <1>4 DEF Transfer
  <1>6. Due \in [Users -> Int]
    BY DueInType DEF Inductive, TypeOK, Due, DueIn
  <1>7. ASSUME NEW u \in Users
        PROVE  /\ Given(u) \in Int /\ Taken(u) \in Int
               /\ Given(u)' = Given(u) + (IF u = from THEN Payable ELSE 0)
               /\ Taken(u)' = Taken(u) + (IF u = to THEN Payable ELSE 0)
    <2>1. gave(u) \subseteq places /\ took(u) \subseteq places
      BY <1>2
    <2>2. /\ {m \in DOMAIN transfers' : transfers'[m].from = u}
                = gave(u) \cup (IF u = from THEN {next} ELSE {})
          /\ {m \in DOMAIN transfers' : transfers'[m].to = u}
                = took(u) \cup (IF u = to THEN {next} ELSE {})
      BY <1>2, <1>4
    <2>a. /\ IsFiniteSet(places) /\ next \notin places /\ new[next] \in Int
          /\ \A m \in places : old[m] \in Int /\ new[m] = old[m]
      <3>1. IsFiniteSet(places)
        BY <1>2, FS_Interval
      <3>2. next \notin places /\ new[next] \in Int
        BY <1>1, <1>2, <1>5
      <3>3. \A m \in places : old[m] \in Int /\ new[m] = old[m]
        BY <1>5
      <3>4. QED
        BY <3>1, <3>2, <3>3
    <2>3. /\ Given(u) = SumFunctionOnSet(old, gave(u)) /\ Taken(u) = SumFunctionOnSet(old, took(u))
          /\ Given(u)' = SumFunctionOnSet(new, {m \in DOMAIN transfers' : transfers'[m].from = u})
          /\ Taken(u)' = SumFunctionOnSet(new, {m \in DOMAIN transfers' : transfers'[m].to = u})
      BY DEF Given, Taken, Sum
    <2> HIDE DEF old, new, gave, took, places, next, n, from, to
    <2>4. ASSUME NEW S, S \subseteq places
          PROVE  /\ SumFunctionOnSet(old, S) \in Int
                 /\ SumFunctionOnSet(new, S) = SumFunctionOnSet(old, S)
                 /\ SumFunctionOnSet(new, S \cup {next}) = SumFunctionOnSet(old, S) + new[next]
      <3>1. IsFiniteSet(S)
        BY <2>4, <2>a, FS_Subset
      <3>2. next \notin S /\ \A m \in S : old[m] \in Int /\ new[m] = old[m]
        BY <2>4, <2>a
      <3>3. Grows(old, new, S, next)
        BY <3>1, <3>2, <2>a DEF Grows
      <3>4. QED
        BY <3>3, SumGrows
    <2>5. /\ SumFunctionOnSet(old, gave(u)) \in Int
          /\ SumFunctionOnSet(new, gave(u)) = SumFunctionOnSet(old, gave(u))
          /\ SumFunctionOnSet(new, gave(u) \cup {next}) = SumFunctionOnSet(old, gave(u)) + new[next]
          /\ SumFunctionOnSet(old, took(u)) \in Int
          /\ SumFunctionOnSet(new, took(u)) = SumFunctionOnSet(old, took(u))
          /\ SumFunctionOnSet(new, took(u) \cup {next}) = SumFunctionOnSet(old, took(u)) + new[next]
      BY <2>1, <2>4
    <2>6. /\ Given(u) \in Int /\ Taken(u) \in Int
          /\ u = from => Given(u)' = Given(u) + Payable
          /\ u = to => Taken(u)' = Taken(u) + Payable
      BY <1>5, <2>2, <2>3, <2>5
    <2>7. /\ u # from => Given(u)' = Given(u)
          /\ u # to => Taken(u)' = Taken(u)
      <3>1. gave(u) \cup {} = gave(u) /\ took(u) \cup {} = took(u)
        OBVIOUS
      <3>2. QED
        BY <2>2, <2>3, <2>5, <3>1
    <2>8. QED
      BY <2>6, <2>7
  <1>8. ASSUME NEW u \in Users
        PROVE  /\ Due[u] \in Int
               /\ Due'[u] = IF u = from THEN Due[u] + Payable
                            ELSE IF u = to THEN Due[u] - Payable ELSE Due[u]
    BY <1>1, <1>6
  <1>9. ASSUME NEW u \in Users
        PROVE  Due'[u] = Brought(u)' + Given(u)' - Taken(u)'
    <2>1. Brought(u) \in Int /\ Brought(u)' = Brought(u)
      BY <1>2 DEF Brought
    <2>2. Due[u] = Brought(u) + Given(u) - Taken(u)
      BY DEF Inductive, Accounted
    <2> HIDE DEF from, to
    <2>3. /\ Given(u) \in Int /\ Taken(u) \in Int
          /\ Given(u)' = Given(u) + (IF u = from THEN Payable ELSE 0)
          /\ Taken(u)' = Taken(u) + (IF u = to THEN Payable ELSE 0)
      BY <1>7
    <2>4. Due'[u] = IF u = from THEN Due[u] + Payable
                    ELSE IF u = to THEN Due[u] - Payable ELSE Due[u]
      BY <1>8
    <2>5. Due'[u] = Brought(u) + Given(u)' - Taken(u)'
      BY <1>1, <2>1, <2>2, <2>3, <2>4
    <2>6. QED
      BY <2>1, <2>5
  <1>10. SumFunction(Due)' = SumFunction(Due)
    <2>1. DOMAIN Due = Users /\ DOMAIN Due' = Users
      BY <1>1, <1>6
    <2> DEFINE due1 == Due'
    <2>2. \A u \in Users : due1[u] = IF u = from THEN Due[u] + Payable
                                    ELSE IF u = to THEN Due[u] - Payable ELSE Due[u]
      BY <1>8
    <2> HIDE DEF due1, from, to
    <2>3. SumFunctionOnSet(due1, Users) = SumFunctionOnSet(Due, Users)
      BY <1>1, <1>8, <2>2, UsersFinite, PayKeepsSum
    <2>4. QED
      BY <2>1, <2>3 DEF SumFunction, due1
  <1>11. QED
    BY <1>2, <1>9, <1>10 DEF Inductive, Accounted

\* One iteration keeps the invariant.
LEMMA MatchInductive ==
  ASSUME Inductive, Match
  PROVE  Inductive'
  <1> DEFINE step == [from |-> debtors[i].user, to |-> creditors[j].user, cents |-> Payable]
  <1>1. /\ i \in 1 .. Len(debtors) /\ j \in 1 .. Len(creditors)
        /\ debtors[i] \in Entry /\ creditors[j] \in Entry
        /\ Payable \in 1 .. debtors[i].cents /\ Payable \in 1 .. creditors[j].cents
        /\ transfers' = Append(transfers, step)
        /\ debtors' = [debtors EXCEPT ![i].cents = @ - Payable]
        /\ creditors' = [creditors EXCEPT ![j].cents = @ - Payable]
        /\ i' = IF debtors[i].cents = Payable THEN i + 1 ELSE i
        /\ j' = IF creditors[j].cents = Payable THEN j + 1 ELSE j
        /\ i' # i \/ j' # j
        /\ bal' = bal
    BY MatchDoes
  <1>2. /\ debtors \in Seq(Entry) /\ creditors \in Seq(Entry) /\ transfers \in Seq(Transfer)
        /\ bal \in [Users -> Int]
    BY DEF Inductive, TypeOK
  <1>3. /\ debtors[i].user \in Users /\ debtors[i].cents \in Nat
        /\ creditors[j].user \in Users /\ creditors[j].cents \in Nat
        /\ Payable \in Nat \ {0}
        /\ debtors[i].cents - Payable \in Nat /\ creditors[j].cents - Payable \in Nat
    BY <1>1 DEF Entry
  <1>4. step \in Transfer
    BY <1>3 DEF Transfer
  <1>5. /\ debtors' \in Seq(Entry) /\ Len(debtors') = Len(debtors)
        /\ \A k \in DOMAIN debtors : debtors'[k].user = debtors[k].user
        /\ \A k \in DOMAIN debtors :
             debtors'[k].cents = IF k = i THEN debtors[k].cents - Payable ELSE debtors[k].cents
        /\ DOMAIN debtors' = DOMAIN debtors
    BY MatchLowers
  <1>6. /\ creditors' \in Seq(Entry) /\ Len(creditors') = Len(creditors)
        /\ \A k \in DOMAIN creditors : creditors'[k].user = creditors[k].user
        /\ \A k \in DOMAIN creditors :
             creditors'[k].cents = IF k = j THEN creditors[k].cents - Payable
                                   ELSE creditors[k].cents
        /\ DOMAIN creditors' = DOMAIN creditors
    BY MatchLowers
  <1> HIDE DEF step
  <1>7. /\ transfers' \in Seq(Transfer) /\ Len(transfers') = Len(transfers) + 1
        /\ \A m \in DOMAIN transfers : transfers'[m] = transfers[m]
        /\ transfers'[Len(transfers) + 1] = step
        /\ DOMAIN transfers' = DOMAIN transfers \cup {Len(transfers) + 1}
    BY <1>1, <1>2, <1>4
  <1>8. TypeOK'
    BY <1>1, <1>2, <1>5, <1>6, <1>7 DEF TypeOK
  <1>9. OneEntryEach'
    BY <1>5, <1>6 DEF Inductive, OneEntryEach
  <1>10. AheadIsOpen'
    <2>1. ASSUME NEW k \in DOMAIN debtors'
          PROVE  k >= i' <=> debtors'[k].cents > 0
      <3>1. k \in DOMAIN debtors /\ k \in Nat /\ (k >= i <=> debtors[k].cents > 0)
        BY <1>2, <1>5 DEF Inductive, AheadIsOpen
      <3>2. CASE k = i
        <4>1. debtors'[k].cents = debtors[i].cents - Payable /\ i \in Nat
          BY <1>1, <1>5, <3>1, <3>2
        <4>2. debtors[i].cents - Payable > 0 <=> debtors[i].cents # Payable
          BY <1>1, <1>3
        <4>3. i >= i' <=> debtors[i].cents # Payable
          BY <1>1, <4>1
        <4>4. QED
          BY <3>2, <4>1, <4>2, <4>3
      <3>3. CASE k # i
        BY <1>1, <1>5, <3>1, <3>3
      <3>4. QED
        BY <3>2, <3>3
    <2>2. ASSUME NEW k \in DOMAIN creditors'
          PROVE  k >= j' <=> creditors'[k].cents > 0
      <3>1. k \in DOMAIN creditors /\ k \in Nat /\ (k >= j <=> creditors[k].cents > 0)
        BY <1>2, <1>6 DEF Inductive, AheadIsOpen
      <3>2. CASE k = j
        <4>1. creditors'[k].cents = creditors[j].cents - Payable /\ j \in Nat
          BY <1>1, <1>6, <3>1, <3>2
        <4>2. creditors[j].cents - Payable > 0 <=> creditors[j].cents # Payable
          BY <1>1, <1>3
        <4>3. j >= j' <=> creditors[j].cents # Payable
          BY <1>1, <4>1
        <4>4. QED
          BY <3>2, <4>1, <4>2, <4>3
      <3>3. CASE k # j
        BY <1>1, <1>6, <3>1, <3>3
      <3>4. QED
        BY <3>2, <3>3
    <2>3. QED
      BY <2>1, <2>2 DEF AheadIsOpen
  <1>11. i \in DOMAIN debtors /\ j \in DOMAIN creditors
         /\ step.from = debtors[i].user /\ step.to = creditors[j].user
    BY <1>1, <1>2 DEF step
  <1>12. i <= i' /\ j <= j' /\ <<i, j>> # <<i', j'>>
    BY <1>1
  <1>13. \A m \in DOMAIN transfers :
           transfers[m].from # step.from \/ transfers[m].to # step.to
    <2> SUFFICES ASSUME NEW m \in DOMAIN transfers,
                        transfers[m].from = step.from, transfers[m].to = step.to
                 PROVE  FALSE
      OBVIOUS
    <2>1. PICK k \in DOMAIN debtors, l \in DOMAIN creditors :
            /\ <<k, l>> # <<i, j>>
            /\ transfers[m].from = debtors[k].user /\ transfers[m].to = creditors[l].user
      BY DEF Inductive, PairsBehind
    <2>2. k = i /\ l = j
      BY <1>11, <2>1 DEF Inductive, OneEntryEach
    <2>3. QED
      BY <2>1, <2>2
  <1>14. PairsBehind'
    <2>1. ASSUME NEW m \in DOMAIN transfers'
          PROVE  \E k \in DOMAIN debtors', l \in DOMAIN creditors' :
                   /\ k <= i' /\ l <= j' /\ <<k, l>> # <<i', j'>>
                   /\ transfers'[m].from = debtors'[k].user
                   /\ transfers'[m].to = creditors'[l].user
      <3>1. CASE m = Len(transfers) + 1
        BY <1>5, <1>6, <1>7, <1>11, <1>12, <3>1
      <3>2. CASE m \in DOMAIN transfers
        <4>1. PICK k \in DOMAIN debtors, l \in DOMAIN creditors :
                /\ k <= i /\ l <= j /\ <<k, l>> # <<i, j>>
                /\ transfers[m].from = debtors[k].user /\ transfers[m].to = creditors[l].user
          BY <3>2 DEF Inductive, PairsBehind
        <4>2. k <= i' /\ l <= j' /\ <<k, l>> # <<i', j'>>
          <5>1. k \in Int /\ l \in Int /\ i \in Int /\ j \in Int
            BY <1>1, <1>2
          <5>2. i' \in {i, i + 1} /\ j' \in {j, j + 1}
            BY <1>1
          <5>3. QED
            BY <1>12, <4>1, <5>1, <5>2
        <4>3. QED
          BY <1>5, <1>6, <1>7, <3>2, <4>1, <4>2
      <3>3. QED
        BY <1>7, <3>1, <3>2
    <2>2. ASSUME NEW m \in DOMAIN transfers', NEW n \in DOMAIN transfers', m # n
          PROVE  \/ transfers'[m].from # transfers'[n].from
                 \/ transfers'[m].to # transfers'[n].to
      BY <1>7, <1>13, <2>2 DEF Inductive, PairsBehind
    <2>3. QED
      BY <2>1, <2>2 DEF PairsBehind
  <1>15. Counted'
    <2>1. /\ i \in Nat /\ j \in Nat /\ Len(transfers) \in Nat
          /\ Len(debtors) \in Nat /\ Len(creditors) \in Nat
      BY <1>1, <1>2
    <2>2. Len(transfers) + 2 <= i + j
      BY DEF Inductive, Counted
    <2>3. Len(transfers') + 2 <= i' + j'
      BY <1>1, <1>7, <2>1, <2>2
    <2>4. ASSUME i' > Len(debtors'), j' > Len(creditors')
          PROVE  Len(transfers') + 3 <= i' + j'
      <3>1. i' = i + 1 /\ j' = j + 1
        BY <1>1, <1>5, <1>6, <2>1, <2>4
      <3>2. QED
        BY <1>7, <2>1, <2>2, <3>1
    <2>5. QED
      BY <2>3, <2>4 DEF Counted
  <1>16. ListsComplete'
    <2>1. {debtors'[k].user : k \in DOMAIN debtors'} = {debtors[k].user : k \in DOMAIN debtors}
      BY <1>5
    <2>2. {creditors'[k].user : k \in DOMAIN creditors'}
            = {creditors[k].user : k \in DOMAIN creditors}
      BY <1>6
    <2>3. Debtors(bal') = Debtors(bal) /\ Creditors(bal') = Creditors(bal)
      BY <1>1
    <2>4. ListsComplete
      BY DEF Inductive
    <2>5. QED
      BY <2>1, <2>2, <2>3, <2>4 DEF ListsComplete
  <1>17. Accounted'
    BY MatchAccounted
  <1>18. QED
    BY <1>8, <1>9, <1>10, <1>14, <1>15, <1>16, <1>17 DEF Inductive

\* The loop invariant: everything below is read off from it.
THEOREM InductiveHolds == Spec => []Inductive
  <1>1. Init => Inductive
    BY InitInductive
  <1>2. Inductive /\ [Next]_vars => Inductive'
    <2>1. ASSUME Inductive, UNCHANGED vars
          PROVE  Inductive'
      <3>1. (TypeOK /\ OneEntryEach /\ AheadIsOpen /\ ListsComplete /\ PairsBehind /\ Counted)'
        BY <2>1 DEF vars, Inductive, TypeOK, OneEntryEach, AheadIsOpen, ListsComplete,
                    PairsBehind, Counted, Debtors, Creditors
      <3>2. Due' = Due /\ bal' = bal
        BY <2>1 DEF vars, Due, Open, Cents
      <3>3. \A u \in Users : /\ Brought(u)' = Brought(u)
                             /\ Given(u)' = Given(u) /\ Taken(u)' = Taken(u)
        BY <2>1 DEF vars, Brought, Given, Taken, Sum
      <3>4. Accounted'
        <4>1. \A u \in Users : Due'[u] = Brought(u)' + Given(u)' - Taken(u)'
          BY <2>1, <3>2, <3>3 DEF Inductive, Accounted
        <4>2. QED
          BY <2>1, <3>2, <4>1 DEF Inductive, Accounted
      <3>5. QED
        BY <3>1, <3>4 DEF Inductive
    <2>2. QED
      BY <2>1, MatchInductive DEF Next, Return
  <1>3. QED
    BY <1>1, <1>2, PTL DEF Spec

\* The plan's types, and indices that stay within the two lists.
THEOREM TypesHold == Spec => []TypeOK
  <1>1. Inductive => TypeOK
    BY DEF Inductive
  <1>2. QED
    BY <1>1, InductiveHolds, PTL

\* A plan never pays in circles, and no pair of users meets twice.
THEOREM PlansAreOneWay == Spec => []OneWay
  <1>1. Inductive => OneWay
    BY DEF Inductive, OneEntryEach, PairsBehind, OneWay
  <1>2. QED
    BY <1>1, InductiveHolds, PTL

\* Each transfer settles somebody, and the last one may settle two.
LEMMA TransfersAreFew == Inductive => FewTransfers
  <1> SUFFICES ASSUME Inductive, transfers # <<>>
               PROVE  Len(transfers) < Len(debtors) + Len(creditors)
    BY DEF FewTransfers
  <1>1. /\ Len(debtors) \in Nat /\ Len(creditors) \in Nat /\ Len(transfers) \in Nat
        /\ i \in 1 .. Len(debtors) + 1 /\ j \in 1 .. Len(creditors) + 1
    BY DEF Inductive, TypeOK
  <1>2. /\ Len(transfers) + 2 <= i + j
        /\ i > Len(debtors) /\ j > Len(creditors) => Len(transfers) + 3 <= i + j
    BY DEF Inductive, Counted
  <1>3. QED
    BY <1>1, <1>2

\* n people are settled with at most n - 1 transfers.
THEOREM PlansAreShort == Spec => []FewTransfers
  BY TransfersAreFew, InductiveHolds, PTL

-----------------------------------------------------------------------------
(* The plan as a Clearing *)

\* The loop's plan is a Clearing: every transfer goes from somebody who owes to
\* somebody who is owed, and never past what either has open.
THEOREM PlanIsClearing == Spec => IsClearing
  <1>1. Due = DueIn(debtors, creditors) /\ Due' = DueIn(debtors', creditors')
    BY DEF Due, DueIn
  <1>2. Init => Plan!Init
    <2>1. Inductive => Due \in [Users -> Int]
      BY <1>1, DueInType DEF Inductive, TypeOK
    <2>2. QED
      BY <2>1, InitInductive DEF Plan!Init
  <1>3. Inductive /\ [Next]_vars => [Plan!Next]_Due
    <2>1. ASSUME UNCHANGED vars
          PROVE  UNCHANGED Due
      BY <1>1, <2>1 DEF vars
    <2>2. ASSUME Inductive, Match
          PROVE  Plan!Next
      <3>1. /\ debtors[i].user \in Users /\ creditors[j].user \in Users
            /\ Payable \in 1 .. -Due[debtors[i].user] /\ Payable <= Due[creditors[j].user]
            /\ Due' = [Due EXCEPT ![debtors[i].user] = @ + Payable,
                                 ![creditors[j].user] = @ - Payable]
        BY <2>2, MatchPays
      <3>2. QED
        BY <3>1 DEF Plan!Next, Plan!Pay
    <2>3. QED
      BY <2>1, <2>2 DEF Next, Return
  <1>4. QED
    BY <1>2, <1>3, InductiveHolds, PTL DEF Spec, IsClearing, Plan!Spec

\* A debt of nothing is nothing due.
LEMMA MinusZero ==
  ASSUME NEW x \in Int, x = 0
  PROVE  -x = 0
  <1>1. -x \in Int /\ -x <= 0 /\ -x >= 0
    OBVIOUS
  <1>2. \A y \in Int : y <= 0 /\ y >= 0 => y = 0
    OBVIOUS
  <1>3. QED
    BY <1>1, <1>2

\* A loop that has come to its end has settled everybody on one side.
LEMMA OneSideIsDone == Inductive => OneSideCleared
  <1> SUFFICES ASSUME Inductive, Done
               PROVE  \/ \A u \in Debtors(bal) : Due[u] = 0
                      \/ \A u \in Creditors(bal) : Due[u] = 0
    BY DEF OneSideCleared
  <1>1. /\ debtors \in Seq(Entry) /\ creditors \in Seq(Entry)
        /\ Len(debtors) \in Nat /\ Len(creditors) \in Nat /\ i \in Nat /\ j \in Nat
    BY DEF Inductive, TypeOK
  <1>2. Due = DueIn(debtors, creditors)
    BY DEF Due, DueIn
  <1>3. /\ \A k \in DOMAIN debtors : debtors[k].cents \in Nat /\ debtors[k].user \in Users
        /\ \A k \in DOMAIN creditors : creditors[k].cents \in Nat /\ creditors[k].user \in Users
    <2>1. /\ \A k \in DOMAIN debtors : debtors[k] \in Entry
          /\ \A k \in DOMAIN creditors : creditors[k] \in Entry
      BY <1>1
    <2>2. QED
      BY <2>1 DEF Entry
  <1>4. CASE i > Len(debtors)
    <2> SUFFICES ASSUME NEW u \in Debtors(bal)
                 PROVE  Due[u] = 0
      OBVIOUS
    <2>1. PICK k \in DOMAIN debtors : debtors[k].user = u
      BY DEF Inductive, ListsComplete
    <2>2. debtors[k].cents = 0
      <3>1. ~(k >= i)
        BY <1>1, <1>4
      <3>2. QED
        BY <1>3, <3>1 DEF Inductive, AheadIsOpen
    <2>3. Open(debtors, u) /\ Cents(debtors, u) = debtors[k].cents
      BY <1>1, <2>1, CentsOfEntry DEF Inductive, OneEntryEach
    <2>4. u \in Users
      BY <1>3, <2>1
    <2>5. Cents(debtors, u) = 0
      BY <2>2, <2>3
    <2>6. Cents(debtors, u) \in Int
      BY <2>5
    <2>7. -Cents(debtors, u) = 0
      BY <2>5, <2>6, MinusZero
    <2>8. Due[u] = -Cents(debtors, u)
      BY <1>2, <2>3, <2>4 DEF DueIn
    <2>9. QED
      BY <2>7, <2>8
  <1>5. CASE j > Len(creditors)
    <2> SUFFICES ASSUME NEW u \in Creditors(bal)
                 PROVE  Due[u] = 0
      OBVIOUS
    <2>1. PICK k \in DOMAIN creditors : creditors[k].user = u
      BY DEF Inductive, ListsComplete
    <2>2. creditors[k].cents = 0
      <3>1. ~(k >= j)
        BY <1>1, <1>5
      <3>2. QED
        BY <1>3, <3>1 DEF Inductive, AheadIsOpen
    <2>3. Open(creditors, u) /\ Cents(creditors, u) = creditors[k].cents
      BY <1>1, <2>1, CentsOfEntry DEF Inductive, OneEntryEach
    <2>4. u \in Users /\ ~Open(debtors, u)
      BY <1>3, <2>1 DEF Inductive, OneEntryEach, Open
    <2>5. Due[u] = Cents(creditors, u)
      BY <1>2, <2>3, <2>4 DEF DueIn
    <2>6. QED
      BY <2>2, <2>3, <2>5
  <1>6. QED
    BY <1>4, <1>5 DEF Done

\* In the end one side is settled completely, whatever the balances add up to.
THEOREM PlansPayAllTheyCan == Spec => []OneSideCleared
  BY OneSideIsDone, InductiveHolds, PTL

-----------------------------------------------------------------------------
(* What a plan adds up to *)

\* A user with a rounded balance has open what the balance and the transfers
\* leave, to the cent.
THEOREM EveryCentIsCounted == Spec => []EveryCentCounted
  <1>1. Inductive => EveryCentCounted
    BY DEF Inductive, Accounted, EveryCentCounted, Brought
  <1>2. QED
    BY <1>1, InductiveHolds, PTL

\* Who takes part, by the balance itself.
LEMMA WhoTakesPart ==
  ASSUME bal \in [Users -> Int]
  PROVE  /\ Debtors(bal) = {u \in Users : bal[u] < -1}
         /\ Creditors(bal) = {u \in Users : bal[u] > 0}
  <1>1. \A u \in Users : /\ bal[u] \in Int
                         /\ round2(bal[u], 1) = IF bal[u] >= 0 THEN bal[u] ELSE bal[u] + 1
    BY RoundWhole
  <1>2. \A u \in Users : round2(bal[u], 1) < 0 <=> bal[u] < -1
    BY <1>1
  <1>3. \A u \in Users : round2(bal[u], 1) > 0 <=> bal[u] > 0
    BY <1>1
  <1>4. QED
    BY <1>2, <1>3 DEF Debtors, Creditors

\* Debtors are never owed, creditors never owe, and nobody else has anything
\* open.
LEMMA SidesOfZero ==
  ASSUME Inductive, NEW u \in Users
  PROVE  /\ Due[u] \in Int
         /\ u \in Debtors(bal) => Due[u] <= 0
         /\ u \in Creditors(bal) => Due[u] >= 0
         /\ u \notin Debtors(bal) /\ u \notin Creditors(bal) => Due[u] = 0
  <1>1. /\ debtors \in Seq(Entry) /\ creditors \in Seq(Entry)
        /\ \A k \in DOMAIN debtors : debtors[k].cents \in Nat
        /\ \A k \in DOMAIN creditors : creditors[k].cents \in Nat
    <2>1. debtors \in Seq(Entry) /\ creditors \in Seq(Entry)
      BY DEF Inductive, TypeOK
    <2>2. /\ \A k \in DOMAIN debtors : debtors[k] \in Entry
          /\ \A k \in DOMAIN creditors : creditors[k] \in Entry
      BY <2>1
    <2>3. QED
      BY <2>1, <2>2 DEF Entry
  <1>2. Due[u] = IF Open(debtors, u) THEN -Cents(debtors, u)
                 ELSE IF Open(creditors, u) THEN Cents(creditors, u) ELSE 0
    BY DEF Due
  <1>3. CASE u \in Debtors(bal)
    <2>1. PICK k \in DOMAIN debtors : debtors[k].user = u
      BY <1>3 DEF Inductive, ListsComplete
    <2>2. Open(debtors, u) /\ Cents(debtors, u) = debtors[k].cents
      BY <1>1, <2>1, CentsOfEntry DEF Inductive, OneEntryEach
    <2>3. Due[u] = -debtors[k].cents /\ debtors[k].cents \in Nat
      BY <1>1, <1>2, <2>2
    <2>4. \A l \in DOMAIN creditors : creditors[l].user # u
      BY <2>1 DEF Inductive, OneEntryEach
    <2>5. u \notin Creditors(bal)
      BY <2>4 DEF Inductive, ListsComplete
    <2>6. QED
      BY <1>3, <2>3, <2>5
  <1>4. CASE u \in Creditors(bal)
    <2>1. PICK k \in DOMAIN creditors : creditors[k].user = u
      BY <1>4 DEF Inductive, ListsComplete
    <2>2. Open(creditors, u) /\ Cents(creditors, u) = creditors[k].cents
      BY <1>1, <2>1, CentsOfEntry DEF Inductive, OneEntryEach
    <2>3. \A l \in DOMAIN debtors : debtors[l].user # u
      BY <2>1 DEF Inductive, OneEntryEach
    <2>4. ~Open(debtors, u)
      BY <2>3 DEF Open
    <2>5. Due[u] = creditors[k].cents /\ creditors[k].cents \in Nat
      BY <1>1, <1>2, <2>2, <2>4
    <2>6. u \notin Debtors(bal)
      BY <2>3 DEF Inductive, ListsComplete
    <2>7. QED
      BY <1>4, <2>5, <2>6
  <1>5. CASE u \notin Debtors(bal) /\ u \notin Creditors(bal)
    <2>1. ~Open(debtors, u) /\ ~Open(creditors, u)
      BY <1>5 DEF Inductive, ListsComplete, Open
    <2>2. QED
      BY <1>2, <1>5, <2>1
  <1>6. QED
    BY <1>3, <1>4, <1>5

\* Balances that add up to zero leave no debtor with a debt: what stays open is
\* what those who owe one cent were not asked for.
THEOREM PlansClear == Spec => []Clears
  <1>1. Inductive => Clears
    <2> SUFFICES ASSUME Inductive, Done, SumFunction(bal) = 0
                 PROVE  /\ \A u \in Users : bal[u] < 0 => Due[u] = 0
                        /\ SumFunction(Due) = Cardinality({u \in Users : bal[u] = -1})
      BY DEF Clears
    <2> DEFINE short == {u \in Users : bal[u] = -1}
               none  == [u \in Users |-> 0]
    <2>1. bal \in [Users -> Int] /\ DOMAIN Due = Users
      BY DEF Inductive, TypeOK, Due
    <2>2. Cardinality(short) \in Nat
      <3>1. IsFiniteSet(short)
        BY UsersFinite, FS_Subset
      <3>2. QED
        BY <3>1, FS_CardinalityType
    <2>3. SumFunction(Due) = Cardinality(short)
      <3>1. SumFunction(Due) = SumFunction(bal) + Cardinality(short)
        BY DEF Inductive, Accounted
      <3> HIDE DEF short
      <3>2. QED
        BY <2>2, <3>1
    <2>4. ASSUME NEW u \in Users, bal[u] < 0
          PROVE  Due[u] = 0
      <3>1. /\ \A v \in Users : Due[v] \in Int
            /\ \A v \in Debtors(bal) : v \in Users => Due[v] <= 0
            /\ \A v \in Users \ (Debtors(bal) \cup Creditors(bal)) : Due[v] = 0
        BY SidesOfZero
      <3>2. u \notin Creditors(bal)
        BY <2>1, <2>4, WhoTakesPart
      <3>3. CASE u \notin Debtors(bal)
        BY <3>1, <3>2, <3>3
      <3>4. CASE u \in Debtors(bal) /\ \A v \in Debtors(bal) : Due[v] = 0
        BY <3>4
      <3>5. CASE u \in Debtors(bal) /\ \A v \in Creditors(bal) : Due[v] = 0
        <4>1. \A v \in Users : Due[v] \in Int /\ Due[v] <= 0
          BY <3>1, <3>5
        <4> DEFINE others == Users \ {u}
        <4>2. IsFiniteSet(others)
          BY UsersFinite, FS_RemoveElement
        <4>3. SumFunctionOnSet(Due, Users) = Due[u] + SumFunctionOnSet(Due, others)
          BY <4>1, UsersFinite, SumRemove
        <4>4. \A v \in others : /\ Due[v] \in Int /\ none[v] \in Int
                                /\ Due[v] <= none[v] /\ none[v] = 0
          BY <4>1
        <4> HIDE DEF others, none, short
        <4>5. SumFunctionOnSet(Due, others) <= SumFunctionOnSet(none, others)
          BY <4>2, <4>4, SumMonotone
        <4>6. SumFunctionOnSet(none, others) = 0 /\ SumFunctionOnSet(Due, others) \in Int
          BY <4>2, <4>4, SumZero, SumInt
        <4>7. SumFunctionOnSet(Due, Users) = Cardinality(short)
          BY <2>1, <2>3 DEF SumFunction
        <4>8. Due[u] \in Int /\ Due[u] <= 0
          BY <4>1
        <4>9. QED
          BY <2>2, <4>3, <4>5, <4>6, <4>7, <4>8
      <3>6. QED
        BY <3>3, <3>4, <3>5, OneSideIsDone DEF OneSideCleared
    <2>5. QED
      BY <2>3, <2>4
  <1>2. QED
    BY <1>1, InductiveHolds, PTL

-----------------------------------------------------------------------------
(* A finished plan is one its callers may count on *)

\* Plans has its own copies of the operators of the libraries.
LEMMA SameOperators ==
  ASSUME NEW f, NEW S
  PROVE  /\ Promised!SumFunctionOnSet(f, S) = SumFunctionOnSet(f, S)
         /\ Promised!Cardinality(S) = Cardinality(S)
         /\ Promised!Max(S) = CHOOSE x \in S : \A y \in S : x >= y
  <1>1. Promised!SumFunctionOnSet(f, S) = SumFunctionOnSet(f, S)
    BY DEF Promised!SumFunctionOnSet, SumFunctionOnSet,
           Promised!FoldFunctionOnSet, FoldFunctionOnSet,
           Promised!MapThenFoldSet, MapThenFoldSet
  <1>2. Promised!Cardinality(S) = Cardinality(S)
    BY DEF Promised!Cardinality, Cardinality
  <1>3. QED
    BY <1>1, <1>2 DEF Promised!Max

\* The largest debt bounds every debt.
LEMMA MostIs ==
  ASSUME bal \in [Users -> Int]
  PROVE  /\ Promised!Most(bal) \in Nat
         /\ \A u \in Promised!Owing(bal) : -bal[u] <= Promised!Most(bal)
  <1> DEFINE owing == Promised!Owing(bal)
             debt  == [u \in Users |-> -bal[u]]
             debts == {debt[u] : u \in owing}
             all   == {0} \cup debts
             most  == CHOOSE x \in all : \A y \in all : x >= y
  <1>1. owing \subseteq Users
    BY DEF Promised!Owing
  <1>2. IsFiniteSet(debts)
    <2>1. IsFiniteSet(owing)
      BY <1>1, UsersFinite, FS_Subset
    <2> HIDE DEF owing, debt
    <2>2. QED
      BY <2>1, ImageIsFinite
  <1>3. IsFiniteSet(all)
    <2> HIDE DEF debts
    <2>1. IsFiniteSet({0})
      BY FS_Singleton
    <2>2. QED
      BY <1>2, <2>1, FS_Union
  <1>4. all \subseteq Int /\ 0 \in all /\ \A u \in owing : -bal[u] \in all
    <2>1. \A u \in owing : debt[u] = -bal[u] /\ debt[u] \in Int
      BY <1>1
    <2> HIDE DEF owing, debt
    <2>2. \A u \in owing : debt[u] \in debts
      OBVIOUS
    <2>3. \A x \in debts : x \in Int
      BY <2>1
    <2> HIDE DEF debts
    <2>4. QED
      BY <2>1, <2>2, <2>3
  <1>5. debts = {-bal[u] : u \in Promised!Owing(bal)}
    BY <1>1
  <1>6. Promised!Most(bal) = most
    <2>1. Promised!Most(bal) = Promised!Max(all)
      BY <1>5 DEF Promised!Most
    <2> HIDE DEF all
    <2>2. QED
      BY <2>1, SameOperators
  <1> HIDE DEF all
  <1>7. \E x \in all : \A y \in all : x >= y
    <2>1. PICK x \in all : \A y \in all : y <= x
      BY <1>3, <1>4, LargestIs
    <2>2. \A y \in all : x >= y
      BY <1>4, <2>1
    <2>3. QED
      BY <2>2
  <1>8. most \in all /\ \A y \in all : most >= y
    BY <1>7
  <1> HIDE DEF most
  <1>9. most \in Nat
    BY <1>4, <1>8
  <1>10. \A u \in owing : -bal[u] <= most
    BY <1>4, <1>8
  <1>11. QED
    BY <1>6, <1>9, <1>10

\* What makes the flow f a plan for the balances b: Flows, in the operators the
\* lemmas are about.
IsFlow(f, b) ==
  LET owing == Promised!Owing(b)
      due   == Promised!Due(b)
      used  == {p \in DOMAIN f : f[p] > 0}
  IN  /\ f \in [owing \X due -> 0 .. Promised!Most(b)]
      /\ \A u \in owing : SumFunctionOnSet([v \in due |-> f[<<u, v>>]], due) <= -b[u]
      /\ \A v \in due : SumFunctionOnSet([u \in owing |-> f[<<u, v>>]], owing) <= b[v]
      /\ \/ \A u \in owing : SumFunctionOnSet([v \in due |-> f[<<u, v>>]], due) = -b[u]
         \/ \A v \in due : SumFunctionOnSet([u \in owing |-> f[<<u, v>>]], owing) = b[v]
      /\ used # {} => Cardinality(used) < Cardinality(owing \cup due)

LEMMA FlowsAre ==
  ASSUME NEW f, NEW b, IsFlow(f, b)
  PROVE  f \in Promised!Flows(b)
  <1> DEFINE owing   == Promised!Owing(b)
             due     == Promised!Due(b)
             used    == {p \in DOMAIN f : f[p] > 0}
             all     == owing \cup due
             pays(u) == [v \in due |-> f[<<u, v>>]]
             gets(v) == [u \in owing |-> f[<<u, v>>]]
  <1>1. \A u : Promised!SumFunctionOnSet(pays(u), due) = SumFunctionOnSet(pays(u), due)
    <2> HIDE DEF pays, due
    <2>1. QED
      BY SameOperators
  <1>2. \A v : Promised!SumFunctionOnSet(gets(v), owing) = SumFunctionOnSet(gets(v), owing)
    <2> HIDE DEF gets, owing
    <2>1. QED
      BY SameOperators
  <1>3. Promised!Cardinality(used) = Cardinality(used) /\ Promised!Cardinality(all) = Cardinality(all)
    <2> HIDE DEF used, all
    <2>1. QED
      BY SameOperators
  <1>4. f \in [owing \X due -> 0 .. Promised!Most(b)]
    BY DEF IsFlow
  <1>5. \A u \in owing : Promised!SumFunctionOnSet(pays(u), due) <= -b[u]
    BY <1>1 DEF IsFlow
  <1>6. \A v \in due : Promised!SumFunctionOnSet(gets(v), owing) <= b[v]
    BY <1>2 DEF IsFlow
  <1>7. \/ \A u \in owing : Promised!SumFunctionOnSet(pays(u), due) = -b[u]
        \/ \A v \in due : Promised!SumFunctionOnSet(gets(v), owing) = b[v]
    BY <1>1, <1>2 DEF IsFlow
  <1>8. used # {} => Promised!Cardinality(used) < Promised!Cardinality(all)
    BY <1>3 DEF IsFlow
  <1>9. QED
    BY <1>4, <1>5, <1>6, <1>7, <1>8 DEF Promised!Flows

\* Transfers go from debtors to creditors, and never empty.
LEMMA TransferSides ==
  ASSUME Inductive
  PROVE  /\ IsFiniteSet(DOMAIN transfers)
         /\ \A m \in DOMAIN transfers :
              /\ transfers[m].cents \in Nat \ {0}
              /\ transfers[m].from \in Debtors(bal)
              /\ transfers[m].to \in Creditors(bal)
  <1>1. /\ transfers \in Seq(Transfer) /\ Len(transfers) \in Nat
        /\ DOMAIN transfers = 1 .. Len(transfers)
    BY DEF Inductive, TypeOK
  <1>2. IsFiniteSet(DOMAIN transfers)
    BY <1>1, FS_Interval
  <1>3. ASSUME NEW m \in DOMAIN transfers
        PROVE  transfers[m].cents \in Nat \ {0}
    <2>1. transfers[m] \in Transfer
      BY <1>1
    <2>2. QED
      BY <2>1 DEF Transfer
  <1>4. ASSUME NEW m \in DOMAIN transfers
        PROVE  transfers[m].from \in Debtors(bal) /\ transfers[m].to \in Creditors(bal)
    <2>1. PICK k \in DOMAIN debtors, l \in DOMAIN creditors :
            transfers[m].from = debtors[k].user /\ transfers[m].to = creditors[l].user
      BY DEF Inductive, PairsBehind
    <2>2. QED
      BY <2>1 DEF Inductive, ListsComplete
  <1>5. QED
    BY <1>2, <1>3, <1>4

\* What a debtor has given is the debt less what is still open; what a creditor
\* has taken is the claim less what is still open.
LEMMA GivenAndTaken ==
  ASSUME Inductive, NEW u \in Users
  PROVE  /\ bal[u] \in Int /\ Due[u] \in Int
         /\ u \in Debtors(bal) => Given(u) = Due[u] - bal[u] /\ Due[u] <= 0
         /\ u \in Creditors(bal) => Taken(u) = bal[u] - Due[u] /\ Due[u] >= 0
  <1>1. bal \in [Users -> Int] /\ bal[u] \in Int /\ Due[u] \in Int
    BY SidesOfZero DEF Inductive, TypeOK
  <1>2. Due[u] = Brought(u) + Given(u) - Taken(u)
    BY DEF Inductive, Accounted
  <1>3. Debtors(bal) \cap Creditors(bal) = {}
    BY <1>1, WhoTakesPart
  <1> DEFINE cents == [m \in DOMAIN transfers |-> transfers[m].cents]
             gave  == {m \in DOMAIN transfers : transfers[m].from = u}
             took  == {m \in DOMAIN transfers : transfers[m].to = u}
  <1>4. Given(u) = SumFunctionOnSet(cents, gave) /\ Taken(u) = SumFunctionOnSet(cents, took)
    BY DEF Given, Taken, Sum
  <1>5. Given(u) \in Int /\ Taken(u) \in Int
    <2>1. IsFiniteSet(gave) /\ IsFiniteSet(took)
      BY TransferSides, FS_Subset
    <2>2. \A m \in gave \cup took : cents[m] \in Int
      BY TransferSides
    <2> HIDE DEF cents, gave, took
    <2>3. SumFunctionOnSet(cents, gave) \in Int /\ SumFunctionOnSet(cents, took) \in Int
      BY <2>1, <2>2, SumInt
    <2>4. QED
      BY <1>4, <2>3
  <1>6. ASSUME u \in Debtors(bal)
        PROVE  Given(u) = Due[u] - bal[u] /\ Due[u] <= 0
    <2>1. took = {}
      BY <1>3, <1>6, TransferSides
    <2>2. Taken(u) = 0
      BY <1>4, <2>1, SumEmpty
    <2>3. Brought(u) = bal[u]
      BY <1>6 DEF Brought, Debtors
    <2>4. QED
      BY <1>1, <1>2, <1>5, <1>6, <2>2, <2>3, SidesOfZero
  <1>7. ASSUME u \in Creditors(bal)
        PROVE  Taken(u) = bal[u] - Due[u] /\ Due[u] >= 0
    <2>1. gave = {}
      BY <1>3, <1>7, TransferSides
    <2>2. Given(u) = 0
      BY <1>4, <2>1, SumEmpty
    <2>3. Brought(u) = bal[u]
      BY <1>7 DEF Brought, Creditors
    <2>4. QED
      BY <1>1, <1>2, <1>5, <1>7, <2>2, <2>3, SidesOfZero
  <1>8. QED
    BY <1>1, <1>6, <1>7

\* What a user pays each creditor adds up to what that user gives, and what a
\* user is paid by each debtor to what that user takes.
LEMMA PaidAddsUp ==
  ASSUME Inductive, NEW u \in Users
  PROVE  /\ SumFunctionOnSet([v \in Creditors(bal) |-> Paid(u, v)], Creditors(bal)) = Given(u)
         /\ SumFunctionOnSet([v \in Debtors(bal) |-> Paid(v, u)], Debtors(bal)) = Taken(u)
         /\ \A v \in Creditors(bal) : Paid(u, v) \in Nat /\ Paid(u, v) <= Given(u)
  <1> DEFINE cents == [m \in DOMAIN transfers |-> transfers[m].cents]
             from  == [m \in DOMAIN transfers |-> transfers[m].from]
             to    == [m \in DOMAIN transfers |-> transfers[m].to]
             gave  == {m \in DOMAIN transfers : from[m] = u}
             took  == {m \in DOMAIN transfers : to[m] = u}
             owed  == Creditors(bal)
             owing == Debtors(bal)
             pays  == [v \in owed |-> Paid(u, v)]
             gets  == [v \in owing |-> Paid(v, u)]
  <1>1. /\ IsFiniteSet(gave) /\ IsFiniteSet(took)
        /\ IsFiniteSet(owed) /\ IsFiniteSet(owing)
    BY TransferSides, UsersFinite, FS_Subset DEF Debtors, Creditors
  <1>2. /\ \A m \in gave : cents[m] \in Nat /\ to[m] \in owed
        /\ \A m \in took : cents[m] \in Nat /\ from[m] \in owing
    BY TransferSides
  <1>3. Given(u) = SumFunctionOnSet(cents, gave) /\ Taken(u) = SumFunctionOnSet(cents, took)
    <2>1. /\ gave = {m \in DOMAIN transfers : transfers[m].from = u}
          /\ took = {m \in DOMAIN transfers : transfers[m].to = u}
      OBVIOUS
    <2> HIDE DEF gave, took
    <2>2. QED
      BY <2>1 DEF Given, Taken, Sum
  <1>4. \A v \in owed : pays[v] = SumFunctionOnSet(cents, {m \in gave : to[m] = v})
    <2> SUFFICES ASSUME NEW v \in owed
                 PROVE  pays[v] = SumFunctionOnSet(cents, {m \in gave : to[m] = v})
      OBVIOUS
    <2>1. {m \in gave : to[m] = v}
            = {m \in DOMAIN transfers : transfers[m].from = u /\ transfers[m].to = v}
      OBVIOUS
    <2>2. QED
      BY <2>1 DEF Paid, Sum
  <1>5. \A v \in owing : gets[v] = SumFunctionOnSet(cents, {m \in took : from[m] = v})
    <2> SUFFICES ASSUME NEW v \in owing
                 PROVE  gets[v] = SumFunctionOnSet(cents, {m \in took : from[m] = v})
      OBVIOUS
    <2>1. {m \in took : from[m] = v}
            = {m \in DOMAIN transfers : transfers[m].from = v /\ transfers[m].to = u}
      OBVIOUS
    <2>2. QED
      BY <2>1 DEF Paid, Sum
  <1>6. \A v \in owed : pays[v] = Paid(u, v)
    OBVIOUS
  <1> HIDE DEF cents, from, to, gave, took, owed, owing, pays, gets
  <1>7. SumFunctionOnSet(pays, owed) = SumFunctionOnSet(cents, gave)
    <2>1. ByKey(cents, gave, to, owed, pays)
      BY <1>1, <1>2, <1>4 DEF ByKey
    <2>2. QED
      BY <2>1, SumByKey
  <1>8. SumFunctionOnSet(gets, owing) = SumFunctionOnSet(cents, took)
    <2>1. ByKey(cents, took, from, owing, gets)
      BY <1>1, <1>2, <1>5 DEF ByKey
    <2>2. QED
      BY <2>1, SumByKey
  <1>9. \A v \in owed : pays[v] \in Nat
    <2> SUFFICES ASSUME NEW v \in owed
                 PROVE  pays[v] \in Nat
      OBVIOUS
    <2> DEFINE part == {m \in gave : to[m] = v}
    <2>1. IsFiniteSet(part) /\ \A m \in part : cents[m] \in Nat
      BY <1>1, <1>2, FS_Subset
    <2>2. pays[v] = SumFunctionOnSet(cents, part)
      BY <1>4
    <2> HIDE DEF part
    <2>3. QED
      BY <2>1, <2>2, SumNat
  <1>10. \A v \in owed : pays[v] <= SumFunctionOnSet(pays, owed)
    BY <1>1, <1>9, SumNat
  <1>11. SumFunctionOnSet(pays, owed) = Given(u) /\ SumFunctionOnSet(gets, owing) = Taken(u)
    BY <1>3, <1>7, <1>8
  <1>12. \A v \in owed : Paid(u, v) \in Nat /\ Paid(u, v) <= Given(u)
    BY <1>6, <1>9, <1>10, <1>11
  <1>13. QED
    BY <1>11, <1>12 DEF owed, owing, pays, gets

\* A list without doubles is as long as the set of its users.
LEMMA ListLength ==
  ASSUME NEW q \in Seq(Entry), \A k, l \in DOMAIN q : q[k].user = q[l].user => k = l
  PROVE  Cardinality({q[k].user : k \in DOMAIN q}) = Len(q)
  <1> DEFINE n == Len(q)
             S == {q[k].user : k \in DOMAIN q}
             g == [k \in 1 .. n |-> q[k].user]
  <1>1. n \in Nat /\ DOMAIN q = 1 .. n
    OBVIOUS
  <1>2. g \in Bijection(1 .. n, S)
    <2>1. g \in [1 .. n -> S]
      BY <1>1
    <2>2. \A k, l \in 1 .. n : g[k] = g[l] => k = l
      BY <1>1
    <2>3. \A s \in S : \E k \in 1 .. n : g[k] = s
      BY <1>1
    <2> HIDE DEF S, g, n
    <2>4. g \in Injection(1 .. n, S)
      BY <2>1, <2>2 DEF Injection, IsInjective
    <2>5. g \in Surjection(1 .. n, S)
      BY <2>1, <2>3 DEF Surjection
    <2>6. QED
      BY <2>4, <2>5 DEF Bijection
  <1> HIDE DEF S, g, n
  <1>3. ExistsBijection(1 .. n, S)
    BY <1>2 DEF ExistsBijection
  <1>4. Cardinality(S) = n
    BY <1>1, <1>3, FS_CountingElements
  <1>5. QED
    BY <1>4 DEF S, n

\* Fewer pairs pay each other than there are people in the plan.
LEMMA PayingPairs ==
  ASSUME Inductive
  PROVE  LET used == {p \in Debtors(bal) \X Creditors(bal) : Paid(p[1], p[2]) > 0}
         IN  used # {} => Cardinality(used) < Cardinality(Debtors(bal) \cup Creditors(bal))
  <1> DEFINE owing == Debtors(bal)
             owed  == Creditors(bal)
             used  == {p \in owing \X owed : Paid(p[1], p[2]) > 0}
             moves == DOMAIN transfers
             pair  == [m \in moves |-> <<transfers[m].from, transfers[m].to>>]
             pairs == {pair[m] : m \in moves}
  <1>1. /\ Len(transfers) \in Nat /\ moves = 1 .. Len(transfers)
        /\ Len(debtors) \in Nat /\ Len(creditors) \in Nat
        /\ transfers \in Seq(Transfer)
    BY DEF Inductive, TypeOK
  <1>2. used \subseteq pairs
    <2> SUFFICES ASSUME NEW u \in owing, NEW v \in owed, Paid(u, v) > 0
                 PROVE  <<u, v>> \in pairs
      OBVIOUS
    <2>1. {m \in moves : transfers[m].from = u /\ transfers[m].to = v} # {}
      <3>1. SUFFICES ASSUME {m \in moves : transfers[m].from = u /\ transfers[m].to = v} = {}
                     PROVE  FALSE
        OBVIOUS
      <3>2. Paid(u, v) = 0
        BY <3>1, SumEmpty DEF Paid, Sum
      <3>3. QED
        BY <3>2
    <2>2. PICK m \in moves : transfers[m].from = u /\ transfers[m].to = v
      BY <2>1
    <2>3. pair[m] = <<u, v>>
      BY <2>2
    <2>4. QED
      BY <2>3
  <1>3. IsFiniteSet(moves) /\ Cardinality(moves) = Len(transfers)
    <2> HIDE DEF moves
    <2>1. QED
      BY <1>1, FirstNumbers
  <1>4. IsFiniteSet(pairs) /\ Cardinality(pairs) <= Cardinality(moves)
    <2> HIDE DEF moves, pair
    <2>1. QED
      BY <1>3, ImageIsFinite
  <1>5. Cardinality(used) <= Cardinality(pairs) /\ Cardinality(used) \in Nat
        /\ Cardinality(pairs) \in Nat
    <2> HIDE DEF used, pairs
    <2>1. QED
      BY <1>2, <1>4, FS_Subset, FS_CardinalityType
  <1>6. Cardinality(owing) = Len(debtors) /\ Cardinality(owed) = Len(creditors)
    BY ListLength DEF Inductive, TypeOK, OneEntryEach, ListsComplete
  <1>7. Cardinality(owing \cup owed) = Len(debtors) + Len(creditors)
    <2>1. IsFiniteSet(owing) /\ IsFiniteSet(owed)
      BY UsersFinite, FS_Subset DEF Debtors, Creditors
    <2>2. owing \cap owed = {}
      BY DEF Inductive, OneEntryEach, ListsComplete
    <2> HIDE DEF owing, owed
    <2>3. Cardinality(owing \cup owed)
            = Cardinality(owing) + Cardinality(owed) - Cardinality(owing \cap owed)
      BY <2>1, FS_Union
    <2>4. Cardinality(owing \cap owed) = 0
      BY <2>2, FS_EmptySet
    <2>5. QED
      BY <1>1, <1>6, <2>3, <2>4
  <1>8. ASSUME used # {}
        PROVE  Len(transfers) < Len(debtors) + Len(creditors)
    <2>1. moves # {}
      BY <1>2, <1>8
    <2>2. transfers # <<>>
      BY <2>1
    <2>3. QED
      BY <2>2, TransfersAreFew DEF FewTransfers
  <1> HIDE DEF used, pairs, moves
  <1>9. used # {} => Cardinality(used) < Cardinality(owing \cup owed)
    BY <1>1, <1>3, <1>4, <1>5, <1>7, <1>8
  <1>10. QED
    BY <1>9 DEF used

\* What OptimizeTransfers returns is one of the plans its callers reckon with:
\* the callers' view of the loop stands for the loop.
THEOREM PlansArePromised == Spec => []PlanIsPromised
  <1>1. Inductive => PlanIsPromised
    <2> SUFFICES ASSUME Inductive, Done
                 PROVE  /\ \A m \in DOMAIN transfers :
                             /\ transfers[m].from \in Promised!Owing(bal)
                             /\ transfers[m].to \in Promised!Due(bal)
                        /\ [p \in Promised!Owing(bal) \X Promised!Due(bal) |-> Paid(p[1], p[2])]
                             \in Promised!Flows(bal)
      BY DEF PlanIsPromised
    <2> DEFINE owing == Promised!Owing(bal)
               due   == Promised!Due(bal)
               flow  == [p \in owing \X due |-> Paid(p[1], p[2])]
    <2>1. bal \in [Users -> Int]
      BY DEF Inductive, TypeOK
    <2>2. owing = Debtors(bal) /\ due = Creditors(bal)
      BY <2>1, WhoTakesPart DEF Promised!Owing, Promised!Due
    <2>3. owing \subseteq Users /\ due \subseteq Users
      BY DEF Promised!Owing, Promised!Due
    <2>4. ASSUME NEW u \in owing
          PROVE  /\ SumFunctionOnSet([v \in due |-> flow[<<u, v>>]], due) = Due[u] - bal[u]
                 /\ Due[u] \in Int /\ bal[u] \in Int /\ Due[u] <= 0
                 /\ \A v \in due : Paid(u, v) \in Nat /\ Paid(u, v) <= -bal[u]
      <3>1. [v \in due |-> flow[<<u, v>>]] = [v \in due |-> Paid(u, v)]
        OBVIOUS
      <3>2. /\ Given(u) = Due[u] - bal[u] /\ Due[u] <= 0 /\ Due[u] \in Int /\ bal[u] \in Int
        BY <2>2, <2>3, GivenAndTaken
      <3>3. /\ SumFunctionOnSet([v \in due |-> Paid(u, v)], due) = Given(u)
            /\ \A v \in due : Paid(u, v) \in Nat /\ Paid(u, v) <= Given(u)
        BY <2>2, <2>3, PaidAddsUp
      <3>4. \A v \in due : Paid(u, v) <= -bal[u]
        BY <3>2, <3>3
      <3>5. QED
        BY <3>1, <3>2, <3>3, <3>4
    <2>5. ASSUME NEW v \in due
          PROVE  /\ SumFunctionOnSet([u \in owing |-> flow[<<u, v>>]], owing) = bal[v] - Due[v]
                 /\ Due[v] \in Int /\ bal[v] \in Int /\ Due[v] >= 0
      <3>1. [u \in owing |-> flow[<<u, v>>]] = [u \in owing |-> Paid(u, v)]
        OBVIOUS
      <3>2. /\ Taken(v) = bal[v] - Due[v] /\ Due[v] >= 0 /\ Due[v] \in Int /\ bal[v] \in Int
        BY <2>2, <2>3, GivenAndTaken
      <3>3. SumFunctionOnSet([u \in owing |-> Paid(u, v)], owing) = Taken(v)
        BY <2>2, <2>3, PaidAddsUp
      <3>4. QED
        BY <3>1, <3>2, <3>3
    <2>6. flow \in [owing \X due -> 0 .. Promised!Most(bal)]
      <3> SUFFICES ASSUME NEW u \in owing, NEW v \in due
                   PROVE  Paid(u, v) \in 0 .. Promised!Most(bal)
        OBVIOUS
      <3>1. Promised!Most(bal) \in Nat /\ -bal[u] <= Promised!Most(bal)
        BY <2>1, MostIs
      <3>2. Paid(u, v) \in Nat /\ Paid(u, v) <= -bal[u] /\ bal[u] \in Int
        BY <2>4
      <3>3. QED
        BY <3>1, <3>2
    <2>7. \A u \in owing : SumFunctionOnSet([v \in due |-> flow[<<u, v>>]], due) <= -bal[u]
      <3> HIDE DEF owing, due, flow
      <3>1. ASSUME NEW u \in owing
            PROVE  Due[u] - bal[u] <= -bal[u]
        <4>1. Due[u] \in Int /\ bal[u] \in Int /\ Due[u] <= 0
          BY <2>4
        <4>2. QED
          BY <4>1
      <3>2. QED
        BY <2>4, <3>1
    <2>8. \A v \in due : SumFunctionOnSet([u \in owing |-> flow[<<u, v>>]], owing) <= bal[v]
      <3> HIDE DEF owing, due, flow
      <3>1. ASSUME NEW v \in due
            PROVE  bal[v] - Due[v] <= bal[v]
        <4>1. Due[v] \in Int /\ bal[v] \in Int /\ Due[v] >= 0
          BY <2>5
        <4>2. QED
          BY <4>1
      <3>2. QED
        BY <2>5, <3>1
    <2>9. \/ \A u \in owing : SumFunctionOnSet([v \in due |-> flow[<<u, v>>]], due) = -bal[u]
          \/ \A v \in due : SumFunctionOnSet([u \in owing |-> flow[<<u, v>>]], owing) = bal[v]
      <3>1. (\A u \in owing : Due[u] = 0) \/ (\A v \in due : Due[v] = 0)
        BY <2>2, OneSideIsDone DEF OneSideCleared
      <3> HIDE DEF owing, due, flow
      <3>2. ASSUME \A u \in owing : Due[u] = 0, NEW u \in owing
            PROVE  Due[u] - bal[u] = -bal[u]
        <4>1. Due[u] = 0 /\ bal[u] \in Int
          BY <2>4, <3>2
        <4>2. QED
          BY <4>1
      <3>3. ASSUME \A v \in due : Due[v] = 0, NEW v \in due
            PROVE  bal[v] - Due[v] = bal[v]
        <4>1. Due[v] = 0 /\ bal[v] \in Int
          BY <2>5, <3>3
        <4>2. QED
          BY <4>1
      <3>4. QED
        BY <2>4, <2>5, <3>1, <3>2, <3>3
    <2>10. LET used == {p \in DOMAIN flow : flow[p] > 0}
           IN  used # {} => Cardinality(used) < Cardinality(owing \cup due)
      <3>1. {p \in DOMAIN flow : flow[p] > 0}
              = {p \in Debtors(bal) \X Creditors(bal) : Paid(p[1], p[2]) > 0}
        BY <2>2
      <3>2. QED
        BY <2>2, <3>1, PayingPairs
    <2>11. IsFlow(flow, bal)
      <3> HIDE DEF flow
      <3>1. QED
        BY <2>6, <2>7, <2>8, <2>9, <2>10 DEF IsFlow
    <2>12. \A m \in DOMAIN transfers : transfers[m].from \in owing /\ transfers[m].to \in due
      BY <2>2, TransferSides
    <2>13. flow \in Promised!Flows(bal)
      <3> HIDE DEF flow
      <3>1. QED
        BY <2>11, FlowsAre
    <2>14. QED
      BY <2>12, <2>13
  <1>2. QED
    BY <1>1, InductiveHolds, PTL
=============================================================================
