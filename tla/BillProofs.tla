----------------------------- MODULE BillProofs -----------------------------
(***************************************************************************)
(* Bills, divided and added up: what CalculateShares returns, for every     *)
(* bill and any number of participants, and what the statistics and the     *)
(* balances of a group come to, for any number of expenses.                 *)
(*                                                                         *)
(* Equally and by ratio: every rounded part is off by half a cent at most,  *)
(* so the part of the last participant, who absorbs what is left, is off by *)
(* half a cent for each of the others and half a cent for its own rounding. *)
(*                                                                         *)
(* By share: the checks keep the products within an int64.  The parts are   *)
(* rounded, so that at most half a cent for each is left to hand out, or    *)
(* was too much: one round of either loop settles it.  The order of both    *)
(* loops is an order of all participants, and in such an order just e of    *)
(* them have fewer than e before them.                                      *)
(*                                                                         *)
(* A group: as long as nothing is committed, what has been read is what the *)
(* same statement would return now, so the figures of an answer are sums    *)
(* over one set of expenses: by payer, by participant, by category and by   *)
(* expense they come to the same.                                          *)
(***************************************************************************)
EXTENDS SplitCalc, GroupReads, SumTheorems, FiniteSetTheorems, TLAPS

-----------------------------------------------------------------------------
(* Division and rounding *)

\* What the quotient of a division is, and that there is one only.
LEMMA Quotient ==
  ASSUME NEW n \in Int, NEW d \in Nat \ {0}
  PROVE  /\ n \div d \in Int
         /\ d * (n \div d) <= n /\ n < d * (n \div d) + d
  BY SMT

LEMMA WholeQuotient ==
  ASSUME NEW n \in Int, NEW d \in Nat \ {0}
  PROVE  /\ n % d = 0 => n = d * (n \div d)
         /\ (d * n) % d = 0
  <1>1. n = d * (n \div d) + (n % d) /\ n % d \in Int
    BY SMT
  <1>2. d * (n \div d) \in Int
    BY SMT
  <1>3. (d * n) % d = 0
    BY SMT
  <1>4. QED
    BY <1>1, <1>2, <1>3

LEMMA Products ==
  ASSUME NEW d \in Nat \ {0}, NEW a \in Int, NEW b \in Int
  PROVE  /\ d * a \in Int /\ d * b \in Int
         /\ d * a < d * b + d => a <= b
         /\ d * (a - b) = d * a - d * b /\ d * (a + b) = d * a + d * b
  <1>1. d * a \in Int /\ d * b \in Int
    BY SMT
  <1>2. d * (a - b) = d * a - d * b /\ d * (a + b) = d * a + d * b
    BY SMT
  <1>3. ASSUME d * a < d * b + d, ~(a <= b)
        PROVE  FALSE
    <2>1. a - b - 1 \in Nat
      BY <1>3
    <2>2. d * (a - b - 1) >= 0
      BY <2>1, SMT
    <2>3. d * (a - b - 1) = d * a - d * b - d
      BY SMT
    <2>4. QED
      BY <1>1, <1>3, <2>2, <2>3
  <1>4. QED
    BY <1>1, <1>2, <1>3

LEMMA Distribute ==
  ASSUME NEW k \in Int, NEW a \in Int, NEW b \in Int, NEW c, c = a + b
  PROVE  k * c = k * a + k * b /\ k * a \in Int /\ k * b \in Int
  BY SMT

LEMMA OneQuotient ==
  ASSUME NEW n \in Int, NEW d \in Nat \ {0}, NEW q \in Int, d * q <= n, n < d * q + d
  PROVE  n \div d = q
  <1> DEFINE p == n \div d
  <1>1. p \in Int /\ d * p <= n /\ n < d * p + d
    BY Quotient
  <1> HIDE DEF p
  <1>2. d * p < d * q + d => p <= q
    BY <1>1, Products
  <1>3. d * q < d * p + d => q <= p
    BY <1>1, Products
  <1>4. d * p \in Int /\ d * q \in Int
    BY <1>1, Products
  <1>5. p = q
    BY <1>1, <1>2, <1>3, <1>4
  <1>6. QED
    BY <1>5 DEF p

\* round2 is off by half a unit at most; below that it is too high.
LEMMA RoundIs ==
  ASSUME NEW x \in Int, NEW d \in Nat \ {0}
  PROVE  /\ round2(x, d) \in Int
         /\ 2 * x + d >= 0 =>
              /\ 2 * (d * round2(x, d)) <= 2 * x + d
              /\ 2 * x + d < 2 * (d * round2(x, d)) + 2 * d
         /\ 2 * x + d < 0 =>
              /\ 2 * (d * round2(x, d)) >= 2 * x + d
              /\ 2 * (d * round2(x, d)) < 2 * x + d + 2 * d
              /\ round2(x, d) <= 0
         /\ x >= 0 => round2(x, d) >= 0
  <1> DEFINE n == 2 * x + d
             e == 2 * d
  <1>1. n \in Int /\ e \in Nat \ {0} /\ -n \in Int
    OBVIOUS
  <1>2. /\ n >= 0 => round2(x, d) = n \div e
        /\ n < 0 => round2(x, d) = -((-n) \div e)
    BY DEF round2
  <1>3. \A q \in Int : e * q = 2 * (d * q) /\ d * (-q) = -(d * q)
    BY SMT
  <1>4. CASE n >= 0
    <2>1. PICK q \in Int : q = n \div e /\ e * q <= n /\ n < e * q + e
      <3> HIDE DEF n, e
      <3>1. QED
        BY <1>1, Quotient
    <2>2. e * q = 2 * (d * q)
      BY <1>3
    <2>3. x >= 0 => q >= 0
      <3>1. SUFFICES ASSUME x >= 0, q < 0
                     PROVE  FALSE
        OBVIOUS
      <3>2. e * q < e * (-1) + e => q <= -1
        OBVIOUS
      <3>3. e * q <= -e
        <4>1. -q - 1 \in Nat
          BY <3>1
        <4>2. e * (-q - 1) >= 0
          BY <1>1, <4>1, SMT
        <4>3. e * (-q - 1) = -(e * q) - e
          BY SMT
        <4>4. QED
          BY <2>2, <4>2, <4>3
      <3>4. QED
        BY <1>1, <2>1, <3>1, <3>3
    <2>4. QED
      BY <1>2, <1>4, <2>1, <2>2, <2>3
  <1>5. CASE n < 0
    <2>1. PICK q \in Int : q = (-n) \div e /\ e * q <= -n /\ -n < e * q + e
      <3> HIDE DEF n, e
      <3>1. QED
        BY <1>1, Quotient
    <2>2. e * q = 2 * (d * q) /\ d * (-q) = -(d * q) /\ d * q \in Int
      BY <1>3, SMT
    <2>3. q >= 0
      <3>1. SUFFICES ASSUME q < 0
                     PROVE  FALSE
        OBVIOUS
      <3>2. -q - 1 \in Nat
        BY <3>1
      <3>3. e * (-q - 1) >= 0 /\ e * (-q - 1) = -(e * q) - e
        BY <1>1, <3>2, SMT
      <3>4. QED
        BY <1>1, <1>5, <2>1, <2>2, <3>3
    <2>4. round2(x, d) = -q
      BY <1>2, <1>5, <2>1
    <2>5. QED
      BY <1>5, <2>1, <2>2, <2>3, <2>4
  <1>6. QED
    BY <1>1, <1>4, <1>5

\* Rounding what is left of x after s whole units: together they are x rounded,
\* or one more, and then there was nothing left.
LEMMA RoundRest ==
  ASSUME NEW x \in Nat, NEW g \in Nat \ {0}, NEW s \in Int,
         NEW r, r = round2(x - g * s, g), NEW t, t = round2(x, g)
  PROVE  /\ r \in Int /\ t \in Int
         /\ r + s = t \/ (r + s = t + 1 /\ r <= 0)
  <1> DEFINE y == x - g * s
             q == r + s
  <1>1. g * s \in Int /\ y \in Int
    BY SMT
  <1>2. /\ r \in Int
        /\ 2 * y + g >= 0 => 2 * (g * r) <= 2 * y + g /\ 2 * y + g < 2 * (g * r) + 2 * g
        /\ 2 * y + g < 0 =>
             2 * (g * r) >= 2 * y + g /\ 2 * (g * r) < 2 * y + g + 2 * g /\ r <= 0
    <2> HIDE DEF y
    <2>1. r = round2(y, g)
      BY DEF y
    <2>2. QED
      BY <1>1, <2>1, RoundIs
  <1>3. t \in Int /\ 2 * (g * t) <= 2 * x + g /\ 2 * x + g < 2 * (g * t) + 2 * g
    <2>1. 2 * x + g >= 0
      OBVIOUS
    <2>2. QED
      BY <2>1, RoundIs
  <1>4. q \in Int /\ g * q = g * r + g * s /\ g * q \in Int /\ g * r \in Int /\ g * t \in Int
    BY <1>2, <1>3, SMT
  <1> HIDE DEF q
  <1>5. /\ g * t < g * q + g => t <= q
        /\ g * q < g * t + g => q <= t
    BY <1>3, <1>4, Products
  <1>6. t + 1 \in Int /\ g * (t + 1) = g * t + g
    BY <1>3, SMT
  <1>7. g * q < g * t + 2 * g => q <= t + 1
    <2> DEFINE u == t + 1
    <2>1. u \in Int /\ g * u = g * t + g /\ g * u \in Int
      BY <1>4, <1>6
    <2> HIDE DEF u
    <2>2. g * q < g * u + g => q <= u
      BY <1>4, <2>1, Products
    <2>3. g * q < g * t + 2 * g => g * q < g * u + g
      BY <1>4, <2>1
    <2>4. QED
      BY <2>2, <2>3 DEF u
  <1>8. CASE 2 * y + g >= 0
    <2>1. q = t
      BY <1>1, <1>2, <1>3, <1>4, <1>5, <1>8
    <2>2. QED
      BY <1>2, <1>3, <2>1 DEF q
  <1>9. CASE 2 * y + g < 0
    <2>1. r <= 0 /\ t <= q
      BY <1>1, <1>2, <1>3, <1>4, <1>5, <1>9
    <2>2. g * q < g * t + 2 * g
      BY <1>1, <1>2, <1>3, <1>4, <1>9
    <2>3. q = t \/ q = t + 1
      <3>1. q \in Int /\ t \in Int /\ t <= q /\ q <= t + 1
        BY <1>3, <1>4, <1>7, <2>1, <2>2
      <3>2. QED
        BY <3>1
    <2>4. QED
      BY <1>2, <1>3, <2>1, <2>3 DEF q
  <1>10. QED
    BY <1>1, <1>8, <1>9

\* Parts that are each within half a unit of the exact one are together within
\* half a unit for each.
LEMMA ErrorsAddUp ==
  ASSUME NEW I, IsFiniteSet(I), NEW d \in Nat, NEW t \in Int, NEW c, NEW p,
         \A k \in I : c[k] \in Int /\ p[k] \in Int,
         \A k \in I : /\ 2 * (d * c[k]) - 2 * (t * p[k]) <= d
                      /\ 2 * (t * p[k]) - 2 * (d * c[k]) <= d
  PROVE  /\ SumFunctionOnSet(c, I) \in Int /\ SumFunctionOnSet(p, I) \in Int
         /\ 2 * (d * SumFunctionOnSet(c, I)) - 2 * (t * SumFunctionOnSet(p, I))
              <= d * Cardinality(I)
         /\ 2 * (t * SumFunctionOnSet(p, I)) - 2 * (d * SumFunctionOnSet(c, I))
              <= d * Cardinality(I)
  <1> DEFINE a    == [k \in I |-> (2 * d) * c[k]]
             b    == [k \in I |-> (-2 * t) * p[k]]
             e    == [k \in I |-> a[k] + b[k]]
             up   == [k \in I |-> d]
             down == [k \in I |-> -d]
             sum(f) == SumFunctionOnSet(f, I)
  <1>1. \A k \in I : /\ a[k] = (2 * d) * c[k] /\ b[k] = (-2 * t) * p[k]
                     /\ e[k] = a[k] + b[k] /\ up[k] = d /\ down[k] = -d
    OBVIOUS
  <1>2. /\ 2 * d \in Int /\ -2 * t \in Int /\ d \in Int /\ -d \in Int
        /\ \A x \in Int : /\ (2 * d) * x = 2 * (d * x) /\ (2 * d) * x \in Int
                          /\ (-2 * t) * x = -(2 * (t * x)) /\ (-2 * t) * x \in Int
                          /\ d * x \in Int /\ t * x \in Int /\ (-d) * x = -(d * x)
    BY SMT
  <1>3. \A k \in I : /\ a[k] \in Int /\ b[k] \in Int /\ e[k] \in Int
                     /\ up[k] \in Int /\ down[k] \in Int
                     /\ e[k] <= up[k] /\ down[k] <= e[k]
    <2> SUFFICES ASSUME NEW k \in I
                 PROVE  /\ a[k] \in Int /\ b[k] \in Int /\ e[k] \in Int
                        /\ up[k] \in Int /\ down[k] \in Int
                        /\ e[k] <= up[k] /\ down[k] <= e[k]
      OBVIOUS
    <2>1. /\ a[k] = 2 * (d * c[k]) /\ b[k] = -(2 * (t * p[k])) /\ e[k] = a[k] + b[k]
          /\ up[k] = d /\ down[k] = -d /\ d * c[k] \in Int /\ t * p[k] \in Int
      BY <1>1, <1>2
    <2> HIDE DEF a, b, e, up, down
    <2>2. /\ 2 * (d * c[k]) - 2 * (t * p[k]) <= d
          /\ 2 * (t * p[k]) - 2 * (d * c[k]) <= d
      OBVIOUS
    <2>3. QED
      BY <1>2, <2>1, <2>2
  <1> HIDE DEF a, b, e, up, down
  <1>4. sum(a) = (2 * d) * sum(c)
    BY <1>1, <1>2, SumTimes
  <1>5. sum(b) = (-2 * t) * sum(p)
    BY <1>1, <1>2, SumTimes
  <1>6. sum(e) = sum(a) + sum(b)
    BY <1>1, <1>3, SumPlus
  <1>7. sum(up) = d * Cardinality(I) /\ sum(down) = (-d) * Cardinality(I)
    BY <1>1, <1>2, SumConstant
  <1>8. sum(e) <= sum(up) /\ sum(down) <= sum(e)
    BY <1>3, SumMonotone
  <1>9. sum(c) \in Int /\ sum(p) \in Int
    BY SumInt
  <1>10. Cardinality(I) \in Int
    BY FS_CardinalityType
  <1> HIDE DEF sum
  <1>11. /\ sum(a) = 2 * (d * sum(c)) /\ sum(b) = -(2 * (t * sum(p)))
         /\ d * sum(c) \in Int /\ t * sum(p) \in Int
         /\ sum(down) = -(d * Cardinality(I)) /\ d * Cardinality(I) \in Int
    BY <1>2, <1>4, <1>5, <1>7, <1>9, <1>10
  <1>12. /\ 2 * (d * sum(c)) - 2 * (t * sum(p)) <= d * Cardinality(I)
         /\ 2 * (t * sum(p)) - 2 * (d * sum(c)) <= d * Cardinality(I)
    BY <1>6, <1>7, <1>8, <1>11
  <1>13. QED
    BY <1>9, <1>12 DEF sum

-----------------------------------------------------------------------------
(* Equal parts and ratios: the last participant absorbs what is left *)

\* A list without its last member.
LEMMA LastOfList ==
  ASSUME NEW n \in Nat \ {0}
  PROVE  /\ IsFiniteSet(1 .. n) /\ IsFiniteSet(1 .. n - 1)
         /\ Cardinality(1 .. n - 1) = n - 1
         /\ n \in 1 .. n /\ (1 .. n) \ {n} = 1 .. n - 1
         /\ n \notin 1 .. n - 1 /\ 1 .. n - 1 \subseteq 1 .. n
  <1> DEFINE m == n - 1
  <1>1. m \in Nat
    OBVIOUS
  <1>2. IsFiniteSet(1 .. n)
    BY FirstNumbers
  <1>3. IsFiniteSet(1 .. m) /\ Cardinality(1 .. m) = m
    <2> HIDE DEF m
    <2>1. QED
      BY <1>1, FirstNumbers
  <1>4. QED
    BY <1>2, <1>3

\* n participants, p[k] parts for each, and all of them rounded but the last.
Divided(o, n, total, p) ==
  /\ n \in Nat \ {0} /\ total \in Nat
  /\ \A k \in 1 .. n : p[k] \in Nat
  /\ SumTo(p, n) \in Nat \ {0}
  /\ \A k \in 1 .. n - 1 : o[k] = round2(total * p[k], Grain * SumTo(p, n))
  /\ o[n] = round2(total - Grain * SumTo(o, n - 1), Grain)

\* Then the parts add up, except for a cent too much when the last participant
\* gets one; every rounded part is within half a cent.
LEMMA DividedAddsUp ==
  ASSUME NEW o, NEW n, NEW total, NEW p, Divided(o, n, total, p)
  PROVE  /\ \A k \in 1 .. n : o[k] \in Int
         /\ SumTo(o, n) = SumTo(o, n - 1) + o[n]
         /\ \/ SumTo(o, n) = round2(total, Grain)
            \/ SumTo(o, n) = round2(total, Grain) + 1 /\ o[n] <= 0
         /\ \A k \in 1 .. n - 1 :
              /\ 2 * (Grain * SumTo(p, n) * o[k]) - 2 * (total * p[k]) <= Grain * SumTo(p, n)
              /\ 2 * (total * p[k]) - 2 * (Grain * SumTo(p, n) * o[k]) <= Grain * SumTo(p, n)
  <1> DEFINE A == SumTo(p, n)
             D == Grain * A
             I == 1 .. n - 1
             s == SumTo(o, n - 1)
             t == round2(total, Grain)
  <1>1. /\ n \in Nat \ {0} /\ total \in Nat /\ \A k \in 1 .. n : p[k] \in Nat
        /\ A \in Nat \ {0} /\ Grain \in Nat \ {0}
        /\ \A k \in I : o[k] = round2(total * p[k], D)
        /\ o[n] = round2(total - Grain * s, Grain)
    BY GrainAssumption DEF Divided
  <1>2. /\ IsFiniteSet(1 .. n) /\ IsFiniteSet(I) /\ n \in 1 .. n /\ (1 .. n) \ {n} = I
        /\ n \notin I /\ I \subseteq 1 .. n
    BY <1>1, LastOfList
  <1>3. D \in Nat \ {0}
    <2> HIDE DEF A
    <2>1. QED
      BY <1>1, SMT
  <1> HIDE DEF A, I
  <1>4. ASSUME NEW k \in I
        PROVE  /\ o[k] \in Int
               /\ 2 * (D * o[k]) - 2 * (total * p[k]) <= D
               /\ 2 * (total * p[k]) - 2 * (D * o[k]) <= D
    <2> DEFINE x == total * p[k]
    <2>1. p[k] \in Nat
      BY <1>1, <1>2
    <2>2. x \in Nat
      BY <1>1, <2>1, SMT
    <2> HIDE DEF x, D
    <2>3. o[k] = round2(x, D)
      BY <1>1 DEF x
    <2>4. 2 * x + D >= 0
      BY <1>3, <2>2
    <2>5. o[k] \in Int /\ 2 * (D * o[k]) <= 2 * x + D /\ 2 * x + D < 2 * (D * o[k]) + 2 * D
      BY <1>3, <2>2, <2>3, <2>4, RoundIs
    <2>6. D * o[k] \in Int
      BY <1>3, <2>5, SMT
    <2>7. 2 * (D * o[k]) - 2 * x <= D /\ 2 * x - 2 * (D * o[k]) <= D
      BY <1>3, <2>2, <2>5, <2>6
    <2>8. QED
      BY <2>5, <2>7 DEF x
  <1>5. s = SumFunctionOnSet(o, I) /\ s \in Int
    <2>1. s = SumFunctionOnSet(o, I)
      BY DEF SumTo, I
    <2> HIDE DEF s
    <2>2. QED
      BY <1>2, <1>4, <2>1, SumInt
  <1> HIDE DEF s, t, D
  <1>6. /\ o[n] \in Int /\ t \in Int
        /\ o[n] + s = t \/ (o[n] + s = t + 1 /\ o[n] <= 0)
    BY <1>1, <1>5, RoundRest DEF t
  <1>7. \A k \in 1 .. n : o[k] \in Int
    BY <1>2, <1>4, <1>6
  <1>8. SumTo(o, n) = s + o[n]
    <2> DEFINE S == 1 .. n
    <2>1. IsFiniteSet(S) /\ n \in S /\ S \ {n} = I /\ \A k \in S : o[k] \in Int
      BY <1>2, <1>7
    <2> HIDE DEF S
    <2>2. SumFunctionOnSet(o, S) = o[n] + SumFunctionOnSet(o, S \ {n})
      BY <2>1, SumRemove
    <2>3. SumFunctionOnSet(o, S \ {n}) = SumFunctionOnSet(o, I)
      BY <2>1
    <2>4. SumFunctionOnSet(o, S) = s + o[n]
      BY <1>5, <1>6, <2>2, <2>3
    <2>5. QED
      BY <2>4 DEF SumTo, S
  <1>9. \/ SumTo(o, n) = t
        \/ SumTo(o, n) = t + 1 /\ o[n] <= 0
    BY <1>5, <1>6, <1>8
  <1>10. QED
    BY <1>4, <1>7, <1>8, <1>9 DEF s, t, D, A, I

\* Every part but the last is within half a cent, the last within half a cent
\* for each participant.
LEMMA DividedIsClose ==
  ASSUME NEW o, NEW n, NEW total, NEW p, Divided(o, n, total, p)
  PROVE  \A k \in 1 .. n :
           LET off  == 2 * (o[k] * Grain * SumTo(p, n) - total * p[k])
               room == (IF k < n THEN 1 ELSE n) * Grain * SumTo(p, n)
           IN  off <= room /\ -off <= room
  <1> DEFINE A == SumTo(p, n)
             D == Grain * A
             I == 1 .. n - 1
             s == SumTo(o, n - 1)
             q == SumTo(p, n - 1)
             x == total * p[n]
             y == total - Grain * s
             r == o[n]
  <1>1. /\ n \in Nat \ {0} /\ total \in Nat /\ \A k \in 1 .. n : p[k] \in Nat
        /\ A \in Nat \ {0} /\ Grain \in Nat \ {0}
        /\ o[n] = round2(y, Grain)
    BY GrainAssumption DEF Divided
  <1>2. /\ IsFiniteSet(1 .. n) /\ IsFiniteSet(I) /\ n \in 1 .. n /\ (1 .. n) \ {n} = I
        /\ n \notin I /\ I \subseteq 1 .. n /\ Cardinality(I) = n - 1
    BY <1>1, LastOfList
  <1>3. /\ \A k \in 1 .. n : o[k] \in Int
        /\ \A k \in I : /\ 2 * (D * o[k]) - 2 * (total * p[k]) <= D
                        /\ 2 * (total * p[k]) - 2 * (D * o[k]) <= D
    BY DividedAddsUp
  <1>4. D \in Nat \ {0} /\ x \in Nat /\ p[n] \in Nat
    <2>1. p[n] \in Nat
      BY <1>1, <1>2
    <2> HIDE DEF A
    <2>2. QED
      BY <1>1, <2>1, SMT
  <1>5. /\ s \in Int /\ q \in Int
        /\ 2 * (D * s) - 2 * (total * q) <= D * (n - 1)
        /\ 2 * (total * q) - 2 * (D * s) <= D * (n - 1)
    <2>1. \A k \in I : o[k] \in Int /\ p[k] \in Int
      BY <1>1, <1>2, <1>3
    <2> DEFINE so == SumFunctionOnSet(o, I)
               sp == SumFunctionOnSet(p, I)
    <2>2. D \in Nat /\ total \in Int
      BY <1>1, <1>4
    <2> HIDE DEF I, D
    <2>3. /\ so \in Int /\ sp \in Int
          /\ 2 * (D * so) - 2 * (total * sp) <= D * Cardinality(I)
          /\ 2 * (total * sp) - 2 * (D * so) <= D * Cardinality(I)
      BY <1>2, <1>3, <2>1, <2>2, ErrorsAddUp
    <2>4. s = so /\ q = sp
      BY DEF SumTo, I
    <2> HIDE DEF so, sp
    <2>5. QED
      BY <1>2, <2>3, <2>4
  <1>6. A = q + p[n]
    <2> DEFINE S == 1 .. n
    <2>1. IsFiniteSet(S) /\ n \in S /\ S \ {n} = I /\ \A k \in S : p[k] \in Int
      BY <1>1, <1>2
    <2>2. A = SumFunctionOnSet(p, S) /\ q = SumFunctionOnSet(p, I)
      BY DEF SumTo
    <2> HIDE DEF S, I, A, q
    <2>3. SumFunctionOnSet(p, S) = p[n] + SumFunctionOnSet(p, S \ {n})
      BY <2>1, SumRemove
    <2>4. SumFunctionOnSet(p, S \ {n}) = SumFunctionOnSet(p, I)
      BY <2>1
    <2>5. QED
      BY <1>4, <1>5, <2>2, <2>3, <2>4
  <1>7. r \in Int
    BY <1>2, <1>3
  <1> HIDE DEF A, s, q, r
  <1>8. y \in Int /\ Grain * s \in Int
    BY <1>1, <1>5, SMT
  <1>9. /\ 2 * y + Grain >= 0 =>
             /\ 2 * (Grain * r) <= 2 * y + Grain
             /\ 2 * y + Grain < 2 * (Grain * r) + 2 * Grain
        /\ 2 * y + Grain < 0 =>
             /\ 2 * (Grain * r) >= 2 * y + Grain
             /\ 2 * (Grain * r) < 2 * y + Grain + 2 * Grain
             /\ r <= 0
    <2>1. r = round2(y, Grain)
      BY <1>1 DEF r
    <2> HIDE DEF y
    <2>2. QED
      BY <1>1, <1>8, <2>1, RoundIs
  \* In units of 1 / (Grain * A) of a cent.
  <1>10. /\ A * (Grain * r) = D * r /\ A * Grain = D /\ D * r \in Int
         /\ A * y = total * q + x - D * s
         /\ total * q \in Int /\ D * s \in Int
    <2>1. A * (Grain * r) = D * r /\ A * Grain = D /\ D * r \in Int
      BY <1>1, <1>7, SMT
    <2>2. total * A = total * q + x /\ total * q \in Int
      <3>1. total \in Int /\ q \in Int /\ p[n] \in Int
        BY <1>1, <1>4, <1>5
      <3>2. QED
        BY <1>6, <3>1, Distribute
    <2>3. A * (total - Grain * s) = A * total - A * (Grain * s)
      BY <1>1, <1>5, SMT
    <2>4. A * total = total * A /\ A * (Grain * s) = D * s /\ D * s \in Int
      BY <1>1, <1>5, SMT
    <2>5. A * y = total * q + x - D * s
      <3> DEFINE at == A * total
                 ag == A * (Grain * s)
                 tq == total * q
                 ds == D * s
      <3>1. A * y = at - ag /\ at = tq + x /\ ag = ds
        BY <2>2, <2>3, <2>4
      <3>2. tq \in Int /\ x \in Int /\ ds \in Int
        BY <1>4, <2>2, <2>4
      <3> HIDE DEF at, ag, tq, ds, x, y
      <3>3. A * y = tq + x - ds
        BY <3>1, <3>2
      <3>4. QED
        BY <3>3 DEF tq, ds
    <2>6. QED
      BY <2>1, <2>2, <2>4, <2>5
  <1>11. \A u, v \in Int : u <= v => A * u <= A * v
    <2> SUFFICES ASSUME NEW u \in Int, NEW v \in Int, u <= v
                 PROVE  A * u <= A * v
      OBVIOUS
    <2>1. A * (v - u) >= 0 /\ A * (v - u) = A * v - A * u /\ A * u \in Int /\ A * v \in Int
      BY <1>1, SMT
    <2>2. QED
      BY <2>1
  <1>12. D * (n - 1) = D * n - D /\ D * n \in Int /\ D * n >= D
    <2>1. D * (n - 1) = D * n - D /\ D * n \in Int /\ D * (n - 1) >= 0
      BY <1>1, <1>4, SMT
    <2>2. QED
      BY <1>4, <2>1
  <1> HIDE DEF D, x, y
  <1>13. 2 * (D * r) - 2 * x <= D * n /\ 2 * x - 2 * (D * r) <= D * n
    <2> DEFINE u == 2 * (Grain * r)
               v == 2 * y + Grain
               w == 2 * y - Grain
    <2>1. u \in Int /\ v \in Int /\ w \in Int
      BY <1>1, <1>7, <1>8, SMT
    <2>2. /\ A * u = 2 * (D * r)
          /\ A * v = 2 * (total * q + x - D * s) + D
          /\ A * w = 2 * (total * q + x - D * s) - D
      <3>1. Grain * r \in Int
        BY <1>1, <1>7, SMT
      <3>2. /\ A * u = 2 * (A * (Grain * r))
            /\ A * v = 2 * (A * y) + A * Grain
            /\ A * w = 2 * (A * y) - A * Grain
        BY <1>1, <1>8, <3>1, SMT
      <3>3. QED
        BY <1>10, <3>2
    <2>3. CASE v >= 0
      <3>1. u <= v /\ w <= u
        <4>1. Grain * r \in Int
          BY <1>1, <1>7, SMT
        <4>2. QED
          BY <1>1, <1>8, <1>9, <2>3, <4>1
      <3>2. A * u <= A * v /\ A * w <= A * u
        BY <1>11, <2>1, <3>1
      <3>3. QED
        BY <1>4, <1>5, <1>10, <1>12, <2>2, <3>2
    <2>4. CASE v < 0
      <3>1. u >= v /\ r <= 0
        BY <1>9, <2>4
      <3>2. A * v <= A * u
        BY <1>11, <2>1, <3>1
      <3>3. D * r <= 0
        <4>1. D * (-r) >= 0 /\ D * (-r) = -(D * r)
          BY <1>4, <1>7, <3>1, SMT
        <4>2. QED
          BY <1>10, <4>1
      <3>4. QED
        BY <1>4, <1>5, <1>10, <1>12, <2>2, <3>2, <3>3
    <2>5. QED
      BY <2>1, <2>3, <2>4
  <1>14. \A k \in 1 .. n : /\ o[k] * Grain * SumTo(p, n) = D * o[k]
                           /\ total * p[k] \in Int /\ D * o[k] \in Int
    <2> SUFFICES ASSUME NEW k \in 1 .. n
                 PROVE  /\ o[k] * Grain * A = D * o[k]
                        /\ total * p[k] \in Int /\ D * o[k] \in Int
      BY DEF A
    <2>1. o[k] \in Int /\ p[k] \in Nat
      BY <1>1, <1>3
    <2>2. QED
      BY <1>1, <2>1, SMT DEF D
  <1>15. ASSUME NEW k \in 1 .. n
         PROVE  LET off  == 2 * (D * o[k] - total * p[k])
                    room == (IF k < n THEN 1 ELSE n) * D
                IN  off <= room /\ -off <= room
    <2>1. D * o[k] \in Int /\ total * p[k] \in Int
      BY <1>14
    <2>2. CASE k \in I
      <3>1. k < n
        BY <1>1, <2>2
      <3>2. /\ 2 * (D * o[k]) - 2 * (total * p[k]) <= D
            /\ 2 * (total * p[k]) - 2 * (D * o[k]) <= D
        BY <1>3, <2>2 DEF D
      <3>3. 1 * D = D
        BY <1>4
      <3>4. QED
        BY <1>4, <2>1, <3>1, <3>2, <3>3
    <2>3. CASE k = n
      <3>1. n * D = D * n
        BY <1>1, <1>4, SMT
      <3>2. 2 * (D * o[k]) - 2 * (total * p[k]) <= n * D /\ 2 * (total * p[k]) - 2 * (D * o[k]) <= n * D
        BY <1>13, <2>3, <3>1 DEF r, x
      <3>3. ~(k < n)
        BY <1>1, <2>3
      <3>4. n * D \in Int
        BY <1>12, <3>1
      <3>5. QED
        BY <2>1, <3>2, <3>3, <3>4
    <2>4. QED
      BY <1>2, <2>2, <2>3
  <1>16. \A m \in Nat : m * Grain * SumTo(p, n) = m * D
    BY <1>1, SMT DEF A, D
  <1>17. QED
    BY <1>1, <1>14, <1>15, <1>16

\* The arguments of a call that is not refused at once.
Proper(c) == c \in Calls /\ c.total > 0 /\ c.people # <<>>

LEMMA ProperCall ==
  ASSUME NEW c, Proper(c)
  PROVE  /\ c.kind \in Kinds /\ c.total \in Nat \ {0}
         /\ Len(c.people) \in Nat \ {0} /\ People(c) = 1 .. Len(c.people)
         /\ \A k \in People(c) : /\ c.people[k].ratio \in Int /\ c.people[k].amount \in Int
                                 /\ c.people[k].share \in Int
  <1>1. c.kind \in Kinds /\ c.total \in Nat \ {0} /\ c.people \in Seq(Participant)
    BY CallsAssumption DEF Proper
  <1>2. Len(c.people) \in Nat /\ People(c) = 1 .. Len(c.people)
    BY <1>1 DEF People
  <1>3. Len(c.people) # 0
    BY <1>1 DEF Proper
  <1>4. ASSUME NEW k \in People(c)
        PROVE  /\ c.people[k].ratio \in Int /\ c.people[k].amount \in Int
               /\ c.people[k].share \in Int
    <2>1. c.people[k] \in Participant
      BY <1>1, <1>2
    <2>2. MaxInt \in Int
      BY MaxIntAssumption
    <2>3. QED
      BY <2>1, <2>2 DEF Participant
  <1>5. QED
    BY <1>1, <1>2, <1>3, <1>4

LEMMA ListOf ==
  ASSUME NEW T, NEW n \in Nat, NEW o \in [1 .. n -> T]
  PROVE  o \in Seq(T) /\ Len(o) = n
  OBVIOUS

LEMMA ByKind ==
  ASSUME NEW c, Proper(c)
  PROVE  /\ c.kind = "equal" => CalculateShares(c) = ByEqual(c)
         /\ c.kind = "ratio" => CalculateShares(c) = ByRatio(c)
         /\ c.kind = "amount" => CalculateShares(c) = ByAmount(c)
         /\ c.kind = "share" => CalculateShares(c) = ByShare(c)
  <1>1. ~(c.total <= 0) /\ c.people # <<>>
    BY ProperCall DEF Proper
  <1>2. QED
    BY <1>1 DEF CalculateShares

LEMMA LastReplaced ==
  ASSUME NEW S, NEW x \in S, NEW f, NEW g, g = [k \in S |-> f[k]], NEW v,
         NEW o, o = [g EXCEPT ![x] = v]
  PROVE  /\ o = [k \in S |-> o[k]]
         /\ \A k \in S : k # x => o[k] = f[k]
         /\ o[x] = v
  OBVIOUS

\* What everybody would owe for p parts, rounded.
PartsOf(c, p) ==
  [k \in People(c) |-> round2(c.total * p[k], Grain * SumTo(p, Len(c.people)))]

\* Rounded parts of which the last absorbs what is left are such a division.
LEMMA AbsorbingDivides ==
  ASSUME NEW c, Proper(c), NEW p, NEW cents, cents = PartsOf(c, p),
         \A k \in People(c) : p[k] \in Nat,
         SumTo(p, Len(c.people)) \in Nat \ {0}
  PROVE  /\ Divided(LastAbsorbs(c, cents), Len(c.people), c.total, p)
         /\ LastAbsorbs(c, cents) \in Seq(Int)
         /\ Len(LastAbsorbs(c, cents)) = Len(c.people)
  <1> DEFINE n == Len(c.people)
             o == LastAbsorbs(c, cents)
             I == 1 .. n - 1
             rest == round2(c.total - Grain * SumTo(cents, n - 1), Grain)
  <1>1. n \in Nat \ {0} /\ People(c) = 1 .. n /\ c.total \in Nat
    BY ProperCall
  <1>2. n \in 1 .. n /\ IsFiniteSet(I) /\ \A k \in I : k \in 1 .. n /\ k # n
    BY <1>1, LastOfList
  <1>3. \A k \in 1 .. n : cents[k] = round2(c.total * p[k], Grain * SumTo(p, n))
    BY <1>1 DEF PartsOf
  <1>4. cents = [k \in 1 .. n |-> cents[k]]
    <2>1. PartsOf(c, p) = [k \in People(c) |-> PartsOf(c, p)[k]]
      BY DEF PartsOf
    <2>2. cents = [k \in People(c) |-> cents[k]]
      BY <2>1
    <2>3. QED
      BY <1>1, <2>2
  <1>5. o = [cents EXCEPT ![n] = rest]
    BY DEF LastAbsorbs
  <1> HIDE DEF o, n, rest
  <1>6. /\ o = [k \in 1 .. n |-> o[k]]
        /\ \A k \in 1 .. n : k # n => o[k] = cents[k]
        /\ o[n] = rest
    <2> DEFINE S == 1 .. n
    <2>1. n \in S /\ cents = [k \in S |-> cents[k]]
      BY <1>2, <1>4
    <2> HIDE DEF S
    <2>2. /\ o = [k \in S |-> o[k]]
          /\ \A k \in S : k # n => o[k] = cents[k]
          /\ o[n] = rest
      BY <1>5, <2>1, LastReplaced
    <2>3. QED
      BY <2>2 DEF S
  <1>7. SumTo(o, n - 1) = SumTo(cents, n - 1)
    <2>1. \A k \in I : o[k] = cents[k]
      BY <1>2, <1>6
    <2> HIDE DEF I
    <2>2. SumFunctionOnSet(o, I) = SumFunctionOnSet(cents, I)
      BY <1>2, <2>1, SumSame
    <2>3. QED
      BY <2>2 DEF SumTo, I
  <1>8. Divided(o, n, c.total, p)
    <2>1. \A k \in I : o[k] = round2(c.total * p[k], Grain * SumTo(p, n))
      BY <1>2, <1>3, <1>6
    <2>2. o[n] = round2(c.total - Grain * SumTo(o, n - 1), Grain)
      BY <1>6, <1>7 DEF rest
    <2>3. /\ \A k \in 1 .. n : p[k] \in Nat
          /\ SumTo(p, n) \in Nat \ {0}
      BY <1>1 DEF n
    <2>4. QED
      BY <1>1, <2>1, <2>2, <2>3 DEF Divided
  <1>9. \A k \in 1 .. n : o[k] \in Int
    BY <1>8, DividedAddsUp
  <1>10. o \in [1 .. n -> Int]
    BY <1>6, <1>9
  <1>11. o \in Seq(Int) /\ Len(o) = n
    BY <1>1, <1>10, ListOf
  <1>12. QED
    BY <1>8, <1>11 DEF o, n

\* Splitting equally is giving everybody one part.
LEMMA EqualDivides ==
  ASSUME NEW c, Proper(c), c.kind = "equal", NEW n, n = Len(c.people),
         NEW p, p = [k \in People(c) |-> 1], NEW o, o = CalculateShares(c).owed
  PROVE  /\ Divided(o, n, c.total, p) /\ SumTo(p, n) = n
         /\ o \in Seq(Int) /\ Len(o) = n
  <1>1. n \in Nat \ {0} /\ People(c) = 1 .. n /\ c.total \in Nat
    BY ProperCall
  <1>2. \A k \in People(c) : p[k] = 1 /\ p[k] \in Nat
    OBVIOUS
  <1>3. SumTo(p, n) = n
    <2> DEFINE S == 1 .. n
    <2>1. IsFiniteSet(S) /\ Cardinality(S) = n
      BY <1>1, FirstNumbers
    <2>2. \A k \in S : p[k] = 1
      BY <1>1, <1>2
    <2> HIDE DEF S
    <2>3. SumFunctionOnSet(p, S) = 1 * Cardinality(S)
      BY <2>1, <2>2, SumConstant
    <2>4. SumFunctionOnSet(p, S) = n
      BY <1>1, <2>1, <2>3
    <2>5. QED
      BY <2>4 DEF SumTo, S
  <1> DEFINE cents == [k \in People(c) |-> round2(c.total, Grain * n)]
  <1>4. o = LastAbsorbs(c, cents)
    <2>1. CalculateShares(c) = ByEqual(c)
      BY ByKind
    <2>2. QED
      BY <2>1 DEF ByEqual, Accept
  <1>5. cents = PartsOf(c, p)
    <2>1. \A k \in People(c) : c.total * p[k] = c.total
      BY <1>1, <1>2
    <2>2. QED
      BY <1>3, <2>1 DEF PartsOf
  <1> HIDE DEF cents
  <1>6. QED
    BY <1>1, <1>2, <1>3, <1>4, <1>5, AbsorbingDivides

\* Splitting by ratio gives everybody as many parts as their ratio says.
LEMMA RatioDivides ==
  ASSUME NEW c, Proper(c), c.kind = "ratio", CalculateShares(c).outcome = "ok",
         NEW n, n = Len(c.people), NEW p, p = Column(c, "ratio"),
         NEW o, o = CalculateShares(c).owed
  PROVE  /\ Divided(o, n, c.total, p)
         /\ o \in Seq(Int) /\ Len(o) = n
  <1>1. n \in Nat \ {0} /\ People(c) = 1 .. n /\ c.total \in Nat
    BY ProperCall
  <1>2. CalculateShares(c) = ByRatio(c)
    BY ByKind
  <1>3. DOMAIN p = 1 .. n /\ Len(p) = n /\ \A k \in People(c) : p[k] = c.people[k].ratio
    <2>1. p = [k \in 1 .. n |-> c.people[k]["ratio"]]
      BY <1>1 DEF Column
    <2>2. QED
      BY <1>1, <2>1
  <1>4. SumOf(p) = SumTo(p, n)
    BY <1>3 DEF SumOf
  <1>5. ~(SumTo(p, n) <= 0) /\ \A k \in People(c) : ~(c.people[k].ratio < 0)
    BY <1>2, <1>4 DEF ByRatio, Refuse
  <1>6. \A k \in People(c) : p[k] \in Nat
    BY <1>3, <1>5, ProperCall
  <1>7. SumTo(p, n) \in Nat \ {0}
    <2> DEFINE S == 1 .. n
    <2>1. IsFiniteSet(S) /\ \A k \in S : p[k] \in Int
      BY <1>1, <1>6, FirstNumbers
    <2> HIDE DEF S
    <2>2. SumFunctionOnSet(p, S) \in Int
      BY <2>1, SumInt
    <2>3. SumTo(p, n) \in Int
      BY <2>2 DEF SumTo, S
    <2>4. QED
      BY <1>5, <2>3
  <1> DEFINE cents == [k \in People(c) |-> round2(c.total * c.people[k].ratio, Grain * SumTo(p, n))]
  <1>8. o = LastAbsorbs(c, cents)
    BY <1>2, <1>4, <1>5 DEF ByRatio, Accept
  <1>9. cents = PartsOf(c, p)
    BY <1>3 DEF PartsOf
  <1> HIDE DEF cents
  <1>10. QED
    BY <1>1, <1>6, <1>7, <1>8, <1>9, AbsorbingDivides

\* Split by amounts in whole cents, everybody owes the amount given, and the
\* amounts add up.
LEMMA AmountsAddUp ==
  ASSUME NEW c, Proper(c), c.kind = "amount", CalculateShares(c).outcome = "ok",
         \A k \in People(c) : c.people[k].amount % Grain = 0,
         NEW o, o = CalculateShares(c).owed
  PROVE  SumOf(o) = TotalCents(c)
  <1> DEFINE n == Len(c.people)
             S == 1 .. n
             amount == Column(c, "amount")
  <1>1. /\ n \in Nat \ {0} /\ People(c) = S /\ c.total \in Nat
        /\ \A k \in S : c.people[k].amount \in Int
        /\ Grain \in Nat \ {0} /\ IsFiniteSet(S)
    BY ProperCall, FirstNumbers, GrainAssumption
  <1>2. CalculateShares(c) = ByAmount(c)
    BY ByKind
  <1>3. /\ \A k \in People(c) : ~(c.people[k].amount < 0)
        /\ round2(SumOf(amount), Grain) = round2(c.total, Grain)
        /\ o = [k \in People(c) |-> round2(c.people[k].amount, Grain)]
    BY <1>2 DEF ByAmount, Refuse, Accept
  <1>4. /\ DOMAIN amount = S /\ Len(amount) = n
        /\ \A k \in S : amount[k] = c.people[k].amount
    <2>1. amount = [k \in S |-> c.people[k]["amount"]]
      BY <1>1 DEF Column
    <2>2. QED
      BY <1>1, <2>1
  <1>5. ASSUME NEW x \in Nat, x % Grain = 0
        PROVE  /\ round2(x, Grain) \in Nat /\ x = Grain * round2(x, Grain)
    <2> DEFINE q == x \div Grain
               r == round2(x, Grain)
    <2>1. q \in Int /\ x = Grain * q
      <3>1. x \in Int /\ Grain \in Nat \ {0} /\ x % Grain = 0
        BY <1>1, <1>5
      <3>2. QED
        BY <3>1, Quotient, WholeQuotient
    <2>2. r \in Int /\ r >= 0 /\ 2 * (Grain * r) <= 2 * x + Grain
          /\ 2 * x + Grain < 2 * (Grain * r) + 2 * Grain
      <3>1. x \in Int /\ x >= 0 /\ 2 * x + Grain >= 0
        BY <1>1
      <3>2. QED
        BY <1>1, <3>1, RoundIs
    <2> HIDE DEF q, r
    <2>3. /\ Grain * r < Grain * q + Grain => r <= q
          /\ Grain * q < Grain * r + Grain => q <= r
          /\ Grain * r \in Int /\ Grain * q \in Int
      BY <1>1, <2>1, <2>2, Products
    <2>4. Grain * r < Grain * q + Grain /\ Grain * q < Grain * r + Grain
      BY <1>1, <2>1, <2>2, <2>3
    <2>5. r = q
      BY <2>1, <2>2, <2>3, <2>4
    <2>6. QED
      BY <2>1, <2>2, <2>5 DEF r
  <1>6. \A k \in S : o[k] \in Nat /\ amount[k] = Grain * o[k]
    <2> SUFFICES ASSUME NEW k \in S
                 PROVE  o[k] \in Nat /\ amount[k] = Grain * o[k]
      OBVIOUS
    <2> DEFINE x == c.people[k].amount
    <2>1. x \in Nat /\ x % Grain = 0 /\ amount[k] = x
      BY <1>1, <1>3, <1>4
    <2>2. o[k] = round2(x, Grain)
      BY <1>1, <1>3
    <2> HIDE DEF x, amount
    <2>3. QED
      BY <1>5, <2>1, <2>2
  <1>7. o \in Seq(Nat) /\ Len(o) = n
    <2>1. o \in [S -> Nat]
      <3> HIDE DEF S
      <3>1. o = [k \in S |-> round2(c.people[k].amount, Grain)]
        BY <1>1, <1>3
      <3>2. QED
        BY <1>6, <3>1
    <2> HIDE DEF n
    <2>2. QED
      BY <1>1, <2>1, ListOf
  <1> DEFINE s == SumFunctionOnSet(o, S)
  <1>8. SumFunctionOnSet(amount, S) = Grain * s /\ s \in Nat
    <2> HIDE DEF S, amount
    <2>1. Grain \in Int /\ \A k \in S : o[k] \in Int /\ amount[k] = Grain * o[k]
      BY <1>1, <1>6
    <2>2. SumFunctionOnSet(amount, S) = Grain * SumFunctionOnSet(o, S)
      BY <1>1, <2>1, SumTimes
    <2>3. SumFunctionOnSet(o, S) \in Nat
      BY <1>1, <1>6, SumNat
    <2>4. QED
      BY <2>2, <2>3
  <1>9. SumOf(o) = s /\ SumOf(amount) = SumFunctionOnSet(amount, S)
    BY <1>4, <1>7 DEF SumOf, SumTo
  <1> HIDE DEF s
  <1>10. round2(Grain * s, Grain) = s
    <2> DEFINE x == Grain * s
    <2>1. x \in Nat /\ x % Grain = 0
      <3>1. x \in Nat
        BY <1>1, <1>8, SMT
      <3>2. s \in Int
        BY <1>8
      <3>3. QED
        BY <1>1, <3>1, <3>2, WholeQuotient
    <2> DEFINE r == round2(x, Grain)
    <2>2. r \in Nat /\ x = Grain * r
      <3> HIDE DEF x
      <3>1. QED
        BY <1>5, <2>1
    <2> HIDE DEF r
    <2>3. Grain * r = Grain * s
      BY <2>2
    <2>4. r = s
      <3>1. /\ Grain * r < Grain * s + Grain => r <= s
            /\ Grain * s < Grain * r + Grain => s <= r
            /\ Grain * s \in Int
        BY <1>1, <1>8, <2>2, Products
      <3>2. QED
        BY <1>1, <1>8, <2>2, <2>3, <3>1
    <2>5. QED
      BY <2>4 DEF r
  <1>11. QED
    BY <1>3, <1>8, <1>9, <1>10 DEF TotalCents

-----------------------------------------------------------------------------
(* Counting who comes first *)

\* above[k] are the members of M that come before k in an order of all of M.
Order(M, above) ==
  /\ IsFiniteSet(M)
  /\ \A k \in M : above[k] \subseteq M /\ k \notin above[k]
  /\ \A k \in M : \A l \in above[k] : above[l] \subseteq above[k]
  /\ \A k, l \in M : k # l => k \in above[l] \/ l \in above[k]

LEMMA CountsGrow ==
  ASSUME NEW M, NEW above, Order(M, above), NEW k \in M
  PROVE  /\ IsFiniteSet(above[k]) /\ Cardinality(above[k]) \in Nat
         /\ Cardinality(above[k]) < Cardinality(M)
         /\ \A l \in above[k] : Cardinality(above[l]) < Cardinality(above[k])
  <1>1. \A X, Y, x : IsFiniteSet(X) /\ x \in X /\ Y \subseteq X \ {x} =>
          /\ IsFiniteSet(Y) /\ Cardinality(Y) \in Nat /\ Cardinality(Y) < Cardinality(X)
    <2> SUFFICES ASSUME NEW X, NEW Y, NEW x, IsFiniteSet(X), x \in X, Y \subseteq X \ {x}
                 PROVE  /\ IsFiniteSet(Y) /\ Cardinality(Y) \in Nat
                        /\ Cardinality(Y) < Cardinality(X)
      OBVIOUS
    <2>1. /\ IsFiniteSet(X \ {x}) /\ Cardinality(X \ {x}) = Cardinality(X) - 1
      BY FS_RemoveElement
    <2>2. IsFiniteSet(Y) /\ Cardinality(Y) <= Cardinality(X \ {x})
      BY <2>1, FS_Subset
    <2>3. Cardinality(X) \in Nat /\ Cardinality(Y) \in Nat
      BY <2>2, FS_CardinalityType
    <2>4. QED
      BY <2>1, <2>2, <2>3
  <1>2. /\ IsFiniteSet(above[k]) /\ Cardinality(above[k]) \in Nat
        /\ Cardinality(above[k]) < Cardinality(M)
    <2>1. IsFiniteSet(M) /\ above[k] \subseteq M \ {k}
      BY DEF Order
    <2>2. QED
      BY <1>1, <2>1
  <1>3. ASSUME NEW l \in above[k]
        PROVE  Cardinality(above[l]) < Cardinality(above[k])
    <2>1. above[l] \subseteq above[k] \ {l}
      BY DEF Order
    <2>2. QED
      BY <1>1, <1>2, <2>1
  <1>4. QED
    BY <1>2, <1>3

LEMMA FromZero ==
  ASSUME NEW n \in Nat, NEW m, m = n - 1
  PROVE  IsFiniteSet(0 .. m) /\ Cardinality(0 .. m) = n
  <1>1. m \in Int /\ (0 > m => n = 0) /\ m - 0 + 1 = n
    OBVIOUS
  <1>2. IsFiniteSet(0 .. m) /\ Cardinality(0 .. m) = IF 0 > m THEN 0 ELSE m - 0 + 1
    BY <1>1, FS_Interval
  <1>3. QED
    BY <1>1, <1>2

\* Those with fewer than e before them are the first e, or all.
LEMMA TopOf ==
  ASSUME NEW M, NEW above, Order(M, above), NEW e \in Nat,
         NEW top, top = {k \in M : Cardinality(above[k]) < e}
  PROVE  /\ IsFiniteSet(top)
         /\ e <= Cardinality(M) => Cardinality(top) = e
         /\ e > Cardinality(M) => top = M
  <1> DEFINE n     == Cardinality(M)
             count == [k \in M |-> Cardinality(above[k])]
             all   == 0 .. n - 1
  <1>1. IsFiniteSet(M) /\ n \in Nat
    BY FS_CardinalityType DEF Order
  <1>2. \A k \in M : count[k] \in Nat /\ count[k] < n
    BY CountsGrow
  <1>3. \A k, l \in M : k # l => count[k] # count[l]
    <2> SUFFICES ASSUME NEW k \in M, NEW l \in M, k # l
                 PROVE  count[k] # count[l]
      OBVIOUS
    <2>1. k \in above[l] \/ l \in above[k]
      BY DEF Order
    <2>2. count[k] < count[l] \/ count[l] < count[k]
      BY <2>1, CountsGrow
    <2>3. QED
      BY <1>2, <2>2
  <1>4. count \in Injection(M, all)
    <2> HIDE DEF n
    <2>1. \A k \in M : count[k] \in all
      BY <1>1, <1>2
    <2>2. count \in [M -> all]
      BY <2>1
    <2> HIDE DEF all, count
    <2>3. QED
      BY <1>3, <2>2 DEF Injection, IsInjective
  <1>5. IsFiniteSet(all) /\ Cardinality(all) = n
    <2> HIDE DEF n
    <2>1. QED
      BY <1>1, FromZero
  <1>6. count \in Surjection(M, all)
    <2> HIDE DEF all, count
    <2>1. QED
      BY <1>4, <1>5, FS_Injection
  <1>7. IsFiniteSet(top) /\ top \subseteq M
    BY <1>1, FS_Subset
  <1>8. ASSUME e <= n
        PROVE  Cardinality(top) = e
    <2> DEFINE first == 0 .. e - 1
               g == [k \in top |-> count[k]]
    <2>1. IsFiniteSet(first) /\ Cardinality(first) = e
      BY FromZero
    <2>2. \A k \in top : k \in M /\ count[k] \in first
      BY <1>2
    <2>3. \A m \in first : \E k \in top : count[k] = m
      <3> SUFFICES ASSUME NEW m \in first
                   PROVE  \E k \in top : count[k] = m
        OBVIOUS
      <3>1. m \in all /\ m < e
        BY <1>1, <1>8
      <3>2. PICK k \in M : count[k] = m
        <4> HIDE DEF all, count
        <4>1. QED
          BY <1>6, <3>1 DEF Surjection
      <3>3. k \in top
        BY <3>1, <3>2
      <3>4. QED
        BY <3>2, <3>3
    <2> HIDE DEF first, count
    <2>4. g \in [top -> first] /\ \A k \in top : g[k] = count[k]
      BY <2>2
    <2> HIDE DEF g
    <2>5. g \in Injection(top, first)
      BY <1>3, <2>2, <2>4 DEF Injection, IsInjective
    <2>6. g \in Surjection(top, first)
      BY <2>3, <2>4 DEF Surjection
    <2>7. ExistsBijection(top, first)
      BY <2>5, <2>6 DEF ExistsBijection, Bijection
    <2>8. QED
      BY <1>7, <2>1, <2>7, FS_Bijection
  <1>9. ASSUME e > n
        PROVE  top = M
    <2>1. \A k \in M : Cardinality(above[k]) < e
      BY <1>1, <1>2, <1>9
    <2>2. QED
      BY <2>1
  <1>10. QED
    BY <1>1, <1>7, <1>8, <1>9

-----------------------------------------------------------------------------
(* Splitting by share: nothing overflows, and every part is rounded *)

\* A call the checks of calculateByShare let through.
ByShareCall(c) == Proper(c) /\ InRange(c)

\* The product of the total and somebody's shares is an int64.
LEMMA ProductsFit ==
  ASSUME NEW c, ByShareCall(c)
  PROVE  /\ TotalCents(c) \in Nat /\ SumShare(c) \in Nat \ {0}
         /\ SumShare(c) = SumFunctionOnSet(Column(c, "share"), People(c))
         /\ \A k \in People(c) :
              /\ c.people[k].share \in Nat \ {0}
              /\ TotalCents(c) * c.people[k].share \in 0 .. MaxInt
  <1> DEFINE n == Len(c.people)
             S == SumShare(c)
             T == TotalCents(c)
             col == Column(c, "share")
  <1>1. /\ n \in Nat \ {0} /\ People(c) = 1 .. n /\ c.total \in Nat
        /\ \A k \in People(c) : c.people[k].share \in Int
    BY ProperCall DEF ByShareCall
  <1>2. /\ \A k \in People(c) : c.people[k].share > 0
        /\ S <= MaxInt
        /\ T > 0 => S <= MaxInt \div T
    BY DEF ByShareCall, InRange
  <1>3. \A k \in People(c) : col[k] = c.people[k].share /\ col[k] \in Nat \ {0}
    BY <1>1, <1>2 DEF Column
  <1>4. DOMAIN col = 1 .. n /\ Len(col) = n
    <2>1. DOMAIN col = 1 .. n
      BY <1>1 DEF Column
    <2>2. QED
      BY <1>1, <2>1 DEF Column
  <1> HIDE DEF col
  <1>5. S = SumFunctionOnSet(col, People(c))
    <2>1. S = SumFunctionOnSet(col, 1 .. n)
      BY <1>4 DEF SumShare, SumOf, SumTo, col
    <2>2. QED
      BY <1>1, <2>1
  <1>6. S \in Nat \ {0} /\ \A k \in People(c) : col[k] <= S
    <2>1. IsFiniteSet(People(c)) /\ 1 \in People(c)
      BY <1>1, FirstNumbers
    <2>2. \A k \in People(c) : col[k] \in Nat
      BY <1>3
    <2>3. S \in Nat /\ \A k \in People(c) : col[k] <= S
      BY <1>5, <2>1, <2>2, SumNat
    <2>4. QED
      BY <1>3, <2>1, <2>3
  <1>7. T \in Nat
    <2>1. c.total \in Int /\ c.total >= 0
      BY <1>1
    <2>2. QED
      BY <2>1, RoundIs, GrainAssumption DEF TotalCents
  <1>8. T * S <= MaxInt /\ T * S \in Nat
    <2>1. T * S \in Nat
      BY <1>6, <1>7, SMT
    <2>2. CASE T = 0
      BY <1>6, <2>2, MaxIntAssumption
    <2>3. CASE T > 0
      <3> DEFINE q == MaxInt \div T
      <3>1. T \in Nat \ {0} /\ MaxInt \in Int
        BY <1>7, <2>3, MaxIntAssumption
      <3>2. q \in Int /\ T * q <= MaxInt /\ S <= q
        <4> HIDE DEF T
        <4>1. QED
          BY <1>2, <2>3, <3>1, Quotient
      <3> HIDE DEF q, T, S
      <3>3. T * (q - S) >= 0
        BY <1>6, <3>1, <3>2, SMT
      <3>4. T * (q - S) = T * q - T * S /\ T * q \in Int
        BY <1>6, <3>1, <3>2, Products
      <3>5. QED
        BY <2>1, <3>1, <3>2, <3>3, <3>4
    <2>4. QED
      BY <1>7, <2>1, <2>2, <2>3
  <1> HIDE DEF S, T
  <1>9. ASSUME NEW k \in People(c)
        PROVE  T * c.people[k].share \in 0 .. MaxInt
    <2> DEFINE s == c.people[k].share
    <2>1. s \in Nat /\ s <= S
      BY <1>3, <1>6
    <2> HIDE DEF s
    <2>2. T * (S - s) >= 0 /\ T * s >= 0 /\ T * s \in Int
      BY <1>6, <1>7, <2>1, SMT
    <2>3. T * (S - s) = T * S - T * s
      BY <1>6, <1>7, <2>1, SMT
    <2>4. T * s \in 0 .. MaxInt
      BY <1>8, <2>2, <2>3, MaxIntAssumption
    <2>5. QED
      BY <2>4 DEF s
  <1>10. QED
    BY <1>3, <1>5, <1>6, <1>7, <1>9 DEF S, T, col

LEMMA WrapsNot ==
  ASSUME NEW x \in 0 .. MaxInt
  PROVE  Wrap(x) = x
  <1> DEFINE y == x + MaxInt + 1
             d == 2 * (MaxInt + 1)
  <1>1. y \in Nat /\ d \in Nat \ {0} /\ y < d
    BY MaxIntAssumption
  <1>2. y % d = y
    <2> HIDE DEF y, d
    <2>1. y \div d = 0
      <3>1. 0 \in Int /\ d * 0 = 0 /\ d * 0 <= y /\ y < d * 0 + d
        BY <1>1
      <3>2. QED
        BY <1>1, <3>1, OneQuotient
    <2>2. y = d * (y \div d) + (y % d) /\ y % d \in Int
      BY <1>1, SMT
    <2>3. QED
      BY <1>1, <2>1, <2>2
  <1>3. QED
    BY <1>2, MaxIntAssumption DEF Wrap

\* A part is the exact one rounded, half a cent up.
LEMMA PartIsRounded ==
  ASSUME NEW c, ByShareCall(c), NEW k \in People(c), NEW x, x = TotalCents(c) * c.people[k].share,
         NEW p, p = RoundedPart(c, k), NEW S, S = SumShare(c)
  PROVE  /\ p \in Nat
         /\ 2 * (S * p) - 2 * x <= S /\ 2 * x - 2 * (S * p) < S
  <1>1. S \in Nat \ {0} /\ x \in 0 .. MaxInt /\ x \in Nat
    <2>1. S \in Nat \ {0} /\ x \in 0 .. MaxInt
      BY ProductsFit
    <2>2. QED
      BY <2>1, MaxIntAssumption
  <1>2. Wrap(x) = x
    BY <1>1, WrapsNot
  <1> DEFINE q == x \div S
             r == x % S
  <1>3. x = S * q + r /\ q \in Int /\ r \in Int /\ 0 <= r /\ r < S
    BY <1>1, SMT
  <1>4. p = q + IF r >= S - r THEN 1 ELSE 0
    BY <1>2 DEF RoundedPart
  <1> HIDE DEF q, r
  <1>5. q >= 0
    <2>1. S * 0 < S * q + S => 0 <= q
      BY <1>1, <1>3, Products
    <2>2. QED
      BY <1>1, <1>3, <2>1
  <1>6. S * (q + 1) = S * q + S /\ S * q \in Int
    BY <1>1, <1>3, SMT
  <1>7. CASE r >= S - r
    <2>1. p = q + 1
      BY <1>4, <1>7
    <2>2. S * p = S * q + S
      BY <1>6, <2>1
    <2>3. QED
      BY <1>1, <1>3, <1>5, <1>6, <1>7, <2>1, <2>2
  <1>8. CASE r < S - r
    <2>1. p = q
      BY <1>1, <1>3, <1>4, <1>8
    <2>2. QED
      BY <1>1, <1>3, <1>5, <1>6, <1>8, <2>1
  <1>9. QED
    BY <1>1, <1>3, <1>7, <1>8

\* More shares never make a smaller part.
LEMMA PartsGrow ==
  ASSUME NEW c, ByShareCall(c), NEW k \in People(c), NEW l \in People(c),
         c.people[k].share >= c.people[l].share
  PROVE  RoundedPart(c, k) >= RoundedPart(c, l)
  <1> DEFINE S == SumShare(c)
             T == TotalCents(c)
             p == RoundedPart(c, k)
             q == RoundedPart(c, l)
             x == T * c.people[k].share
             y == T * c.people[l].share
  <1>1. /\ S \in Nat \ {0} /\ p \in Nat /\ q \in Nat
        /\ 2 * x - 2 * (S * p) < S /\ 2 * (S * q) - 2 * y <= S
    BY ProductsFit, PartIsRounded
  <1>2. x \in Int /\ y \in Int /\ y <= x
    <2> DEFINE u == c.people[k].share
               v == c.people[l].share
    <2>1. u \in Nat /\ v \in Nat /\ u >= v /\ T \in Nat
      BY ProductsFit
    <2> HIDE DEF u, v, T
    <2>2. T * (u - v) >= 0 /\ T * (u - v) = T * u - T * v /\ T * u \in Int /\ T * v \in Int
      BY <2>1, SMT
    <2>3. T * v <= T * u
      BY <2>2
    <2>4. QED
      BY <2>2, <2>3 DEF u, v
  <1> HIDE DEF S, p, q, x, y
  <1>3. S * p \in Int /\ S * q \in Int /\ (S * q < S * p + S => q <= p)
    BY <1>1, Products
  <1>4. S * q < S * p + S
    BY <1>1, <1>2, <1>3
  <1>5. q <= p
    BY <1>3, <1>4
  <1>6. QED
    BY <1>1, <1>5 DEF p, q

-----------------------------------------------------------------------------
(* Splitting by share: the remainder is small *)

\* parts[k] is T * col[k] / S, rounded either way.
Rounded(M, S, T, col, parts) ==
  /\ IsFiniteSet(M) /\ S \in Nat \ {0} /\ T \in Nat
  /\ SumFunctionOnSet(col, M) = S
  /\ \A k \in M : /\ col[k] \in Nat /\ parts[k] \in Nat
                  /\ 2 * (S * parts[k]) - 2 * (T * col[k]) <= S
                  /\ 2 * (T * col[k]) - 2 * (S * parts[k]) <= S

\* Too little is at most half a unit for each part, too much at most half a unit
\* for each part that is not nothing: only those can have been rounded up.
LEMMA RoundedLeaves ==
  ASSUME NEW M, NEW S, NEW T, NEW col, NEW parts, Rounded(M, S, T, col, parts),
         NEW pays, pays = {k \in M : parts[k] > 0},
         NEW u, u = SumFunctionOnSet(parts, M)
  PROVE  /\ u \in Int
         /\ 2 * (T - u) <= Cardinality(M)
         /\ 2 * (u - T) <= Cardinality(pays)
  <1> DEFINE sum(f) == SumFunctionOnSet(f, M)
             n == Cardinality(M)
             m == Cardinality(pays)
  <1>1. /\ S \in Nat \ {0} /\ S \in Int /\ S \in Nat /\ T \in Nat /\ T \in Int /\ IsFiniteSet(M)
        /\ \A k \in M : /\ col[k] \in Nat /\ parts[k] \in Nat
                        /\ col[k] \in Int /\ parts[k] \in Int
    BY DEF Rounded
  <1>2. \A k \in M : /\ 2 * (S * parts[k]) - 2 * (T * col[k]) <= S
                     /\ 2 * (T * col[k]) - 2 * (S * parts[k]) <= S
    BY DEF Rounded
  <1>3. sum(col) = S
    BY DEF Rounded
  <1>4. n \in Int /\ m \in Int
    <2>1. IsFiniteSet(pays)
      BY <1>1, FS_Subset
    <2>2. QED
      BY <1>1, <2>1, FS_CardinalityType
  <1>5. u \in Int /\ 2 * (T * sum(col)) - 2 * (S * u) <= S * n
    <2>1. /\ sum(parts) \in Int
          /\ 2 * (T * sum(col)) - 2 * (S * sum(parts)) <= S * n
      BY <1>1, <1>2, ErrorsAddUp
    <2>2. u = sum(parts)
      OBVIOUS
    <2> HIDE DEF sum
    <2>3. QED
      BY <2>1, <2>2
  <1>6. /\ S * (2 * (T - u)) = 2 * (T * S) - 2 * (S * u)
        /\ S * (2 * (u - T)) = 2 * (S * u) - 2 * (T * S)
        /\ T * S \in Int /\ S * u \in Int /\ S * n \in Int /\ S * m \in Int
    BY <1>1, <1>4, <1>5, SMT
  <1> HIDE DEF n, m
  <1>7. 2 * (T - u) <= n
    <2> DEFINE d == 2 * (T - u)
    <2>1. d \in Int /\ S * d <= S * n
      BY <1>1, <1>3, <1>5, <1>6
    <2> HIDE DEF d
    <2>2. S * d \in Int /\ S * d < S * n + S
      BY <1>1, <1>6, <2>1, SMT
    <2>3. d <= n
      BY <1>1, <1>4, <2>1, <2>2, Products
    <2>4. QED
      BY <2>3 DEF d
  <1> DEFINE pay == [k \in M |-> IF parts[k] > 0 THEN 1 ELSE 0]
             up  == [k \in M |-> S * pay[k]]
             a   == [k \in M |-> (2 * S) * parts[k]]
             b   == [k \in M |-> (-2 * T) * col[k]]
             e   == [k \in M |-> a[k] + b[k]]
  <1>8. \A k \in M : /\ pay[k] \in {0, 1} /\ (pay[k] = 1 <=> parts[k] > 0)
                     /\ up[k] = S * pay[k] /\ a[k] = (2 * S) * parts[k]
                     /\ b[k] = (-2 * T) * col[k] /\ e[k] = a[k] + b[k]
    OBVIOUS
  <1>9. /\ 2 * S \in Int /\ -2 * T \in Int
        /\ \A x \in Int : /\ (2 * S) * x = 2 * (S * x) /\ (2 * S) * x \in Int
                          /\ (-2 * T) * x = -(2 * (T * x)) /\ (-2 * T) * x \in Int
                          /\ S * x \in Int /\ T * x \in Int
        /\ \A x \in Nat : T * x >= 0
    BY <1>1, SMT
  <1> HIDE DEF pay, up, a, b, e
  <1>10. ASSUME NEW k \in M
         PROVE  /\ pay[k] \in Int /\ up[k] \in Int /\ a[k] \in Int /\ b[k] \in Int
                /\ e[k] \in Int /\ e[k] <= up[k]
    <2>1. parts[k] \in Nat /\ col[k] \in Nat /\ parts[k] \in Int /\ col[k] \in Int
      BY <1>1
    <2> DEFINE sp == S * parts[k]
               tc == T * col[k]
    <2>2. sp \in Int /\ tc \in Int /\ tc >= 0 /\ 2 * sp - 2 * tc <= S
      BY <1>2, <1>9, <2>1
    <2>3. a[k] = 2 * sp /\ b[k] = -(2 * tc)
      BY <1>8, <1>9, <2>1
    <2>4. /\ parts[k] > 0 => up[k] = S
          /\ parts[k] = 0 => up[k] = 0 /\ sp = 0
      <3>1. CASE parts[k] > 0
        <4>1. pay[k] = 1 /\ up[k] = S * pay[k]
          BY <1>8, <3>1
        <4>2. S * 1 = S
          BY <1>1
        <4>3. QED
          BY <3>1, <4>1, <4>2
      <3>2. CASE parts[k] = 0
        <4>1. pay[k] = 0 /\ up[k] = S * pay[k]
          BY <1>8, <3>2
        <4>2. S * 0 = 0
          BY <1>1
        <4>3. QED
          BY <3>2, <4>1, <4>2
      <3>3. QED
        BY <2>1, <3>1, <3>2
    <2> HIDE DEF sp, tc
    <2>5. up[k] \in Int /\ 2 * sp - 2 * tc <= up[k]
      BY <1>1, <2>1, <2>2, <2>4
    <2>6. e[k] = 2 * sp - 2 * tc
      BY <1>8, <2>2, <2>3
    <2>7. QED
      BY <1>8, <2>2, <2>3, <2>5, <2>6
  <1>11. sum(e) <= sum(up)
    BY <1>1, <1>10, SumMonotone
  <1>12. sum(e) = sum(a) + sum(b)
    BY <1>1, <1>8, <1>10, SumPlus
  <1>13. sum(a) = (2 * S) * sum(parts)
    <2> DEFINE q == 2 * S
    <2>1. q \in Int /\ \A k \in M : parts[k] \in Int /\ a[k] = q * parts[k]
      BY <1>1, <1>8
    <2> HIDE DEF q
    <2>2. sum(a) = q * sum(parts)
      BY <1>1, <2>1, SumTimes
    <2>3. QED
      BY <2>2 DEF q
  <1>14. sum(b) = (-2 * T) * sum(col)
    <2> DEFINE q == -2 * T
    <2>1. q \in Int /\ \A k \in M : col[k] \in Int /\ b[k] = q * col[k]
      BY <1>1, <1>8
    <2> HIDE DEF q
    <2>2. sum(b) = q * sum(col)
      BY <1>1, <2>1, SumTimes
    <2>3. QED
      BY <2>2 DEF q
  <1>15. sum(up) = S * m
    <2>1. \A k \in M : pay[k] \in Int /\ up[k] = S * pay[k]
      BY <1>8, <1>10
    <2>2. sum(up) = S * sum(pay)
      BY <1>1, <2>1, SumTimes
    <2>3. sum(pay) = Cardinality({k \in M : pay[k] = 1})
      BY <1>1, <1>8, SumCount
    <2>4. {k \in M : pay[k] = 1} = pays
      BY <1>8
    <2>5. QED
      BY <2>2, <2>3, <2>4 DEF m
  <1>16. sum(a) = 2 * (S * u) /\ sum(b) = -(2 * (T * S))
    <2>1. u = sum(parts)
      OBVIOUS
    <2> HIDE DEF sum
    <2>2. sum(a) = (2 * S) * u /\ sum(b) = (-2 * T) * S
      BY <1>3, <1>13, <1>14, <2>1
    <2>3. QED
      BY <1>1, <1>5, <1>9, <2>2
  <1>17. 2 * (u - T) <= m
    <2> DEFINE d == 2 * (u - T)
    <2>1. d \in Int
      BY <1>1, <1>5
    <2>2. S * d = sum(a) + sum(b)
      <3> HIDE DEF sum
      <3>1. sum(a) + sum(b) = 2 * (S * u) - 2 * (T * S)
        BY <1>6, <1>16
      <3>2. QED
        BY <1>6, <3>1
    <2> HIDE DEF d, sum
    <2>3. S * d \in Int /\ S * d <= S * m
      BY <1>1, <1>11, <1>12, <1>15, <2>1, <2>2, SMT
    <2>4. S * d < S * m + S
      BY <1>1, <1>6, <2>3
    <2>5. d <= m
      BY <1>1, <1>4, <2>1, <2>4, Products
    <2>6. QED
      BY <2>5 DEF d
  <1>18. QED
    BY <1>5, <1>7, <1>17 DEF n, m

Parts(c) == [k \in People(c) |-> RoundedPart(c, k)]

LEMMA PartsAreRounded ==
  ASSUME NEW c, ByShareCall(c)
  PROVE  Rounded(People(c), SumShare(c), TotalCents(c), Column(c, "share"), Parts(c))
  <1> DEFINE S     == SumShare(c)
             T     == TotalCents(c)
             parts == Parts(c)
             col   == Column(c, "share")
             M     == People(c)
  <1>1. IsFiniteSet(M)
    BY ProperCall, FirstNumbers DEF ByShareCall
  <1>2. /\ T \in Nat /\ S \in Nat \ {0} /\ SumFunctionOnSet(col, M) = S
        /\ \A k \in M : col[k] = c.people[k].share /\ col[k] \in Nat
    BY ProductsFit DEF Column
  <1>3. ASSUME NEW k \in M
        PROVE  /\ parts[k] \in Nat
               /\ 2 * (S * parts[k]) - 2 * (T * col[k]) <= S
               /\ 2 * (T * col[k]) - 2 * (S * parts[k]) <= S
    <2> DEFINE x == T * c.people[k].share
               p == parts[k]
    <2>1. p = RoundedPart(c, k)
      BY DEF Parts
    <2> HIDE DEF x, p
    <2>2. p \in Nat /\ 2 * (S * p) - 2 * x <= S /\ 2 * x - 2 * (S * p) < S
      BY <2>1, PartIsRounded DEF x
    <2>3. x = T * col[k]
      BY <1>2 DEF x
    <2> HIDE DEF S, T, col, parts
    <2>4. x \in Int /\ S * p \in Int
      BY <1>2, <2>2, <2>3, SMT
    <2>5. 2 * x - 2 * (S * p) <= S
      BY <1>2, <2>2, <2>4
    <2>6. QED
      BY <2>2, <2>3, <2>5 DEF p
  <1>4. QED
    BY <1>1, <1>2, <1>3 DEF Rounded

\* What rounding leaves to hand out, or to take back when it is negative.
Remainder(c) == TotalCents(c) - SumOf(Parts(c))

\* The remainder is at most half a cent for each participant, and too much at
\* most half a cent for each who has a part.
LEMMA RemainderIsSmall ==
  ASSUME NEW c, ByShareCall(c)
  PROVE  /\ Parts(c) \in [People(c) -> Nat]
         /\ Remainder(c) \in Int /\ TotalCents(c) \in Nat
         /\ SumFunctionOnSet(Parts(c), People(c)) \in Int
         /\ Remainder(c) = TotalCents(c) - SumFunctionOnSet(Parts(c), People(c))
         /\ IsFiniteSet(People(c))
         /\ 2 * Remainder(c) <= Cardinality(People(c))
         /\ 2 * (-Remainder(c)) <= Cardinality(Payers(c, Parts(c)))
  <1> DEFINE S     == SumShare(c)
             T     == TotalCents(c)
             parts == Parts(c)
             col   == Column(c, "share")
             M     == People(c)
             n     == Len(c.people)
             R     == Remainder(c)
             u     == SumFunctionOnSet(parts, M)
  <1>1. Rounded(M, S, T, col, parts)
    BY PartsAreRounded
  <1>2. IsFiniteSet(M) /\ T \in Nat /\ \A k \in M : parts[k] \in Nat
    BY <1>1 DEF Rounded
  <1>3. parts \in [M -> Nat]
    BY <1>2 DEF Parts
  <1>4. n \in Nat /\ M = 1 .. n
    BY ProperCall DEF ByShareCall
  <1> HIDE DEF parts, n, S, T, R, col
  <1>5. Len(parts) = n
    BY <1>3, <1>4, ListOf
  <1>6. SumOf(parts) = u
    BY <1>4, <1>5 DEF SumOf, SumTo
  <1>7. R = T - u
    BY <1>6 DEF Remainder, R, T, parts
  <1>8. Payers(c, parts) = {k \in M : parts[k] > 0}
    BY DEF Payers
  <1> HIDE DEF M, u
  <1>9. /\ u \in Int /\ 2 * (T - u) <= Cardinality(M)
        /\ 2 * (u - T) <= Cardinality(Payers(c, parts))
    BY <1>1, <1>8, RoundedLeaves DEF u
  <1>10. R \in Int /\ 2 * R = 2 * (T - u) /\ 2 * (-R) = 2 * (u - T)
    BY <1>2, <1>7, <1>9
  <1>11. QED
    BY <1>2, <1>3, <1>7, <1>9, <1>10 DEF R, T, parts, M, u

-----------------------------------------------------------------------------
(* Splitting by share: the order *)

\* Who comes before whom when the remainder is handed out.
Before(c) ==
  [k \in People(c) |-> {l \in People(c) :
                          \/ c.people[l].share > c.people[k].share
                          \/ c.people[l].share = c.people[k].share /\ l < k}]

LEMMA BeforeOrders ==
  ASSUME NEW c, Proper(c)
  PROVE  Order(People(c), Before(c))
  <1> DEFINE M == People(c)
             above == Before(c)
  <1>1. IsFiniteSet(M) /\ M \subseteq Int /\ \A k \in M : c.people[k].share \in Int
    BY ProperCall, FirstNumbers
  <1>2. \A k \in M : above[k] = {l \in M : \/ c.people[l].share > c.people[k].share
                                           \/ c.people[l].share = c.people[k].share /\ l < k}
    BY DEF Before
  <1> HIDE DEF M, above
  <1>3. \A k \in M : above[k] \subseteq M /\ k \notin above[k]
    BY <1>1, <1>2
  <1>4. \A k, l \in M : k # l => k \in above[l] \/ l \in above[k]
    BY <1>1, <1>2
  <1>5. ASSUME NEW k \in M, NEW l \in above[k], NEW x \in above[l]
        PROVE  x \in above[k]
    <2>1. l \in M /\ x \in M
      BY <1>3
    <2>2. QED
      BY <1>1, <1>2, <2>1
  <1>6. QED
    BY <1>1, <1>3, <1>4, <1>5 DEF Order, M, above

LEMMA RankIs ==
  ASSUME NEW c, Proper(c)
  PROVE  /\ \A k \in People(c) : /\ Rank(c, k) = 1 + Cardinality(Before(c)[k])
                                 /\ Rank(c, k) \in Nat \ {0}
         /\ \A k, l \in People(c) :
              /\ k \in Before(c)[l] => Rank(c, k) < Rank(c, l)
              /\ k # l => Rank(c, k) < Rank(c, l) \/ Rank(c, l) < Rank(c, k)
  <1>1. \A k \in People(c) : Rank(c, k) = 1 + Cardinality(Before(c)[k])
    BY DEF Rank, Before
  <1>2. \A k \in People(c) :
          /\ Cardinality(Before(c)[k]) \in Nat
          /\ \A l \in Before(c)[k] : Cardinality(Before(c)[l]) < Cardinality(Before(c)[k])
    BY BeforeOrders, CountsGrow
  <1>3. \A k, l \in People(c) : k # l => k \in Before(c)[l] \/ l \in Before(c)[k]
    BY BeforeOrders DEF Order
  <1>4. \A k, l \in People(c) : k \in Before(c)[l] => Rank(c, k) < Rank(c, l)
    BY <1>1, <1>2
  <1>5. QED
    BY <1>1, <1>2, <1>3, <1>4

-----------------------------------------------------------------------------
(* Splitting by share: a cent more *)

LEMMA SmallModulo ==
  ASSUME NEW x \in Nat, NEW d \in Nat \ {0}, x < d
  PROVE  x % d = x
  <1>1. x \div d = 0
    <2>1. 0 \in Int /\ d * 0 = 0 /\ d * 0 <= x /\ x < d * 0 + d
      OBVIOUS
    <2>2. QED
      BY <2>1, OneQuotient
  <1>2. x = d * (x \div d) + (x % d) /\ x % d \in Int
    BY SMT
  <1>3. QED
    BY <1>1, <1>2

\* When R cents are handed out in turn to n, the cents the r-th of them gets.
Turns(turns, n, R, r) == turns = {m \in 1 .. R : ((m - 1) % n) + 1 = r}

\* As long as there are no more cents than participants, each of the first gets
\* one.
LEMMA OneRound ==
  ASSUME NEW n \in Nat, NEW R \in Nat, R <= n, NEW r \in Nat \ {0},
         NEW turns, Turns(turns, n, R, r)
  PROVE  Cardinality(turns) = IF r <= R THEN 1 ELSE 0
  <1>1. ASSUME NEW m \in 1 .. R
        PROVE  ((m - 1) % n) + 1 = m
    <2> DEFINE x == m - 1
    <2>1. x \in Nat /\ n \in Nat \ {0} /\ x < n
      OBVIOUS
    <2> HIDE DEF x
    <2>2. x % n = x
      BY <2>1, SmallModulo
    <2>3. QED
      BY <2>2 DEF x
  <1>2. turns = {m \in 1 .. R : m = r}
    BY <1>1 DEF Turns
  <1>3. CASE r <= R
    <2>1. {m \in 1 .. R : m = r} = {r}
      BY <1>3
    <2>2. QED
      BY <1>2, <1>3, <2>1, FS_Singleton
  <1>4. CASE ~(r <= R)
    <2>1. {m \in 1 .. R : m = r} = {}
      BY <1>4
    <2>2. QED
      BY <1>2, <1>4, <2>1, FS_EmptySet
  <1>5. QED
    BY <1>3, <1>4

\* What is handed out is the remainder, a cent to each of the first.
LEMMA HandedOut ==
  ASSUME NEW c, ByShareCall(c), Remainder(c) >= 0,
         NEW o, o = HandOut(c, Parts(c), Remainder(c))
  PROVE  /\ o \in [People(c) -> Nat]
         /\ SumFunctionOnSet(o, People(c)) = TotalCents(c)
         /\ \A k \in People(c) :
              o[k] = Parts(c)[k] + IF Rank(c, k) <= Remainder(c) THEN 1 ELSE 0
  <1> DEFINE M     == People(c)
             n     == Len(c.people)
             R     == Remainder(c)
             parts == Parts(c)
             gift  == [k \in M |-> IF Rank(c, k) <= R THEN 1 ELSE 0]
             top   == {k \in M : Cardinality(Before(c)[k]) < R}
  <1>1. /\ IsFiniteSet(M) /\ R \in Int /\ TotalCents(c) \in Nat
        /\ SumFunctionOnSet(parts, M) \in Int
        /\ R = TotalCents(c) - SumFunctionOnSet(parts, M)
        /\ 2 * R <= Cardinality(M) /\ Cardinality(M) \in Nat
        /\ \A k \in M : parts[k] \in Nat
    BY RemainderIsSmall, FS_CardinalityType
  <1>2. n \in Nat /\ M = 1 .. n /\ Proper(c)
    BY ProperCall DEF ByShareCall
  <1>3. Cardinality(M) = n
    BY <1>2, FirstNumbers
  <1>4. R \in Nat /\ R <= n
    BY <1>1, <1>3
  <1>5. \A k \in M : /\ gift[k] = IF Rank(c, k) <= R THEN 1 ELSE 0
                     /\ gift[k] \in {0, 1} /\ gift[k] \in Int
    OBVIOUS
  <1>6. ASSUME NEW k \in M
        PROVE  o[k] = parts[k] + gift[k]
    <2> DEFINE turns == {m \in 1 .. R : ((m - 1) % n) + 1 = Rank(c, k)}
    <2>1. o[k] = parts[k] + Cardinality(turns)
      BY DEF HandOut
    <2>2. Rank(c, k) \in Nat \ {0}
      BY <1>2, RankIs
    <2>3. Cardinality(turns) = IF Rank(c, k) <= R THEN 1 ELSE 0
      <3>1. Turns(turns, n, R, Rank(c, k))
        BY DEF Turns
      <3> HIDE DEF R, n, turns
      <3>2. QED
        BY <1>2, <1>4, <2>2, <3>1, OneRound
    <2> HIDE DEF turns
    <2>4. QED
      BY <1>5, <2>1, <2>3
  <1>7. o = [k \in M |-> o[k]]
    BY DEF HandOut
  <1> HIDE DEF parts, gift, R
  <1>8. o \in [M -> Nat]
    <2>1. \A k \in M : o[k] \in Nat
      BY <1>1, <1>5, <1>6
    <2>2. QED
      BY <1>7, <2>1
  <1>9. SumFunctionOnSet(gift, M) = R
    <2>1. SumFunctionOnSet(gift, M) = Cardinality({k \in M : gift[k] = 1})
      BY <1>1, <1>5, SumCount
    <2>2. {k \in M : gift[k] = 1} = top
      <3>1. \A k \in M : gift[k] = 1 <=> Rank(c, k) <= R
        BY <1>5
      <3>2. \A k \in M : Rank(c, k) = 1 + Cardinality(Before(c)[k]) /\ Rank(c, k) \in Nat \ {0}
        BY <1>2, RankIs
      <3>3. \A k \in M : Cardinality(Before(c)[k]) \in Nat
        BY <1>2, BeforeOrders, CountsGrow
      <3>4. \A k \in M : Rank(c, k) <= R <=> Cardinality(Before(c)[k]) < R
        BY <1>4, <3>2, <3>3
      <3>5. QED
        BY <3>1, <3>4
    <2>3. Cardinality(top) = R
      <3> HIDE DEF M
      <3>1. Order(M, Before(c)) /\ R <= Cardinality(M)
        BY <1>2, <1>3, <1>4, BeforeOrders DEF M
      <3>2. QED
        BY <1>4, <3>1, TopOf
    <2>4. QED
      BY <2>1, <2>2, <2>3
  <1>10. SumFunctionOnSet(o, M) = TotalCents(c)
    <2>1. \A k \in M : parts[k] \in Int /\ gift[k] \in Int /\ o[k] = parts[k] + gift[k]
      BY <1>1, <1>5, <1>6
    <2>2. SumFunctionOnSet(o, M) = SumFunctionOnSet(parts, M) + SumFunctionOnSet(gift, M)
      <3>1. IsFiniteSet(M)
        BY <1>1
      <3> HIDE DEF M
      <3>2. QED
        BY <2>1, <3>1, SumPlus
    <2>3. QED
      BY <1>1, <1>9, <2>2
  <1>11. QED
    BY <1>5, <1>6, <1>8, <1>10 DEF R, parts

-----------------------------------------------------------------------------
(* Splitting by share: a cent less *)

\* Whom a pass takes a cent from: the last ones, and as many as are to give one
\* unless there are not so many with a part.
LEMMA HitIs ==
  ASSUME NEW c, Proper(c), NEW cents, NEW e \in Nat, NEW hit, hit = Hit(c, cents, e)
  PROVE  /\ hit \subseteq Payers(c, cents) /\ IsFiniteSet(hit)
         /\ Cardinality(hit) \in Nat /\ Cardinality(hit) <= e
         /\ e <= Cardinality(Payers(c, cents)) => Cardinality(hit) = e
         /\ \A k \in hit, l \in Payers(c, cents) : Rank(c, l) > Rank(c, k) => l \in hit
  <1> DEFINE M == Payers(c, cents)
             later == [k \in M |-> {l \in M : Rank(c, l) > Rank(c, k)}]
  <1>1. IsFiniteSet(M) /\ M \subseteq People(c)
    <2>1. IsFiniteSet(People(c)) /\ M \subseteq People(c)
      BY ProperCall, FirstNumbers DEF Payers
    <2>2. QED
      BY <2>1, FS_Subset
  <1>2. \A k \in M : later[k] = {l \in M : Rank(c, l) > Rank(c, k)}
    OBVIOUS
  <1>3. hit = {k \in M : Cardinality(later[k]) < e}
    BY DEF Hit
  <1>4. /\ \A k \in M : Rank(c, k) \in Nat
        /\ \A k, l \in M : k # l => Rank(c, k) < Rank(c, l) \/ Rank(c, l) < Rank(c, k)
    BY <1>1, RankIs
  <1> HIDE DEF M, later
  <1>5. Order(M, later)
    <2>1. \A k \in M : later[k] \subseteq M /\ k \notin later[k]
      BY <1>2, <1>4
    <2>2. \A k, l \in M : k # l => k \in later[l] \/ l \in later[k]
      BY <1>2, <1>4
    <2>3. ASSUME NEW k \in M, NEW l \in later[k], NEW x \in later[l]
          PROVE  x \in later[k]
      <3>1. l \in M /\ x \in M
        BY <2>1
      <3>2. Rank(c, x) > Rank(c, l) /\ Rank(c, l) > Rank(c, k)
        BY <1>2, <3>1
      <3>3. Rank(c, x) > Rank(c, k)
        BY <1>4, <3>1, <3>2
      <3>4. QED
        BY <1>2, <3>1, <3>3
    <2>4. QED
      BY <1>1, <2>1, <2>2, <2>3 DEF Order
  <1>6. /\ IsFiniteSet(hit) /\ hit \subseteq M
        /\ e <= Cardinality(M) => Cardinality(hit) = e
        /\ e > Cardinality(M) => hit = M
    BY <1>3, <1>5, TopOf
  <1>7. Cardinality(hit) \in Nat /\ Cardinality(M) \in Nat
    BY <1>1, <1>6, FS_CardinalityType
  <1>8. Cardinality(hit) <= e
    BY <1>6, <1>7
  <1>9. ASSUME NEW k \in hit, NEW l \in M, Rank(c, l) > Rank(c, k)
        PROVE  l \in hit
    <2>1. k \in M /\ l \in later[k]
      BY <1>2, <1>3, <1>9
    <2>2. /\ Cardinality(later[l]) < Cardinality(later[k])
          /\ Cardinality(later[l]) \in Nat /\ Cardinality(later[k]) \in Nat
      BY <1>5, <2>1, CountsGrow
    <2>3. Cardinality(later[k]) < e
      BY <1>3
    <2>4. QED
      BY <1>3, <2>2, <2>3
  <1>10. QED
    BY <1>6, <1>7, <1>8, <1>9 DEF M

\* What the passes work on, and what one of them makes of it.
Lefts(c) == [cents : [People(c) -> Nat], excess : Nat]

Back(c, b, left) ==
  IF Hit(c, left.cents, left.excess) = {} THEN left.cents ELSE b[Pass(c, left)]

\* b is what the passes return, and what they return for fewer than m too many.
IsBack(c, b) == b = [left \in Lefts(c) |-> Back(c, b, left)]
IsBackTo(c, b, m) == \A left \in Lefts(c) : left.excess < m => b[left] = Back(c, b, left)

LEMMA PassIs ==
  ASSUME NEW c, Proper(c), NEW left \in Lefts(c), Hit(c, left.cents, left.excess) # {}
  PROVE  Pass(c, left) \in Lefts(c) /\ Pass(c, left).excess < left.excess
  <1> DEFINE hit   == Hit(c, left.cents, left.excess)
             taken == [k \in People(c) |-> left.cents[k] - IF k \in hit THEN 1 ELSE 0]
             rest  == left.excess - Cardinality(hit)
  <1>1. left.cents \in [People(c) -> Nat] /\ left.excess \in Nat
    BY DEF Lefts
  <1>2. /\ hit \subseteq Payers(c, left.cents) /\ IsFiniteSet(hit)
        /\ Cardinality(hit) \in Nat /\ Cardinality(hit) <= left.excess
    BY <1>1, HitIs
  <1>3. Cardinality(hit) # 0
    BY <1>2, FS_EmptySet
  <1>4. Pass(c, left) = [cents |-> taken, excess |-> rest]
    BY DEF Pass
  <1> HIDE DEF hit
  <1>5. \A k \in People(c) : left.cents[k] - (IF k \in hit THEN 1 ELSE 0) \in Nat
    BY <1>1, <1>2 DEF Payers
  <1>6. taken \in [People(c) -> Nat]
    BY <1>5
  <1>7. rest \in Nat /\ rest < left.excess
    BY <1>1, <1>2, <1>3
  <1> HIDE DEF taken, rest
  <1>8. QED
    BY <1>4, <1>6, <1>7 DEF Lefts

\* Two such functions agree as far as both go.
LEMMA BacksAgree ==
  ASSUME NEW c, Proper(c), NEW b, NEW d, NEW m \in Nat, IsBackTo(c, b, m), IsBackTo(c, d, m),
         NEW left \in Lefts(c), left.excess < m
  PROVE  b[left] = d[left]
  <1> DEFINE Differ == {x \in Nat : \E y \in Lefts(c) : y.excess = x /\ x < m /\ b[y] # d[y]}
  <1>1. SUFFICES ASSUME Differ # {}
                 PROVE  FALSE
    BY DEF Lefts
  <1>2. PICK x \in Differ : \A z \in Differ : x <= z
    <2>1. Differ \subseteq Nat
      OBVIOUS
    <2> HIDE DEF Differ
    <2>2. QED
      BY <1>1, <2>1, Least
  <1>3. PICK y \in Lefts(c) : y.excess = x /\ x < m /\ b[y] # d[y]
    OBVIOUS
  <1>4. b[y] = Back(c, b, y) /\ d[y] = Back(c, d, y)
    BY <1>3 DEF IsBackTo
  <1>5. Hit(c, y.cents, y.excess) # {}
    BY <1>3, <1>4 DEF Back
  <1> DEFINE z == Pass(c, y)
  <1>6. z \in Lefts(c) /\ z.excess < x /\ z.excess \in Nat
    BY <1>3, <1>5, PassIs DEF Lefts
  <1>7. b[z] # d[z]
    BY <1>3, <1>4, <1>5 DEF Back
  <1> HIDE DEF z
  <1>8. z.excess \in Differ
    BY <1>3, <1>6, <1>7
  <1>9. QED
    BY <1>2, <1>6, <1>8

\* There is one however far it is to go.
LEMMA BackGrows ==
  ASSUME NEW c, Proper(c), NEW m \in Nat
  PROVE  \E b : IsBackTo(c, b, m)
  <1> DEFINE Bad == {x \in Nat : ~\E b : IsBackTo(c, b, x)}
  <1>1. SUFFICES ASSUME Bad # {}
                 PROVE  FALSE
    OBVIOUS
  <1>2. PICK x \in Bad : \A z \in Bad : x <= z
    <2>1. Bad \subseteq Nat
      OBVIOUS
    <2> HIDE DEF Bad
    <2>2. QED
      BY <1>1, <2>1, Least
  <1>3. x # 0
    <2>1. ASSUME x = 0
          PROVE  IsBackTo(c, {}, x)
      BY <2>1 DEF IsBackTo, Lefts
    <2>2. QED
      BY <2>1
  <1>4. x - 1 \in Nat /\ x - 1 \notin Bad
    BY <1>2, <1>3
  <1>5. PICK b : IsBackTo(c, b, x - 1)
    BY <1>4
  <1> DEFINE d == [left \in Lefts(c) |-> Back(c, b, left)]
  <1>6. ASSUME NEW left \in Lefts(c), left.excess < x - 1
        PROVE  d[left] = b[left]
    BY <1>5, <1>6 DEF IsBackTo
  <1>7. ASSUME NEW left \in Lefts(c), left.excess < x
        PROVE  d[left] = Back(c, d, left)
    <2>1. d[left] = Back(c, b, left)
      OBVIOUS
    <2>2. CASE Hit(c, left.cents, left.excess) = {}
      BY <2>1, <2>2 DEF Back
    <2>3. CASE Hit(c, left.cents, left.excess) # {}
      <3> DEFINE z == Pass(c, left)
      <3>1. z \in Lefts(c) /\ z.excess < left.excess /\ z.excess \in Nat /\ left.excess \in Nat
        BY <2>3, PassIs DEF Lefts
      <3> HIDE DEF d, z
      <3>2. d[z] = b[z]
        BY <1>2, <1>6, <1>7, <3>1
      <3>3. QED
        BY <2>1, <2>3, <3>2 DEF Back, z
    <2>4. QED
      BY <2>2, <2>3
  <1> HIDE DEF d
  <1>8. IsBackTo(c, d, x)
    BY <1>7 DEF IsBackTo
  <1>9. QED
    BY <1>8

\* TakeBack is what its equation says.
LEMMA TakeBackIs ==
  ASSUME NEW c, Proper(c)
  PROVE  IsBack(c, TakeBack(c))
  <1> DEFINE to(m) == CHOOSE b : IsBackTo(c, b, m)
             b == [left \in Lefts(c) |-> to(left.excess + 1)[left]]
  <1>1. \A m \in Nat : IsBackTo(c, to(m), m)
    BY BackGrows
  <1> HIDE DEF to
  <1>2. ASSUME NEW left \in Lefts(c)
        PROVE  b[left] = Back(c, b, left)
    <2> DEFINE m == left.excess + 1
               g == to(m)
    <2>1. m \in Nat /\ left.excess \in Nat /\ left.excess < m
      BY DEF Lefts
    <2>2. b[left] = g[left]
      OBVIOUS
    <2>3. g[left] = Back(c, g, left) /\ IsBackTo(c, g, m)
      BY <1>1, <2>1 DEF IsBackTo
    <2>4. CASE Hit(c, left.cents, left.excess) = {}
      BY <2>2, <2>3, <2>4 DEF Back
    <2>5. CASE Hit(c, left.cents, left.excess) # {}
      <3> DEFINE z == Pass(c, left)
                 l == z.excess + 1
                 h == to(l)
      <3>1. z \in Lefts(c) /\ z.excess < left.excess /\ z.excess \in Nat
        BY <2>5, PassIs DEF Lefts
      <3>2. b[z] = h[z]
        BY <3>1
      <3>3. l \in Nat /\ l <= m /\ z.excess < l
        BY <2>1, <3>1
      <3> HIDE DEF b, z, l, m
      <3>4. IsBackTo(c, h, l)
        BY <1>1, <3>3
      <3>5. IsBackTo(c, g, l)
        <4> HIDE DEF g
        <4>1. \A x \in Lefts(c) : x.excess \in Nat
          BY DEF Lefts
        <4>2. \A x \in Lefts(c) : x.excess < l => x.excess < m
          BY <2>1, <3>3, <4>1
        <4>3. QED
          BY <2>3, <4>2 DEF IsBackTo
      <3> HIDE DEF g, h
      <3>6. h[z] = g[z]
        BY <3>1, <3>3, <3>4, <3>5, BacksAgree
      <3>7. QED
        BY <2>2, <2>3, <2>5, <3>2, <3>6 DEF Back, z
    <2>6. QED
      BY <2>4, <2>5
  <1>3. b = [left \in Lefts(c) |-> b[left]]
    OBVIOUS
  <1> HIDE DEF b
  <1>4. IsBack(c, b)
    <2>1. [left \in Lefts(c) |-> b[left]] = [left \in Lefts(c) |-> Back(c, b, left)]
      BY <1>2
    <2>2. QED
      BY <1>3, <2>1 DEF IsBack
  <1>5. TakeBack(c) = CHOOSE d : IsBack(c, d)
    BY DEF TakeBack, IsBack, Back, Lefts
  <1>6. QED
    BY <1>4, <1>5

\* What is taken back is what was too much, a cent from each of those hit by the
\* one pass that takes anything.
LEMMA TakenBack ==
  ASSUME NEW c, ByShareCall(c), Remainder(c) < 0, NEW e, e = -Remainder(c),
         NEW hit, hit = Hit(c, Parts(c), e),
         NEW o, o = TakeBack(c)[[cents |-> Parts(c), excess |-> e]]
  PROVE  /\ o \in [People(c) -> Nat]
         /\ SumFunctionOnSet(o, People(c)) = TotalCents(c)
         /\ \A k \in People(c) : o[k] = Parts(c)[k] - IF k \in hit THEN 1 ELSE 0
  <1> DEFINE M     == People(c)
             parts == Parts(c)
             T     == TotalCents(c)
             u     == SumFunctionOnSet(parts, M)
             left  == [cents |-> parts, excess |-> e]
             taken == [k \in M |-> parts[k] - IF k \in hit THEN 1 ELSE 0]
             next  == Pass(c, left)
             loss  == [k \in M |-> IF k \in hit THEN 1 ELSE 0]
  <1>1. Proper(c)
    BY DEF ByShareCall
  <1>2. /\ IsFiniteSet(M) /\ parts \in [M -> Nat] /\ Remainder(c) \in Int /\ T \in Nat
        /\ u \in Int /\ Remainder(c) = T - u
        /\ 2 * (-Remainder(c)) <= Cardinality(Payers(c, parts))
    BY RemainderIsSmall
  <1>3. Cardinality(Payers(c, parts)) \in Nat
    <2>1. IsFiniteSet(Payers(c, parts))
      BY <1>2, FS_Subset DEF Payers
    <2>2. QED
      BY <2>1, FS_CardinalityType
  <1>4. e \in Nat /\ e > 0 /\ e = u - T /\ e <= Cardinality(Payers(c, parts))
    <2> DEFINE R == Remainder(c)
               m == Cardinality(Payers(c, parts))
    <2>1. R \in Int /\ R < 0 /\ e = -R /\ R = T - u /\ 2 * (-R) <= m /\ m \in Nat
          /\ T \in Nat /\ u \in Int
      BY <1>2, <1>3
    <2> HIDE DEF R, m, T, u
    <2>2. QED
      BY <2>1 DEF m
  <1>5. hit \subseteq Payers(c, parts) /\ IsFiniteSet(hit) /\ Cardinality(hit) = e
    BY <1>1, <1>4, HitIs
  <1>6. hit # {} /\ hit \subseteq M /\ \A k \in hit : parts[k] > 0
    BY <1>4, <1>5, FS_EmptySet DEF Payers
  <1>7. left \in Lefts(c)
    BY <1>2, <1>4 DEF Lefts
  <1>8. IsBack(c, TakeBack(c))
    BY <1>1, TakeBackIs
  <1>9. o = TakeBack(c)[next]
    <2>1. o = Back(c, TakeBack(c), left)
      BY <1>7, <1>8 DEF IsBack
    <2>2. Hit(c, left.cents, left.excess) # {}
      BY <1>6
    <2> HIDE DEF left
    <2>3. QED
      BY <2>1, <2>2 DEF Back
  <1>10. next = [cents |-> taken, excess |-> 0] /\ next \in Lefts(c)
    <2>1. left.cents = parts /\ left.excess = e
      OBVIOUS
    <2>2. Hit(c, left.cents, left.excess) = hit
      BY <2>1
    <2>3. next \in Lefts(c)
      BY <1>1, <1>6, <1>7, <2>2, PassIs
    <2> HIDE DEF left
    <2>4. next = [cents |-> taken, excess |-> e - Cardinality(hit)]
      BY <2>1, <2>2 DEF Pass
    <2>5. e - Cardinality(hit) = 0
      BY <1>4, <1>5
    <2>6. QED
      BY <2>3, <2>4, <2>5
  <1> HIDE DEF next
  <1>11. o = taken
    <2>1. o = Back(c, TakeBack(c), next)
      BY <1>8, <1>9, <1>10 DEF IsBack
    <2>2. next.cents = taken /\ next.excess = 0
      BY <1>10
    <2> HIDE DEF taken
    <2>3. Hit(c, taken, 0) = {}
      <3>1. IsFiniteSet(Hit(c, taken, 0)) /\ Cardinality(Hit(c, taken, 0)) = 0
        <4> DEFINE none == Hit(c, taken, 0)
        <4>1. IsFiniteSet(none) /\ Cardinality(none) \in Nat /\ Cardinality(none) <= 0
          BY <1>1, HitIs
        <4> HIDE DEF none
        <4>2. IsFiniteSet(none) /\ Cardinality(none) = 0
          BY <4>1
        <4>3. QED
          BY <4>2 DEF none
      <3>2. QED
        BY <3>1, FS_EmptySet
    <2>4. Hit(c, next.cents, next.excess) = {}
      BY <2>2, <2>3
    <2>5. QED
      BY <2>1, <2>2, <2>4 DEF Back
  <1>12. \A k \in M : /\ o[k] = parts[k] - loss[k] /\ loss[k] \in {0, 1}
                      /\ (loss[k] = 1 <=> k \in hit) /\ parts[k] \in Nat
    BY <1>2, <1>11
  <1>13. \A k \in M : o[k] = parts[k] - IF k \in hit THEN 1 ELSE 0
    BY <1>11
  <1>14. o \in [M -> Nat]
    <2>1. \A k \in M : parts[k] - (IF k \in hit THEN 1 ELSE 0) \in Nat
      BY <1>2, <1>6
    <2>2. taken \in [M -> Nat]
      BY <2>1
    <2>3. QED
      BY <1>11, <2>2
  <1> HIDE DEF taken, loss, parts
  <1>15. SumFunctionOnSet(loss, M) = e
    <2>1. SumFunctionOnSet(loss, M) = Cardinality({k \in M : loss[k] = 1})
      <3>1. IsFiniteSet(M) /\ \A k \in M : loss[k] \in {0, 1}
        BY <1>2, <1>12
      <3>2. QED
        BY <3>1, SumCount
    <2>2. {k \in M : loss[k] = 1} = hit
      BY <1>6, <1>12
    <2>3. QED
      BY <1>5, <2>1, <2>2
  <1>16. SumFunctionOnSet(o, M) = T
    <2>1. IsFiniteSet(M) /\ \A k \in M : o[k] \in Int /\ loss[k] \in Int /\ parts[k] = o[k] + loss[k]
      <3>1. \A k \in M : o[k] \in Nat
        BY <1>14
      <3>2. QED
        BY <1>2, <1>12, <3>1
    <2>2. /\ u = SumFunctionOnSet(o, M) + SumFunctionOnSet(loss, M)
          /\ SumFunctionOnSet(o, M) \in Int
      <3> HIDE DEF M, u
      <3>1. SumFunctionOnSet(parts, M) = SumFunctionOnSet(o, M) + SumFunctionOnSet(loss, M)
        BY <2>1, SumPlus
      <3>2. SumFunctionOnSet(o, M) \in Int
        BY <2>1, SumInt
      <3>3. QED
        BY <3>1, <3>2 DEF u
    <2> HIDE DEF u, T
    <2>3. QED
      BY <1>2, <1>4, <1>15, <2>2
  <1>17. QED
    BY <1>13, <1>14, <1>16 DEF parts

-----------------------------------------------------------------------------
(* Splitting by share: exact and fair *)

\* The share of the total somebody owes: rounded, and a cent more for the first
\* or a cent less for the last of them.
LEMMA SharesAreSplit ==
  ASSUME NEW c, Proper(c), c.kind = "share", CalculateShares(c).outcome = "ok",
         NEW o, o = CalculateShares(c).owed
  PROVE  /\ ByShareCall(c)
         /\ o \in [People(c) -> Nat]
         /\ SumFunctionOnSet(o, People(c)) = TotalCents(c)
         /\ \A k \in People(c) : /\ o[k] <= RoundedPart(c, k) + 1
                                 /\ o[k] >= RoundedPart(c, k) - 1
         /\ \A k, l \in People(c) : k \in Before(c)[l] => o[k] >= o[l]
  <1> DEFINE M == People(c)
             R == Remainder(c)
             parts == Parts(c)
             e == -R
             hit == Hit(c, parts, e)
  <1>1. CalculateShares(c) = ByShare(c)
    BY ByKind
  <1>2. InRange(c)
    <2>1. ASSUME ~InRange(c)
          PROVE  FALSE
      <3>1. ByShare(c) = Refuse("ErrInvalidSplit")
        BY <2>1 DEF ByShare
      <3>2. QED
        BY <1>1, <3>1 DEF Refuse
    <2>2. QED
      BY <2>1
  <1>3. ByShareCall(c)
    BY <1>2 DEF ByShareCall
  <1>4. /\ R \in Int
        /\ \A k \in M : parts[k] = RoundedPart(c, k) /\ parts[k] \in Nat
        /\ \A k \in M : Rank(c, k) \in Nat
        /\ \A k, l \in M : k \in Before(c)[l] =>
             /\ c.people[k].share >= c.people[l].share /\ parts[k] >= parts[l]
             /\ Rank(c, k) < Rank(c, l)
    <2>1. /\ R \in Int
          /\ \A k \in M : parts[k] = RoundedPart(c, k) /\ parts[k] \in Nat
      BY <1>3, RemainderIsSmall DEF Parts
    <2>2. /\ \A k \in M : Rank(c, k) \in Nat
          /\ \A k, l \in M : k \in Before(c)[l] => Rank(c, k) < Rank(c, l)
      BY RankIs
    <2>3. \A k, l \in M : k \in Before(c)[l] => c.people[k].share >= c.people[l].share
      <3>1. \A k \in M : c.people[k].share \in Int
        BY ProperCall
      <3>2. QED
        BY <3>1 DEF Before
    <2>4. \A k, l \in M : k \in Before(c)[l] => parts[k] >= parts[l]
      BY <1>3, <2>1, <2>3, PartsGrow
    <2>5. QED
      BY <2>1, <2>2, <2>3, <2>4
  <1>5. ByShare(c) = IF R >= 0 THEN Accept(HandOut(c, parts, R))
                     ELSE Accept(TakeBack(c)[[cents |-> parts, excess |-> e]])
    <2>1. R >= 0 \/ R < 0
      BY <1>4
    <2>2. /\ R >= 0 => ByShare(c) = Accept(HandOut(c, parts, R))
          /\ R < 0 => ByShare(c) = Accept(TakeBack(c)[[cents |-> parts, excess |-> e]])
      BY <1>2, <1>4 DEF ByShare, Remainder, Parts
    <2> HIDE DEF R
    <2>3. QED
      BY <1>4, <2>1, <2>2
  <1> HIDE DEF parts, R
  <1>6. CASE R >= 0
    <2>1. o = HandOut(c, parts, R)
      <3>1. ByShare(c) = Accept(HandOut(c, parts, R))
        BY <1>5, <1>6
      <3>2. QED
        BY <1>1, <3>1 DEF Accept
    <2>2. /\ o \in [M -> Nat] /\ SumFunctionOnSet(o, M) = TotalCents(c)
          /\ \A k \in M : o[k] = parts[k] + IF Rank(c, k) <= R THEN 1 ELSE 0
      BY <1>3, <1>6, <2>1, HandedOut DEF parts, R
    <2>3. \A k \in M : o[k] <= parts[k] + 1 /\ o[k] >= parts[k] - 1
      BY <1>4, <2>2
    <2>4. \A k, l \in M : k \in Before(c)[l] => o[k] >= o[l]
      <3> SUFFICES ASSUME NEW k \in M, NEW l \in M, k \in Before(c)[l]
                   PROVE  o[k] >= o[l]
        OBVIOUS
      <3>1. /\ parts[k] \in Nat /\ parts[l] \in Nat /\ parts[k] >= parts[l]
            /\ Rank(c, k) \in Nat /\ Rank(c, l) \in Nat /\ Rank(c, k) < Rank(c, l)
        BY <1>4
      <3>2. /\ o[k] = parts[k] + IF Rank(c, k) <= R THEN 1 ELSE 0
            /\ o[l] = parts[l] + IF Rank(c, l) <= R THEN 1 ELSE 0
        BY <2>2
      <3>3. Rank(c, l) <= R => Rank(c, k) <= R
        BY <1>4, <3>1
      <3>4. QED
        BY <3>1, <3>2, <3>3
    <2>5. QED
      BY <1>3, <1>4, <2>2, <2>3, <2>4
  <1>7. CASE R < 0
    <2>1. o = TakeBack(c)[[cents |-> parts, excess |-> e]]
      <3>1. ~(R >= 0)
        BY <1>4, <1>7
      <3>2. ByShare(c) = Accept(TakeBack(c)[[cents |-> parts, excess |-> e]])
        BY <1>5, <3>1
      <3>3. QED
        BY <1>1, <3>2 DEF Accept
    <2>2. /\ o \in [M -> Nat] /\ SumFunctionOnSet(o, M) = TotalCents(c)
          /\ \A k \in M : o[k] = parts[k] - IF k \in hit THEN 1 ELSE 0
      BY <1>3, <1>7, <2>1, TakenBack DEF parts, R
    <2>3. \A k \in M : o[k] <= parts[k] + 1 /\ o[k] >= parts[k] - 1
      BY <1>4, <2>2
    <2>4. /\ hit \subseteq Payers(c, parts)
          /\ \A k \in hit, l \in Payers(c, parts) : Rank(c, l) > Rank(c, k) => l \in hit
      <3>1. e \in Nat
        BY <1>4, <1>7
      <3> HIDE DEF e
      <3>2. QED
        BY <3>1, HitIs
    <2>5. \A k, l \in M : k \in Before(c)[l] => o[k] >= o[l]
      <3> SUFFICES ASSUME NEW k \in M, NEW l \in M, k \in Before(c)[l]
                   PROVE  o[k] >= o[l]
        OBVIOUS
      <3>1. /\ parts[k] \in Nat /\ parts[l] \in Nat /\ parts[k] >= parts[l]
            /\ Rank(c, l) > Rank(c, k)
        BY <1>4
      <3>2. /\ o[k] = parts[k] - IF k \in hit THEN 1 ELSE 0
            /\ o[l] = parts[l] - IF l \in hit THEN 1 ELSE 0
        BY <2>2
      <3>3. k \in hit /\ parts[k] = parts[l] => l \in hit
        <4>1. k \in hit /\ parts[k] = parts[l] => l \in Payers(c, parts)
          BY <2>4 DEF Payers
        <4>2. QED
          BY <2>4, <3>1, <4>1
      <3> HIDE DEF hit
      <3>4. QED
        BY <3>1, <3>2, <3>3
    <2>6. QED
      BY <1>3, <1>4, <2>2, <2>3, <2>5
  <1>8. QED
    BY <1>4, <1>6, <1>7

-----------------------------------------------------------------------------
(* What every return satisfies *)

\* A call is answered once, with what CalculateShares gives for its arguments.
Answered ==
  /\ call \in Calls
  /\ \/ outcome = "pending" /\ owed = <<>>
     \/ outcome = CalculateShares(call).outcome /\ owed = CalculateShares(call).owed

LEMMA AnsweredIsInvariant == SplitSpec => []Answered
  <1>1. SplitInit => Answered
    BY DEF SplitInit, Answered
  <1>2. Answered /\ [SplitNext]_splitVars => Answered'
    BY DEF Answered, SplitNext, SplitReturn, Finished, splitVars
  <1>3. QED
    BY <1>1, <1>2, PTL DEF SplitSpec

\* Only a call with a bill and participants is accepted.
LEMMA AcceptedIsProper ==
  ASSUME Answered, Accepted
  PROVE  /\ Proper(call) /\ CalculateShares(call).outcome = "ok"
         /\ owed = CalculateShares(call).owed
  <1>1. /\ call \in Calls /\ CalculateShares(call).outcome = "ok"
        /\ owed = CalculateShares(call).owed
    BY DEF Answered, Accepted
  <1>2. call.total \in Int
    BY <1>1, CallsAssumption
  <1>3. ASSUME call.total <= 0 \/ call.people = <<>>
        PROVE  FALSE
    <2>1. CalculateShares(call) = Refuse("ErrInvalidSplit")
      BY <1>3 DEF CalculateShares
    <2>2. QED
      BY <1>1, <2>1 DEF Refuse
  <1>4. QED
    BY <1>1, <1>2, <1>3 DEF Proper

\* A bill split equally or by ratio is Divided, by as many parts for each as the
\* kind says.
LEMMA AcceptedIsDivided ==
  ASSUME Answered, Accepted, call.kind \in {"equal", "ratio"},
         NEW n, n = Len(call.people)
  PROVE  \E p : /\ Divided(owed, n, call.total, p) /\ Len(owed) = n
                /\ SumOf(owed) = SumTo(owed, n) /\ People(call) = 1 .. n
                /\ call.kind = "equal" => /\ \A k \in People(call) : p[k] = 1
                                          /\ SumTo(p, n) = n
                /\ call.kind = "ratio" =>
                     /\ \A k \in People(call) : p[k] = call.people[k].ratio
                     /\ SumTo(p, n) = SumOf(Column(call, "ratio"))
  <1>1. /\ Proper(call) /\ CalculateShares(call).outcome = "ok"
        /\ owed = CalculateShares(call).owed
    BY AcceptedIsProper
  <1>2. People(call) = 1 .. n /\ n \in Nat
    BY <1>1, ProperCall
  <1>3. CASE call.kind = "equal"
    <2> DEFINE p == [k \in People(call) |-> 1]
    <2>1. Divided(owed, n, call.total, p) /\ SumTo(p, n) = n /\ Len(owed) = n
      <3> HIDE DEF p
      <3>1. p = [k \in People(call) |-> 1]
        BY DEF p
      <3>2. QED
        BY <1>1, <1>3, <3>1, EqualDivides
    <2>2. \A k \in People(call) : p[k] = 1
      OBVIOUS
    <2> HIDE DEF p
    <2>3. SumOf(owed) = SumTo(owed, n)
      BY <2>1 DEF SumOf
    <2>4. QED
      BY <1>2, <1>3, <2>1, <2>2, <2>3
  <1>4. CASE call.kind = "ratio"
    <2> DEFINE p == Column(call, "ratio")
    <2>1. Divided(owed, n, call.total, p) /\ Len(owed) = n
      <3> HIDE DEF p
      <3>1. p = Column(call, "ratio")
        BY DEF p
      <3>2. QED
        BY <1>1, <1>4, <3>1, RatioDivides
    <2>2. \A k \in People(call) : p[k] = call.people[k].ratio
      BY DEF Column
    <2>3. Len(p) = n
      <3>1. DOMAIN p = 1 .. n
        BY <1>2 DEF Column
      <3>2. QED
        BY <1>2, <3>1 DEF Column
    <2>4. SumOf(owed) = SumTo(owed, n) /\ SumTo(p, n) = SumOf(Column(call, "ratio"))
      BY <2>1, <2>3 DEF SumOf
    <2> HIDE DEF p
    <2>5. QED
      BY <1>2, <1>4, <2>1, <2>2, <2>4
  <1>5. QED
    BY <1>3, <1>4

\* However a bill is split equally or by ratio, the parts calculateEqual and
\* calculateByRatio return add up to the total, or to one cent more when the
\* last participant is to get one; split by amounts in whole cents the parts are
\* those amounts, and add up to the total.
THEOREM SumsAreClose == SplitSpec => []SumIsClose
  <1>1. ASSUME Answered, Accepted, call.kind \in {"equal", "ratio"}
        PROVE  SumOf(owed) - TotalCents(call) \in {0} \cup {d \in {1} : owed[Len(owed)] <= 0}
    <2> DEFINE n == Len(call.people)
    <2>1. PICK p : /\ Divided(owed, n, call.total, p) /\ Len(owed) = n
                   /\ SumOf(owed) = SumTo(owed, n)
      BY <1>1, AcceptedIsDivided
    <2>2. \/ SumTo(owed, n) = TotalCents(call)
          \/ SumTo(owed, n) = TotalCents(call) + 1 /\ owed[n] <= 0
      BY <2>1, DividedAddsUp DEF TotalCents
    <2>3. TotalCents(call) \in Int
      <3>1. call.total \in Int
        BY <2>1 DEF Divided
      <3>2. QED
        BY <3>1, GrainAssumption, RoundIs DEF TotalCents
    <2> HIDE DEF n
    <2>4. QED
      BY <2>1, <2>2, <2>3
  <1>2. ASSUME Answered, Accepted, call.kind = "amount",
               \A k \in People(call) : call.people[k].amount % Grain = 0
        PROVE  SumOf(owed) = TotalCents(call)
    BY <1>2, AcceptedIsProper, AmountsAddUp
  <1>3. Answered => SumIsClose
    BY <1>1, <1>2 DEF SumIsClose
  <1>4. QED
    BY <1>3, AnsweredIsInvariant, PTL

\* Split equally or by ratio, every part calculateEqual and calculateByRatio
\* return is within half a cent of the exact one, but for the last, which is
\* within half a cent for each participant.
THEOREM ErrorsAreBounded == SplitSpec => []ErrorIsBounded
  <1>1. ASSUME Answered, Accepted, call.kind \in {"equal", "ratio"}, NEW k \in People(call)
        PROVE  LET n    == Len(call.people)
                   part == IF call.kind = "equal" THEN 1 ELSE call.people[k].ratio
                   all  == IF call.kind = "equal" THEN n ELSE SumOf(Column(call, "ratio"))
                   off  == 2 * (owed[k] * Grain * all - call.total * part)
                   room == (IF k < n THEN 1 ELSE n) * Grain * all
               IN  off <= room /\ -off <= room
    <2> DEFINE n    == Len(call.people)
               part == IF call.kind = "equal" THEN 1 ELSE call.people[k].ratio
               all  == IF call.kind = "equal" THEN n ELSE SumOf(Column(call, "ratio"))
    <2>1. PICK p : /\ Divided(owed, n, call.total, p) /\ People(call) = 1 .. n
                   /\ call.kind = "equal" => /\ \A l \in People(call) : p[l] = 1
                                             /\ SumTo(p, n) = n
                   /\ call.kind = "ratio" =>
                        /\ \A l \in People(call) : p[l] = call.people[l].ratio
                        /\ SumTo(p, n) = SumOf(Column(call, "ratio"))
      BY <1>1, AcceptedIsDivided
    <2>2. p[k] = part /\ SumTo(p, n) = all
      BY <1>1, <2>1
    <2>3. k \in 1 .. n
      BY <1>1, <2>1
    <2> HIDE DEF n, part, all
    <2>4. LET off  == 2 * (owed[k] * Grain * SumTo(p, n) - call.total * p[k])
              room == (IF k < n THEN 1 ELSE n) * Grain * SumTo(p, n)
          IN  off <= room /\ -off <= room
      BY <2>1, <2>3, DividedIsClose
    <2>5. LET off  == 2 * (owed[k] * Grain * all - call.total * part)
              room == (IF k < n THEN 1 ELSE n) * Grain * all
          IN  off <= room /\ -off <= room
      BY <2>2, <2>4
    <2>6. QED
      BY <2>5 DEF n, part, all
  <1>2. Answered => ErrorIsBounded
    BY <1>1 DEF ErrorIsBounded
  <1>3. QED
    BY <1>2, AnsweredIsInvariant, PTL

\* However a bill is split by share, the parts calculateByShare returns add up
\* to the total to the cent, and nobody's is less than nothing.
THEOREM SharesAreExact == SplitSpec => []ShareIsExact
  <1>1. ASSUME Answered, Accepted, call.kind = "share"
        PROVE  /\ SumOf(owed) = TotalCents(call)
               /\ \A k \in People(call) : owed[k] >= 0
    <2> DEFINE n == Len(call.people)
    <2>1. /\ Proper(call) /\ CalculateShares(call).outcome = "ok"
          /\ owed = CalculateShares(call).owed
      BY <1>1, AcceptedIsProper
    <2>2. /\ owed \in [People(call) -> Nat]
          /\ SumFunctionOnSet(owed, People(call)) = TotalCents(call)
      BY <1>1, <2>1, SharesAreSplit
    <2>3. n \in Nat /\ People(call) = 1 .. n
      BY <2>1, ProperCall
    <2> HIDE DEF n
    <2>4. Len(owed) = n
      BY <2>2, <2>3, ListOf
    <2>5. SumOf(owed) = TotalCents(call)
      BY <2>2, <2>3, <2>4 DEF SumOf, SumTo
    <2>6. QED
      BY <2>2, <2>5
  <1>2. Answered => ShareIsExact
    BY <1>1 DEF ShareIsExact
  <1>3. QED
    BY <1>2, AnsweredIsInvariant, PTL

\* Split by share, a part calculateByShare returns is less than two cents off
\* the exact one, and who has more shares, or as many and an earlier place in
\* the list, never pays less.
THEOREM SharesAreFair == SplitSpec => []ShareIsFair
  <1>1. ASSUME Answered, Accepted, call.kind = "share"
        PROVE  /\ \A k \in People(call) :
                    /\ owed[k] <= RoundedPart(call, k) + 1
                    /\ owed[k] >= RoundedPart(call, k) - 1
                    /\ owed[k] \in Int
               /\ \A k, l \in People(call) : k \in Before(call)[l] => owed[k] >= owed[l]
               /\ ByShareCall(call)
    <2>1. /\ Proper(call) /\ CalculateShares(call).outcome = "ok"
          /\ owed = CalculateShares(call).owed
      BY <1>1, AcceptedIsProper
    <2>2. /\ owed \in [People(call) -> Nat] /\ ByShareCall(call)
          /\ \A k \in People(call) : /\ owed[k] <= RoundedPart(call, k) + 1
                                     /\ owed[k] >= RoundedPart(call, k) - 1
          /\ \A k, l \in People(call) : k \in Before(call)[l] => owed[k] >= owed[l]
      BY <1>1, <2>1, SharesAreSplit
    <2>3. QED
      BY <2>2
  <1>2. ASSUME Answered, Accepted, call.kind = "share", NEW k \in People(call)
        PROVE  LET off == owed[k] * SumShare(call) - TotalCents(call) * call.people[k].share
               IN  off < 2 * SumShare(call) /\ -off < 2 * SumShare(call)
    <2> DEFINE S == SumShare(call)
               x == TotalCents(call) * call.people[k].share
               p == RoundedPart(call, k)
               o == owed[k]
    <2>1. ByShareCall(call) /\ o \in Int /\ o <= p + 1 /\ o >= p - 1
      BY <1>1, <1>2
    <2>2. S \in Nat \ {0} /\ x \in 0 .. MaxInt
      BY <2>1, ProductsFit
    <2>3. p \in Nat /\ 2 * (S * p) - 2 * x <= S /\ 2 * x - 2 * (S * p) < S
      <3> HIDE DEF S, x, p
      <3>1. QED
        BY <2>1, PartIsRounded DEF S, x, p
    <2>4. x \in Int
      BY <2>2, MaxIntAssumption
    <2> HIDE DEF S, x, p, o
    <2>5. o \in {p - 1, p, p + 1}
      BY <2>1, <2>3
    <2>6. /\ o * S = S * o /\ S * p \in Int /\ S * o \in Int
          /\ S * (p - 1) = S * p - S /\ S * (p + 1) = S * p + S
      BY <2>1, <2>2, <2>3, SMT
    <2>7. S * o = S * p - S \/ S * o = S * p \/ S * o = S * p + S
      BY <2>5, <2>6
    <2>8. o * S - x < 2 * S /\ -(o * S - x) < 2 * S
      BY <2>2, <2>3, <2>4, <2>6, <2>7
    <2>9. QED
      BY <2>8 DEF S, x, o
  <1>3. ASSUME Answered, Accepted, call.kind = "share",
               NEW k \in People(call), NEW l \in People(call),
               \/ call.people[k].share > call.people[l].share
               \/ call.people[k].share = call.people[l].share /\ k < l
        PROVE  owed[k] >= owed[l]
    <2>1. k \in Before(call)[l]
      BY <1>3 DEF Before
    <2>2. QED
      BY <1>1, <1>3, <2>1
  <1>4. Answered => ShareIsFair
    BY <1>2, <1>3 DEF ShareIsFair
  <1>5. QED
    BY <1>4, AnsweredIsInvariant, PTL

-----------------------------------------------------------------------------
(* The figures of a group *)

\* Every entry of the book is one bill, with a member as its payer.
EntriesAreBills ==
  /\ book = [e \in Ids |-> book[e]]
  /\ \A e \in Ids : \/ book[e] = B!NoEntry
                    \/ \E b \in Bills, p \in Users, s \in {"active", "refunded"} :
                         book[e] = B!Entry(b, p, s)

\* As long as nothing is committed, what has been read is what the same
\* statement would return now.
FiguresAreCurrent ==
  /\ op = "stats" =>
       /\ pc \in {"month", "total", "members", "paid", "owed", "answered"} =>
            got.category = SumByCategory
       /\ pc \in {"total", "members", "paid", "owed", "answered"} => got.month = SumByMonth
       /\ pc \in {"members", "paid", "owed", "answered"} => got.total = TotalByGroup
  /\ pc \in {"owed", "answered"} => got.paid = SumPaidByGroup
  /\ pc = "answered" => got.owed = SumOwedByGroup

ReadsInductive ==
  /\ EntriesAreBills
  /\ members \subseteq Users
  /\ op \in Ops
  /\ pc \in {"category", "month", "total"} => op = "stats"
  /\ DOMAIN got = DOMAIN Nothing
  /\ got.ranked \subseteq Users
  /\ commits \in Nat
  /\ commits = 0 => FiguresAreCurrent

\* The figures are functions of the book alone.
LEMMA SameFigures ==
  ASSUME book' = book
  PROVE  /\ SumByCategory' = SumByCategory
         /\ SumByMonth' = SumByMonth
         /\ TotalByGroup' = TotalByGroup
         /\ SumPaidByGroup' = SumPaidByGroup
         /\ SumOwedByGroup' = SumOwedByGroup
  <1>1. Active' = Active
    BY DEF Active
  <1>2. Amount' = Amount
    BY <1>1 DEF Amount
  <1>3. QED
    BY <1>1, <1>2 DEF SumByCategory, SumByMonth, TotalByGroup, SumPaidByGroup, SumOwedByGroup

LEMMA BooksStayBills ==
  ASSUME EntriesAreBills, B!Next
  PROVE  EntriesAreBills'
  <1>1. PICK e \in Ids : B!Post(e) \/ B!Edit(e) \/ B!Refund(e) \/ B!LateEdit(e)
    BY DEF B!Next
  <1> DEFINE IsBill(x) == \E b \in Bills, p \in Users, s \in {"active", "refunded"} :
                            x = B!Entry(b, p, s)
  <1>2. \E x : IsBill(x) /\ book' = [book EXCEPT ![e] = x]
    <2>1. CASE B!Post(e)
      BY <2>1 DEF B!Post
    <2>2. CASE B!Edit(e) \/ B!LateEdit(e)
      <3>1. PICK b \in Bills : book' = [book EXCEPT ![e] = B!Entry(b, book[e].payer, "active")]
        BY <2>2 DEF B!Edit, B!LateEdit
      <3>2. book[e].payer \in Users
        BY <2>2 DEF B!Edit, B!LateEdit, EntriesAreBills, B!Entry
      <3>3. QED
        BY <3>1, <3>2
    <2>3. CASE B!Refund(e)
      <3>1. PICK b \in Bills, p \in Users, s \in {"active", "refunded"} : book[e] = B!Entry(b, p, s)
        BY <2>3 DEF B!Refund, EntriesAreBills
      <3>2. book' = [book EXCEPT ![e] = [book[e] EXCEPT !.status = "refunded"]]
        BY <2>3 DEF B!Refund
      <3>3. [book[e] EXCEPT !.status = "refunded"] = B!Entry(b, p, "refunded")
        BY <3>1 DEF B!Entry
      <3>4. QED
        BY <3>2, <3>3
    <2>4. QED
      BY <1>1, <2>1, <2>2, <2>3
  <1>3. PICK x : IsBill(x) /\ book' = [book EXCEPT ![e] = x]
    BY <1>2
  <1> HIDE DEF IsBill
  <1>4. \A d \in Ids : book[d] = B!NoEntry \/ IsBill(book[d])
    BY DEF EntriesAreBills, IsBill
  <1>5. book = [d \in Ids |-> book[d]]
    BY DEF EntriesAreBills
  <1>6. /\ book' = [d \in Ids |-> book'[d]]
        /\ \A d \in Ids : book'[d] = B!NoEntry \/ IsBill(book'[d])
    BY <1>3, <1>4, <1>5
  <1>7. QED
    BY <1>6 DEF EntriesAreBills, IsBill, B!NoEntry, B!Entry

LEMMA ReadsInductiveHolds == Spec => []ReadsInductive
  <1>1. Init => ReadsInductive
    <2> SUFFICES ASSUME Init PROVE ReadsInductive
      OBVIOUS
    <2>1. EntriesAreBills
      BY DEF Init, B!Init, EntriesAreBills
    <2>2. QED
      BY <2>1 DEF Init, ReadsInductive, FiguresAreCurrent, Nothing
  <1>2. ReadsInductive /\ [Next]_vars => ReadsInductive'
    <2> SUFFICES ASSUME ReadsInductive, [Next]_vars
                 PROVE  ReadsInductive'
      OBVIOUS
    <2>1. ASSUME book' = book
          PROVE  /\ EntriesAreBills'
                 /\ B!NoEntry' = B!NoEntry
      BY <2>1 DEF ReadsInductive, EntriesAreBills, B!NoEntry, B!Entry
    <2>2. CASE UNCHANGED vars
      BY <2>1, <2>2, SameFigures DEF ReadsInductive, FiguresAreCurrent, vars, Ops, Nothing
    <2>3. CASE CheckMember
      BY <2>1, <2>3, SameFigures
         DEF ReadsInductive, FiguresAreCurrent, CheckMember, env, Ops, Nothing
    <2>4. CASE ReadCategories
      BY <2>1, <2>4, SameFigures
         DEF ReadsInductive, FiguresAreCurrent, ReadCategories, Step, env, Ops, Nothing
    <2>5. CASE ReadMonths
      BY <2>1, <2>5, SameFigures
         DEF ReadsInductive, FiguresAreCurrent, ReadMonths, Step, env, Ops, Nothing
    <2>6. CASE ReadTotal
      BY <2>1, <2>6, SameFigures
         DEF ReadsInductive, FiguresAreCurrent, ReadTotal, Step, env, Ops, Nothing
    <2>7. CASE ListMembers
      BY <2>1, <2>7, SameFigures
         DEF ReadsInductive, FiguresAreCurrent, ListMembers, Step, env, Ops, Nothing
    <2>8. CASE ReadPaid
      BY <2>1, <2>8, SameFigures
         DEF ReadsInductive, FiguresAreCurrent, ReadPaid, Step, env, Ops, Nothing
    <2>9. CASE ReadOwed
      BY <2>1, <2>9, SameFigures
         DEF ReadsInductive, FiguresAreCurrent, ReadOwed, Step, env, Ops, Nothing
    <2>10. CASE Fail
      BY <2>1, <2>10, SameFigures
         DEF ReadsInductive, FiguresAreCurrent, Fail, env, Ops, Nothing
    <2>11. CASE BookStep
      <3>1. EntriesAreBills'
        BY <2>11, BooksStayBills DEF ReadsInductive, BookStep
      <3>2. commits' = 0 => FiguresAreCurrent'
        <4>1. CASE Early
          BY <2>11, <4>1 DEF ReadsInductive, BookStep, Early, FiguresAreCurrent, Ops
        <4>2. CASE ~Early
          BY <2>11, <4>2 DEF ReadsInductive, BookStep
        <4>3. QED
          BY <4>1, <4>2
      <3>3. commits' \in Nat
        BY <2>11 DEF ReadsInductive, BookStep
      <3>4. QED
        BY <2>11, <3>1, <3>2, <3>3 DEF ReadsInductive, BookStep, Nothing
    <2>12. CASE MemberStep
      <3>1. members' \subseteq Users
        BY <2>12 DEF ReadsInductive, MemberStep
      <3>2. QED
        BY <2>1, <2>12, <3>1, SameFigures
           DEF ReadsInductive, FiguresAreCurrent, MemberStep, Nothing
    <2>13. CASE Done
      BY <2>2, <2>13 DEF Done
    <2>14. QED
      BY <2>2, <2>3, <2>4, <2>5, <2>6, <2>7, <2>8, <2>9, <2>10, <2>11, <2>12, <2>13 DEF Next
  <1>3. QED
    BY <1>1, <1>2, PTL DEF Spec


-----------------------------------------------------------------------------
(* What the figures add up to *)

\* An active expense has an amount, a payer, and shares of users.
LEMMA ActiveIs ==
  ASSUME EntriesAreBills
  PROVE  /\ IsFiniteSet(Active) /\ IsFiniteSet(Users) /\ Active \subseteq Ids
         /\ \A e \in Active :
              /\ book[e].amount \in Int /\ book[e].amount >= 0
              /\ book[e].payer \in Users
              /\ DOMAIN book[e].owed \subseteq Users
              /\ \A u \in DOMAIN book[e].owed : book[e].owed[u] \in Int
  <1>1. IsFiniteSet(Active) /\ IsFiniteSet(Users) /\ Active \subseteq Ids
    BY ReadsAssumption, FS_Subset DEF Active
  <1>2. ASSUME NEW e \in Active
        PROVE  /\ book[e].amount \in Int /\ book[e].amount >= 0
               /\ book[e].payer \in Users
               /\ DOMAIN book[e].owed \subseteq Users
               /\ \A u \in DOMAIN book[e].owed : book[e].owed[u] \in Int
    <2>1. PICK b \in Bills, p \in Users, s \in {"active", "refunded"} : book[e] = B!Entry(b, p, s)
      BY DEF EntriesAreBills, Active
    <2>2. book[e].amount = b.amount /\ book[e].owed = b.owed /\ book[e].payer = p
      BY <2>1 DEF B!Entry
    <2>3. /\ b.amount \in Nat /\ DOMAIN b.owed \subseteq Users
          /\ \A u \in DOMAIN b.owed : b.owed[u] \in Int
      BY ReadsAssumption
    <2>4. QED
      BY <2>2, <2>3
  <1>3. QED
    BY <1>1, <1>2

\* Each expense is paid by one user.
LEMMA PaidAddsUp ==
  ASSUME EntriesAreBills
  PROVE  SumFunctionOnSet(SumPaidByGroup, Users) = SumFunctionOnSet(Amount, Active)
  <1> DEFINE payer == [e \in Active |-> book[e].payer]
  <1>1. ByKey(Amount, Active, payer, Users, SumPaidByGroup)
    <2>1. \A e \in Active : Amount[e] \in Int /\ payer[e] \in Users
      BY ActiveIs DEF Amount
    <2>2. ASSUME NEW u \in Users
          PROVE  SumPaidByGroup[u] = SumFunctionOnSet(Amount, {e \in Active : payer[e] = u})
      <3>1. {e \in Active : book[e].payer = u} = {e \in Active : payer[e] = u}
        OBVIOUS
      <3>2. SumPaidByGroup[u] = SumFunctionOnSet(Amount, {e \in Active : book[e].payer = u})
        BY DEF SumPaidByGroup
      <3>3. QED
        BY <3>1, <3>2
    <2>3. QED
      BY <2>1, <2>2, ActiveIs DEF ByKey
  <1> HIDE DEF payer
  <1>2. QED
    BY <1>1, SumByKey

\* What u owes of expense e, as the join of the two tables finds it.
OwedRow(e) == [u \in Users |-> IF u \in DOMAIN book[e].owed THEN book[e].owed[u] ELSE 0]
OwedTable == [e \in Active |-> OwedRow(e)]

\* What the shares of each expense come to.
SharesOf == [e \in Active |-> SumFunctionOnSet(book[e].owed, DOMAIN book[e].owed)]

\* The shares add up to the same by expense and by user.
LEMMA OwedAddsUp ==
  ASSUME EntriesAreBills
  PROVE  /\ \A u \in Users : SumOwedByGroup[u] \in Int
         /\ SumFunctionOnSet(SumOwedByGroup, Users) = SumFunctionOnSet(SharesOf, Active)
  <1>1. \A e \in Active : \A u \in Users : OwedTable[e][u] \in Int
    BY ActiveIs DEF OwedTable, OwedRow
  <1>2. ASSUME NEW e \in Active
        PROVE  SharesOf[e] = SumFunctionOnSet(OwedTable[e], Users)
    <2> DEFINE f == book[e].owed
               T == DOMAIN f
               g == OwedRow(e)
    <2>1. /\ IsFiniteSet(Users) /\ T \subseteq Users
          /\ \A u \in T : f[u] \in Int /\ g[u] = f[u]
          /\ \A u \in Users \ T : g[u] = 0
      BY ActiveIs DEF OwedRow
    <2>2. SharesOf[e] = SumFunctionOnSet(f, T) /\ OwedTable[e] = g
      BY DEF SharesOf, OwedTable
    <2> HIDE DEF f, T, g
    <2>3. SumFunctionOnSet(g, Users) = SumFunctionOnSet(f, T)
      BY <2>1, SumExtends
    <2>4. QED
      BY <2>2, <2>3
  <1>3. Table(OwedTable, Active, Users, SharesOf)
    BY <1>1, <1>2, ActiveIs DEF Table
  <1>4. ASSUME NEW u \in Users
        PROVE  /\ ColumnSums(OwedTable, Users, Active)[u] = SumOwedByGroup[u]
               /\ SumOwedByGroup[u] \in Int
    <2> DEFINE f == [e \in {x \in Active : u \in DOMAIN book[x].owed} |-> book[e].owed[u]]
               T == DOMAIN f
               g == ColumnOf(OwedTable, u, Active)
    <2>1. /\ IsFiniteSet(Active) /\ T \subseteq Active
          /\ \A e \in T : f[e] \in Int /\ g[e] = f[e]
          /\ \A e \in Active \ T : g[e] = 0
      BY ActiveIs DEF OwedTable, OwedRow, ColumnOf
    <2>2. /\ SumOwedByGroup[u] = SumFunctionOnSet(f, T)
          /\ ColumnSums(OwedTable, Users, Active)[u] = SumFunctionOnSet(g, Active)
      BY DEF SumOwedByGroup, ColumnSums
    <2> HIDE DEF f, T, g
    <2>3. SumFunctionOnSet(g, Active) = SumFunctionOnSet(f, T)
      BY <2>1, SumExtends
    <2>4. IsFiniteSet(T)
      BY <2>1, FS_Subset
    <2>5. SumFunctionOnSet(f, T) \in Int
      BY <2>1, <2>4, SumInt
    <2>6. QED
      BY <2>2, <2>3, <2>5
  <1>5. SumFunctionOnSet(ColumnSums(OwedTable, Users, Active), Users)
          = SumFunctionOnSet(SumOwedByGroup, Users)
    BY <1>4, ReadsAssumption, SumSame
  <1>6. SumFunctionOnSet(SharesOf, Active)
          = SumFunctionOnSet(ColumnSums(OwedTable, Users, Active), Users)
    BY <1>3, SumSwap
  <1>7. QED
    BY <1>4, <1>5, <1>6

\* Who paid nothing and has no share has no figures.
LEMMA OthersOweNothing ==
  ASSUME EntriesAreBills, NEW u \in Users,
         \A e \in Active : book[e].payer # u /\ u \notin DOMAIN book[e].owed
  PROVE  SumPaidByGroup[u] = 0 /\ SumOwedByGroup[u] = 0
  <1>1. {e \in Active : book[e].payer = u} = {}
    OBVIOUS
  <1>2. SumPaidByGroup[u] = SumFunctionOnSet(Amount, {})
    BY <1>1 DEF SumPaidByGroup
  <1> DEFINE f == [e \in {x \in Active : u \in DOMAIN book[x].owed} |-> book[e].owed[u]]
  <1>3. DOMAIN f = {}
    OBVIOUS
  <1>4. SumOwedByGroup[u] = SumFunctionOnSet(f, DOMAIN f)
    BY DEF SumOwedByGroup
  <1>5. SumOwedByGroup[u] = SumFunctionOnSet(f, {})
    BY <1>3, <1>4
  <1>6. QED
    BY <1>2, <1>5, SumEmpty


\* What an expense leaves, and what its shares come to, are its amount.
LEMMA SlackAddsUp ==
  ASSUME EntriesAreBills
  PROVE  /\ SumFunctionOnSet(Amount, Active)
              = SumFunctionOnSet(Slack, Active) + SumFunctionOnSet(SharesOf, Active)
         /\ SumFunctionOnSet(Slack, Active) \in Int
         /\ SumFunctionOnSet(SharesOf, Active) \in Int
         /\ \A e \in Active : Amount[e] \in Int /\ Amount[e] >= 0
  <1>1. ASSUME NEW e \in Active
        PROVE  /\ SharesOf[e] \in Int /\ Slack[e] \in Int
               /\ Amount[e] = Slack[e] + SharesOf[e] /\ Amount[e] >= 0
    <2> DEFINE f == book[e].owed
               T == DOMAIN f
    <2>1. IsFiniteSet(T) /\ \A u \in T : f[u] \in Int
      BY ActiveIs, FS_Subset
    <2>2. SharesOf[e] = SumFunctionOnSet(f, T)
      BY DEF SharesOf
    <2>3. Slack[e] = book[e].amount - SumFunctionOnSet(f, T)
      BY DEF Slack
    <2>4. Amount[e] = book[e].amount /\ book[e].amount \in Int /\ book[e].amount >= 0
      BY ActiveIs DEF Amount
    <2> HIDE DEF f, T
    <2>5. SumFunctionOnSet(f, T) \in Int
      BY <2>1, SumInt
    <2>6. QED
      BY <2>2, <2>3, <2>4, <2>5
  <1>2. IsFiniteSet(Active)
    BY ActiveIs
  <1>3. SumFunctionOnSet(Amount, Active)
          = SumFunctionOnSet(Slack, Active) + SumFunctionOnSet(SharesOf, Active)
    BY <1>1, <1>2, SumPlus
  <1>4. SumFunctionOnSet(Slack, Active) \in Int /\ SumFunctionOnSet(SharesOf, Active) \in Int
    BY <1>1, <1>2, SumInt
  <1>5. QED
    BY <1>1, <1>3, <1>4

\* The net figures come to what rounding left.
LEMMA NetsAddUp ==
  ASSUME EntriesAreBills, got.paid = SumPaidByGroup, got.owed = SumOwedByGroup
  PROVE  /\ SumFunctionOnSet([u \in Users |-> Net(u)], Users) = SumFunctionOnSet(Slack, Active)
         /\ (\A e \in Active : book[e].payer \in got.ranked /\ DOMAIN book[e].owed \subseteq got.ranked)
              /\ got.ranked \subseteq Users =>
            SumFunctionOnSet([u \in Users |-> Net(u)], got.ranked) = SumFunctionOnSet(Slack, Active)
  <1> DEFINE net == [u \in Users |-> Net(u)]
  <1>1. IsFiniteSet(Users) /\ IsFiniteSet(Active)
    BY ActiveIs
  <1>2. ASSUME NEW u \in Users
        PROVE  SumPaidByGroup[u] \in Int
    <2> DEFINE own == {e \in Active : book[e].payer = u}
    <2>1. IsFiniteSet(own) /\ \A e \in own : Amount[e] \in Int
      BY <1>1, FS_Subset, SlackAddsUp
    <2>2. SumPaidByGroup[u] = SumFunctionOnSet(Amount, own)
      BY DEF SumPaidByGroup
    <2> HIDE DEF own
    <2>3. QED
      BY <2>1, <2>2, SumInt
  <1>3. ASSUME NEW u \in Users
        PROVE  /\ net[u] \in Int /\ SumOwedByGroup[u] \in Int
               /\ SumPaidByGroup[u] = net[u] + SumOwedByGroup[u]
    <2>1. net[u] = SumPaidByGroup[u] - SumOwedByGroup[u]
      BY DEF Net
    <2>2. SumOwedByGroup[u] \in Int
      BY OwedAddsUp
    <2> HIDE DEF net
    <2>3. QED
      BY <1>2, <2>1, <2>2
  <1>4. ASSUME NEW u \in Users,
               \A e \in Active : book[e].payer # u /\ u \notin DOMAIN book[e].owed
        PROVE  net[u] = 0
    <2>1. SumPaidByGroup[u] = 0 /\ SumOwedByGroup[u] = 0
      BY <1>4, OthersOweNothing
    <2>2. net[u] \in Int /\ SumPaidByGroup[u] = net[u] + SumOwedByGroup[u]
      BY <1>3
    <2> HIDE DEF net
    <2>3. QED
      BY <2>1, <2>2
  <1> HIDE DEF net
  <1>5. SumFunctionOnSet(SumPaidByGroup, Users)
          = SumFunctionOnSet(net, Users) + SumFunctionOnSet(SumOwedByGroup, Users)
    BY <1>1, <1>3, SumPlus
  <1>6. SumFunctionOnSet(net, Users) \in Int
    BY <1>1, <1>3, SumInt
  <1>7. SumFunctionOnSet(net, Users) = SumFunctionOnSet(Slack, Active)
    <2>1. /\ SumFunctionOnSet(SumPaidByGroup, Users) = SumFunctionOnSet(Amount, Active)
          /\ SumFunctionOnSet(SumOwedByGroup, Users) = SumFunctionOnSet(SharesOf, Active)
      BY PaidAddsUp, OwedAddsUp
    <2>2. /\ SumFunctionOnSet(Amount, Active)
               = SumFunctionOnSet(Slack, Active) + SumFunctionOnSet(SharesOf, Active)
          /\ SumFunctionOnSet(Slack, Active) \in Int /\ SumFunctionOnSet(SharesOf, Active) \in Int
      BY SlackAddsUp
    <2> DEFINE n == SumFunctionOnSet(net, Users)
               s == SumFunctionOnSet(Slack, Active)
               o == SumFunctionOnSet(SharesOf, Active)
    <2>3. n \in Int /\ s \in Int /\ o \in Int
      BY <1>6, <2>2
    <2>4. n + o = s + o
      BY <1>5, <2>1, <2>2
    <2> HIDE DEF n, s, o
    <2>5. n = s
      BY <2>3, <2>4
    <2>6. QED
      BY <2>5 DEF n, s
  <1>8. ASSUME \A e \in Active : /\ book[e].payer \in got.ranked
                                 /\ DOMAIN book[e].owed \subseteq got.ranked,
               got.ranked \subseteq Users
        PROVE  SumFunctionOnSet(net, got.ranked) = SumFunctionOnSet(Slack, Active)
    <2> DEFINE T == got.ranked
    <2>1. \A u \in Users \ T : net[u] = 0
      BY <1>4, <1>8
    <2>2. /\ T \subseteq Users
          /\ \A u \in T : net[u] \in Int /\ net[u] = net[u]
      BY <1>3, <1>8
    <2> HIDE DEF T
    <2>3. SumFunctionOnSet(net, Users) = SumFunctionOnSet(net, T)
      BY <1>1, <2>1, <2>2, SumExtends
    <2>4. QED
      BY <1>7, <2>3 DEF T
  <1>9. QED
    BY <1>7, <1>8 DEF net

\* Each expense is of one category.
LEMMA CategoriesAddUp ==
  ASSUME EntriesAreBills
  PROVE  /\ SumFunctionOnSet([c \in Categories |-> SumByCategory[c][1]], Categories) = TotalByGroup[1]
         /\ SumFunctionOnSet([c \in Categories |-> SumByCategory[c][2]], Categories) = TotalByGroup[2]
  <1> DEFINE own(c) == {e \in Active : CategoryOf[e] = c}
             ones   == [e \in Active |-> 1]
             sums   == [c \in Categories |-> SumByCategory[c][1]]
             counts == [c \in Categories |-> SumByCategory[c][2]]
  <1>1. IsFiniteSet(Active) /\ IsFiniteSet(Categories) /\ \A e \in Active : CategoryOf[e] \in Categories
    BY ActiveIs, ReadsAssumption
  <1>2. /\ \A c \in Categories : /\ sums[c] = SumFunctionOnSet(Amount, own(c))
                                 /\ counts[c] = Cardinality(own(c))
        /\ TotalByGroup[1] = SumFunctionOnSet(Amount, Active)
        /\ TotalByGroup[2] = Cardinality(Active)
    BY DEF SumByCategory, TotalByGroup
  <1>3. \A e \in Active : ones[e] = 1
    OBVIOUS
  <1> HIDE DEF ones, sums, counts
  <1>4. ASSUME NEW T, T \subseteq Active
        PROVE  SumFunctionOnSet(ones, T) = Cardinality(T)
    <2>1. IsFiniteSet(T)
      BY <1>1, <1>4, FS_Subset
    <2>2. SumFunctionOnSet(ones, T) = 1 * Cardinality(T)
      BY <1>3, <1>4, <2>1, SumConstant
    <2>3. Cardinality(T) \in Nat
      BY <2>1, FS_CardinalityType
    <2>4. QED
      BY <2>2, <2>3
  <1>5. ByKey(Amount, Active, CategoryOf, Categories, sums)
    BY <1>1, <1>2, SlackAddsUp DEF ByKey
  <1>6. ByKey(ones, Active, CategoryOf, Categories, counts)
    <2>1. \A c \in Categories : counts[c] = SumFunctionOnSet(ones, own(c))
      BY <1>2, <1>4
    <2>2. QED
      BY <1>1, <1>3, <2>1 DEF ByKey
  <1>7. SumFunctionOnSet(sums, Categories) = SumFunctionOnSet(Amount, Active)
    BY <1>5, SumByKey
  <1>8. SumFunctionOnSet(counts, Categories) = SumFunctionOnSet(ones, Active)
    BY <1>6, SumByKey
  <1>9. SumFunctionOnSet(ones, Active) = Cardinality(Active)
    BY <1>4
  <1>10. QED
    BY <1>2, <1>7, <1>8, <1>9 DEF sums, counts

\* The months are part of the whole.
LEMMA MonthsAreIncluded ==
  ASSUME EntriesAreBills
  PROVE  SumByMonth <= TotalByGroup[1]
  <1> DEFINE R == Recent \cap Active
             S == Active \ R
  <1>1. /\ IsFiniteSet(R) /\ IsFiniteSet(S) /\ R \cap S = {} /\ R \cup S = Active
        /\ S \subseteq Active
    BY ActiveIs, FS_Subset
  <1>2. SumByMonth = SumFunctionOnSet(Amount, R) /\ TotalByGroup[1] = SumFunctionOnSet(Amount, Active)
    BY DEF SumByMonth, TotalByGroup
  <1> HIDE DEF R, S
  <1>3. \A e \in R \cup S : Amount[e] \in Int /\ Amount[e] >= 0
    BY <1>1, SlackAddsUp
  <1>4. SumFunctionOnSet(Amount, R \cup S) = SumFunctionOnSet(Amount, R) + SumFunctionOnSet(Amount, S)
    BY <1>1, <1>3, SumDisjoint
  <1>5. SumFunctionOnSet(Amount, R) \in Int
    BY <1>1, <1>3, SumInt
  <1>6. SumFunctionOnSet(Amount, S) \in Nat
    <2>1. \A e \in S : Amount[e] \in Nat
      BY <1>3
    <2>2. QED
      BY <1>1, <2>1, SumNat
  <1>7. SumFunctionOnSet(Amount, Active) = SumFunctionOnSet(Amount, R \cup S)
    BY <1>1
  <1>8. QED
    BY <1>2, <1>4, <1>5, <1>6, <1>7

\* GetGroupStats and Balances: an answer during which nothing is committed is of
\* one set of expenses; its nets add up to what the rounding of the shares
\* leaves, and the categories, the payments and the months to the total.
THEOREM AnswersAgree == Spec => []FiguresAgree
  <1>1. ReadsInductive => FiguresAgree
    <2> SUFFICES ASSUME ReadsInductive, pc = "answered", commits = 0
                 PROVE  FiguresAgree
      BY DEF FiguresAgree
    <2>1. EntriesAreBills /\ got.ranked \subseteq Users
      BY DEF ReadsInductive
    <2>2. /\ got.paid = SumPaidByGroup /\ got.owed = SumOwedByGroup
          /\ op = "stats" => /\ got.category = SumByCategory
                             /\ got.month = SumByMonth
                             /\ got.total = TotalByGroup
      BY DEF ReadsInductive, FiguresAreCurrent
    <2>3. /\ SumFunctionOnSet([u \in Users |-> Net(u)], Users) = SumFunctionOnSet(Slack, Active)
          /\ (\A e \in Active : book[e].payer \in got.ranked /\ DOMAIN book[e].owed \subseteq got.ranked) =>
               SumFunctionOnSet([u \in Users |-> Net(u)], got.ranked) = SumFunctionOnSet(Slack, Active)
      BY <2>1, <2>2, NetsAddUp
    <2>4. ASSUME op = "stats"
          PROVE  /\ SumFunctionOnSet([c \in Categories |-> got.category[c][1]], Categories) = got.total[1]
                 /\ SumFunctionOnSet([c \in Categories |-> got.category[c][2]], Categories) = got.total[2]
                 /\ got.total[1] = SumFunctionOnSet(got.paid, Users)
                 /\ got.month <= got.total[1]
      <3>1. /\ SumFunctionOnSet([c \in Categories |-> got.category[c][1]], Categories) = got.total[1]
            /\ SumFunctionOnSet([c \in Categories |-> got.category[c][2]], Categories) = got.total[2]
        BY <2>1, <2>2, <2>4, CategoriesAddUp
      <3>2. got.total[1] = SumFunctionOnSet(got.paid, Users)
        BY <2>1, <2>2, <2>4, PaidAddsUp DEF TotalByGroup
      <3>3. got.month <= got.total[1]
        BY <2>1, <2>2, <2>4, MonthsAreIncluded
      <3>4. QED
        BY <3>1, <3>2, <3>3
    <2>5. QED
      BY <2>3, <2>4 DEF FiguresAgree
  <1>2. QED
    BY <1>1, ReadsInductiveHolds, PTL
=============================================================================
