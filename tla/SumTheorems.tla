---------------------------- MODULE SumTheorems ----------------------------
(***************************************************************************)
(* Sums over finite sets.  SumFunctionOnSet is a recursive function, which  *)
(* to a prover is a CHOOSE: that its equation has one solution comes first, *)
(* by induction on subsets, then what the other proofs need of sums.        *)
(***************************************************************************)
EXTENDS Integers, FiniteSets, Functions, FiniteSetTheorems, TLAPS

\* A set of subsets of a finite set has a smallest member.
LEMMA Smallest ==
  ASSUME NEW S, IsFiniteSet(S), NEW T, T \subseteq SUBSET S, T # {}
  PROVE  \E x \in T : \A y \in T : ~(y \subseteq x /\ y # x)
  <1>1. FiniteSubsetsOf(S) = SUBSET S
    BY FS_FiniteSubsetsOfFinite
  <1>2. IsWellFoundedOn(StrictSubsetOrdering(S), SUBSET S)
    BY <1>1, FS_StrictSubsetOrderingWellFounded
  <1>3. \E x \in T : \A y \in T : ~(<<y, x>> \in StrictSubsetOrdering(S))
    BY <1>2, WFMin
  <1>4. QED
    BY <1>3 DEF StrictSubsetOrdering

\* Induction on finite sets, for a property given as the set of those that
\* have it.
LEMMA SetInduction ==
  ASSUME NEW S, IsFiniteSet(S), NEW Good, {} \in Good,
         \A T \in SUBSET S, x \in S : T \in Good /\ x \notin T => T \cup {x} \in Good
  PROVE  S \in Good
  <1> DEFINE Bad == {T \in SUBSET S : T \notin Good}
  <1> SUFFICES ASSUME Bad # {}
               PROVE  FALSE
    OBVIOUS
  <1>1. PICK T \in Bad : \A U \in Bad : ~(U \subseteq T /\ U # T)
    <2>1. Bad \subseteq SUBSET S
      OBVIOUS
    <2> HIDE DEF Bad
    <2>2. QED
      BY <2>1, Smallest
  <1>2. PICK x \in T : TRUE
    BY <1>1
  <1>3. T \ {x} \in Good
    BY <1>1
  <1>4. (T \ {x}) \cup {x} \in Good
    BY <1>1, <1>3
  <1>5. QED
    BY <1>1, <1>4

\* A set of numbers has a least one.
LEMMA Least ==
  ASSUME NEW T, T \subseteq Nat, T # {}
  PROVE  \E x \in T : \A y \in T : x <= y
  <1>1. PICK t \in T : TRUE
    OBVIOUS
  <1> DEFINE Below == {0 .. k : k \in {n \in T : n <= t}}
  <1>2. t \in Nat /\ IsFiniteSet(0 .. t)
    BY FS_Interval
  <1>3. Below \subseteq SUBSET (0 .. t) /\ Below # {}
    BY <1>2
  <1>4. PICK b \in Below : \A c \in Below : ~(c \subseteq b /\ c # b)
    <2> DEFINE R == 0 .. t
    <2>1. IsFiniteSet(R) /\ Below \subseteq SUBSET R /\ Below # {}
      BY <1>2, <1>3
    <2> HIDE DEF Below, R
    <2>2. QED
      BY <2>1, Smallest
  <1>5. PICK k \in T : k <= t /\ b = 0 .. k
    BY <1>4
  <1>6. ASSUME NEW y \in T, ~(k <= y)
        PROVE  FALSE
    <2>1. k \in Nat /\ y \in Nat /\ y <= t
      BY <1>2, <1>5, <1>6
    <2>2. 0 .. y \in Below
      BY <2>1
    <2>3. 0 .. y \subseteq 0 .. k /\ k \in 0 .. k /\ k \notin 0 .. y
      BY <1>6, <2>1
    <2>4. QED
      BY <1>4, <1>5, <2>2, <2>3
  <1>7. QED
    BY <1>6

-----------------------------------------------------------------------------
(* The equation of a sum *)

Chosen(s) == CHOOSE x \in s : TRUE
PartialSum(f, g, s) == IF s = {} THEN 0 ELSE f[Chosen(s)] + g[s \ {Chosen(s)}]
IsSumOf(f, g, S) == g = [s \in SUBSET S |-> PartialSum(f, g, s)]

\* A sum is a solution of this equation, if there is one.
LEMMA SumIsChosen ==
  ASSUME NEW f, NEW S
  PROVE  SumFunctionOnSet(f, S) = (CHOOSE g : IsSumOf(f, g, S))[S]
  BY DEF SumFunctionOnSet, FoldFunctionOnSet, MapThenFoldSet, PartialSum, Chosen, IsSumOf

LEMMA ChosenIsIn ==
  ASSUME NEW s, s # {}
  PROVE  Chosen(s) \in s
  BY DEF Chosen

LEMMA SolutionAt ==
  ASSUME NEW f, NEW S, NEW g, IsSumOf(f, g, S), NEW s \in SUBSET S
  PROVE  g[s] = PartialSum(f, g, s)
  BY DEF IsSumOf

\* Two solutions are the same.
LEMMA OneSolution ==
  ASSUME NEW f, NEW S, IsFiniteSet(S), NEW g, NEW h, IsSumOf(f, g, S), IsSumOf(f, h, S)
  PROVE  g = h
  <1> DEFINE Bad == {s \in SUBSET S : g[s] # h[s]}
  <1>1. /\ \A s \in SUBSET S : g[s] = PartialSum(f, g, s) /\ h[s] = PartialSum(f, h, s)
        /\ g = [s \in SUBSET S |-> g[s]] /\ h = [s \in SUBSET S |-> h[s]]
    BY DEF IsSumOf
  <1>2. ASSUME Bad # {}
        PROVE  FALSE
    <2>1. PICK s \in Bad : \A t \in Bad : ~(t \subseteq s /\ t # s)
      <3>1. Bad \subseteq SUBSET S
        OBVIOUS
      <3> HIDE DEF Bad
      <3>2. QED
        BY <1>2, <3>1, Smallest
    <2>2. s # {}
      BY <1>1, <2>1 DEF PartialSum
    <2>3. s \ {Chosen(s)} \notin Bad /\ s \ {Chosen(s)} \in SUBSET S
      BY <2>1, <2>2, ChosenIsIn
    <2>4. g[s \ {Chosen(s)}] = h[s \ {Chosen(s)}]
      BY <2>3
    <2>5. QED
      BY <1>1, <2>1, <2>2, <2>4 DEF PartialSum
  <1>3. \A s \in SUBSET S : g[s] = h[s]
    BY <1>2
  <1>4. QED
    BY <1>1, <1>3

\* A solution for a set holds one for each subset.
LEMMA SolutionRestricts ==
  ASSUME NEW f, NEW S, NEW T, T \subseteq S, NEW g, IsSumOf(f, g, S)
  PROVE  IsSumOf(f, [s \in SUBSET T |-> g[s]], T)
  <1> DEFINE h == [s \in SUBSET T |-> g[s]]
  <1>1. \A s \in SUBSET T : g[s] = PartialSum(f, g, s)
    BY DEF IsSumOf
  <1>2. \A s \in SUBSET T : PartialSum(f, g, s) = PartialSum(f, h, s)
    BY DEF PartialSum
  <1>3. h = [s \in SUBSET T |-> PartialSum(f, h, s)]
    BY <1>1, <1>2
  <1>4. QED
    BY <1>3 DEF IsSumOf

LEMMA SolutionExists ==
  ASSUME NEW f, NEW S, IsFiniteSet(S)
  PROVE  \E g : IsSumOf(f, g, S)
  <1> DEFINE Bad == {s \in SUBSET S : ~\E g : IsSumOf(f, g, s)}
  <1> SUFFICES ASSUME Bad # {}
               PROVE  FALSE
    OBVIOUS
  <1>1. PICK s \in Bad : \A t \in Bad : ~(t \subseteq s /\ t # s)
    <2>1. Bad \subseteq SUBSET S
      OBVIOUS
    <2> HIDE DEF Bad
    <2>2. QED
      BY <2>1, Smallest
  <1> DEFINE part(u) == CHOOSE g : IsSumOf(f, g, u)
             whole   == [u \in SUBSET s |-> IF u # s THEN part(u)[u]
                                            ELSE IF s = {} THEN 0
                                            ELSE f[Chosen(s)] + part(s \ {Chosen(s)})[s \ {Chosen(s)}]]
  <1>2. \A u \in SUBSET s : u # s => IsSumOf(f, part(u), u)
    BY <1>1
  <1>3. \A u \in SUBSET s : IsFiniteSet(u)
    BY FS_Subset
  <1>4. ASSUME NEW u \in SUBSET s
        PROVE  whole[u] = PartialSum(f, whole, u)
    <2>1. CASE u = {}
      <3>1. u # s => part(u)[u] = PartialSum(f, part(u), u)
        <4> HIDE DEF part
        <4>1. QED
          BY <1>2, SolutionAt
      <3>2. QED
        BY <2>1, <3>1 DEF PartialSum
    <2>2. CASE u # {} /\ u = s
      <3>1. s \ {Chosen(s)} # s /\ s \ {Chosen(s)} \in SUBSET s
        BY <2>2, ChosenIsIn
      <3>2. QED
        BY <2>2, <3>1 DEF PartialSum
    <2>3. CASE u # {} /\ u # s
      <3> DEFINE rest == u \ {Chosen(u)}
      <3>1. rest # s /\ rest \in SUBSET s /\ rest \in SUBSET u
        BY <2>3, ChosenIsIn
      <3>2. part(u)[u] = f[Chosen(u)] + part(u)[rest]
        <4> HIDE DEF part
        <4>1. part(u)[u] = PartialSum(f, part(u), u)
          BY <1>2, <2>3, SolutionAt
        <4>2. QED
          BY <2>3, <4>1 DEF PartialSum
      <3>3. [t \in SUBSET rest |-> part(u)[t]] = part(rest)
        <4>1. IsSumOf(f, [t \in SUBSET rest |-> part(u)[t]], rest)
          BY <1>2, <2>3, <3>1, SolutionRestricts
        <4>2. IsSumOf(f, part(rest), rest) /\ IsFiniteSet(rest)
          BY <1>2, <1>3, <3>1
        <4> HIDE DEF rest, part
        <4>3. QED
          BY <4>1, <4>2, OneSolution
      <3>4. part(u)[rest] = part(rest)[rest]
        <4>1. [t \in SUBSET rest |-> part(u)[t]][rest] = part(u)[rest]
          OBVIOUS
        <4>2. QED
          BY <3>3, <4>1
      <3>5. whole[rest] = part(rest)[rest] /\ whole[u] = part(u)[u]
        BY <2>3, <3>1
      <3>6. QED
        BY <2>3, <3>2, <3>4, <3>5 DEF PartialSum
    <2>4. QED
      BY <2>1, <2>2, <2>3
  <1>5. whole = [u \in SUBSET s |-> whole[u]]
    OBVIOUS
  <1> HIDE DEF whole
  <1>6. whole = [u \in SUBSET s |-> PartialSum(f, whole, u)]
    BY <1>4, <1>5
  <1>7. QED
    BY <1>1, <1>6 DEF IsSumOf

\* A sum is its chosen element and the sum of the rest.
LEMMA SumStep ==
  ASSUME NEW f, NEW S, IsFiniteSet(S)
  PROVE  SumFunctionOnSet(f, S) =
           IF S = {} THEN 0
           ELSE f[Chosen(S)] + SumFunctionOnSet(f, S \ {Chosen(S)})
  <1> DEFINE g(T) == CHOOSE g : IsSumOf(f, g, T)
  <1>1. \A T \in SUBSET S : IsFiniteSet(T) /\ IsSumOf(f, g(T), T)
    BY FS_Subset, SolutionExists
  <1>2. IsSumOf(f, g(S), S)
    BY <1>1
  <1>3. g(S)[S] = PartialSum(f, g(S), S)
    <2> HIDE DEF g
    <2>1. QED
      BY <1>2, SolutionAt
  <1>4. CASE S = {}
    BY <1>3, <1>4, SumIsChosen DEF PartialSum
  <1>5. CASE S # {}
    <2> DEFINE rest == S \ {Chosen(S)}
    <2>1. IsSumOf(f, [t \in SUBSET rest |-> g(S)[t]], rest)
      BY <1>2, SolutionRestricts
    <2>2. IsSumOf(f, g(rest), rest) /\ IsFiniteSet(rest)
      BY <1>1
    <2>3. [t \in SUBSET rest |-> g(S)[t]] = g(rest)
      <3> HIDE DEF rest, g
      <3>1. QED
        BY <2>1, <2>2, OneSolution
    <2>4. [t \in SUBSET rest |-> g(S)[t]][rest] = g(S)[rest]
      OBVIOUS
    <2>5. g(S)[rest] = g(rest)[rest]
      BY <2>3, <2>4
    <2>6. SumFunctionOnSet(f, S) = g(S)[S] /\ SumFunctionOnSet(f, rest) = g(rest)[rest]
      BY SumIsChosen
    <2>7. g(S)[S] = f[Chosen(S)] + g(S)[rest]
      BY <1>3, <1>5 DEF PartialSum
    <2>8. QED
      BY <1>5, <2>5, <2>6, <2>7
  <1>6. QED
    BY <1>4, <1>5
-----------------------------------------------------------------------------
(* What the proofs use *)

LEMMA SumEmpty ==
  ASSUME NEW f
  PROVE  SumFunctionOnSet(f, {}) = 0
  BY SumStep, FS_EmptySet

LEMMA SumInt ==
  ASSUME NEW f, NEW S, IsFiniteSet(S), \A x \in S : f[x] \in Int
  PROVE  SumFunctionOnSet(f, S) \in Int
  <1> DEFINE Bad == {T \in SUBSET S : SumFunctionOnSet(f, T) \notin Int}
  <1>1. ASSUME Bad # {}
        PROVE  FALSE
    <2>1. PICK T \in Bad : \A U \in Bad : ~(U \subseteq T /\ U # T)
      <3>1. Bad \subseteq SUBSET S
        OBVIOUS
      <3> HIDE DEF Bad
      <3>2. QED
        BY <1>1, <3>1, Smallest
    <2>2. IsFiniteSet(T)
      BY FS_Subset
    <2>3. T # {}
      <3>1. SumFunctionOnSet(f, {}) \in Int
        BY SumEmpty
      <3>2. QED
        BY <2>1, <3>1
    <2>4. T \ {Chosen(T)} \notin Bad /\ Chosen(T) \in T
      BY <2>1, <2>3, ChosenIsIn
    <2>5. SumFunctionOnSet(f, T) = f[Chosen(T)] + SumFunctionOnSet(f, T \ {Chosen(T)})
      BY <2>2, <2>3, SumStep
    <2>6. f[Chosen(T)] \in Int /\ SumFunctionOnSet(f, T \ {Chosen(T)}) \in Int
      BY <2>4
    <2>7. SumFunctionOnSet(f, T) \in Int
      BY <2>5, <2>6
    <2>8. QED
      BY <2>1, <2>7
  <1>2. QED
    BY <1>1

\* Any element can be taken out first.
LEMMA SumRemove ==
  ASSUME NEW f, NEW S, IsFiniteSet(S), \A x \in S : f[x] \in Int, NEW x \in S
  PROVE  SumFunctionOnSet(f, S) = f[x] + SumFunctionOnSet(f, S \ {x})
  <1> DEFINE Sum(T) == SumFunctionOnSet(f, T)
             Bad    == {T \in SUBSET S : \E y \in T : Sum(T) # f[y] + Sum(T \ {y})}
  <1>1. \A T \in SUBSET S : IsFiniteSet(T) /\ Sum(T) \in Int
    <2> SUFFICES ASSUME NEW T \in SUBSET S
                 PROVE  IsFiniteSet(T) /\ Sum(T) \in Int
      OBVIOUS
    <2>1. IsFiniteSet(T) /\ \A z \in T : f[z] \in Int
      BY FS_Subset
    <2>2. QED
      BY <2>1, SumInt
  <1>2. \A T \in SUBSET S : T # {} => /\ Chosen(T) \in T
                                     /\ Sum(T) = f[Chosen(T)] + Sum(T \ {Chosen(T)})
    BY <1>1, SumStep, ChosenIsIn
  <1>3. ASSUME Bad # {}
        PROVE  FALSE
    <2>1. PICK T \in Bad : \A U \in Bad : ~(U \subseteq T /\ U # T)
      <3>1. Bad \subseteq SUBSET S
        OBVIOUS
      <3> HIDE DEF Bad
      <3>2. QED
        BY <1>3, <3>1, Smallest
    <2> HIDE DEF Sum
    <2>2. PICK y \in T : Sum(T) # f[y] + Sum(T \ {y})
      BY <2>1
    <2> DEFINE c == Chosen(T)
    <2>3. T \in SUBSET S /\ c \in T /\ Sum(T) = f[c] + Sum(T \ {c})
      BY <1>2, <2>2
    <2>4. y # c
      BY <2>2, <2>3
    <2>5. /\ T \ {c} \notin Bad /\ T \ {y} \notin Bad
          /\ T \ {c} \in SUBSET S /\ T \ {y} \in SUBSET S
      BY <2>1, <2>2, <2>3
    <2>6. /\ Sum(T \ {c}) = f[y] + Sum((T \ {c}) \ {y})
          /\ Sum(T \ {y}) = f[c] + Sum((T \ {y}) \ {c})
      BY <2>2, <2>3, <2>4, <2>5
    <2>7. (T \ {c}) \ {y} = (T \ {y}) \ {c}
      OBVIOUS
    <2> DEFINE rest == Sum((T \ {y}) \ {c})
    <2>8. f[c] \in Int /\ f[y] \in Int /\ rest \in Int
      BY <1>1, <2>2, <2>3
    <2>9. Sum(T) = f[c] + (f[y] + rest) /\ Sum(T \ {y}) = f[c] + rest
      BY <2>3, <2>6, <2>7
    <2> HIDE DEF rest
    <2>10. Sum(T) = f[y] + Sum(T \ {y})
      BY <2>8, <2>9
    <2>11. QED
      BY <2>2, <2>10
  <1>4. QED
    BY <1>3

LEMMA SumAddElement ==
  ASSUME NEW f, NEW S, IsFiniteSet(S), NEW x, x \notin S,
         \A y \in S \cup {x} : f[y] \in Int
  PROVE  SumFunctionOnSet(f, S \cup {x}) = SumFunctionOnSet(f, S) + f[x]
  <1>1. IsFiniteSet(S \cup {x}) /\ (S \cup {x}) \ {x} = S
    BY FS_AddElement
  <1>2. SumFunctionOnSet(f, S \cup {x}) = f[x] + SumFunctionOnSet(f, S)
    BY <1>1, SumRemove
  <1>3. SumFunctionOnSet(f, S) \in Int
    BY SumInt
  <1>4. QED
    BY <1>2, <1>3

\* A sum depends on nothing but the values on its set.
LEMMA SumSame ==
  ASSUME NEW f, NEW g, NEW S, IsFiniteSet(S), \A x \in S : f[x] = g[x]
  PROVE  SumFunctionOnSet(f, S) = SumFunctionOnSet(g, S)
  <1> DEFINE Good == {T \in SUBSET S : SumFunctionOnSet(f, T) = SumFunctionOnSet(g, T)}
             Bad  == {T \in SUBSET S : T \notin Good}
  <1>1. ASSUME Bad # {}
        PROVE  FALSE
    <2>1. PICK T \in Bad : \A U \in Bad : ~(U \subseteq T /\ U # T)
      <3>1. Bad \subseteq SUBSET S
        OBVIOUS
      <3> HIDE DEF Bad
      <3>2. QED
        BY <1>1, <3>1, Smallest
    <2>2. IsFiniteSet(T) /\ T \in SUBSET S /\ T \notin Good
      BY <2>1, FS_Subset
    <2>3. T # {}
      BY <2>2, SumEmpty
    <2>4. T \ {Chosen(T)} \in Good /\ Chosen(T) \in T
      BY <2>1, <2>2, <2>3, ChosenIsIn
    <2>5. /\ SumFunctionOnSet(f, T) = f[Chosen(T)] + SumFunctionOnSet(f, T \ {Chosen(T)})
          /\ SumFunctionOnSet(g, T) = g[Chosen(T)] + SumFunctionOnSet(g, T \ {Chosen(T)})
      BY <2>2, <2>3, SumStep
    <2>6. SumFunctionOnSet(f, T) = SumFunctionOnSet(g, T)
      BY <2>2, <2>4, <2>5
    <2>7. QED
      BY <2>2, <2>6
  <1>2. S \in Good
    BY <1>1
  <1>3. QED
    BY <1>2

\* A sum of sums of two.
LEMMA SumPlus ==
  ASSUME NEW f, NEW g, NEW h, NEW S, IsFiniteSet(S),
         \A x \in S : f[x] \in Int /\ g[x] \in Int /\ h[x] = f[x] + g[x]
  PROVE  SumFunctionOnSet(h, S) = SumFunctionOnSet(f, S) + SumFunctionOnSet(g, S)
  <1> DEFINE Good == {T \in SUBSET S : SumFunctionOnSet(h, T) = SumFunctionOnSet(f, T) + SumFunctionOnSet(g, T)}
  <1>1. {} \in Good
    BY SumEmpty
  <1>2. ASSUME NEW T \in SUBSET S, NEW x \in S, T \in Good, x \notin T
        PROVE  T \cup {x} \in Good
    <2>1. IsFiniteSet(T) /\ T \cup {x} \in SUBSET S
      BY FS_Subset
    <2>2. /\ SumFunctionOnSet(f, T \cup {x}) = SumFunctionOnSet(f, T) + f[x] /\ SumFunctionOnSet(f, T) \in Int
          /\ SumFunctionOnSet(g, T \cup {x}) = SumFunctionOnSet(g, T) + g[x] /\ SumFunctionOnSet(g, T) \in Int
          /\ f[x] \in Int /\ g[x] \in Int
      BY <1>2, <2>1, SumAddElement, SumInt
    <2>3. \A y \in S : h[y] \in Int
      OBVIOUS
    <2>4. SumFunctionOnSet(h, T \cup {x}) = SumFunctionOnSet(h, T) + h[x]
      BY <1>2, <2>1, <2>3, SumAddElement
    <2>5. SumFunctionOnSet(h, T) = SumFunctionOnSet(f, T) + SumFunctionOnSet(g, T) /\ h[x] = f[x] + g[x]
      BY <1>2
    <2>6. SumFunctionOnSet(h, T \cup {x}) = SumFunctionOnSet(f, T \cup {x}) + SumFunctionOnSet(g, T \cup {x})
      BY <2>2, <2>4, <2>5
    <2>7. QED
      BY <2>1, <2>6
  <1>3. S \in Good
    <2> HIDE DEF Good
    <2>1. QED
      BY <1>1, <1>2, SetInduction
  <1>4. QED
    BY <1>3

\* A factor common to all.
LEMMA SumTimes ==
  ASSUME NEW f, NEW g, NEW k \in Int, NEW S, IsFiniteSet(S),
         \A x \in S : f[x] \in Int /\ g[x] = k * f[x]
  PROVE  SumFunctionOnSet(g, S) = k * SumFunctionOnSet(f, S)
  <1> DEFINE Good == {T \in SUBSET S : SumFunctionOnSet(g, T) = k * SumFunctionOnSet(f, T)}
  <1>1. {} \in Good
    BY SumEmpty
  <1>2. ASSUME NEW T \in SUBSET S, NEW x \in S, T \in Good, x \notin T
        PROVE  T \cup {x} \in Good
    <2>1. IsFiniteSet(T) /\ T \cup {x} \in SUBSET S
      BY FS_Subset
    <2>2. /\ SumFunctionOnSet(f, T \cup {x}) = SumFunctionOnSet(f, T) + f[x] /\ SumFunctionOnSet(f, T) \in Int
          /\ f[x] \in Int
      BY <1>2, <2>1, SumAddElement, SumInt
    <2>3. \A y \in S : g[y] \in Int
      OBVIOUS
    <2>4. SumFunctionOnSet(g, T \cup {x}) = SumFunctionOnSet(g, T) + g[x]
      BY <1>2, <2>1, <2>3, SumAddElement
    <2>5. SumFunctionOnSet(g, T) = k * SumFunctionOnSet(f, T) /\ g[x] = k * f[x]
      BY <1>2
    <2>6. SumFunctionOnSet(g, T \cup {x}) = k * SumFunctionOnSet(f, T \cup {x})
      <3>1. \A a, b \in Int : k * (a + b) = k * a + k * b
        OBVIOUS
      <3>2. QED
        BY <2>2, <2>4, <2>5, <3>1
    <2>7. QED
      BY <2>1, <2>6
  <1>3. S \in Good
    <2> HIDE DEF Good
    <2>1. QED
      BY <1>1, <1>2, SetInduction
  <1>4. QED
    BY <1>3

\* Larger terms, a larger sum.
LEMMA SumMonotone ==
  ASSUME NEW f, NEW g, NEW S, IsFiniteSet(S),
         \A x \in S : f[x] \in Int /\ g[x] \in Int /\ f[x] <= g[x]
  PROVE  SumFunctionOnSet(f, S) <= SumFunctionOnSet(g, S)
  <1> DEFINE Good == {T \in SUBSET S : SumFunctionOnSet(f, T) <= SumFunctionOnSet(g, T)}
  <1>1. {} \in Good
    BY SumEmpty
  <1>2. ASSUME NEW T \in SUBSET S, NEW x \in S, T \in Good, x \notin T
        PROVE  T \cup {x} \in Good
    <2>1. IsFiniteSet(T) /\ T \cup {x} \in SUBSET S
      BY FS_Subset
    <2>2. /\ SumFunctionOnSet(f, T \cup {x}) = SumFunctionOnSet(f, T) + f[x] /\ SumFunctionOnSet(f, T) \in Int
          /\ SumFunctionOnSet(g, T \cup {x}) = SumFunctionOnSet(g, T) + g[x] /\ SumFunctionOnSet(g, T) \in Int
          /\ f[x] \in Int /\ g[x] \in Int
      BY <1>2, <2>1, SumAddElement, SumInt
    <2>3. SumFunctionOnSet(f, T) <= SumFunctionOnSet(g, T) /\ f[x] <= g[x]
      BY <1>2
    <2>4. SumFunctionOnSet(f, T \cup {x}) <= SumFunctionOnSet(g, T \cup {x})
      BY <2>2, <2>3
    <2>5. QED
      BY <2>1, <2>4
  <1>3. S \in Good
    <2> HIDE DEF Good
    <2>1. QED
      BY <1>1, <1>2, SetInduction
  <1>4. QED
    BY <1>3

\* To the terms f[y] of S comes one more term, g[x].
Grows(f, g, S, x) ==
  /\ IsFiniteSet(S) /\ x \notin S /\ g[x] \in Int
  /\ \A y \in S : f[y] \in Int /\ g[y] = f[y]

\* One term more.
LEMMA SumGrows ==
  ASSUME NEW f, NEW g, NEW S, NEW x, Grows(f, g, S, x)
  PROVE  /\ SumFunctionOnSet(f, S) \in Int
         /\ SumFunctionOnSet(g, S) = SumFunctionOnSet(f, S)
         /\ SumFunctionOnSet(g, S \cup {x}) = SumFunctionOnSet(f, S) + g[x]
  <1>1. SumFunctionOnSet(f, S) \in Int /\ SumFunctionOnSet(g, S) = SumFunctionOnSet(f, S)
    BY SumInt, SumSame DEF Grows
  <1>2. SumFunctionOnSet(g, S \cup {x}) = SumFunctionOnSet(g, S) + g[x]
    <2>1. IsFiniteSet(S) /\ x \notin S /\ \A y \in S \cup {x} : g[y] \in Int
      BY DEF Grows
    <2>2. QED
      BY <2>1, SumAddElement
  <1>3. QED
    BY <1>1, <1>2

\* Nothing added up is nothing.
LEMMA SumZero ==
  ASSUME NEW f, NEW S, IsFiniteSet(S), \A x \in S : f[x] = 0
  PROVE  SumFunctionOnSet(f, S) = 0
  <1> DEFINE Good == {T \in SUBSET S : SumFunctionOnSet(f, T) = 0}
  <1>1. {} \in Good
    BY SumEmpty
  <1>2. ASSUME NEW T \in SUBSET S, NEW x \in S, T \in Good, x \notin T
        PROVE  T \cup {x} \in Good
    <2>1. IsFiniteSet(T) /\ T \cup {x} \in SUBSET S
      BY FS_Subset
    <2>2. SumFunctionOnSet(f, T \cup {x}) = SumFunctionOnSet(f, T) + f[x]
      BY <1>2, <2>1, SumAddElement
    <2>3. SumFunctionOnSet(f, T \cup {x}) = 0
      BY <1>2, <2>2
    <2>4. QED
      BY <2>1, <2>3
  <1>3. S \in Good
    <2> HIDE DEF Good
    <2>1. QED
      BY <1>1, <1>2, SetInduction
  <1>4. QED
    BY <1>3

\* Ones are counted.
LEMMA SumCount ==
  ASSUME NEW f, NEW S, IsFiniteSet(S), \A x \in S : f[x] \in {0, 1}
  PROVE  SumFunctionOnSet(f, S) = Cardinality({x \in S : f[x] = 1})
  <1> DEFINE Good == {T \in SUBSET S : SumFunctionOnSet(f, T) = Cardinality({y \in T : f[y] = 1})}
  <1>1. {} \in Good
    BY SumEmpty, FS_EmptySet
  <1>2. ASSUME NEW T \in SUBSET S, NEW x \in S, T \in Good, x \notin T
        PROVE  T \cup {x} \in Good
    <2>1. IsFiniteSet(T) /\ T \cup {x} \in SUBSET S
      BY FS_Subset
    <2> DEFINE ones(U) == {y \in U : f[y] = 1}
    <2>2. SumFunctionOnSet(f, T \cup {x}) = SumFunctionOnSet(f, T) + f[x]
      BY <1>2, <2>1, SumAddElement
    <2>3. SumFunctionOnSet(f, T) = Cardinality(ones(T)) /\ IsFiniteSet(ones(T)) /\ x \notin ones(T)
      BY <1>2, <2>1, FS_Subset
    <2>4. Cardinality(ones(T)) \in Nat /\ f[x] \in {0, 1}
      BY <2>3, FS_CardinalityType
    <2>5. SumFunctionOnSet(f, T \cup {x}) = Cardinality(ones(T \cup {x}))
      <3>1. CASE f[x] = 0
        <4>1. ones(T \cup {x}) = ones(T)
          BY <3>1
        <4>2. QED
          BY <2>2, <2>3, <2>4, <3>1, <4>1
      <3>2. CASE f[x] = 1
        <4>1. ones(T \cup {x}) = ones(T) \cup {x}
          BY <3>2
        <4> HIDE DEF ones
        <4>2. Cardinality(ones(T) \cup {x}) = Cardinality(ones(T)) + 1
          BY <2>3, FS_AddElement
        <4>3. QED
          BY <2>2, <2>3, <2>4, <3>2, <4>1, <4>2
      <3>3. QED
        BY <2>4, <3>1, <3>2
    <2>6. QED
      BY <2>1, <2>5
  <1>3. S \in Good
    <2> HIDE DEF Good
    <2>1. QED
      BY <1>1, <1>2, SetInduction
  <1>4. QED
    BY <1>3

\* A sum is the sum of its parts.
LEMMA SumDisjoint ==
  ASSUME NEW f, NEW R, IsFiniteSet(R), NEW S, IsFiniteSet(S), R \cap S = {},
         \A x \in R \cup S : f[x] \in Int
  PROVE  SumFunctionOnSet(f, R \cup S) = SumFunctionOnSet(f, R) + SumFunctionOnSet(f, S)
  <1> DEFINE Good == {T \in SUBSET S : SumFunctionOnSet(f, R \cup T) = SumFunctionOnSet(f, R) + SumFunctionOnSet(f, T)}
  <1>1. {} \in Good
    BY SumEmpty, SumInt
  <1>2. ASSUME NEW T \in SUBSET S, NEW x \in S, T \in Good, x \notin T
        PROVE  T \cup {x} \in Good
    <2>1. IsFiniteSet(T) /\ T \cup {x} \in SUBSET S
      BY FS_Subset
    <2>2. /\ SumFunctionOnSet(f, T \cup {x}) = SumFunctionOnSet(f, T) + f[x] /\ SumFunctionOnSet(f, T) \in Int
          /\ SumFunctionOnSet(f, R) \in Int /\ f[x] \in Int
      BY <1>2, <2>1, SumAddElement, SumInt
    <2>3. /\ R \cup (T \cup {x}) = (R \cup T) \cup {x} /\ x \notin R \cup T
          /\ IsFiniteSet(R \cup T)
      BY <1>2, <2>1, FS_Union
    <2>4. SumFunctionOnSet(f, (R \cup T) \cup {x}) = SumFunctionOnSet(f, R \cup T) + f[x]
      BY <1>2, <2>1, <2>3, SumAddElement
    <2>5. SumFunctionOnSet(f, R \cup T) = SumFunctionOnSet(f, R) + SumFunctionOnSet(f, T)
      BY <1>2
    <2>6. SumFunctionOnSet(f, R \cup (T \cup {x})) = SumFunctionOnSet(f, R) + SumFunctionOnSet(f, T \cup {x})
      <3>1. SumFunctionOnSet(f, R \cup T) + f[x] = SumFunctionOnSet(f, R) + SumFunctionOnSet(f, T \cup {x})
        BY <2>2, <2>5
      <3>2. SumFunctionOnSet(f, R \cup (T \cup {x})) = SumFunctionOnSet(f, (R \cup T) \cup {x})
        BY <2>3, Zenon
      <3>3. QED
        BY <2>4, <3>1, <3>2
    <2>7. QED
      BY <2>1, <2>6
  <1>3. S \in Good
    <2> HIDE DEF Good
    <2>1. QED
      BY <1>1, <1>2, SetInduction
  <1>4. QED
    BY <1>3

\* The terms f[m] of M have keys in S, and h[u] is the sum of those with key u.
ByKey(f, M, key, S, h) ==
  /\ IsFiniteSet(M) /\ IsFiniteSet(S)
  /\ \A m \in M : f[m] \in Int /\ key[m] \in S
  /\ \A u \in S : h[u] = SumFunctionOnSet(f, {m \in M : key[m] = u})

\* Added up by key or all at once, the sum is the same.
LEMMA SumByKey ==
  ASSUME NEW f, NEW M, NEW key, NEW S, NEW h, ByKey(f, M, key, S, h)
  PROVE  SumFunctionOnSet(h, S) = SumFunctionOnSet(f, M)
  <1>a. /\ IsFiniteSet(M) /\ IsFiniteSet(S)
        /\ \A m \in M : f[m] \in Int /\ key[m] \in S
        /\ \A u \in S : h[u] = SumFunctionOnSet(f, {m \in M : key[m] = u})
    BY DEF ByKey
  <1> DEFINE Good == {T \in SUBSET S : SumFunctionOnSet(h, T) = SumFunctionOnSet(f, {m \in M : key[m] \in T})}
  <1>1. {} \in Good
    BY SumEmpty
  <1>2. ASSUME NEW T \in SUBSET S, NEW x \in S, T \in Good, x \notin T
        PROVE  T \cup {x} \in Good
    <2>1. IsFiniteSet(T) /\ T \cup {x} \in SUBSET S
      BY <1>a, FS_Subset
    <2> DEFINE old == {m \in M : key[m] \in T}
               new == {m \in M : key[m] = x}
    <2>2. IsFiniteSet(old) /\ IsFiniteSet(new) /\ old \cap new = {}
      BY <1>2, <1>a, FS_Subset
    <2>3. {m \in M : key[m] \in T \cup {x}} = old \cup new
      BY <1>a
    <2>4. \A m \in old \cup new : f[m] \in Int
      BY <1>a
    <2>5. SumFunctionOnSet(f, old \cup new) = SumFunctionOnSet(f, old) + SumFunctionOnSet(f, new)
      <3> HIDE DEF old, new
      <3>1. QED
        BY <2>2, <2>4, SumDisjoint
    <2>6. \A u \in S : h[u] \in Int
      <3> SUFFICES ASSUME NEW u \in S
                   PROVE  SumFunctionOnSet(f, {m \in M : key[m] = u}) \in Int
        BY <1>a
      <3> DEFINE own == {m \in M : key[m] = u}
      <3>1. IsFiniteSet(own) /\ \A m \in own : f[m] \in Int
        BY <1>a, FS_Subset
      <3> HIDE DEF own
      <3>2. SumFunctionOnSet(f, own) \in Int
        BY <3>1, SumInt
      <3>3. QED
        BY <3>2 DEF own
    <2>7. SumFunctionOnSet(h, T \cup {x}) = SumFunctionOnSet(h, T) + h[x]
      BY <1>2, <2>1, <2>6, SumAddElement
    <2>8. SumFunctionOnSet(h, T) = SumFunctionOnSet(f, old) /\ h[x] = SumFunctionOnSet(f, new)
      BY <1>2, <1>a
    <2>9. SumFunctionOnSet(h, T \cup {x}) = SumFunctionOnSet(f, {m \in M : key[m] \in T \cup {x}})
      BY <2>3, <2>5, <2>7, <2>8
    <2>10. QED
      BY <2>1, <2>9
  <1>3. S \in Good
    <2> HIDE DEF Good
    <2>1. QED
      BY <1>1, <1>2, <1>a, SetInduction
  <1>4. {m \in M : key[m] \in S} = M
    BY <1>a
  <1>5. QED
    BY <1>3, <1>4

\* All terms but one are nothing.
LEMMA SumOneTerm ==
  ASSUME NEW f, NEW S, IsFiniteSet(S), NEW x \in S, f[x] \in Int,
         \A y \in S : y # x => f[y] = 0
  PROVE  SumFunctionOnSet(f, S) = f[x]
  <1>1. \A y \in S : f[y] \in Int
    OBVIOUS
  <1>2. IsFiniteSet(S \ {x}) /\ \A y \in S \ {x} : f[y] = 0
    BY FS_RemoveElement
  <1>3. SumFunctionOnSet(f, S) = f[x] + SumFunctionOnSet(f, S \ {x}) /\ SumFunctionOnSet(f, S \ {x}) = 0
    BY <1>1, <1>2, SumRemove, SumZero
  <1>4. QED
    BY <1>3

\* A sum of naturals is a natural, and no less than any of its terms.
LEMMA SumNat ==
  ASSUME NEW f, NEW S, IsFiniteSet(S), \A x \in S : f[x] \in Nat
  PROVE  /\ SumFunctionOnSet(f, S) \in Nat
         /\ \A x \in S : f[x] <= SumFunctionOnSet(f, S)
  <1> DEFINE none == [x \in S |-> 0]
  <1>1. \A x \in S : none[x] = 0 /\ none[x] \in Int /\ f[x] \in Int /\ none[x] <= f[x]
    OBVIOUS
  <1> HIDE DEF none
  <1>2. ASSUME NEW T, T \subseteq S
        PROVE  SumFunctionOnSet(f, T) \in Nat
    <2>1. IsFiniteSet(T) /\ \A x \in T : /\ none[x] = 0 /\ none[x] \in Int
                                         /\ f[x] \in Int /\ none[x] <= f[x]
      BY <1>1, <1>2, FS_Subset
    <2>2. SumFunctionOnSet(none, T) <= SumFunctionOnSet(f, T)
      BY <2>1, SumMonotone
    <2>3. SumFunctionOnSet(none, T) = 0 /\ SumFunctionOnSet(f, T) \in Int
      BY <2>1, SumZero, SumInt
    <2>4. QED
      BY <2>2, <2>3
  <1>3. ASSUME NEW x \in S
        PROVE  f[x] <= SumFunctionOnSet(f, S)
    <2>1. SumFunctionOnSet(f, S) = f[x] + SumFunctionOnSet(f, S \ {x})
      BY <1>1, SumRemove
    <2>2. SumFunctionOnSet(f, S \ {x}) \in Nat /\ f[x] \in Nat
      BY <1>2
    <2>3. QED
      BY <2>1, <2>2
  <1>4. QED
    BY <1>2, <1>3

\* Equal terms.
LEMMA SumConstant ==
  ASSUME NEW f, NEW S, IsFiniteSet(S), NEW c \in Int, \A x \in S : f[x] = c
  PROVE  SumFunctionOnSet(f, S) = c * Cardinality(S)
  <1> DEFINE one == [x \in S |-> 1]
  <1>1. \A x \in S : one[x] = 1 /\ one[x] \in {0, 1} /\ one[x] \in Int
    OBVIOUS
  <1>2. \A x \in S : f[x] = c * one[x]
    OBVIOUS
  <1>3. {x \in S : one[x] = 1} = S
    OBVIOUS
  <1> HIDE DEF one
  <1>4. SumFunctionOnSet(one, S) = Cardinality({x \in S : one[x] = 1})
    BY <1>1, SumCount
  <1>5. SumFunctionOnSet(f, S) = c * SumFunctionOnSet(one, S)
    BY <1>1, <1>2, SumTimes
  <1>6. QED
    BY <1>3, <1>4, <1>5

-----------------------------------------------------------------------------
(* Images and bounds of finite sets *)

\* The first n numbers are n.
LEMMA FirstNumbers ==
  ASSUME NEW n \in Nat, NEW S, S = 1 .. n
  PROVE  IsFiniteSet(S) /\ Cardinality(S) = n
  <1>1. n \in Int /\ 1 \in Int
    OBVIOUS
  <1>2. IsFiniteSet(1 .. n) /\ Cardinality(1 .. n) = IF 1 > n THEN 0 ELSE n - 1 + 1
    BY <1>1, FS_Interval
  <1>3. QED
    BY <1>2

\* The values a function takes on a finite set are no more than that set has
\* members.
LEMMA ImageIsFinite ==
  ASSUME NEW S, IsFiniteSet(S), NEW f
  PROVE  /\ IsFiniteSet({f[x] : x \in S})
         /\ Cardinality({f[x] : x \in S}) <= Cardinality(S)
  <1> DEFINE T == {f[x] : x \in S}
             g == [x \in S |-> f[x]]
  <1>1. g \in Surjection(S, T)
    <2>1. g \in [S -> T] /\ \A t \in T : \E x \in S : g[x] = t
      OBVIOUS
    <2>2. QED
      BY <2>1 DEF Surjection
  <1> HIDE DEF T, g
  <1>2. IsFiniteSet(T) /\ Cardinality(T) <= Cardinality(S)
    BY <1>1, FS_Surjection
  <1>3. QED
    BY <1>2 DEF T

\* A finite set of integers has a largest member.
LEMMA LargestIs ==
  ASSUME NEW S, IsFiniteSet(S), S \subseteq Int, S # {}
  PROVE  \E x \in S : \A y \in S : y <= x
  <1> DEFINE Good == {T \in SUBSET S : T = {} \/ \E x \in T : \A y \in T : y <= x}
  <1>1. {} \in Good
    OBVIOUS
  <1>2. ASSUME NEW T \in SUBSET S, NEW x \in S, T \in Good, x \notin T
        PROVE  T \cup {x} \in Good
    <2>1. CASE T = {}
      BY <2>1
    <2>2. CASE T # {}
      <3>1. PICK t \in T : \A y \in T : y <= t
        BY <1>2, <2>2
      <3>2. t \in Int /\ x \in Int /\ \A y \in T : y \in Int
        OBVIOUS
      <3>3. CASE x <= t
        BY <3>1, <3>3
      <3>4. CASE ~(x <= t)
        <4>1. \A y \in T \cup {x} : y <= x
          BY <3>1, <3>2, <3>4
        <4>2. QED
          BY <4>1
      <3>5. QED
        BY <3>3, <3>4
    <2>3. QED
      BY <2>1, <2>2
  <1> HIDE DEF Good
  <1>3. S \in Good
    BY <1>1, <1>2, SetInduction
  <1>4. QED
    BY <1>3 DEF Good

-----------------------------------------------------------------------------
(* Sums over parts of a set, and sums of sums *)

\* Terms that are nothing need not be summed.
LEMMA SumExtends ==
  ASSUME NEW f, NEW g, NEW S, IsFiniteSet(S), NEW T, T \subseteq S,
         \A x \in T : f[x] \in Int /\ g[x] = f[x],
         \A x \in S \ T : g[x] = 0
  PROVE  SumFunctionOnSet(g, S) = SumFunctionOnSet(f, T)
  <1> DEFINE R == S \ T
  <1>1. IsFiniteSet(T) /\ IsFiniteSet(R) /\ T \cap R = {} /\ T \cup R = S
    BY FS_Subset
  <1>2. \A x \in R : g[x] = 0
    OBVIOUS
  <1> HIDE DEF R
  <1>3. \A x \in T \cup R : g[x] \in Int
    BY <1>1, <1>2
  <1>4. SumFunctionOnSet(g, T \cup R) = SumFunctionOnSet(g, T) + SumFunctionOnSet(g, R)
    BY <1>1, <1>3, SumDisjoint
  <1>5. SumFunctionOnSet(g, R) = 0
    BY <1>1, <1>2, SumZero
  <1>6. SumFunctionOnSet(g, T) = SumFunctionOnSet(f, T)
    <2>1. \A x \in T : g[x] = f[x]
      OBVIOUS
    <2>2. QED
      BY <1>1, <2>1, SumSame
  <1>7. SumFunctionOnSet(f, T) \in Int
    BY <1>1, SumInt
  <1>8. SumFunctionOnSet(g, S) = SumFunctionOnSet(g, T \cup R)
    BY <1>1
  <1>9. QED
    BY <1>4, <1>5, <1>6, <1>7, <1>8

\* A table with rows E and columns S, the sums of its rows, and those of the
\* columns of the rows in T.
Table(g, E, S, row) ==
  /\ IsFiniteSet(E) /\ IsFiniteSet(S)
  /\ \A e \in E : \A u \in S : g[e][u] \in Int
  /\ \A e \in E : row[e] = SumFunctionOnSet(g[e], S)

ColumnOf(g, u, T) == [e \in T |-> g[e][u]]
ColumnSums(g, S, T) == [u \in S |-> SumFunctionOnSet(ColumnOf(g, u, T), T)]

\* The rows of a table and its columns add up to the same.
LEMMA SumSwap ==
  ASSUME NEW g, NEW E, NEW S, NEW row, Table(g, E, S, row)
  PROVE  SumFunctionOnSet(row, E) = SumFunctionOnSet(ColumnSums(g, S, E), S)
  <1> DEFINE total(T) == SumFunctionOnSet(ColumnSums(g, S, T), S)
             Good == {T \in SUBSET E : SumFunctionOnSet(row, T) = total(T)}
  <1>1. /\ IsFiniteSet(E) /\ IsFiniteSet(S)
        /\ \A e \in E : \A u \in S : g[e][u] \in Int
        /\ \A e \in E : row[e] = SumFunctionOnSet(g[e], S)
    BY DEF Table
  <1>2. \A e \in E : row[e] \in Int
    <2> SUFFICES ASSUME NEW e \in E
                 PROVE  SumFunctionOnSet(g[e], S) \in Int
      BY <1>1
    <2> DEFINE f == g[e]
    <2>1. \A u \in S : f[u] \in Int
      BY <1>1
    <2> HIDE DEF f
    <2>2. SumFunctionOnSet(f, S) \in Int
      BY <1>1, <2>1, SumInt
    <2>3. QED
      BY <2>2 DEF f
  <1>3. {} \in Good
    <2> DEFINE cols == ColumnSums(g, S, {})
    <2>1. \A u \in S : cols[u] = 0
      BY SumEmpty DEF ColumnSums
    <2> HIDE DEF cols
    <2>2. SumFunctionOnSet(cols, S) = 0
      BY <1>1, <2>1, SumZero
    <2>3. QED
      BY <2>2, SumEmpty DEF cols
  <1>4. ASSUME NEW T \in SUBSET E, NEW x \in E, T \in Good, x \notin T
        PROVE  T \cup {x} \in Good
    <2> DEFINE V    == T \cup {x}
               old  == ColumnSums(g, S, T)
               new  == ColumnSums(g, S, V)
               last == g[x]
    <2>1. IsFiniteSet(T) /\ \A e \in V : e \in E
      BY <1>1, FS_Subset
    <2>2. SumFunctionOnSet(row, V) = SumFunctionOnSet(row, T) + row[x]
      <3>1. \A e \in T \cup {x} : row[e] \in Int
        BY <1>2
      <3>2. QED
        BY <1>4, <2>1, <3>1, SumAddElement
    <2>3. ASSUME NEW u \in S
          PROVE  old[u] \in Int /\ last[u] \in Int /\ new[u] = old[u] + last[u]
      <3> DEFINE f == ColumnOf(g, u, T)
                 h == ColumnOf(g, u, V)
      <3>1. /\ \A e \in T : f[e] = g[e][u] /\ f[e] \in Int
            /\ \A e \in T \cup {x} : h[e] = g[e][u] /\ h[e] \in Int
        BY <1>1, <2>1 DEF ColumnOf
      <3>2. old[u] = SumFunctionOnSet(f, T) /\ new[u] = SumFunctionOnSet(h, T \cup {x})
        BY DEF ColumnSums
      <3> HIDE DEF f, h, old, new
      <3>3. SumFunctionOnSet(h, T \cup {x}) = SumFunctionOnSet(h, T) + h[x]
        BY <1>4, <2>1, <3>1, SumAddElement
      <3>4. SumFunctionOnSet(h, T) = SumFunctionOnSet(f, T)
        <4>1. \A e \in T : h[e] = f[e]
          BY <3>1
        <4>2. QED
          BY <2>1, <4>1, SumSame
      <3>5. SumFunctionOnSet(f, T) \in Int
        BY <2>1, <3>1, SumInt
      <3>6. h[x] = last[u] /\ last[u] \in Int
        BY <3>1
      <3> HIDE DEF last
      <3>7. QED
        BY <3>2, <3>3, <3>4, <3>5, <3>6
    <2> HIDE DEF V, old, new, last
    <2>4. SumFunctionOnSet(new, S) = SumFunctionOnSet(old, S) + SumFunctionOnSet(last, S)
      BY <1>1, <2>3, SumPlus
    <2>5. SumFunctionOnSet(last, S) = row[x]
      BY <1>1 DEF last
    <2>6. SumFunctionOnSet(row, T) = SumFunctionOnSet(old, S)
      BY <1>4 DEF old
    <2>7. SumFunctionOnSet(row, V) = SumFunctionOnSet(new, S)
      BY <2>2, <2>4, <2>5, <2>6
    <2>8. QED
      BY <2>7 DEF V, new
  <1> HIDE DEF Good
  <1>5. E \in Good
    BY <1>1, <1>3, <1>4, SetInduction
  <1>6. QED
    BY <1>5 DEF Good


\* One term changes.
LEMMA SumOneChanges ==
  ASSUME NEW f, NEW g, NEW S, IsFiniteSet(S), NEW x \in S,
         \A y \in S : f[y] \in Int /\ g[y] \in Int /\ (y # x => g[y] = f[y])
  PROVE  SumFunctionOnSet(g, S) = SumFunctionOnSet(f, S) + (g[x] - f[x])
  <1> DEFINE R == S \ {x}
  <1>1. IsFiniteSet(R) /\ \A y \in R : f[y] \in Int /\ g[y] = f[y]
    BY FS_RemoveElement
  <1>2. /\ SumFunctionOnSet(f, S) = f[x] + SumFunctionOnSet(f, R)
        /\ SumFunctionOnSet(g, S) = g[x] + SumFunctionOnSet(g, R)
    BY SumRemove
  <1> HIDE DEF R
  <1>3. SumFunctionOnSet(g, R) = SumFunctionOnSet(f, R)
    BY <1>1, SumSame
  <1>4. SumFunctionOnSet(f, R) \in Int
    BY <1>1, SumInt
  <1>5. QED
    BY <1>2, <1>3, <1>4
=============================================================================
