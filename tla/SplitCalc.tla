------------------------------ MODULE SplitCalc ------------------------------
(***************************************************************************)
(* CalculateShares: how a bill is split.  A behaviour is one call: the      *)
(* arguments, then what it returns.  Amounts that arrive in a request are   *)
(* multiples of 1/Grain cent, everything the function returns is in whole   *)
(* cents.  A participant is a position in the list; the code never looks    *)
(* at the user id.                                                         *)
(***************************************************************************)
EXTENDS Cents, FiniteSets, Sequences, Functions

CONSTANTS Grain,     \* amounts of a request are multiples of 1/Grain cent
          MaxInt,    \* the largest int64
          Calls      \* the calls considered

ASSUME GrainAssumption == Grain \in Nat \ {0}
ASSUME MaxIntAssumption == MaxInt \in Nat \ {0}

Kinds       == {"equal", "ratio", "amount", "share"}
Participant == [ratio : Int, amount : Int, share : -MaxInt - 1 .. MaxInt]

ASSUME CallsAssumption ==
  \A c \in Calls :
    /\ c.kind \in Kinds /\ c.total \in Int
    /\ c.people \in Seq(Participant)

VARIABLES call,      \* the arguments
          outcome,   \* the error returned, "ok", or "pending" before the return
          owed       \* what each participant owes, in the order of the list

splitVars == <<call, outcome, owed>>

Outcome == {"pending", "ok", "ErrInvalidSplit", "ErrSumMismatch"}

Accept(cents) == [outcome |-> "ok", owed |-> cents]

Refuse(err) == [outcome |-> err, owed |-> <<>>]

People(c) == DOMAIN c.people

\* Sum of f over the first k of a list.
SumTo(f, k) == SumFunctionOnSet(f, 1 .. k)
SumOf(f) == SumTo(f, Len(f))

Column(c, field) == [k \in People(c) |-> c.people[k][field]]

-----------------------------------------------------------------------------
\* Variant: the last participant pays like everybody else.
LastAbsorbsNothing(c, cents) == cents

\* All but the last pay their rounded part, the last one what is left.  The
\* running sum is of whole cents from zero up, which round2 leaves alone.
LastAbsorbs(c, cents) ==
  LET n == Len(c.people)
  IN  [cents EXCEPT ![n] = round2(c.total - Grain * SumTo(cents, n - 1), Grain)]

\* Variant: everybody's part is rounded down.
ByEqualDown(c) ==
  LET n == Len(c.people)
  IN  Accept(LastAbsorbs(c, [k \in People(c) |-> c.total \div (Grain * n)]))

ByEqual(c) ==
  LET n == Len(c.people)
  IN  Accept(LastAbsorbs(c, [k \in People(c) |-> round2(c.total, Grain * n)]))

ByRatio(c) ==
  LET sum == SumOf(Column(c, "ratio"))
  IN  IF sum <= 0 \/ \E k \in People(c) : c.people[k].ratio < 0
        THEN Refuse("ErrInvalidSplit")
        ELSE Accept(LastAbsorbs(c, [k \in People(c) |->
                                      round2(c.total * c.people[k].ratio, Grain * sum)]))

ByAmount(c) ==
  LET negative == \E k \in People(c) : c.people[k].amount < 0
      sums     == round2(SumOf(Column(c, "amount")), Grain) = round2(c.total, Grain)
  IN  CASE negative           -> Refuse("ErrInvalidSplit")
        [] ~negative /\ ~sums -> Refuse("ErrSumMismatch")
        [] ~negative /\ sums  -> Accept([k \in People(c) |-> round2(c.people[k].amount, Grain)])

-----------------------------------------------------------------------------
(* By share: int64 arithmetic on cents *)

\* A result of int64 arithmetic.
Wrap(x) == ((x + MaxInt + 1) % (2 * (MaxInt + 1))) - (MaxInt + 1)

TotalCents(c) == round2(c.total, Grain)
SumShare(c) == SumOf(Column(c, "share"))

\* Variant: only the sum of the shares is kept in range.
InRangeSumOnly(c) ==
  /\ \A k \in People(c) : c.people[k].share > 0
  /\ SumShare(c) <= MaxInt

\* The checks before the arithmetic: the total fits, the shares are positive,
\* their sum fits, and so does total times sum.
InRange(c) ==
  /\ 2 * c.total + Grain < 2 * Grain * MaxInt
  /\ \A k \in People(c) : c.people[k].share > 0
  /\ SumShare(c) <= MaxInt
  /\ TotalCents(c) > 0 => SumShare(c) <= MaxInt \div TotalCents(c)

\* totalCents*share/sumShare, rounded half up.
RoundedPart(c, k) ==
  LET prod == Wrap(TotalCents(c) * c.people[k].share)
      r    == prod % SumShare(c)
  IN  (prod \div SumShare(c)) + IF r >= SumShare(c) - r THEN 1 ELSE 0

\* The place in the order the remainder is handed out: more shares first, and
\* among equals the order of the list.
Rank(c, k) ==
  1 + Cardinality({l \in People(c) :
                     \/ c.people[l].share > c.people[k].share
                     \/ c.people[l].share = c.people[k].share /\ l < k})

\* A cent each in turn, as long as there is a remainder.
HandOut(c, cents, remainder) ==
  LET n == Len(c.people)
  IN  [k \in People(c) |->
         cents[k] + Cardinality({m \in 1 .. remainder : ((m - 1) % n) + 1 = Rank(c, k)})]

\* Whom one pass of the loop takes a cent back from: in turn, the last first,
\* never below zero, and no more than too much is allocated.
Payers(c, cents) == {k \in People(c) : cents[k] > 0}
Hit(c, cents, excess) ==
  {k \in Payers(c, cents) :
     Cardinality({l \in Payers(c, cents) : Rank(c, l) > Rank(c, k)}) < excess}

\* What a pass leaves.
Pass(c, left) ==
  LET hit == Hit(c, left.cents, left.excess)
  IN  [cents  |-> [k \in People(c) |-> left.cents[k] - IF k \in hit THEN 1 ELSE 0],
       excess |-> left.excess - Cardinality(hit)]

\* Another pass while the last one got something.
TakeBack(c) ==
  LET back[left \in [cents : [People(c) -> Nat], excess : Nat]] ==
        IF Hit(c, left.cents, left.excess) = {} THEN left.cents ELSE back[Pass(c, left)]
  IN  back

\* Variant: the remainder is dropped.
ByShareRounded(c) ==
  IF InRange(c)
    THEN Accept([k \in People(c) |-> RoundedPart(c, k)])
    ELSE Refuse("ErrInvalidSplit")

ByShare(c) ==
  LET cents     == [k \in People(c) |-> RoundedPart(c, k)]
      remainder == TotalCents(c) - SumOf(cents)
  IN  CASE ~InRange(c)                  -> Refuse("ErrInvalidSplit")
        [] InRange(c) /\ remainder >= 0 -> Accept(HandOut(c, cents, remainder))
        [] InRange(c) /\ remainder < 0  ->
             Accept(TakeBack(c)[[cents |-> cents, excess |-> -remainder]])

-----------------------------------------------------------------------------
CalculateShares(c) ==
  IF c.total <= 0 \/ c.people = <<>> THEN Refuse("ErrInvalidSplit")
  ELSE CASE c.kind = "equal"  -> ByEqual(c)
         [] c.kind = "ratio"  -> ByRatio(c)
         [] c.kind = "amount" -> ByAmount(c)
         [] c.kind = "share"  -> ByShare(c)

SplitInit == call \in Calls /\ outcome = "pending" /\ owed = <<>>

SplitReturn ==
  /\ outcome = "pending"
  /\ LET result == CalculateShares(call)
     IN  outcome' = result.outcome /\ owed' = result.owed
  /\ UNCHANGED call

Finished == outcome # "pending" /\ UNCHANGED splitVars

SplitNext == SplitReturn \/ Finished

SplitSpec == SplitInit /\ [][SplitNext]_splitVars

-----------------------------------------------------------------------------
(* Properties *)

Accepted == outcome = "ok"

\* Split by share, the parts add up to the total to the cent and nobody pays
\* less than nothing.
ShareIsExact ==
  Accepted /\ call.kind = "share" =>
    /\ SumOf(owed) = TotalCents(call)
    /\ \A k \in People(call) : owed[k] >= 0

\* Split by share, a part is less than two cents off the exact one, and who has
\* more shares, or as many and an earlier place in the list, never pays less.
ShareIsFair ==
  Accepted /\ call.kind = "share" =>
    /\ \A k \in People(call) :
         LET off == owed[k] * SumShare(call) - TotalCents(call) * call.people[k].share
         IN  off < 2 * SumShare(call) /\ -off < 2 * SumShare(call)
    /\ \A k, l \in People(call) :
         \/ call.people[k].share > call.people[l].share
         \/ call.people[k].share = call.people[l].share /\ k < l
         => owed[k] >= owed[l]

\* Split equally or by ratio, the parts add up to the total, or to a cent more
\* when the last participant would have to be paid.  Split by amounts in whole
\* cents they add up.
SumIsClose ==
  Accepted =>
    /\ call.kind \in {"equal", "ratio"} =>
         SumOf(owed) - TotalCents(call) \in
           {0} \cup {d \in {1} : owed[Len(owed)] <= 0}
    /\ call.kind = "amount" /\ (\A k \in People(call) : call.people[k].amount % Grain = 0) =>
         SumOf(owed) = TotalCents(call)

\* Every part but the last is within half a cent, and the last is off by no
\* more than half a cent for each participant.
ErrorIsBounded ==
  Accepted /\ call.kind \in {"equal", "ratio"} =>
    \A k \in People(call) :
      LET n    == Len(call.people)
          part == IF call.kind = "equal" THEN 1 ELSE call.people[k].ratio
          all  == IF call.kind = "equal" THEN n ELSE SumOf(Column(call, "ratio"))
          off  == 2 * (owed[k] * Grain * all - call.total * part)
          room == (IF k < n THEN 1 ELSE n) * Grain * all
      IN  off <= room /\ -off <= room

-----------------------------------------------------------------------------
(* What the code says of itself *)

\* "保证合计等于总额": the parts add up to the total.
SumIsTotal == Accepted => SumOf(owed) = TotalCents(call)
=============================================================================
