---------------------------- MODULE MCSplitCalc ----------------------------
(* Bounds for SplitCalc: bills of up to MaxTotal half cents and up to four     *)
(* participants; and an int64 so small that products of the total and the       *)
(* shares, totals, and sums of shares are met on both sides of its end.         *)
EXTENDS SplitCalc

CONSTANTS MaxTotal, MaxPeople, Ratios, Amounts, Shares

Lists(S, n) == UNION {[1 .. m -> S] : m \in 0 .. n}

P(r, a, s) == [ratio |-> r, amount |-> a, share |-> s]

Made(kind, totals, lists) ==
  {[kind |-> kind, total |-> t, people |-> l] : t \in totals, l \in lists}

\* Totals of next to nothing, and some around the largest there is.
AtTheEnd == {1, 2} \cup Grain * MaxInt - 4 .. Grain * MaxInt + 2

MCCalls ==
  UNION {
    Made("equal", 0 .. MaxTotal, Lists({P(0, 0, 0)}, 2 * MaxPeople)),
    Made("ratio", 1 .. MaxTotal, Lists({P(r, 0, 0) : r \in Ratios}, MaxPeople)),
    Made("amount", 1 .. MaxTotal, Lists({P(0, a, 0) : a \in Amounts}, MaxPeople)),
    Made("share", 1 .. MaxTotal, Lists({P(0, 0, s) : s \in Shares}, MaxPeople)),
    Made("share", AtTheEnd, Lists({P(0, 0, s) : s \in {1, MaxInt \div 2, MaxInt}}, 3))}
=============================================================================
