-------------------------------- MODULE Plans --------------------------------
(***************************************************************************)
(* The plans OptimizeTransfers may make for some balances, for those who    *)
(* call it: what each debtor pays each creditor, in cents.  Transfers is    *)
(* the loop and is checked against this; Settlement only uses this.         *)
(***************************************************************************)
EXTENDS Integers, FiniteSets, FiniteSetsExt, Functions

CONSTANT Users

\* Who takes part: one cent of debt is taken for rounding noise.
Owing(bal) == {u \in Users : bal[u] < -1}
Due(bal)   == {u \in Users : bal[u] > 0}

Most(bal) == Max({0} \cup {-bal[u] : u \in Owing(bal)})

\* Nobody goes past zero, one side is settled completely, and there are fewer
\* payments than people.
Flows(bal) ==
  {f \in [Owing(bal) \X Due(bal) -> 0 .. Most(bal)] :
     LET pays(u) == SumFunctionOnSet([v \in Due(bal) |-> f[<<u, v>>]], Due(bal))
         gets(v) == SumFunctionOnSet([u \in Owing(bal) |-> f[<<u, v>>]], Owing(bal))
         used    == {p \in DOMAIN f : f[p] > 0}
     IN  /\ \A u \in Owing(bal) : pays(u) <= -bal[u]
         /\ \A v \in Due(bal) : gets(v) <= bal[v]
         /\ \/ \A u \in Owing(bal) : pays(u) = -bal[u]
            \/ \A v \in Due(bal) : gets(v) = bal[v]
         /\ used # {} => Cardinality(used) < Cardinality(Owing(bal) \cup Due(bal))}
=============================================================================
