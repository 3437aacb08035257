----------------------------- MODULE Suggestions -----------------------------
(***************************************************************************)
(* What the settlements table of one group promises to a reader of          *)
(* committed data: every request takes effect in one step and at most once. *)
(* It replaces suggestions by a batch of its own, or marks suggestions as    *)
(* paid that were still to be paid a moment before.  What was withdrawn     *)
(* never comes back, and what was paid is never to be paid again.           *)
(***************************************************************************)
CONSTANTS Requests, Row

VARIABLES pending,   \* suggestions to be paid
          settled,   \* suggestions marked as paid
          spent      \* the requests that have had their effect, or given up

Init == pending = {} /\ settled = {} /\ spent = {}

Spend(r) == r \notin spent /\ spent' = spent \cup {r}

Propose(r) ==
  /\ Spend(r)
  /\ \A t \in pending' \ pending : t \in Row /\ t.by = r
  /\ settled' \subseteq settled

Pay(r) ==
  /\ Spend(r)
  /\ \E paid \in SUBSET pending :
       pending' = pending \ paid /\ settled' = settled \cup paid

GiveUp(r) == Spend(r) /\ UNCHANGED <<pending, settled>>

Next == \E r \in Requests : Propose(r) \/ Pay(r) \/ GiveUp(r)

Spec == Init /\ [][Next]_<<pending, settled, spent>>
=============================================================================
