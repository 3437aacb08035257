-------------------------- MODULE SettlementProofs --------------------------
(***************************************************************************)
(* For every set of users, requests and books: nobody pays a suggestion     *)
(* another has paid, what a Generate sweeps is gone, and the statements of  *)
(* Generate and Settle, their row locks and their deadlocks come to the     *)
(* abstract list of suggestions.                                           *)
(*                                                                         *)
(* Two facts carry the argument: rows in the hands of two requests are       *)
(* different rows, and the rows a Generate inserts are nobody's before.     *)
(***************************************************************************)
EXTENDS Settlement, TLAPS

\* A plan is a set of rows, and they are the request's own.
LEMMA SuggestedRows ==
  ASSUME NEW bal, NEW r \in Requests, NEW plan \in Suggested(bal, r)
  PROVE  plan \subseteq Row /\ \A t \in plan : t.by = r
  <1>1. PICK f \in Optimized!Flows(bal) :
          plan = {[by |-> r, from |-> p[1], to |-> p[2], cents |-> f[p]] :
                    p \in {p \in DOMAIN f : f[p] > 0}}
    BY DEF Suggested
  <1>2. f \in [Optimized!Owing(bal) \X Optimized!Due(bal) -> 0 .. Optimized!Most(bal)]
    BY DEF Optimized!Flows
  <1>3. \A p \in DOMAIN f : p[1] \in Users /\ p[2] \in Users /\ f[p] \in Int
    BY <1>2 DEF Optimized!Owing, Optimized!Due
  <1> QED
    BY <1>1, <1>3 DEF Row

\* The tables of the group keep their types.
LEMMA GroupTypes ==
  ASSUME GroupTypeOK, GroupNext
  PROVE  GroupTypeOK'
  BY DEF GroupTypeOK, GroupNext, ArchiveGroup, ReopenGroup, AddMember, DropMember, GroupStatus,
         MemberStatus

\* To answer ends the request and lets go of its rows.
LEMMA AnswerEffect ==
  ASSUME TypeOK, NEW r \in Requests, NEW outcome \in Final, Answer(r, outcome)
  PROVE  /\ pc' = [pc EXCEPT ![r] = outcome] /\ pc' \in [Requests -> Stage]
         /\ people' \in [Requests -> SUBSET Users]
         /\ paid' \in [Requests -> [Users -> Int]] /\ owed' \in [Requests -> [Users -> Int]]
         /\ asked' \in [Requests -> SUBSET Row]
         /\ wanted' = [wanted EXCEPT ![r] = {}] /\ wanted' \in [Requests -> SUBSET Row]
         /\ held' = [held EXCEPT ![r] = {}] /\ held' \in [Requests -> SUBSET Row]
  <1>1. NoTotals \in [Users -> Int]
    BY DEF NoTotals
  <1> QED
    BY <1>1 DEF Answer, Goto, TypeOK, Stage

\* So does the answer to a COMMIT, whether or not its reply came.
LEMMA WrittenEffect ==
  ASSUME TypeOK, NEW r \in Requests, AnswerWritten(r)
  PROVE  /\ \E outcome \in Final : pc' = [pc EXCEPT ![r] = outcome]
         /\ pc' \in [Requests -> Stage]
         /\ people' \in [Requests -> SUBSET Users]
         /\ paid' \in [Requests -> [Users -> Int]] /\ owed' \in [Requests -> [Users -> Int]]
         /\ asked' \in [Requests -> SUBSET Row]
         /\ wanted' = [wanted EXCEPT ![r] = {}] /\ wanted' \in [Requests -> SUBSET Row]
         /\ held' = [held EXCEPT ![r] = {}] /\ held' \in [Requests -> SUBSET Row]
  BY AnswerEffect DEF AnswerWritten

\* Every step keeps the types.
LEMMA TypeStep ==
  ASSUME Inductive, [Next]_vars
  PROVE  TypeOK'
  <1>0. TypeOK
    BY DEF Inductive
  <1> USE DEF groupVars, bookVars, tableVars, requestVars
  <1>1. ASSUME NEW r \in Requests, NEW ok, NEW stage \in Stage, Check(r, ok, stage)
        PROVE  TypeOK'
    <2>1. CASE ok
      BY <1>0, <1>1, <2>1 DEF Check, Goto, TypeOK, GroupTypeOK
    <2>2. CASE ~ok
      BY <1>0, <1>1, <2>2, AnswerEffect DEF Check, TypeOK, GroupTypeOK, Final
    <2> QED
      BY <2>1, <2>2
  <1>2. ASSUME NEW r \in Requests, BeginGenerate(r)
        PROVE  TypeOK'
    BY <1>0, <1>2 DEF BeginGenerate, Goto, TypeOK, GroupTypeOK, Stage, Working
  <1>3. ASSUME NEW r \in Requests, LockGroup(r) \/ CheckMember(r) \/ RowsTaken(r)
        PROVE  TypeOK'
    BY <1>1, <1>3 DEF LockGroup, CheckMember, RowsTaken, Stage, Working
  <1>4. ASSUME NEW r \in Requests, ReadMembers(r)
        PROVE  TypeOK'
    <2>1. CASE Cardinality(ActiveMembers) < 2
      BY <1>0, <1>4, <2>1, AnswerEffect DEF ReadMembers, TypeOK, GroupTypeOK, Final
    <2>2. CASE ~(Cardinality(ActiveMembers) < 2)
      <3>1. ActiveMembers \subseteq Users
        BY DEF ActiveMembers
      <3> QED
        BY <1>0, <1>4, <2>2, <3>1 DEF ReadMembers, Goto, TypeOK, GroupTypeOK, Stage, Working
    <2> QED
      BY <2>1, <2>2
  <1>5. ASSUME NEW r \in Requests, ReadPaid(r) \/ ReadOwed(r)
        PROVE  TypeOK'
    <2>1. book.paid \in [Users -> Int] /\ book.owed \in [Users -> Int]
      BY <1>0, BooksAssumption DEF TypeOK
    <2> QED
      BY <1>0, <1>5, <2>1 DEF ReadPaid, ReadOwed, Goto, TypeOK, GroupTypeOK, Stage, Working
  <1>6. ASSUME NEW r \in Requests, DeleteAllByGroup(r) \/ UpdatePending(r)
        PROVE  TypeOK'
    BY <1>0, <1>6
    DEF DeleteAllByGroup, UpdatePending, Rows, Goto, TypeOK, GroupTypeOK, Stage, Working
  <1>7. ASSUME NEW r \in Requests, CommitGenerate(r)
        PROVE  TypeOK'
    <2>1. PICK plan \in Suggested(Balances(r), r) :
            pending' = (pending \ held[r]) \cup plan /\ settled' = settled \ held[r]
      BY <1>7 DEF CommitGenerate
    <2>2. plan \subseteq Row /\ \A t \in plan : t.by = r
      BY SuggestedRows
    <2>3. plan \cap settled = {}
      BY <1>7, <2>2 DEF CommitGenerate, Inductive, RowsAreCommitted, Rows, Over, Final
    <2>4. pending' \subseteq Row /\ settled' \subseteq Row /\ pending' \cap settled' = {}
      BY <1>0, <2>1, <2>2, <2>3 DEF TypeOK
    <2> QED
      BY <1>0, <1>7, <2>4 DEF CommitGenerate, Goto, TypeOK, GroupTypeOK, Stage, Working
  <1>8. ASSUME NEW r \in Requests, List(r) \/ AbortDeadlock(r) \/ Fail(r)
        PROVE  TypeOK'
    BY <1>0, <1>8, AnswerEffect DEF List, AbortDeadlock, Fail, TypeOK, GroupTypeOK, Final
  <1>9. ASSUME NEW r \in Requests, BeginSettle(r)
        PROVE  TypeOK'
    BY <1>0, <1>9 DEF BeginSettle, Rows, Goto, TypeOK, GroupTypeOK, Stage, Working
  <1>10. ASSUME NEW r \in Requests, FindSuggestion(r)
         PROVE  TypeOK'
    <2>1. PICK t \in asked[r] :
            IF t \in Rows
              THEN /\ asked' = [asked EXCEPT ![r] = @ \ {t}]
                   /\ Goto(r, "member")
                   /\ UNCHANGED <<people, paid, owed, wanted, held>>
              ELSE Answer(r, "failed")
      BY <1>10 DEF FindSuggestion
    <2>2. CASE t \in Rows
      <3>1. (asked[r] \ {t}) \in SUBSET Row /\ "member" \in Stage
        BY <1>0 DEF TypeOK, Stage, Working
      <3> DEFINE rest == asked[r] \ {t}
      <3>2. asked' = [asked EXCEPT ![r] = rest] /\ pc' = [pc EXCEPT ![r] = "member"]
            /\ UNCHANGED <<people, paid, owed, wanted, held>>
        BY <2>1, <2>2 DEF Goto
      <3> HIDE DEF rest
      <3>3. asked' \in [Requests -> SUBSET Row] /\ pc' \in [Requests -> Stage]
        BY <1>0, <3>1, <3>2 DEF TypeOK, rest
      <3> QED
        BY <1>0, <1>10, <3>2, <3>3 DEF FindSuggestion, TypeOK, GroupTypeOK
    <2>3. CASE t \notin Rows
      BY <1>0, <1>10, <2>1, <2>3, AnswerEffect DEF FindSuggestion, TypeOK, GroupTypeOK, Final
    <2> QED
      BY <2>2, <2>3
  <1>11. ASSUME NEW r \in Requests, CommitSettle(r)
         PROVE  TypeOK'
    <2>1. held[r] \subseteq Row
      BY <1>0 DEF TypeOK
    <2>2. pending' \subseteq Row /\ settled' \subseteq Row /\ pending' \cap settled' = {}
      BY <1>0, <1>11, <2>1 DEF CommitSettle, TypeOK
    <2> QED
      BY <1>0, <1>11, <2>2, WrittenEffect DEF CommitSettle, TypeOK, GroupTypeOK
  <1>12. ASSUME NEW r \in Requests, TakeRow(r)
         PROVE  TypeOK'
    <2>1. PICK t \in wanted[r] \ held[r] :
            \/ held' = [held EXCEPT ![r] = @ \cup {t}] /\ UNCHANGED wanted
            \/ wanted' = [wanted EXCEPT ![r] = @ \ {t}] /\ UNCHANGED held
      BY <1>12 DEF TakeRow
    <2>2. (held[r] \cup {t}) \in SUBSET Row /\ (wanted[r] \ {t}) \in SUBSET Row
      BY <1>0 DEF TypeOK
    <2>3. wanted' \in [Requests -> SUBSET Row] /\ held' \in [Requests -> SUBSET Row]
      BY <1>0, <2>1, <2>2 DEF TypeOK
    <2> QED
      BY <1>0, <1>12, <2>3 DEF TakeRow, TypeOK, GroupTypeOK
  <1>13. ASSUME BookStep
         PROVE  TypeOK'
    BY <1>0, <1>13 DEF BookStep, TypeOK, GroupTypeOK
  <1>14. ASSUME GroupStep
         PROVE  TypeOK'
    BY <1>0, <1>14, GroupTypes DEF GroupStep, TypeOK
  <1>15. ASSUME UNCHANGED vars
         PROVE  TypeOK'
    BY <1>0, <1>15 DEF vars, TypeOK, GroupTypeOK
  <1> QED
    BY <1>2, <1>3, <1>4, <1>5, <1>6, <1>7, <1>8, <1>9, <1>10, <1>11, <1>12, <1>13, <1>14, <1>15
    DEF Next, Handle

-----------------------------------------------------------------------------
\* What every step of a request that does not commit and takes no row comes to.
Quiet(r) ==
  /\ UNCHANGED <<pending, settled>>
  /\ \A q \in Requests : q # r =>
       pc'[q] = pc[q] /\ wanted'[q] = wanted[q] /\ held'[q] = held[q]
  /\ held'[r] = held[r] \/ held'[r] = {}
  /\ pc[r] \in Over => pc'[r] \in Over
  /\ HoldsWhatItTook(r)'

\* Such a step keeps the invariant.
LEMMA QuietStep ==
  ASSUME Inductive, TypeOK', NEW r \in Requests, Quiet(r)
  PROVE  Inductive'
  <1>1. Rows' = Rows /\ pending' = pending
    BY DEF Quiet, Rows
  <1>2. \A q \in Requests : held'[q] \subseteq held[q]
    BY DEF Quiet
  <1>3. RowsHeldByOne' /\ PaidOnce'
    BY <1>1, <1>2 DEF Inductive, RowsHeldByOne, PaidOnce
  <1>4. \A q \in Requests : HoldsWhatItTook(q)'
    <2> SUFFICES ASSUME NEW q \in Requests PROVE HoldsWhatItTook(q)'
      OBVIOUS
    <2>1. CASE q = r
      BY <2>1 DEF Quiet
    <2>2. CASE q # r
      BY <2>2 DEF Quiet, Inductive, HoldsWhatItTook
    <2> QED
      BY <2>1, <2>2
  <1>5. \A q \in Requests : pc[q] \in Over => pc'[q] \in Over
    BY DEF Quiet
  <1>6. \A t \in Rows : t.by \in Requests
    BY DEF Inductive, TypeOK, Rows, Row
  <1>7. RowsAreCommitted'
    BY <1>1, <1>5, <1>6 DEF Inductive, RowsAreCommitted
  <1> QED
    BY <1>3, <1>4, <1>7 DEF Inductive

\* To answer is such a step.
LEMMA AnswerIsQuiet ==
  ASSUME Inductive, NEW r \in Requests, NEW outcome \in Final, Answer(r, outcome),
         UNCHANGED tableVars
  PROVE  Quiet(r)
  BY AnswerEffect DEF Quiet, Inductive, TypeOK, tableVars, HoldsWhatItTook, Final, Over

\* So is to go on to another statement, with the rows as they are.
LEMMA GotoIsQuiet ==
  ASSUME Inductive, NEW r \in Requests, NEW stage, Goto(r, stage),
         stage \in {"insert", "list"} => stage = "insert" /\ wanted[r] = held[r],
         pc[r] \notin Over, stage \in {"take", "insert"} \/ held[r] = {},
         wanted' = wanted, held' = held, UNCHANGED tableVars
  PROVE  Quiet(r)
  BY DEF Goto, Quiet, Inductive, TypeOK, tableVars, HoldsWhatItTook, Final, Over

\* The statements that neither take a row nor commit.
Statement(r) ==
  \/ BeginGenerate(r) \/ LockGroup(r) \/ ReadMembers(r) \/ ReadPaid(r) \/ ReadOwed(r)
  \/ DeleteAllByGroup(r) \/ List(r) \/ BeginSettle(r) \/ FindSuggestion(r) \/ CheckMember(r)
  \/ UpdatePending(r) \/ RowsTaken(r) \/ AbortDeadlock(r) \/ Fail(r)

\* Each of these statements is such a step.
LEMMA StatementsAreQuiet ==
  ASSUME Inductive, NEW r \in Requests, Statement(r)
  PROVE  Quiet(r)
  <1> USE DEF groupVars, bookVars, tableVars
  <1>0. TypeOK /\ HoldsWhatItTook(r)
    BY DEF Inductive
  <1>1. ASSUME NEW ok, NEW stage, Check(r, ok, stage), pc[r] \notin Over,
               stage \notin {"insert", "list"} \/ (stage = "insert" /\ wanted[r] = held[r]),
               stage \in {"take", "insert"} \/ held[r] = {}
        PROVE  Quiet(r)
    <2>1. CASE ok
      BY <1>1, <2>1, GotoIsQuiet DEF Check
    <2>2. CASE ~ok
      BY <1>1, <2>2, AnswerIsQuiet DEF Check, Final
    <2> QED
      BY <2>1, <2>2
  <1>2. CASE BeginGenerate(r)
    BY <1>0, <1>2, GotoIsQuiet DEF BeginGenerate, HoldsWhatItTook, Over, Final
  <1>3. CASE LockGroup(r)
    BY <1>0, <1>1, <1>3 DEF LockGroup, HoldsWhatItTook, Over, Final
  <1>4. CASE ReadMembers(r)
    <2>1. CASE Cardinality(ActiveMembers) < 2
      BY <1>4, <2>1, AnswerIsQuiet DEF ReadMembers, Final
    <2>2. CASE ~(Cardinality(ActiveMembers) < 2)
      BY <1>0, <1>4, <2>2, GotoIsQuiet DEF ReadMembers, HoldsWhatItTook, Over, Final
    <2> QED
      BY <2>1, <2>2
  <1>5. CASE ReadPaid(r)
    BY <1>0, <1>5, GotoIsQuiet DEF ReadPaid, HoldsWhatItTook, Over, Final
  <1>6. CASE ReadOwed(r)
    BY <1>0, <1>6, GotoIsQuiet DEF ReadOwed, HoldsWhatItTook, Over, Final
  <1>7. CASE DeleteAllByGroup(r) \/ UpdatePending(r)
    <2>1. held[r] = {} /\ pc[r] \notin Over
      BY <1>0, <1>7 DEF DeleteAllByGroup, UpdatePending, HoldsWhatItTook, Over, Final
    <2> QED
      BY <1>0, <1>7, <2>1
      DEF DeleteAllByGroup, UpdatePending, Goto, Quiet, TypeOK, HoldsWhatItTook, Over, Final
  <1>8. CASE List(r) \/ AbortDeadlock(r) \/ Fail(r)
    BY <1>8, AnswerIsQuiet DEF List, AbortDeadlock, Fail, Final
  <1>9. CASE BeginSettle(r)
    <2>1. held[r] = {} /\ pc[r] \notin Over
      BY <1>0, <1>9 DEF BeginSettle, HoldsWhatItTook, Over, Final
    <2> QED
      BY <1>0, <1>9, <2>1 DEF BeginSettle, Goto, Quiet, TypeOK, HoldsWhatItTook, Over, Final
  <1>10. CASE FindSuggestion(r)
    <2>1. PICK t \in asked[r] :
            IF t \in Rows
              THEN /\ asked' = [asked EXCEPT ![r] = @ \ {t}]
                   /\ Goto(r, "member")
                   /\ UNCHANGED <<people, paid, owed, wanted, held>>
              ELSE Answer(r, "failed")
      BY <1>10 DEF FindSuggestion
    <2>2. CASE t \in Rows
      BY <1>0, <1>10, <2>1, <2>2, GotoIsQuiet DEF FindSuggestion, HoldsWhatItTook, Over, Final
    <2>3. CASE t \notin Rows
      BY <1>10, <2>1, <2>3, AnswerIsQuiet DEF FindSuggestion, Final
    <2> QED
      BY <2>2, <2>3
  <1>11. CASE CheckMember(r)
    BY <1>0, <1>1, <1>11 DEF CheckMember, HoldsWhatItTook, Over, Final
  <1>12. CASE RowsTaken(r)
    BY <1>0, <1>1, <1>12 DEF RowsTaken, HoldsWhatItTook, Over, Final
  <1> QED
    BY <1>2, <1>3, <1>4, <1>5, <1>6, <1>7, <1>8, <1>9, <1>10, <1>11, <1>12 DEF Statement

\* A row that nobody else holds, and that is still there, is taken.
LEMMA TakeStep ==
  ASSUME Inductive, TypeOK', NEW r \in Requests, TakeRow(r)
  PROVE  Inductive'
  <1>0. TypeOK
    BY DEF Inductive
  <1>1. PICK t \in wanted[r] \ held[r] :
          /\ ~Locked(t, r)
          /\ IF Qualifies(r, t)
               THEN held' = [held EXCEPT ![r] = @ \cup {t}] /\ UNCHANGED wanted
               ELSE wanted' = [wanted EXCEPT ![r] = @ \ {t}] /\ UNCHANGED held
    BY DEF TakeRow
  <1>2. pc[r] = "take" /\ pc' = pc /\ pending' = pending /\ Rows' = Rows
    BY DEF TakeRow, tableVars, Rows
  <1>3. Qualifies(r, t) => t \in Rows /\ (Op[r] = "settle" => t \in pending)
    BY DEF Qualifies, Rows
  <1>4. \A q \in Requests : q # r => held'[q] = held[q] /\ wanted'[q] = wanted[q] /\ t \notin held[q]
    BY <1>0, <1>1 DEF TypeOK, Locked
  <1>5. \/ held'[r] = held[r] \cup {t} /\ wanted'[r] = wanted[r] /\ Qualifies(r, t)
        \/ held'[r] = held[r] /\ wanted'[r] = wanted[r] \ {t}
    BY <1>0, <1>1 DEF TypeOK
  <1>6. RowsHeldByOne'
    <2>1. \A q \in Requests : held'[q] \subseteq Rows'
      BY <1>2, <1>3, <1>4, <1>5 DEF Inductive, RowsHeldByOne
    <2>2. \A q \in Requests : q # r => held'[r] \cap held'[q] = {}
      BY <1>4, <1>5 DEF Inductive, RowsHeldByOne
    <2> QED
      BY <1>4, <2>1, <2>2 DEF Inductive, RowsHeldByOne
  <1>7. PaidOnce'
    BY <1>2, <1>3, <1>4, <1>5 DEF Inductive, PaidOnce
  <1>8. \A q \in Requests : HoldsWhatItTook(q)'
    BY <1>1, <1>2, <1>4, <1>5 DEF Inductive, HoldsWhatItTook
  <1>9. RowsAreCommitted'
    BY <1>2 DEF Inductive, RowsAreCommitted
  <1> QED
    BY <1>6, <1>7, <1>8, <1>9 DEF Inductive

\* The commits.  The rows of the request leave the lists they were in; those of
\* others are not among them.
LEMMA CommitStep ==
  ASSUME Inductive, TypeOK', NEW r \in Requests, CommitGenerate(r) \/ CommitSettle(r)
  PROVE  Inductive'
  <1>0. TypeOK
    BY DEF Inductive
  <1>1. /\ pc[r] = "insert" /\ pc'[r] \in Over /\ held'[r] = {}
        /\ \A q \in Requests : q # r =>
             pc'[q] = pc[q] /\ held'[q] = held[q] /\ wanted'[q] = wanted[q]
    <2>1. CASE CommitGenerate(r)
      BY <1>0, <2>1 DEF CommitGenerate, Goto, TypeOK, Over
    <2>2. CASE CommitSettle(r)
      BY <1>0, <2>2, WrittenEffect DEF CommitSettle, TypeOK, Over
    <2> QED
      BY <2>1, <2>2
  <1>2. /\ \A t \in pending' \ pending : t.by = r
        /\ pending \ held[r] \subseteq pending'
        /\ Rows' \subseteq Rows \cup (pending' \ pending)
        /\ Rows \ held[r] \subseteq Rows'
    <2>1. CASE CommitGenerate(r)
      <3>1. PICK plan \in Suggested(Balances(r), r) :
              pending' = (pending \ held[r]) \cup plan /\ settled' = settled \ held[r]
        BY <2>1 DEF CommitGenerate
      <3>2. \A t \in plan : t.by = r
        BY SuggestedRows
      <3> QED
        BY <3>1, <3>2 DEF Rows
    <2>2. CASE CommitSettle(r)
      <3>1. held[r] \subseteq Rows
        BY DEF Inductive, RowsHeldByOne
      <3> QED
        BY <2>2, <3>1 DEF CommitSettle, Rows
    <2> QED
      BY <2>1, <2>2
  <1>3. \A q \in Requests : q # r => held[q] \cap held[r] = {}
    BY DEF Inductive, RowsHeldByOne
  <1>4. RowsHeldByOne'
    BY <1>1, <1>2, <1>3 DEF Inductive, RowsHeldByOne
  <1>5. PaidOnce'
    BY <1>1, <1>2, <1>3 DEF Inductive, PaidOnce
  <1>6. \A q \in Requests : HoldsWhatItTook(q)'
    <2>1. HoldsWhatItTook(r)'
      BY <1>1 DEF HoldsWhatItTook, Over, Final
    <2>2. \A q \in Requests : q # r => HoldsWhatItTook(q)'
      BY <1>1 DEF Inductive, HoldsWhatItTook
    <2> QED
      BY <2>1, <2>2
  <1>7. RowsAreCommitted'
    <2>1. \A t \in Rows : t.by \in Requests /\ pc[t.by] \in Over
      BY <1>0 DEF Inductive, RowsAreCommitted, TypeOK, Rows, Row
    <2>2. \A t \in Rows : pc'[t.by] \in Over
      BY <1>1, <2>1
    <2> QED
      BY <1>1, <1>2, <2>2 DEF RowsAreCommitted
  <1> QED
    BY <1>4, <1>5, <1>6, <1>7 DEF Inductive

-----------------------------------------------------------------------------
\* What a request does is a statement, a row, or a commit.
LEMMA RequestSteps ==
  ASSUME NEW r \in Requests, BeginGenerate(r) \/ BeginSettle(r) \/ Handle(r) \/ Fail(r)
  PROVE  Statement(r) \/ TakeRow(r) \/ CommitGenerate(r) \/ CommitSettle(r)
  BY DEF Handle, Statement

\* What others do leaves requests and suggestions alone.
LEMMA OthersStep ==
  ASSUME Inductive, TypeOK', UNCHANGED <<pending, settled, pc, wanted, held>>
  PROVE  Inductive'
  BY DEF Inductive, RowsHeldByOne, PaidOnce, HoldsWhatItTook, RowsAreCommitted, Rows

\* The inductive invariant: rows are taken by one request at a time, those of a
\* Settle are still to be paid, and inserted rows are new.
THEOREM InductiveHolds == Spec => []Inductive
  <1>1. Init => Inductive
    <2> SUFFICES ASSUME Init PROVE Inductive
      OBVIOUS
    <2>1. TypeOK
      BY DEF Init, TypeOK, GroupTypeOK, GroupStatus, Stage, NoTotals
    <2> QED
      BY <2>1
      DEF Init, Inductive, RowsHeldByOne, PaidOnce, HoldsWhatItTook, RowsAreCommitted, Rows
  <1>2. Inductive /\ [Next]_vars => Inductive'
    <2> SUFFICES ASSUME Inductive, [Next]_vars PROVE Inductive'
      OBVIOUS
    <2>1. TypeOK'
      BY TypeStep
    <2>2. ASSUME NEW r \in Requests, BeginGenerate(r) \/ BeginSettle(r) \/ Handle(r) \/ Fail(r)
          PROVE  Inductive'
      BY <2>1, <2>2, RequestSteps, StatementsAreQuiet, QuietStep, TakeStep, CommitStep
    <2>3. ASSUME BookStep \/ GroupStep \/ UNCHANGED vars
          PROVE  Inductive'
      BY <2>1, <2>3, OthersStep DEF BookStep, GroupStep, vars, tableVars, requestVars
    <2> QED
      BY <2>2, <2>3 DEF Next
  <1> QED
    BY <1>1, <1>2, PTL DEF Spec

\* No row is in the hands of two requests.
THEOREM RowsAreHeldByOne == Spec => []RowsHeldByOne
  <1>1. Inductive => RowsHeldByOne
    BY DEF Inductive
  <1> QED
    BY <1>1, InductiveHolds, PTL

\* Of two Settles that name a suggestion, one counts it.
THEOREM SuggestionsArePaidOnce == Spec => []PaidOnce
  <1>1. Inductive => PaidOnce
    BY DEF Inductive
  <1> QED
    BY <1>1, InductiveHolds, PTL

\* What the DELETE of a Generate saw is gone when the Generate commits.
THEOREM SweptRowsAreGone == Spec => SweptIsGone
  <1> DEFINE Gone ==
        \A r \in Requests :
          Op[r] = "generate" /\ pc[r] \in {"take", "insert"} =>
            /\ pc'[r] \in {"take", "insert"} => wanted[r] \cap Rows' \subseteq wanted'[r]
            /\ pc'[r] = "list" => wanted[r] \cap Rows' = {}
  <1>1. Inductive /\ [Next]_vars => [Gone]_vars
    <2> SUFFICES ASSUME Inductive, [Next]_vars, NEW r \in Requests, Op[r] = "generate",
                        pc[r] \in {"take", "insert"}
                 PROVE  /\ pc'[r] \in {"take", "insert"} => wanted[r] \cap Rows' \subseteq wanted'[r]
                        /\ pc'[r] = "list" => wanted[r] \cap Rows' = {}
      OBVIOUS
    <2>0. TypeOK
      BY DEF Inductive
    <2>1. CASE pc'[r] = pc[r] /\ wanted'[r] = wanted[r]
      BY <2>1
    <2>2. CASE RowsTaken(r)
      BY <2>0, <2>2 DEF RowsTaken, Check, Goto, TypeOK
    <2>3. CASE TakeRow(r)
      BY <2>0, <2>3 DEF TakeRow, Qualifies, TypeOK, tableVars, Rows
    <2>4. CASE CommitGenerate(r)
      <3>1. PICK plan \in Suggested(Balances(r), r) :
              pending' = (pending \ held[r]) \cup plan /\ settled' = settled \ held[r]
        BY <2>4 DEF CommitGenerate
      <3>2. \A t \in plan : t.by = r
        BY SuggestedRows
      <3>3. wanted[r] = held[r] /\ held[r] \subseteq Rows
        BY <2>4 DEF CommitGenerate, Inductive, HoldsWhatItTook, RowsHeldByOne
      <3>4. \A t \in Rows : t.by # r
        BY <2>4 DEF CommitGenerate, Inductive, RowsAreCommitted, Over, Final
      <3>5. wanted[r] \cap Rows' = {}
        BY <3>1, <3>2, <3>3, <3>4 DEF Rows
      <3>6. pc'[r] = "list"
        BY <2>0, <2>4 DEF CommitGenerate, Goto, TypeOK
      <3> QED
        BY <3>5, <3>6
    <2>5. CASE AbortDeadlock(r) \/ Fail(r)
      BY <2>0, <2>5, AnswerEffect DEF AbortDeadlock, Fail, Final
    <2>6. ASSUME NEW q \in Requests, q # r, Statement(q) \/ TakeRow(q) \/ CommitGenerate(q) \/ CommitSettle(q)
          PROVE  pc'[r] = pc[r] /\ wanted'[r] = wanted[r]
      <3>1. CASE Statement(q)
        BY <2>6, <3>1, StatementsAreQuiet DEF Quiet
      <3>2. CASE TakeRow(q)
        BY <2>0, <2>6, <3>2 DEF TakeRow, TypeOK
      <3>3. CASE CommitGenerate(q) \/ CommitSettle(q)
        BY <2>0, <2>6, <3>3, WrittenEffect DEF CommitGenerate, CommitSettle, Goto, TypeOK
      <3> QED
        BY <2>6, <3>1, <3>2, <3>3
    <2>7. CASE BookStep \/ GroupStep \/ UNCHANGED vars
      BY <2>1, <2>7 DEF BookStep, GroupStep, vars, requestVars
    <2>8. ASSUME BeginGenerate(r) \/ BeginSettle(r) \/ Handle(r) \/ Fail(r)
          PROVE  RowsTaken(r) \/ TakeRow(r) \/ CommitGenerate(r) \/ AbortDeadlock(r) \/ Fail(r)
      BY <2>8 DEF Handle, BeginGenerate, BeginSettle, LockGroup, ReadMembers, ReadPaid, ReadOwed,
                  DeleteAllByGroup, List, FindSuggestion, CheckMember, UpdatePending, CommitSettle
    <2> QED
      BY <2>1, <2>2, <2>3, <2>4, <2>5, <2>6, <2>7, <2>8, RequestSteps DEF Next
  <1> QED
    BY <1>1, InductiveHolds, PTL DEF Spec, SweptIsGone

-----------------------------------------------------------------------------
\* The requests whose effect, if any, is in the table.
Spent == {r \in Requests : pc[r] \in Over}

\* The statements of Generate and Settle implement the abstract list: each
\* request changes it in one step, its commit, and otherwise gives up.
THEOREM SettlementIsSuggestionList == Spec => IsSuggestionList
  <1> USE DEF Spent
  <1>1. Init => SuggestionList!Init
    BY DEF Init, SuggestionList!Init, Over, Final
  <1>2. Inductive /\ [Next]_vars => [SuggestionList!Next]_<<pending, settled, Spent>>
    <2> SUFFICES ASSUME Inductive, [Next]_vars
                 PROVE  SuggestionList!Next \/ UNCHANGED <<pending, settled, Spent>>
      OBVIOUS
    <2>0. TypeOK
      BY DEF Inductive
    <2>1. ASSUME NEW r \in Requests, Statement(r)
          PROVE  SuggestionList!GiveUp(r) \/ UNCHANGED <<pending, settled, Spent>>
      <3>1. Quiet(r)
        BY <2>1, StatementsAreQuiet
      <3>2. Spent' = Spent \/ (r \notin Spent /\ Spent' = Spent \cup {r})
        BY <3>1 DEF Quiet
      <3> QED
        BY <3>1, <3>2 DEF Quiet, SuggestionList!GiveUp, SuggestionList!Spend
    <2>2. ASSUME NEW r \in Requests, TakeRow(r)
          PROVE  UNCHANGED <<pending, settled, Spent>>
      BY <2>2 DEF TakeRow, tableVars
    <2>3. ASSUME NEW r \in Requests, CommitGenerate(r) \/ CommitSettle(r)
          PROVE  r \notin Spent /\ Spent' = Spent \cup {r}
      <3>1. pc[r] \notin Over /\ \E stage \in Over : pc' = [pc EXCEPT ![r] = stage]
        BY <2>0, <2>3, WrittenEffect DEF CommitGenerate, CommitSettle, Goto, Over, Final
      <3> QED
        BY <2>0, <3>1 DEF TypeOK
    <2>4. ASSUME NEW r \in Requests, CommitGenerate(r)
          PROVE  SuggestionList!Propose(r)
      <3>1. PICK plan \in Suggested(Balances(r), r) :
              pending' = (pending \ held[r]) \cup plan /\ settled' = settled \ held[r]
        BY <2>4 DEF CommitGenerate
      <3>2. plan \subseteq Row /\ \A t \in plan : t.by = r
        BY SuggestedRows
      <3> QED
        BY <2>3, <2>4, <3>1, <3>2 DEF SuggestionList!Propose, SuggestionList!Spend
    <2>5. ASSUME NEW r \in Requests, CommitSettle(r)
          PROVE  SuggestionList!Pay(r)
      <3>1. held[r] \subseteq pending
        BY <2>5 DEF CommitSettle, Inductive, PaidOnce
      <3> QED
        BY <2>3, <2>5, <3>1 DEF CommitSettle, SuggestionList!Pay, SuggestionList!Spend
    <2>6. CASE BookStep \/ GroupStep \/ UNCHANGED vars
      BY <2>6 DEF BookStep, GroupStep, vars, tableVars, requestVars
    <2> QED
      BY <2>1, <2>2, <2>4, <2>5, <2>6, RequestSteps DEF Next, SuggestionList!Next
  <1> QED
    BY <1>1, <1>2, InductiveHolds, PTL DEF Spec, IsSuggestionList, SuggestionList!Spec
=============================================================================
