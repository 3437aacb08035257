------------------------- MODULE ExpenseLedgerProofs -------------------------
(***************************************************************************)
(* For every set of users, requests and bills: the committed share rows of *)
(* an expense are those of one bill, the one its amount comes from, and an *)
(* edit that commits between another's read and its Save, for people in    *)
(* common, makes that Save fail.  The argument is the row lock: a           *)
(* transaction that deletes and re-inserts the shares of an expense has     *)
(* first written the expense's own row.                                    *)
(***************************************************************************)
EXTENDS ExpenseLedger, TLAPS

\* A default argument and the rows of a bill are of the right type.
LEMMA NoArgType == \A r \in Requests : NoArg(r) \in Arg
  BY OwnerAssumption, SomeBill DEF NoArg, Arg

\* So is the row of an expense that is not there.
LEMMA NoRowType == NoRow \in Row
  BY OwnerAssumption DEF NoRow, Row, Amounts, RowStatus

\* A bill has an amount and debts of users.
LEMMA BillType ==
  ASSUME NEW b \in Bills
  PROVE  /\ b.amount \in Amounts
         /\ DOMAIN b.owed \subseteq Users
         /\ \A u \in DOMAIN b.owed : b.owed[u] \in Int
  BY BillsAssumption DEF Amounts

\* The rows CreateShares inserts belong to the expense they are inserted for.
LEMMA ShareRowsType ==
  ASSUME NEW b \in Bills, NEW e \in Requests, NEW r \in Requests
  PROVE  /\ ShareRows(b, e, r) \subseteq ShareRow
         /\ \A s \in ShareRows(b, e, r) : s.exp = e
  BY BillType DEF ShareRows, ShareRow

\* The type of every table and of every request's local state.
THEOREM TypesHold == Spec => []TypeOK
  <1>1. Init => TypeOK
    BY NoArgType, NoRowType, OwnerAssumption
    DEF Init, TypeOK, GroupTypeOK, GroupStatus, MemberStatus, Stage
  <1>2. ASSUME TypeOK, [Next]_vars
        PROVE  TypeOK'
    <2> USE <1>2 DEF TypeOK
    <2>1. ASSUME NEW r \in Requests, Begin(r)
          PROVE  TypeOK'
      <3>1. PICK a \in Script[r] :
              /\ arg' = [arg EXCEPT ![r] = a]
              /\ pc' = [pc EXCEPT ![r] = IF a.op = "create" THEN "lock" ELSE "find"]
        BY <2>1 DEF Begin
      <3>2. a \in Arg
        BY ScriptAssumption
      <3>3. arg' \in [Requests -> Arg] /\ pc' \in [Requests -> Stage]
        BY <3>1, <3>2 DEF Stage, Working
      <3>4. QED
        BY <2>1, <3>3 DEF Begin, groupVars, ledgerVars, GroupTypeOK
    <2>2. ASSUME NEW r \in Requests, NEW outcome \in Final, Answer(r, outcome)
          PROVE  /\ pc' \in [Requests -> Stage]
                 /\ arg' \in [Requests -> Arg]
                 /\ row' \in [Requests -> Row]
                 /\ seen' \in [Requests -> SUBSET ShareRow]
                 /\ purged' \in [Requests -> SUBSET ShareRow]
      BY <2>2, NoArgType, NoRowType DEF Answer, Stage
    <2>3. ASSUME NEW r \in Requests, NEW ok \in BOOLEAN, NEW stage \in Working,
                 Check(r, ok, stage)
          PROVE  TypeOK'
      BY <2>2, <2>3
      DEF Check, Advance, groupVars, ledgerVars, GroupTypeOK, Stage, Final
    <2>4. ASSUME NEW r \in Requests, FindExpense(r)
          PROVE  TypeOK'
      <3>1. arg[r].exp \in Requests
        BY DEF Arg
      <3>2. CASE expense[arg[r].exp].status = "absent"
        BY <2>2, <2>4, <3>2 DEF FindExpense, groupVars, ledgerVars, GroupTypeOK, Final
      <3>3. CASE expense[arg[r].exp].status # "absent"
        BY <2>4, <3>1, <3>3
        DEF FindExpense, Advance, groupVars, ledgerVars, GroupTypeOK, Stage, Working
      <3>4. QED
        BY <3>2, <3>3
    <2>5. ASSUME NEW r \in Requests, PreloadShares(r)
          PROVE  TypeOK'
      BY <2>5
      DEF PreloadShares, Advance, SharesOf, groupVars, ledgerVars, GroupTypeOK, Stage, Working
    <2>6. ASSUME NEW r \in Requests, PurgeShares(r)
          PROVE  TypeOK'
      BY <2>6
      DEF PurgeShares, Advance, SharesOf, groupVars, ledgerVars, GroupTypeOK, Stage, Working
    <2>7. ASSUME NEW r \in Requests, MarkRefunded(r)
          PROVE  TypeOK'
      BY <2>7
      DEF MarkRefunded, Advance, groupVars, ledgerVars, GroupTypeOK, Stage, Working
    <2>8. ASSUME NEW r \in Requests, Commit(r)
          PROVE  TypeOK'
      <3>1. /\ arg[r] \in Arg /\ arg[r].exp \in Requests /\ arg[r].bill \in Bills
        BY DEF Arg
      <3>2. WrittenRow(r) \in Row
        <4>1. /\ arg[r].bill.amount \in Amounts /\ arg[r].payer \in Users
              /\ row[r] \in Row /\ expense[arg[r].exp] \in Row
          BY <3>1, BillType DEF Arg
        <4>2. CASE arg[r].op = "create"
          BY <4>1, <4>2 DEF WrittenRow, Row, RowStatus
        <4>3. CASE arg[r].op = "update"
          BY <4>1, <4>3 DEF WrittenRow, Row
        <4>4. CASE arg[r].op \notin {"create", "update"}
          BY <4>1, <4>4 DEF WrittenRow, Row, RowStatus
        <4>5. QED
          BY <4>2, <4>3, <4>4
      <3>3. WrittenShares(r) \subseteq ShareRow
        BY <3>1, ShareRowsType DEF WrittenShares
      <3>4. /\ pc' \in [Requests -> Stage]
            /\ arg' \in [Requests -> Arg]
            /\ row' \in [Requests -> Row]
            /\ seen' \in [Requests -> SUBSET ShareRow]
            /\ purged' \in [Requests -> SUBSET ShareRow]
        <4>1. CASE arg[r].op = "create"
          BY <2>8, <4>1 DEF Commit, Advance, Stage, Working
        <4>2. CASE arg[r].op # "create"
          <5>1. PICK outcome \in Final : Answer(r, outcome)
            BY <2>8, <4>2 DEF Commit, AnswerWritten
          <5>2. QED
            BY <2>2, <5>1
        <4>3. QED
          BY <4>1, <4>2
      <3>5. GroupTypeOK'
        BY <2>8 DEF Commit, groupVars, GroupTypeOK
      <3>6. QED
        BY <2>8, <3>1, <3>2, <3>3, <3>4, <3>5 DEF Commit
    <2>9. ASSUME NEW r \in Requests, Reload(r) \/ Fail(r)
          PROVE  TypeOK'
      BY <2>2, <2>9 DEF Reload, Fail, groupVars, ledgerVars, GroupTypeOK, Final
    <2>10. CASE GroupStep
      BY <2>10
      DEF GroupStep, GroupNext, ArchiveGroup, ReopenGroup, AddMember, DropMember,
          ledgerVars, requestVars, GroupTypeOK, GroupStatus, MemberStatus
    <2>11. CASE UNCHANGED vars
      BY <2>11 DEF vars, GroupTypeOK
    <2>12. ASSUME NEW r \in Requests,
                  LockGroup(r) \/ EnsureUser(r) \/ EnsurePayer(r) \/ CalcShares(r)
                    \/ SaveExpense(r) \/ InsertShares(r)
           PROVE  TypeOK'
      <3>1. CASE LockGroup(r)
        <4>1. Check(r, groupStatus = "active", "user")
          BY <3>1 DEF LockGroup
        <4>2. QED
          BY <2>3, <4>1 DEF Working
      <3>2. CASE EnsureUser(r)
        <4> DEFINE ok == /\ IsMember(arg[r].user)
                         /\ arg[r].op \in {"update", "delete"} => row[r].status = "active"
                   stage == IF arg[r].op = "delete" THEN "mark" ELSE "payer"
        <4>1. Check(r, ok, stage)
          BY <3>2 DEF EnsureUser
        <4>2. ok \in BOOLEAN /\ stage \in Working
          BY DEF Working
        <4>3. QED
          BY <2>3, <4>1, <4>2
      <3>3. CASE EnsurePayer(r)
        <4>1. Check(r, IsMember(arg[r].payer), "shares")
          BY <3>3 DEF EnsurePayer
        <4>2. QED
          BY <2>3, <4>1 DEF Working, IsMember
      <3>4. CASE CalcShares(r)
        <4> DEFINE stage == IF arg[r].op = "create" THEN "insert" ELSE "save"
        <4>1. Check(r, DOMAIN arg[r].bill.owed \subseteq ActiveMembers, stage)
          BY <3>4 DEF CalcShares
        <4>2. stage \in Working
          BY DEF Working
        <4>3. QED
          BY <2>3, <4>1, <4>2
      <3>5. CASE SaveExpense(r)
        <4>1. Check(r, ~Clash(seen[r] \ shares, shares), "purge")
          BY <3>5 DEF SaveExpense
        <4>2. QED
          BY <2>3, <4>1 DEF Working
      <3>6. CASE InsertShares(r)
        <4>1. Check(r, ~Clash(shares \ purged[r], ShareRows(arg[r].bill, arg[r].exp, r)),
                    "commit")
          BY <3>6 DEF InsertShares
        <4>2. QED
          BY <2>3, <4>1 DEF Working
      <3>7. QED
        BY <2>12, <3>1, <3>2, <3>3, <3>4, <3>5, <3>6
    <2>13. QED
      BY <2>1, <2>4, <2>5, <2>6, <2>7, <2>8, <2>9, <2>10, <2>11, <2>12 DEF Next, Handle
  <1>3. QED
    BY <1>1, <1>2, PTL DEF Spec

-----------------------------------------------------------------------------
\* The rest of the inductive invariant, beside types.
Rest ==
  /\ StagesOK /\ IdleOK /\ TargetOK /\ StatusReadOK /\ PayerReadOK /\ PurgeOK
  /\ SeenOK /\ OneWriter /\ SharesMatchExpense

\* It holds before the first request arrives.
LEMMA InitRest == Init => Rest
  BY DEF Init, Rest, StagesOK, CreateStages, UpdateStages, DeleteStages, Final, IdleOK,
         TargetOK, StatusReadOK, PayerReadOK, PurgeOK, SeenOK, OneWriter, Holds,
         SharesMatchExpense, SharesOf, NoArg, NoRow

\* The committed shares of an expense change only with the table.
LEMMA SharesOfStable ==
  ASSUME UNCHANGED shares
  PROVE  \A e \in Requests : SharesOf(e)' = SharesOf(e)
  BY DEF SharesOf

\* A step that writes neither table leaves the committed shares in step.
LEMMA TablesKept ==
  ASSUME SharesMatchExpense, UNCHANGED ledgerVars
  PROVE  SharesMatchExpense'
  BY SharesOfStable DEF SharesMatchExpense, ledgerVars, ShareRows

\* A request that answers gives up its claims and leaves the others theirs.
LEMMA AnswerKeepsRest ==
  ASSUME TypeOK, Rest, NEW r \in Requests, NEW outcome \in Final,
         Answer(r, outcome), UNCHANGED ledgerVars
  PROVE  Rest'
  <1> USE DEF Answer, TypeOK
  <1>1. /\ \A q \in Requests : q # r =>
             /\ pc'[q] = pc[q] /\ arg'[q] = arg[q] /\ row'[q] = row[q]
             /\ seen'[q] = seen[q] /\ purged'[q] = purged[q]
        /\ pc'[r] = outcome /\ arg'[r].op = "none" /\ arg'[r].exp = r
        /\ seen'[r] = {} /\ purged'[r] = {}
    BY DEF NoArg
  <1>2. expense' = expense /\ \A e \in Requests : SharesOf(e)' = SharesOf(e)
    BY SharesOfStable DEF ledgerVars
  <1>3. outcome \notin Working /\ outcome \in Final
    BY DEF Final, Working
  <1>4. StagesOK'
    BY <1>1 DEF Rest, StagesOK, Final
  <1>5. TargetOK' /\ StatusReadOK' /\ PayerReadOK' /\ PurgeOK' /\ SeenOK'
    BY <1>1, <1>2 DEF Rest, TargetOK, StatusReadOK, PayerReadOK, PurgeOK, SeenOK, Clash, Arg
  <1>6. OneWriter'
    BY <1>1, <1>3 DEF Rest, OneWriter, Holds, Working, Final
  <1>7. IdleOK'
    BY <1>1, <1>2, <1>3 DEF Rest, IdleOK, Final
  <1>8. QED
    BY <1>4, <1>5, <1>6, <1>7, TablesKept DEF Rest

\* A step that only moves a request forward keeps everything that is not about
\* its stage; the premises are what the move must bring along.
LEMMA AdvanceKeepsRest ==
  ASSUME TypeOK, Rest, NEW r \in Requests, NEW stage \in Working,
         Advance(r, stage), UNCHANGED ledgerVars,
         pc[r] \in Working,
         \A q \in Requests : q # r => /\ row'[q] = row[q]
                                      /\ seen'[q] = seen[q]
                                      /\ purged'[q] = purged[q],
         arg[r].op = "create" => stage \in CreateStages \ {"reload"}
                                   /\ pc[r] # "reload" /\ purged'[r] = {},
         arg[r].op = "update" => stage \in UpdateStages,
         arg[r].op = "delete" => stage \in DeleteStages,
         arg[r].op \in {"update", "delete"} /\ stage # "find" =>
           /\ expense[arg[r].exp].status # "absent"
           /\ row'[r].payer = expense[arg[r].exp].payer,
         arg[r].op = "update" /\ stage \in {"payer", "shares", "save", "purge", "insert", "commit"}
           => row'[r].status = "active",
         arg[r].op = "update" /\ stage \in {"insert", "commit"} =>
           purged'[r] = SharesOf(arg[r].exp),
         \A s \in seen'[r] : s.exp = arg[r].exp,
         arg[r].op = "update" /\ stage \in {"purge", "insert", "commit"} =>
           ~Clash(seen'[r] \ SharesOf(arg[r].exp), SharesOf(arg[r].exp)),
         stage \in {"purge", "insert", "commit"} =>
           \A q \in Requests : q # r => ~Holds(q, arg[r].exp)
  PROVE  Rest'
  <1> USE DEF Advance, TypeOK
  <1>1. /\ arg' = arg /\ pc'[r] = stage
        /\ \A q \in Requests : q # r => pc'[q] = pc[q]
    OBVIOUS
  <1>2. expense' = expense /\ \A e \in Requests : SharesOf(e)' = SharesOf(e)
    BY SharesOfStable DEF ledgerVars
  <1>3. arg[r].op # "none" /\ arg[r].exp \in Requests
    BY DEF Rest, StagesOK, Final, Working, Arg
  <1>4. StagesOK'
    BY <1>1, <1>3 DEF Rest, StagesOK
  <1>5. TargetOK'
    BY <1>1, <1>2 DEF Rest, TargetOK, CreateStages
  <1>6. StatusReadOK'
    BY <1>1 DEF Rest, StatusReadOK
  <1>p. PayerReadOK'
    BY <1>1, <1>2 DEF Rest, PayerReadOK
  <1>7. PurgeOK'
    <2> SUFFICES ASSUME NEW q \in Requests,
                        arg[q].op \in {"create", "update"}, pc'[q] \in {"insert", "commit"}
                 PROVE  purged'[q] = SharesOf(arg[q].exp)'
      BY <1>1 DEF PurgeOK
    <2>1. CASE q # r
      BY <1>1, <1>2, <2>1 DEF Rest, PurgeOK, Arg
    <2>2. CASE q = r /\ arg[r].op = "update"
      BY <1>1, <1>2, <1>3, <2>2
    <2>3. CASE q = r /\ arg[r].op = "create"
      <3>1. expense[r].status = "absent" /\ arg[r].exp = r
        BY <2>3 DEF Rest, TargetOK
      <3>2. SharesOf(r) = {}
        BY <3>1 DEF Rest, SharesMatchExpense
      <3>3. QED
        BY <1>2, <2>3, <3>1, <3>2
    <2>4. QED
      BY <2>1, <2>2, <2>3
  <1>8. SeenOK'
    BY <1>1, <1>2, <1>3 DEF Rest, SeenOK, Clash, Arg
  <1>9. OneWriter'
    BY <1>1 DEF Rest, OneWriter, Holds
  <1>10. IdleOK'
    BY <1>1, <1>2, <1>3 DEF Rest, IdleOK, Working
  <1>11. QED
    BY <1>4, <1>5, <1>6, <1>p, <1>7, <1>8, <1>9, <1>10, TablesKept DEF Rest

\* A request that arrives claims nothing yet.
LEMMA BeginKeepsRest ==
  ASSUME TypeOK, Rest, NEW r \in Requests, Begin(r)
  PROVE  Rest'
  <1> USE DEF TypeOK
  <1>1. PICK a \in Script[r] :
          /\ arg' = [arg EXCEPT ![r] = a]
          /\ pc' = [pc EXCEPT ![r] = IF a.op = "create" THEN "lock" ELSE "find"]
    BY DEF Begin
  <1>2. a \in Arg /\ a.op \in Ops /\ (a.op = "create" <=> a.exp = r)
    BY ScriptAssumption
  <1>3. /\ arg[r].op = "none" /\ seen[r] = {} /\ purged[r] = {}
        /\ expense[r].status = "absent"
    BY DEF Begin, Rest, IdleOK
  <1>4. /\ arg'[r] = a /\ pc'[r] = IF a.op = "create" THEN "lock" ELSE "find"
        /\ \A q \in Requests : q # r => pc'[q] = pc[q] /\ arg'[q] = arg[q]
        /\ row' = row /\ seen' = seen /\ purged' = purged
    BY <1>1 DEF Begin
  <1>5. expense' = expense /\ \A e \in Requests : SharesOf(e)' = SharesOf(e)
    BY SharesOfStable DEF Begin, ledgerVars
  <1>6. StagesOK'
    BY <1>2, <1>4 DEF Rest, StagesOK, Ops, CreateStages, UpdateStages, DeleteStages
  <1>7. IdleOK'
    BY <1>2, <1>4, <1>5 DEF Rest, IdleOK, Ops
  <1>8. TargetOK'
    BY <1>2, <1>3, <1>4, <1>5 DEF Rest, TargetOK
  <1>9. StatusReadOK' /\ PayerReadOK'
    BY <1>2, <1>4, <1>5 DEF Rest, StatusReadOK, PayerReadOK
  <1>10. PurgeOK' /\ SeenOK'
    BY <1>3, <1>4, <1>5 DEF Rest, PurgeOK, SeenOK, Clash, Arg
  <1>11. OneWriter'
    BY <1>4 DEF Rest, OneWriter, Holds
  <1>12. SharesMatchExpense'
    BY TablesKept DEF Begin, Rest
  <1>13. QED
    BY <1>6, <1>7, <1>8, <1>9, <1>10, <1>11, <1>12 DEF Rest

\* Nobody else holds the row of an expense that is still being created.
LEMMA NewRowIsFree ==
  ASSUME TypeOK, Rest, NEW r \in Requests, arg[r].op = "create", pc[r] # "reload"
  PROVE  \A q \in Requests : q # r => ~Holds(q, arg[r].exp)
  <1>1. arg[r].exp = r /\ expense[r].status = "absent"
    BY DEF Rest, TargetOK
  <1>2. SUFFICES ASSUME NEW q \in Requests, q # r, Holds(q, r)
                 PROVE  FALSE
    BY <1>1
  <1>3. arg[q].exp = r /\ pc[q] \in {"purge", "insert", "commit"}
    BY <1>2 DEF Holds
  <1>4. CASE arg[q].op = "create"
    BY <1>2, <1>3, <1>4 DEF Rest, TargetOK
  <1>5. CASE arg[q].op \in {"update", "delete"}
    BY <1>1, <1>3, <1>5 DEF Rest, TargetOK
  <1>6. CASE arg[q].op = "none"
    BY <1>3, <1>6 DEF Rest, StagesOK, Final
  <1>7. arg[q].op \in Ops \cup {"none"}
    BY DEF TypeOK, Arg
  <1>8. QED
    BY <1>4, <1>5, <1>6, <1>7 DEF Ops

\* A transaction that has written its row is the only one that has.
LEMMA HolderIsAlone ==
  ASSUME Rest, TypeOK, NEW r \in Requests, pc[r] \in {"purge", "insert", "commit"}
  PROVE  \A q \in Requests : q # r => ~Holds(q, arg[r].exp)
  <1>1. arg[r].exp \in Requests
    BY DEF TypeOK, Arg
  <1>2. Holds(r, arg[r].exp)
    BY DEF Holds
  <1>3. QED
    BY <1>1, <1>2 DEF Rest, OneWriter

\* A check of a handler carries the invariant along, whether it passes or not.
LEMMA CheckKeepsRest ==
  ASSUME TypeOK, Rest, NEW r \in Requests, NEW ok, NEW stage \in Working,
         Check(r, ok, stage), pc[r] \in Working \ {"find"},
         stage # "find",
         arg[r].op = "create" => stage \in CreateStages \ {"reload"} /\ pc[r] # "reload",
         arg[r].op = "update" => stage \in UpdateStages,
         arg[r].op = "delete" => stage \in DeleteStages,
         ok /\ arg[r].op = "update"
           /\ stage \in {"payer", "shares", "save", "purge", "insert", "commit"}
           => row[r].status = "active",
         ok /\ arg[r].op = "update" /\ stage \in {"insert", "commit"} =>
           purged[r] = SharesOf(arg[r].exp),
         ok /\ arg[r].op = "update" /\ stage \in {"purge", "insert", "commit"} =>
           ~Clash(seen[r] \ SharesOf(arg[r].exp), SharesOf(arg[r].exp)),
         ok /\ stage \in {"purge", "insert", "commit"} =>
           \A q \in Requests : q # r => ~Holds(q, arg[r].exp)
  PROVE  Rest'
  <1>0. UNCHANGED ledgerVars
    BY DEF Check
  <1>1. CASE ~ok
    <2>1. Answer(r, "failed") /\ "failed" \in Final
      BY <1>1 DEF Check, Final
    <2>2. QED
      BY <1>0, <2>1, AnswerKeepsRest
  <1>2. CASE ok
    <2>1. Advance(r, stage) /\ UNCHANGED <<row, seen, purged>>
      BY <1>2 DEF Check
    <2>2. /\ arg[r].op = "create" => purged[r] = {}
          /\ arg[r].op \in {"update", "delete"} =>
               /\ expense[arg[r].exp].status # "absent"
               /\ row[r].payer = expense[arg[r].exp].payer
      BY DEF Rest, TargetOK, PayerReadOK
    <2>3. \A s \in seen[r] : s.exp = arg[r].exp
      BY DEF Rest, SeenOK
    <2>4. QED
      BY <1>0, <1>2, <2>1, <2>2, <2>3, AdvanceKeepsRest
  <1>3. QED
    BY <1>1, <1>2

\* The checks of a handler, and the steps that read or write its own state.
LEMMA ChecksKeepRest ==
  ASSUME TypeOK, Rest, NEW r \in Requests,
         LockGroup(r) \/ EnsureUser(r) \/ EnsurePayer(r) \/ CalcShares(r)
  PROVE  Rest'
  <1> USE DEF Rest, StagesOK, CreateStages, UpdateStages, DeleteStages, Working, Final
  <1>op. arg[r].op \in Ops \cup {"none"}
    BY DEF TypeOK, Arg
  <1>1. CASE LockGroup(r)
    <2>1. Check(r, groupStatus = "active", "user") /\ pc[r] = "lock"
      BY <1>1 DEF LockGroup
    <2>2. QED
      BY <2>1, CheckKeepsRest
  <1>2. CASE EnsureUser(r)
    <2> DEFINE ok == /\ IsMember(arg[r].user)
                     /\ arg[r].op \in {"update", "delete"} => row[r].status = "active"
               stage == IF arg[r].op = "delete" THEN "mark" ELSE "payer"
    <2>1. Check(r, ok, stage) /\ pc[r] = "user"
      BY <1>2 DEF EnsureUser
    <2>2. stage \in Working /\ stage \in {"mark", "payer"}
      OBVIOUS
    <2>3. arg[r].op \in {"create", "update"} => stage = "payer"
      OBVIOUS
    <2>4. arg[r].op = "delete" => stage = "mark"
      OBVIOUS
    <2>5. ok /\ arg[r].op = "update" => row[r].status = "active"
      OBVIOUS
    <2> HIDE DEF ok, stage
    <2>6. QED
      BY <2>1, <2>2, <2>3, <2>4, <2>5, CheckKeepsRest
  <1>3. CASE EnsurePayer(r)
    <2>1. Check(r, IsMember(arg[r].payer), "shares") /\ pc[r] = "payer"
      BY <1>3 DEF EnsurePayer
    <2>2. arg[r].op = "update" => row[r].status = "active"
      BY <2>1 DEF StatusReadOK
    <2>3. QED
      BY <2>1, <2>2, CheckKeepsRest
  <1>4. CASE CalcShares(r)
    <2> DEFINE ok == DOMAIN arg[r].bill.owed \subseteq ActiveMembers
               stage == IF arg[r].op = "create" THEN "insert" ELSE "save"
    <2>1. Check(r, ok, stage) /\ pc[r] = "shares"
      BY <1>4 DEF CalcShares
    <2>2. /\ stage \in Working /\ stage \in {"insert", "save"}
          /\ stage = "insert" <=> arg[r].op = "create"
      OBVIOUS
    <2>3. arg[r].op = "update" => row[r].status = "active"
      BY <2>1 DEF StatusReadOK
    <2>4. stage = "insert" => \A q \in Requests : q # r => ~Holds(q, arg[r].exp)
      BY <2>1, <2>2, NewRowIsFree
    <2>5. arg[r].op # "delete"
      BY <2>1
    <2> HIDE DEF ok, stage
    <2>6. QED
      BY <2>1, <2>2, <2>3, <2>4, <2>5, CheckKeepsRest
  <1>5. QED
    BY <1>1, <1>2, <1>3, <1>4

\* The statements of the transaction before its COMMIT.
LEMMA WritesKeepRest ==
  ASSUME TypeOK, Rest, NEW r \in Requests,
         SaveExpense(r) \/ PurgeShares(r) \/ InsertShares(r) \/ MarkRefunded(r)
  PROVE  Rest'
  <1> USE DEF StagesOK, CreateStages, UpdateStages, DeleteStages, Working, Final
  <1>op. arg[r].op \in Ops \cup {"none"} /\ arg[r].exp \in Requests
    BY DEF TypeOK, Arg
  <1>st. StagesOK /\ TargetOK /\ StatusReadOK /\ PayerReadOK /\ PurgeOK /\ SeenOK
    BY DEF Rest
  <1>1. CASE SaveExpense(r)
    <2> DEFINE ok == ~Clash(seen[r] \ shares, shares)
    <2>1. Check(r, ok, "purge") /\ pc[r] = "save" /\ ~RowLocked(arg[r].exp)
      BY <1>1 DEF SaveExpense
    <2>2. arg[r].op = "update"
      BY <1>op, <1>st, <2>1 DEF Ops
    <2>3. row[r].status = "active"
      BY <1>st, <2>1, <2>2 DEF StatusReadOK
    <2>4. ok => ~Clash(seen[r] \ SharesOf(arg[r].exp), SharesOf(arg[r].exp))
      BY <1>st DEF SeenOK, Clash, SharesOf
    <2>5. \A q \in Requests : ~Holds(q, arg[r].exp)
      BY <2>1 DEF RowLocked
    <2> HIDE DEF ok
    <2>6. QED
      BY <2>1, <2>2, <2>3, <2>4, <2>5, CheckKeepsRest
  <1>2. CASE PurgeShares(r)
    <2>1. /\ pc[r] = "purge" /\ purged' = [purged EXCEPT ![r] = SharesOf(arg[r].exp)]
          /\ Advance(r, "insert") /\ UNCHANGED <<ledgerVars, row, seen>>
      BY <1>2 DEF PurgeShares
    <2>2. arg[r].op = "update"
      BY <1>op, <1>st, <2>1 DEF Ops
    <2>3. /\ purged'[r] = SharesOf(arg[r].exp)
          /\ \A q \in Requests : q # r => purged'[q] = purged[q]
          /\ row' = row /\ seen' = seen
      BY <2>1 DEF TypeOK
    <2>4. /\ row[r].status = "active" /\ row[r].payer = expense[arg[r].exp].payer
          /\ expense[arg[r].exp].status # "absent"
      BY <1>st, <2>1, <2>2 DEF StatusReadOK, PayerReadOK, TargetOK
    <2>5. /\ \A s \in seen[r] : s.exp = arg[r].exp
          /\ ~Clash(seen[r] \ SharesOf(arg[r].exp), SharesOf(arg[r].exp))
      BY <1>st, <2>1, <2>2 DEF SeenOK
    <2>6. \A q \in Requests : q # r => ~Holds(q, arg[r].exp)
      BY <2>1, HolderIsAlone
    <2>7. QED
      BY <2>1, <2>2, <2>3, <2>4, <2>5, <2>6, AdvanceKeepsRest
  <1>3. CASE InsertShares(r)
    <2> DEFINE ok == ~Clash(shares \ purged[r], ShareRows(arg[r].bill, arg[r].exp, r))
    <2>1. Check(r, ok, "commit") /\ pc[r] = "insert"
      BY <1>3 DEF InsertShares
    <2>2. arg[r].op \in {"create", "update"}
      BY <1>op, <1>st, <2>1 DEF Ops
    <2>3. arg[r].op = "update" =>
            /\ row[r].status = "active"
            /\ purged[r] = SharesOf(arg[r].exp)
            /\ ~Clash(seen[r] \ SharesOf(arg[r].exp), SharesOf(arg[r].exp))
      BY <1>st, <2>1 DEF StatusReadOK, PurgeOK, SeenOK
    <2>4. \A q \in Requests : q # r => ~Holds(q, arg[r].exp)
      BY <2>1, HolderIsAlone
    <2> HIDE DEF ok
    <2>5. QED
      BY <2>1, <2>2, <2>3, <2>4, CheckKeepsRest
  <1>4. CASE MarkRefunded(r)
    <2>1. /\ pc[r] = "mark" /\ ~RowLocked(arg[r].exp) /\ Advance(r, "commit")
          /\ UNCHANGED <<ledgerVars, row, seen, purged>>
      BY <1>4 DEF MarkRefunded
    <2>2. arg[r].op = "delete"
      BY <1>op, <1>st, <2>1 DEF Ops
    <2>3. /\ expense[arg[r].exp].status # "absent" /\ row[r].payer = expense[arg[r].exp].payer
          /\ \A s \in seen[r] : s.exp = arg[r].exp
      BY <1>st, <2>1, <2>2 DEF TargetOK, PayerReadOK, SeenOK
    <2>4. \A q \in Requests : ~Holds(q, arg[r].exp)
      BY <2>1 DEF RowLocked
    <2>5. QED
      BY <2>1, <2>2, <2>3, <2>4, AdvanceKeepsRest
  <1>5. QED
    BY <1>1, <1>2, <1>3, <1>4

\* FindByID and its preload, a reload and a failure.
LEMMA ReadsKeepRest ==
  ASSUME TypeOK, Rest, NEW r \in Requests,
         FindExpense(r) \/ PreloadShares(r) \/ Reload(r) \/ Fail(r)
  PROVE  Rest'
  <1> USE DEF StagesOK, CreateStages, UpdateStages, DeleteStages, Working, Final
  <1>op. arg[r].op \in Ops \cup {"none"} /\ arg[r].exp \in Requests
    BY DEF TypeOK, Arg
  <1>st. StagesOK /\ TargetOK /\ PayerReadOK /\ SeenOK
    BY DEF Rest
  <1>1. CASE FindExpense(r)
    <2>1. pc[r] = "find" /\ UNCHANGED ledgerVars
      BY <1>1 DEF FindExpense
    <2>2. arg[r].op \in {"update", "delete"}
      BY <1>op, <1>st, <2>1 DEF Ops
    <2>3. CASE expense[arg[r].exp].status = "absent"
      BY <1>1, <2>1, <2>3, AnswerKeepsRest DEF FindExpense
    <2>4. CASE expense[arg[r].exp].status # "absent"
      <3> DEFINE stage == IF arg[r].op = "update" THEN "preload" ELSE "user"
      <3>1. /\ row' = [row EXCEPT ![r] = expense[arg[r].exp]]
            /\ Advance(r, stage)
            /\ seen' = seen /\ purged' = purged
        BY <1>1, <2>4 DEF FindExpense
      <3>2. /\ \A q \in Requests : q # r => row'[q] = row[q]
            /\ row'[r] = expense[arg[r].exp]
        BY <3>1 DEF TypeOK
      <3>3. /\ stage \in {"preload", "user"} /\ stage \in Working
            /\ arg[r].op = "update" => stage \in UpdateStages
            /\ arg[r].op = "delete" => stage \in DeleteStages
        OBVIOUS
      <3>4. \A s \in seen[r] : s.exp = arg[r].exp
        BY <1>st DEF SeenOK
      <3>5. stage # "payer" /\ stage \notin {"shares", "save", "purge", "insert", "commit"}
        OBVIOUS
      <3>6. pc[r] \in Working
        BY <2>1
      <3> HIDE DEF stage
      <3>7. QED
        BY <2>1, <2>2, <2>4, <3>1, <3>2, <3>3, <3>4, <3>5, <3>6, AdvanceKeepsRest
    <2>5. QED
      BY <2>3, <2>4
  <1>2. CASE PreloadShares(r)
    <2>1. /\ pc[r] = "preload" /\ seen' = [seen EXCEPT ![r] = SharesOf(arg[r].exp)]
          /\ Advance(r, "lock") /\ UNCHANGED <<ledgerVars, row, purged>>
      BY <1>2 DEF PreloadShares
    <2>2. arg[r].op = "update"
      BY <1>op, <1>st, <2>1 DEF Ops
    <2>3. /\ seen'[r] = SharesOf(arg[r].exp)
          /\ \A q \in Requests : q # r => seen'[q] = seen[q]
      BY <2>1 DEF TypeOK
    <2>4. \A s \in seen'[r] : s.exp = arg[r].exp
      BY <2>3 DEF SharesOf
    <2>5. expense[arg[r].exp].status # "absent" /\ row[r].payer = expense[arg[r].exp].payer
      BY <1>st, <2>1, <2>2 DEF TargetOK, PayerReadOK
    <2>6. QED
      BY <2>1, <2>2, <2>3, <2>4, <2>5, AdvanceKeepsRest
  <1>3. CASE Reload(r)
    <2> DEFINE outcome == IF IsMember(arg[r].user) THEN "ok" ELSE "failed"
    <2>1. Answer(r, outcome) /\ UNCHANGED ledgerVars /\ outcome \in Final
      BY <1>3 DEF Reload
    <2> HIDE DEF outcome
    <2>2. QED
      BY <2>1, AnswerKeepsRest
  <1>4. CASE Fail(r)
    BY <1>4, AnswerKeepsRest DEF Fail
  <1>5. QED
    BY <1>1, <1>2, <1>3, <1>4

\* COMMIT makes one expense's row and shares visible, and no other's.
LEMMA CommitWrites ==
  ASSUME TypeOK, Rest, NEW r \in Requests, Commit(r), NEW e \in Requests, arg[r].exp = e
  PROVE  /\ expense'[e] = WrittenRow(r) /\ WrittenRow(r).status # "absent"
         /\ \A f \in Requests \ {e} : expense'[f] = expense[f] /\ SharesOf(f)' = SharesOf(f)
         /\ IF arg[r].op = "delete"
              THEN SharesOf(e)' = SharesOf(e) /\ WrittenRow(r).amount = expense[e].amount
              ELSE /\ SharesOf(e)' = ShareRows(arg[r].bill, e, r)
                   /\ WrittenRow(r).amount = arg[r].bill.amount
         /\ arg[r].bill \in Bills
         /\ arg[r].op \in Ops
  <1>1. /\ arg[r].bill \in Bills
        /\ arg[r].op \in Ops \cup {"none"} /\ arg[r].op # "none"
    BY DEF Commit, TypeOK, Arg, Rest, StagesOK, Final
  <1>2. expense' = [expense EXCEPT ![e] = WrittenRow(r)] /\ shares' = WrittenShares(r)
    BY DEF Commit
  <1>3. expense \in [Requests -> Row] /\ pc[r] = "commit"
    BY DEF TypeOK, Commit
  <1>4. CASE arg[r].op = "delete"
    <2>1. WrittenRow(r) = [expense[e] EXCEPT !.status = "refunded"] /\ shares' = shares
      BY <1>2, <1>4 DEF WrittenRow, WrittenShares
    <2>2. /\ WrittenRow(r).status = "refunded"
          /\ WrittenRow(r).amount = expense[e].amount
      BY <1>1, <1>3, <2>1 DEF Row
    <2>3. QED
      BY <1>1, <1>2, <1>3, <1>4, <2>1, <2>2, SharesOfStable
  <1>5. CASE arg[r].op # "delete"
    <2>1. arg[r].op \in {"create", "update"}
      BY <1>1, <1>5 DEF Ops
    <2>2. /\ WrittenRow(r).amount = arg[r].bill.amount
          /\ WrittenRow(r).status # "absent"
      BY <1>3, <2>1 DEF WrittenRow, Rest, StatusReadOK
    <2>3. purged[r] = SharesOf(e)
      BY <1>3, <2>1 DEF Rest, PurgeOK
    <2>4. shares' = (shares \ SharesOf(e)) \cup ShareRows(arg[r].bill, e, r)
      BY <1>2, <1>5, <2>3 DEF WrittenShares
    <2>5. \A s \in ShareRows(arg[r].bill, e, r) : s.exp = e
      BY <1>1, ShareRowsType
    <2>6. SharesOf(e)' = ShareRows(arg[r].bill, e, r)
      BY <2>4, <2>5 DEF SharesOf
    <2>7. \A f \in Requests \ {e} : SharesOf(f)' = SharesOf(f)
      BY <2>4, <2>5 DEF SharesOf
    <2>8. QED
      BY <1>1, <1>2, <1>3, <1>5, <2>2, <2>6, <2>7
  <1>6. QED
    BY <1>4, <1>5

\* COMMIT puts one bill in place of another, for the one expense it holds.
LEMMA CommitKeepsRest ==
  ASSUME TypeOK, Rest, NEW r \in Requests, Commit(r)
  PROVE  Rest'
  <1>1. PICK e \in Requests : arg[r].exp = e
    BY DEF TypeOK, Arg
  <1>2. /\ expense'[e] = WrittenRow(r) /\ WrittenRow(r).status # "absent"
        /\ \A f \in Requests \ {e} : expense'[f] = expense[f] /\ SharesOf(f)' = SharesOf(f)
        /\ IF arg[r].op = "delete"
             THEN SharesOf(e)' = SharesOf(e) /\ WrittenRow(r).amount = expense[e].amount
             ELSE /\ SharesOf(e)' = ShareRows(arg[r].bill, e, r)
                  /\ WrittenRow(r).amount = arg[r].bill.amount
        /\ arg[r].bill \in Bills
        /\ arg[r].op \in Ops
    BY <1>1, CommitWrites
  <1>3. pc[r] = "commit"
    BY DEF Commit
  <1>4. \A q \in Requests : q # r => ~Holds(q, e)
    BY <1>1, <1>3, HolderIsAlone
  <1>5. \A q \in Requests : q # r =>
          /\ pc'[q] = pc[q] /\ arg'[q] = arg[q] /\ row'[q] = row[q]
          /\ seen'[q] = seen[q] /\ purged'[q] = purged[q]
    <2>1. CASE arg[r].op = "create"
      BY <2>1 DEF Commit, Advance, TypeOK
    <2>2. CASE arg[r].op # "create"
      <3>1. PICK outcome \in Final : Answer(r, outcome)
        BY <2>2 DEF Commit, AnswerWritten
      <3>2. QED
        BY <3>1 DEF Answer, TypeOK
    <2>3. QED
      BY <2>1, <2>2
  <1>6. IF arg[r].op = "create"
          THEN pc'[r] = "reload" /\ arg'[r] = arg[r]
               /\ row'[r] = row[r] /\ seen'[r] = seen[r] /\ purged'[r] = purged[r]
          ELSE pc'[r] \in {"ok", "failed"} /\ arg'[r].op = "none" /\ arg'[r].exp = r
               /\ seen'[r] = {} /\ purged'[r] = {}
    <2>1. CASE arg[r].op = "create"
      BY <2>1 DEF Commit, Advance, TypeOK
    <2>2. CASE arg[r].op # "create"
      <3>1. PICK outcome \in Final : Answer(r, outcome)
        BY <2>2 DEF Commit, AnswerWritten
      <3>2. QED
        BY <2>2, <3>1 DEF Answer, TypeOK, NoArg, Final
    <2>3. QED
      BY <2>1, <2>2
  <1>7. StagesOK'
    BY <1>5, <1>6 DEF Rest, StagesOK, CreateStages, Final
  <1>8. /\ arg[r].op = "create" => e = r /\ purged[r] = {} /\ expense[r].status = "absent"
        /\ arg[r].op \in {"update", "delete"} => expense[e].status # "absent"
    BY <1>1, <1>3 DEF Rest, TargetOK
  <1>9. IdleOK'
    <2>1. \A q \in Requests : pc'[q] = "idle" => q # e
      BY <1>3, <1>2, <1>5, <1>6, <1>8 DEF Rest, IdleOK, Ops
    <2>2. QED
      BY <1>2, <1>5, <1>6, <2>1 DEF Rest, IdleOK
  <1>10. TargetOK'
    <2> SUFFICES ASSUME NEW q \in Requests
                 PROVE  /\ arg'[q].op = "create" =>
                             /\ arg'[q].exp = q /\ purged'[q] = {}
                             /\ pc'[q] # "reload" => expense'[q].status = "absent"
                        /\ arg'[q].op \in {"update", "delete"} /\ pc'[q] # "find" =>
                             expense'[arg'[q].exp].status # "absent"
      BY DEF TargetOK
    <2>1. CASE q = r
      BY <1>1, <1>6, <1>8, <2>1
    <2>2. CASE q # r
      <3>1. /\ pc'[q] = pc[q] /\ arg'[q] = arg[q] /\ purged'[q] = purged[q]
            /\ arg[q].exp \in Requests
        BY <1>5, <2>2 DEF TypeOK, Arg
      <3>2. ASSUME arg[q].op = "create"
            PROVE  /\ arg[q].exp = q /\ purged[q] = {}
                   /\ pc[q] # "reload" => expense'[q].status = "absent"
        <4>1. /\ arg[q].exp = q /\ purged[q] = {}
              /\ pc[q] # "reload" => expense[q].status = "absent"
          BY <3>2 DEF Rest, TargetOK
        <4>2. pc[q] # "reload" => q # e
          BY <1>2, <1>8, <2>2, <4>1 DEF Ops
        <4>3. QED
          BY <1>2, <4>1, <4>2
      <3>3. ASSUME arg[q].op \in {"update", "delete"}, pc[q] # "find"
            PROVE  expense'[arg[q].exp].status # "absent"
        BY <1>2, <3>1, <3>3 DEF Rest, TargetOK
      <3>4. QED
        BY <3>1, <3>2, <3>3
    <2>3. QED
      BY <2>1, <2>2
  <1>11. StatusReadOK'
    BY <1>5, <1>6 DEF Rest, StatusReadOK
  <1>p. PayerReadOK'
    <2> SUFFICES ASSUME NEW q \in Requests,
                        arg'[q].op \in {"update", "delete"}, pc'[q] # "find"
                 PROVE  row'[q].payer = expense'[arg'[q].exp].payer
      BY DEF PayerReadOK
    <2>1. q # r
      BY <1>6
    <2>2. /\ arg'[q] = arg[q] /\ pc'[q] = pc[q] /\ row'[q] = row[q]
          /\ arg[q].exp \in Requests
      BY <1>5, <2>1 DEF TypeOK, Arg
    <2>3. /\ row[q].payer = expense[arg[q].exp].payer
          /\ expense[arg[q].exp].status # "absent"
      BY <2>2 DEF Rest, PayerReadOK, TargetOK
    <2>4. CASE arg[q].exp # e
      BY <1>2, <2>2, <2>3, <2>4
    <2>5. CASE arg[q].exp = e
      <3>1. arg[r].op \in {"update", "delete"}
        BY <1>2, <1>8, <2>3, <2>5 DEF Ops
      <3>2. WrittenRow(r).payer = expense[e].payer
        BY <1>1, <1>3, <3>1 DEF WrittenRow, Rest, PayerReadOK, TypeOK, Row
      <3>3. QED
        BY <1>2, <2>2, <2>3, <2>5, <3>2
    <2>6. QED
      BY <2>4, <2>5
  <1>12. \A q \in Requests : q # r /\ pc[q] \in {"purge", "insert", "commit"} =>
           arg[q].exp \in Requests \ {e}
    BY <1>4 DEF Holds, TypeOK, Arg
  <1>13. PurgeOK'
    <2> SUFFICES ASSUME NEW q \in Requests,
                        arg'[q].op \in {"create", "update"}, pc'[q] \in {"insert", "commit"}
                 PROVE  purged'[q] = SharesOf(arg[q].exp)' /\ arg'[q] = arg[q]
      BY DEF PurgeOK, SharesOf
    <2>1. q # r
      BY <1>6
    <2>2. PICK f \in Requests \ {e} : f = arg[q].exp
      BY <1>5, <1>12, <2>1
    <2>3. purged[q] = SharesOf(f)
      BY <1>5, <2>1, <2>2 DEF Rest, PurgeOK
    <2>4. SharesOf(f)' = SharesOf(f)
      BY <1>2
    <2>5. f = arg'[q].exp
      BY <1>5, <2>1, <2>2
    <2>6. QED
      BY <1>5, <2>1, <2>3, <2>4, <2>5
  <1>14. SeenOK'
    <2> SUFFICES ASSUME NEW q \in Requests
                 PROVE  /\ \A s \in seen'[q] : s.exp = arg'[q].exp
                        /\ arg'[q].op = "update" /\ pc'[q] \in {"purge", "insert", "commit"} =>
                             \A f \in Requests : f = arg'[q].exp =>
                               ~Clash(seen'[q] \ SharesOf(f)', SharesOf(f)')
      <3>1. \A q \in Requests : arg'[q].exp \in Requests
        BY <1>1, <1>5, <1>6 DEF TypeOK, Arg
      <3>2. QED
        BY <3>1 DEF SeenOK, Clash, SharesOf
    <2>1. \A s \in seen'[q] : s.exp = arg'[q].exp
      <3>1. \A s \in seen[q] : s.exp = arg[q].exp
        BY DEF Rest, SeenOK
      <3>2. \/ seen'[q] = {}
            \/ seen'[q] = seen[q] /\ arg'[q] = arg[q]
        BY <1>5, <1>6
      <3>3. QED
        BY <3>1, <3>2
    <2>2. ASSUME arg'[q].op = "update", pc'[q] \in {"purge", "insert", "commit"},
                 NEW f \in Requests, f = arg'[q].exp
          PROVE  ~Clash(seen'[q] \ SharesOf(f)', SharesOf(f)')
      <3>1. q # r
        BY <1>6, <2>2
      <3>2. /\ arg'[q] = arg[q] /\ pc'[q] = pc[q] /\ seen'[q] = seen[q]
            /\ f \in Requests \ {e}
        BY <1>5, <1>12, <2>2, <3>1
      <3>3. ~Clash(seen[q] \ SharesOf(f), SharesOf(f))
        BY <2>2, <3>2 DEF Rest, SeenOK
      <3>4. QED
        BY <1>2, <3>2, <3>3
    <2>3. QED
      BY <2>1, <2>2
  <1>15. OneWriter'
    BY <1>5, <1>6 DEF Rest, OneWriter, Holds
  <1>16. SharesMatchExpense'
    <2> SUFFICES ASSUME NEW f \in Requests
                 PROVE  IF expense'[f].status = "absent"
                          THEN SharesOf(f)' = {}
                          ELSE \E b \in Bills, q \in Requests :
                                 b.amount = expense'[f].amount /\ SharesOf(f)' = ShareRows(b, f, q)
      BY DEF SharesMatchExpense, ShareRows
    <2>1. CASE f # e
      BY <1>2, <2>1 DEF Rest, SharesMatchExpense
    <2>2. CASE f = e /\ arg[r].op = "delete"
      <3>1. expense[e].status # "absent"
        BY <1>8, <2>2
      <3>2. PICK b \in Bills, q \in Requests :
              b.amount = expense[e].amount /\ SharesOf(e) = ShareRows(b, e, q)
        BY <3>1 DEF Rest, SharesMatchExpense
      <3>3. QED
        BY <1>2, <2>2, <3>2
    <2>3. CASE f = e /\ arg[r].op # "delete"
      BY <1>2, <2>3
    <2>4. QED
      BY <2>1, <2>2, <2>3
  <1>17. QED
    BY <1>7, <1>9, <1>10, <1>11, <1>p, <1>13, <1>14, <1>15, <1>16 DEF Rest

-----------------------------------------------------------------------------
\* Every step keeps the inductive invariant.
LEMMA StepKeepsRest ==
  ASSUME TypeOK, Rest, [Next]_vars
  PROVE  Rest'
  <1>1. ASSUME NEW r \in Requests, Handle(r)
        PROVE  Rest'
    BY <1>1, ReadsKeepRest, ChecksKeepRest, WritesKeepRest, CommitKeepsRest DEF Handle
  <1>2. ASSUME NEW r \in Requests, Begin(r) \/ Fail(r)
        PROVE  Rest'
    BY <1>2, BeginKeepsRest, ReadsKeepRest
  <1>3. CASE UNCHANGED <<ledgerVars, requestVars>>
    BY <1>3, TablesKept
    DEF ledgerVars, requestVars, Rest, StagesOK, IdleOK, TargetOK, StatusReadOK, PayerReadOK,
        PurgeOK, SeenOK, Clash, SharesOf, OneWriter, Holds
  <1>4. QED
    BY <1>1, <1>2, <1>3 DEF Next, GroupStep, vars, ledgerVars, requestVars

\* The inductive invariant holds always: this is the fact that every safety
\* result below is read off from.
THEOREM InductiveHolds == Spec => []Inductive
  <1>1. Inductive <=> TypeOK /\ Rest
    BY DEF Inductive, Rest
  <1>2. Init => Rest
    BY InitRest
  <1>3. TypeOK /\ Rest /\ [Next]_vars => Rest'
    BY StepKeepsRest
  <1>4. QED
    BY <1>1, <1>2, <1>3, TypesHold, PTL DEF Spec

\* Whatever requests run at once, the committed share rows of an expense are
\* the split of the one bill its amount comes from (Create, Update, Delete).
THEOREM SharesAlwaysMatch == Spec => []SharesMatchExpense
  <1>1. Inductive => SharesMatchExpense
    BY DEF Inductive
  <1>2. QED
    BY <1>1, InductiveHolds, PTL

\* The row lock that Save or UpdateStatus takes admits one transaction at a
\* time, a Create's new row included.
THEOREM OneWriterAtATime == Spec => []OneWriter
  <1>1. Inductive => OneWriter
    BY DEF Inductive
  <1>2. QED
    BY <1>1, InductiveHolds, PTL

\* CreateShares never meets a leftover row of the unique index: the rows that
\* DeleteShares saw are still all there are.
THEOREM InsertsAreClean == Spec => []InsertNeverClashes
  <1>1. Inductive => InsertNeverClashes
    <2> SUFFICES ASSUME Inductive, NEW r \in Requests, pc[r] = "insert"
                 PROVE  ~Clash(shares \ purged[r], ShareRows(arg[r].bill, arg[r].exp, r))
      BY DEF InsertNeverClashes
    <2>1. arg[r].exp \in Requests /\ arg[r].bill \in Bills /\ arg[r].op \in Ops \cup {"none"}
      BY DEF Inductive, TypeOK, Arg
    <2>2. arg[r].op \in {"create", "update"}
      BY <2>1 DEF Inductive, StagesOK, DeleteStages, Final, Ops
    <2>3. purged[r] = SharesOf(arg[r].exp)
      BY <2>2 DEF Inductive, PurgeOK
    <2>4. \A s \in ShareRows(arg[r].bill, arg[r].exp, r) : s.exp = arg[r].exp
      BY <2>1, ShareRowsType
    <2>5. QED
      BY <2>3, <2>4 DEF Clash, SharesOf
  <1>2. QED
    BY <1>1, InductiveHolds, PTL

\* An Update that commits has replaced the very shares its own FindByID
\* preloaded, or shares of other users: the primary-key upsert in Save works as
\* a check on what committed since that read, and on nothing before it.
THEOREM NoLostEdit == Spec => []NoBlindOverwrite
  <1>1. Inductive => NoBlindOverwrite
    BY DEF Inductive, PurgeOK, SeenOK, NoBlindOverwrite, Clash
  <1>2. QED
    BY <1>1, InductiveHolds, PTL

\* Only COMMIT writes the tables.
LEMMA OnlyCommitWrites ==
  ASSUME [Next]_vars
  PROVE  UNCHANGED ledgerVars \/ \E r \in Requests : Commit(r)
  BY DEF Next, Handle, Begin, FindExpense, PreloadShares, LockGroup, EnsureUser, EnsurePayer,
         CalcShares, SaveExpense, PurgeShares, InsertShares, MarkRefunded, Reload, Fail,
         Check, GroupStep, vars, ledgerVars

\* A refunded expense changes only at the hands of an Update that read it
\* while it was active.
THEOREM RefundsFallToStaleReads == Spec => RefundedChangesOnlyByStaleRead
  <1> DEFINE Step == \A e \in Requests :
                       expense[e].status = "refunded" /\ expense'[e] # expense[e] =>
                         \E r \in Requests :
                           Holds(r, e) /\ arg[r].op = "update" /\ row[r].status = "active"
  <1>1. Inductive /\ [Next]_vars => Step
    <2> SUFFICES ASSUME Inductive, [Next]_vars, NEW e \in Requests,
                        expense[e].status = "refunded", expense'[e] # expense[e]
                 PROVE  \E r \in Requests :
                          Holds(r, e) /\ arg[r].op = "update" /\ row[r].status = "active"
      OBVIOUS
    <2>1. PICK r \in Requests : Commit(r)
      BY OnlyCommitWrites DEF ledgerVars
    <2>2. /\ pc[r] = "commit" /\ expense' = [expense EXCEPT ![arg[r].exp] = WrittenRow(r)]
          /\ expense \in [Requests -> Row] /\ arg[r].exp \in Requests
          /\ arg[r].op \in Ops \cup {"none"}
      BY <2>1 DEF Commit, Inductive, TypeOK, Arg
    <2>3. arg[r].exp = e /\ WrittenRow(r) # expense[e]
      BY <2>2
    <2>4. arg[r].op # "create" /\ arg[r].op # "none"
      BY <2>2, <2>3 DEF Inductive, TargetOK, StagesOK, Final
    <2>5. arg[r].op # "delete"
      <3>1. [expense[e] EXCEPT !.status = "refunded"] = expense[e]
        BY <2>2 DEF Row
      <3>2. QED
        BY <2>3, <3>1 DEF WrittenRow
    <2>6. arg[r].op = "update"
      BY <2>2, <2>4, <2>5 DEF Ops
    <2>7. QED
      BY <2>2, <2>3, <2>6 DEF Holds, Inductive, StatusReadOK
  <1>2. QED
    BY <1>1, InductiveHolds, PTL DEF Spec, RefundedChangesOnlyByStaleRead

-----------------------------------------------------------------------------
\* The shares of one bill, read back from the table, are that bill's.
LEMMA ReadBack ==
  ASSUME NEW b \in Bills, NEW e \in Requests, NEW r \in Requests
  PROVE  OwedIn(ShareRows(b, e, r)) = b.owed
  <1> DEFINE S == ShareRows(b, e, r)
  <1>1. \A u \in DOMAIN b.owed :
          [exp |-> e, user |-> u, cents |-> b.owed[u], by |-> r] \in S
    BY DEF ShareRows
  <1>2. \A s \in S : s.user \in DOMAIN b.owed /\ s.cents = b.owed[s.user]
    BY DEF ShareRows
  <1>3. {s.user : s \in S} = DOMAIN b.owed
    <2>1. \A u \in DOMAIN b.owed : \E s \in S : s.user = u
      BY <1>1
    <2>2. QED
      BY <1>2, <2>1
  <1>4. \A u \in DOMAIN b.owed : (CHOOSE s \in S : s.user = u).cents = b.owed[u]
    <2> SUFFICES ASSUME NEW u \in DOMAIN b.owed
                 PROVE  (CHOOSE s \in S : s.user = u).cents = b.owed[u]
      OBVIOUS
    <2>1. \E s \in S : s.user = u
      BY <1>1
    <2>2. PICK t : t = CHOOSE s \in S : s.user = u
      OBVIOUS
    <2>3. t \in S /\ t.user = u
      BY <2>1, <2>2
    <2>4. QED
      BY <1>2, <2>2, <2>3
  <1>5. b.owed = [u \in DOMAIN b.owed |-> b.owed[u]]
    BY BillsAssumption
  <1>6. QED
    BY <1>3, <1>4, <1>5 DEF OwedIn

\* An expense that is there reads as an entry of one bill.
LEMMA EntryOfBill ==
  ASSUME SharesMatchExpense, NEW e \in Requests, expense[e].status # "absent"
  PROVE  \E b \in Bills :
           /\ b.amount = expense[e].amount
           /\ BookOf[e] = Ledger!Entry(b, expense[e].payer, expense[e].status)
  <1>1. PICK b \in Bills, q \in Requests :
          b.amount = expense[e].amount /\ SharesOf(e) = ShareRows(b, e, q)
    BY DEF SharesMatchExpense
  <1>2. OwedIn(SharesOf(e)) = b.owed
    BY <1>1, ReadBack
  <1>3. QED
    BY <1>1, <1>2 DEF BookOf, Entry, Ledger!Entry

\* An entry is not the mark of an expense that was never made.
LEMMA EntryIsThere ==
  ASSUME NEW e \in Requests, expense[e].status # "absent"
  PROVE  BookOf[e] # Ledger!NoEntry /\ BookOf[e].status = expense[e].status
  BY DEF BookOf, Entry, Ledger!NoEntry

\* The tables change entry by entry.
LEMMA BookStep ==
  ASSUME NEW e \in Requests, NEW x,
         Entry(expense'[e], SharesOf(e)') = x,
         \A f \in Requests \ {e} : expense'[f] = expense[f] /\ SharesOf(f)' = SharesOf(f)
  PROVE  BookOf' = [BookOf EXCEPT ![e] = x]
  <1>1. BookOf' = [f \in Requests |-> Entry(expense'[f], SharesOf(f)')]
    BY DEF BookOf, Entry, OwedIn, SharesOf
  <1>2. BookOf = [f \in Requests |-> Entry(expense[f], SharesOf(f))]
    BY DEF BookOf
  <1>3. QED
    BY <1>1, <1>2

\* The expense tables of the code implement the abstract book: every handler,
\* statement by statement, is one Post, Edit, Refund or LateEdit.
THEOREM LedgerIsBook == Spec => IsBook
  <1>1. Init => Ledger!Init
    BY DEF Init, Ledger!Init, Ledger!NoEntry, BookOf, Entry, NoRow
  <1>2. ASSUME Inductive, [Next]_vars
        PROVE  [Ledger!Next]_BookOf
    <2>1. CASE UNCHANGED ledgerVars
      BY <2>1 DEF ledgerVars, BookOf, SharesOf
    <2>2. ASSUME NEW r \in Requests, Commit(r)
          PROVE  Ledger!Next
      <3>1. TypeOK /\ Rest /\ SharesMatchExpense
        BY <1>2 DEF Inductive, Rest
      <3>2. PICK e \in Requests : arg[r].exp = e
        BY <3>1 DEF TypeOK, Arg
      <3>3. /\ expense'[e] = WrittenRow(r)
            /\ \A f \in Requests \ {e} : expense'[f] = expense[f] /\ SharesOf(f)' = SharesOf(f)
            /\ IF arg[r].op = "delete"
                 THEN SharesOf(e)' = SharesOf(e)
                 ELSE SharesOf(e)' = ShareRows(arg[r].bill, e, r)
            /\ arg[r].bill \in Bills /\ arg[r].op \in Ops
        BY <2>2, <3>1, <3>2, CommitWrites
      <3>4. pc[r] = "commit"
        BY <2>2 DEF Commit
      <3>5. /\ arg[r].op = "create" => expense[e].status = "absent"
            /\ arg[r].op \in {"update", "delete"} => expense[e].status # "absent"
            /\ arg[r].op = "update" =>
                 row[r].status = "active" /\ row[r].payer = expense[e].payer
        BY <3>1, <3>2, <3>4 DEF Rest, TargetOK, StatusReadOK, PayerReadOK
      <3>6. BookOf' = [BookOf EXCEPT ![e] = Entry(expense'[e], SharesOf(e)')]
        BY <3>3, BookStep
      <3>7. CASE arg[r].op = "create"
        <4>1. BookOf[e] = Ledger!NoEntry
          BY <3>5, <3>7 DEF BookOf, Entry, Ledger!NoEntry
        <4>2. Entry(expense'[e], SharesOf(e)') = Ledger!Entry(arg[r].bill, arg[r].payer, "active")
          BY <3>3, <3>7, ReadBack DEF WrittenRow, Entry, Ledger!Entry
        <4>3. arg[r].payer \in Users
          BY <3>1 DEF TypeOK, Arg
        <4>4. Ledger!Post(e)
          BY <3>3, <3>6, <4>1, <4>2, <4>3 DEF Ledger!Post
        <4>5. QED
          BY <4>4 DEF Ledger!Next
      <3>8. CASE arg[r].op = "delete"
        <4>1. expense'[e] = [expense[e] EXCEPT !.status = "refunded"]
          BY <3>2, <3>3, <3>8 DEF WrittenRow
        <4>2. expense[e].status # "absent" /\ expense[e] \in Row
          BY <3>1, <3>5, <3>8 DEF TypeOK
        <4>3. Entry(expense'[e], SharesOf(e)') = [BookOf[e] EXCEPT !.status = "refunded"]
          BY <3>3, <3>8, <4>1, <4>2 DEF BookOf, Entry, Row
        <4>4. Ledger!Refund(e)
          BY <3>6, <4>2, <4>3, EntryIsThere DEF Ledger!Refund
        <4>5. QED
          BY <4>4 DEF Ledger!Next
      <3>9. CASE arg[r].op = "update"
        <4>1. PICK b \in Bills :
                BookOf[e] = Ledger!Entry(b, expense[e].payer, expense[e].status)
          BY <3>1, <3>5, <3>9, EntryOfBill
        <4>2. /\ BookOf[e] # Ledger!NoEntry /\ BookOf[e].status = expense[e].status
              /\ expense[e].status \in {"active", "refunded"}
          BY <3>1, <3>5, <3>9, EntryIsThere DEF TypeOK, Row, RowStatus
        <4>3. BookOf[e].payer = expense[e].payer
          BY <4>1 DEF Ledger!Entry
        <4>4. Entry(expense'[e], SharesOf(e)') = Ledger!Entry(arg[r].bill, BookOf[e].payer, "active")
          BY <3>3, <3>5, <3>9, <4>3, ReadBack DEF WrittenRow, Entry, Ledger!Entry
        <4>5. Ledger!Edit(e) \/ Ledger!LateEdit(e)
          BY <3>3, <3>6, <4>2, <4>4 DEF Ledger!Edit, Ledger!LateEdit
        <4>6. QED
          BY <4>5 DEF Ledger!Next
      <3>10. QED
        BY <3>3, <3>7, <3>8, <3>9 DEF Ops
    <2>3. QED
      BY <1>2, <2>1, <2>2, OnlyCommitWrites DEF Ledger!Next
  <1>3. QED
    BY <1>1, <1>2, InductiveHolds, PTL DEF Spec, IsBook, Ledger!Spec

=============================================================================
