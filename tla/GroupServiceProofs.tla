------------------------- MODULE GroupServiceProofs -------------------------
(***************************************************************************)
(* For every set of users, administrators and requests: the handlers of a   *)
(* group do to its two tables only what GroupTable allows, an archived      *)
(* group reopens only through an edit that had read it before, nothing but  *)
(* an edit changes what an edit writes, and a group lacks its owner only    *)
(* while, or after, its creation stops half-way.                            *)
(*                                                                         *)
(* What carries the argument is that nothing finds the group before its row *)
(* is inserted, so that the insert changes nothing anybody has relied on.   *)
(***************************************************************************)
EXTENDS GroupService, TLAPS

\* The default row and everything a script asks for have their types.
LEMMA Defaults ==
  /\ NoRow \in [name : Names \cup {NoName}, status : GroupStatus]
  /\ \A r \in Requests : \A a \in Script[r] : a \in Arg
  BY ScriptAssumption DEF NoRow, GroupStatus

\* To answer ends the request, keeps what it asked and forgets what it read.
LEMMA AnswerEffect ==
  ASSUME TypeOK, NEW r \in Requests, NEW outcome \in Final, Answer(r, outcome)
  PROVE  /\ pc' = [pc EXCEPT ![r] = outcome]
         /\ pc' \in [Requests -> Stage]
         /\ arg' = arg
         /\ row' \in [Requests -> [name : Names \cup {NoName}, status : GroupStatus]]
  BY Defaults DEF Answer, Goto, TypeOK, Stage

\* So does the answer to a write, whether or not its reply came.
LEMMA WrittenEffect ==
  ASSUME TypeOK, NEW r \in Requests, AnswerWritten(r)
  PROVE  /\ pc' \in [Requests -> Stage]
         /\ \/ pc' = [pc EXCEPT ![r] = "ok"]
            \/ pc' = [pc EXCEPT ![r] = "failed"]
         /\ pc'[r] \in Final
         /\ arg' = arg
         /\ row' \in [Requests -> [name : Names \cup {NoName}, status : GroupStatus]]
  <1>1. PICK outcome \in Final : Answer(r, outcome)
    BY DEF AnswerWritten
  <1>2. pc' = [pc EXCEPT ![r] = outcome] /\ pc'[r] = outcome
    BY <1>1, AnswerEffect DEF TypeOK
  <1> QED
    BY <1>1, <1>2, AnswerEffect DEF Final

\* Every step keeps the types.
LEMMA TypeStep ==
  ASSUME TypeOK, [Next]_vars
  PROVE  TypeOK'
  <1> USE Defaults
  <1>1. ASSUME NEW r \in Requests, Begin(r)
        PROVE  TypeOK'
    BY <1>1 DEF Begin, Goto, TypeOK, GroupTypeOK, groupVars, Stage, Working
  <1>2. ASSUME NEW r \in Requests, InsertGroup(r)
        PROVE  TypeOK'
    <2>1. name' \in Names /\ groupStatus' \in GroupStatus /\ member' = member
      BY <1>2 DEF InsertGroup, TypeOK, Arg, GroupStatus
    <2>2. CASE Goto(r, "owner") /\ UNCHANGED row
      BY <2>1, <2>2 DEF Goto, TypeOK, GroupTypeOK, Stage, Working
    <2>3. CASE Answer(r, "failed")
      BY <2>1, <2>3, AnswerEffect DEF TypeOK, GroupTypeOK, Final
    <2> QED
      BY <1>2, <2>2, <2>3 DEF InsertGroup
  <1>3. ASSUME NEW r \in Requests, InsertOwner(r)
        PROVE  TypeOK'
    <2>1. pc' \in [Requests -> Stage] /\ arg' = arg
          /\ row' \in [Requests -> [name : Names \cup {NoName}, status : GroupStatus]]
      BY <1>3, AnswerEffect, WrittenEffect DEF InsertOwner, Final
    <2>2. member' \in [Users -> MemberStatus]
      BY <1>3 DEF InsertOwner, TypeOK, GroupTypeOK, MemberStatus
    <2> QED
      BY <1>3, <2>1, <2>2 DEF InsertOwner, TypeOK, GroupTypeOK, groupRow
  <1>4. ASSUME NEW r \in Requests, FindGroup(r)
        PROVE  TypeOK'
    <2>1. CASE Exists /\ May(r)
      <3>1. NextStage[arg[r].op] \in Stage
        BY DEF NextStage, Stage, Working, Final, TypeOK, Arg, Ops
      <3> QED
        BY <1>4, <2>1, <3>1 DEF FindGroup, Goto, TypeOK, GroupTypeOK, groupVars
    <2>2. CASE ~(Exists /\ May(r))
      BY <1>4, <2>2, AnswerEffect DEF FindGroup, TypeOK, GroupTypeOK, groupVars, Final
    <2> QED
      BY <2>1, <2>2
  <1>5. ASSUME NEW r \in Requests, SaveGroup(r)
        PROVE  TypeOK'
    <2>1. arg[r].name \in Names /\ row[r].status \in GroupStatus
      BY DEF TypeOK, Arg
    <2> QED
      BY <1>5, <2>1, WrittenEffect DEF SaveGroup, TypeOK, GroupTypeOK
  <1>6. ASSUME NEW r \in Requests, SetArchived(r)
        PROVE  TypeOK'
    BY <1>6, WrittenEffect DEF SetArchived, TypeOK, GroupTypeOK, GroupStatus
  <1>7. ASSUME NEW r \in Requests, CheckInvitee(r)
        PROVE  TypeOK'
    <2>1. CASE IsMember(arg[r].user)
      BY <1>7, <2>1, AnswerEffect DEF CheckInvitee, TypeOK, GroupTypeOK, groupVars, Final
    <2>2. CASE ~IsMember(arg[r].user)
      BY <1>7, <2>2 DEF CheckInvitee, Goto, TypeOK, GroupTypeOK, groupVars, Stage, Working
    <2> QED
      BY <2>1, <2>2
  <1>8. ASSUME NEW r \in Requests, AddInvitee(r)
        PROVE  TypeOK'
    <2>1. pc' \in [Requests -> Stage] /\ arg' = arg
          /\ row' \in [Requests -> [name : Names \cup {NoName}, status : GroupStatus]]
      BY <1>8, AnswerEffect, WrittenEffect DEF AddInvitee, Final
    <2>2. member' \in [Users -> MemberStatus]
      BY <1>8 DEF AddInvitee, TypeOK, GroupTypeOK, MemberStatus
    <2> QED
      BY <1>8, <2>1, <2>2 DEF AddInvitee, TypeOK, GroupTypeOK, groupRow
  <1>9. ASSUME NEW r \in Requests, FindMember(r)
        PROVE  TypeOK'
    <2>1. CASE member[arg[r].user] = "none"
      BY <1>9, <2>1, AnswerEffect DEF FindMember, TypeOK, GroupTypeOK, groupVars, Final
    <2>2. CASE member[arg[r].user] # "none"
      BY <1>9, <2>2 DEF FindMember, Goto, TypeOK, GroupTypeOK, groupVars, Stage, Working
    <2> QED
      BY <2>1, <2>2
  <1>10. ASSUME NEW r \in Requests, DropInvitee(r)
         PROVE  TypeOK'
    <2>1. member' \in [Users -> MemberStatus]
      BY <1>10 DEF DropInvitee, TypeOK, GroupTypeOK, MemberStatus
    <2> QED
      BY <1>10, <2>1, WrittenEffect DEF DropInvitee, TypeOK, GroupTypeOK, groupRow
  <1>11. ASSUME NEW r \in Requests, Fail(r)
         PROVE  TypeOK'
    BY <1>11, AnswerEffect DEF Fail, TypeOK, GroupTypeOK, groupVars, Final
  <1>12. ASSUME UNCHANGED vars
         PROVE  TypeOK'
    BY <1>12 DEF vars, TypeOK, GroupTypeOK
  <1> QED
    BY <1>1, <1>2, <1>3, <1>4, <1>5, <1>6, <1>7, <1>8, <1>9, <1>10, <1>11, <1>12
    DEF Next, Handle, Done

\* The inductive invariant holds at the start and after every step.
THEOREM InductiveHolds == Spec => []Inductive
  <1>1. Init => Inductive
    <2> SUFFICES ASSUME Init PROVE Inductive
      OBVIOUS
    <2>1. \A r \in Requests : arg[r] \in Script[r]
      BY DEF Init
    <2>2. TypeOK
      BY <2>1, Defaults
      DEF Init, GroupInit, TypeOK, GroupTypeOK, GroupStatus, MemberStatus, Stage
    <2> QED
      BY <2>1, <2>2, ScriptAssumption
      DEF Init, GroupInit, Inductive, Fitting, Exists, Untouched, OwnerMissingOnlyAfterFailure
  <1>2. Inductive /\ [Next]_vars => Inductive'
    <2> SUFFICES ASSUME Inductive, [Next]_vars PROVE Inductive'
      OBVIOUS
    <2>1. TypeOK /\ TypeOK'
      BY TypeStep DEF Inductive
    <2>2. Creator \in Requests
      BY ScriptAssumption
    <2> USE OwnerAssumption, <2>2
    <2>3. ASSUME NEW r \in Requests, Begin(r)
          PROVE  Inductive'
      <3>1. (arg[r].op = "create") <=> r = Creator
        BY ScriptAssumption DEF Inductive, Fitting
      <3> QED
        BY <2>1, <2>3, <3>1
        DEF Inductive, TypeOK, Begin, Goto, Fitting, Exists, Untouched, Final, groupVars,
            OwnerMissingOnlyAfterFailure
    <2>4. ASSUME NEW r \in Requests, InsertGroup(r)
          PROVE  Inductive'
      <3>1. arg[r].name \in Names
        BY <2>1 DEF TypeOK, Arg
      <3>2. r = Creator /\ Exists'
        BY <2>4, <3>1, NamesAssumption DEF InsertGroup, Inductive, Fitting, Exists
      <3>3. /\ arg' = arg /\ member' = member
            /\ \/ pc' = [pc EXCEPT ![r] = "owner"]
               \/ pc' = [pc EXCEPT ![r] = "failed"]
        BY <2>4 DEF InsertGroup, Answer, Goto
      <3>4. \A q \in Requests : Fitting(q)'
        BY <2>1, <3>2, <3>3 DEF Inductive, Fitting, TypeOK, Final
      <3> QED
        BY <2>1, <3>2, <3>3, <3>4
        DEF Inductive, TypeOK, Exists, Final, OwnerMissingOnlyAfterFailure
    <2>5. ASSUME NEW r \in Requests, InsertOwner(r)
          PROVE  Inductive'
      <3>1. r = Creator /\ arg[r].caller = Owner
        BY <2>5, ScriptAssumption DEF InsertOwner, Inductive, Fitting
      <3>2. CASE member[Owner] = "none"
        <4>1. /\ pc' = [pc EXCEPT ![r] = "ok"] \/ pc' = [pc EXCEPT ![r] = "failed"]
              /\ arg' = arg /\ name' = name /\ groupStatus' = groupStatus
          BY <2>1, <2>5, <3>1, <3>2, WrittenEffect DEF InsertOwner, groupRow
        <4>2. \A u \in Users : member[u] # "none" => member'[u] # "none"
          BY <2>1, <2>5, <3>1, <3>2 DEF InsertOwner, TypeOK, GroupTypeOK
        <4>3. \A q \in Requests : arg[q].user \in Users
          BY <2>1 DEF TypeOK, Arg
        <4>4. \A q \in Requests : Fitting(q)'
          BY <2>1, <3>1, <4>1, <4>2, <4>3 DEF Inductive, Fitting, TypeOK, Final
        <4>5. Exists
          BY <2>5 DEF InsertOwner, Inductive, Untouched, Final
        <4>6. OwnerMissingOnlyAfterFailure'
          BY <2>1, <2>5, <3>1, <3>2
          DEF InsertOwner, TypeOK, GroupTypeOK, OwnerMissingOnlyAfterFailure
        <4> QED
          BY <2>1, <3>1, <4>1, <4>4, <4>5, <4>6 DEF Inductive, TypeOK, Exists, Final
      <3>3. CASE member[Owner] # "none"
        BY <2>1, <2>5, <3>1, <3>3
        DEF Inductive, TypeOK, GroupTypeOK, InsertOwner, Answer, Goto, Fitting, Exists, Untouched,
            Final, groupRow, OwnerMissingOnlyAfterFailure
      <3> QED
        BY <3>2, <3>3
    <2>6. ASSUME NEW r \in Requests, FindGroup(r)
          PROVE  Inductive'
      <3>1. (arg[r].op = "create") <=> r = Creator
        BY ScriptAssumption DEF Inductive, Fitting
      <3>2. CASE Exists /\ May(r)
        <4>1. NextStage[arg[r].op] \in {"save", "archive", "invitee", "member", "failed"}
              /\ (NextStage[arg[r].op] = "member" => arg[r].op = "remove")
          BY <2>1 DEF TypeOK, Arg, Ops, NextStage
        <4>2. NextStage[arg[r].op] = "member" => arg[r].user # Owner
          BY <3>2, <4>1 DEF May
        <4>3. r # Creator
          BY <2>6 DEF Inductive, Fitting, FindGroup, Final
        <4> QED
          BY <2>1, <2>6, <3>2, <4>1, <4>2, <4>3
          DEF Inductive, TypeOK, FindGroup, Goto, Fitting, Exists, Final, groupVars,
              OwnerMissingOnlyAfterFailure
      <3>3. CASE ~(Exists /\ May(r))
        BY <2>1, <2>6, <3>3
        DEF Inductive, TypeOK, FindGroup, Answer, Goto, Fitting, Exists, Untouched, Final,
            groupVars, OwnerMissingOnlyAfterFailure
      <3> QED
        BY <3>2, <3>3
    <2>7. ASSUME NEW r \in Requests, SaveGroup(r)
          PROVE  Inductive'
      <3>1. Exists /\ r # Creator
        BY <2>7 DEF SaveGroup, Inductive, Untouched, Fitting, Final
      <3>2. Exists' /\ member' = member
        BY <2>1, <2>7, NamesAssumption DEF SaveGroup, Exists, TypeOK, Arg
      <3>3. /\ pc' = [pc EXCEPT ![r] = "ok"] \/ pc' = [pc EXCEPT ![r] = "failed"]
            /\ arg' = arg
        BY <2>1, <2>7, WrittenEffect DEF SaveGroup
      <3> QED
        BY <2>1, <3>1, <3>2, <3>3
        DEF Inductive, TypeOK, Fitting, Exists, Final, OwnerMissingOnlyAfterFailure
    <2>8. ASSUME NEW r \in Requests, SetArchived(r)
          PROVE  Inductive'
      <3>1. Exists /\ r # Creator
        BY <2>8 DEF SetArchived, Inductive, Untouched, Fitting, Final
      <3>2. /\ pc' = [pc EXCEPT ![r] = "ok"] \/ pc' = [pc EXCEPT ![r] = "failed"]
            /\ arg' = arg
        BY <2>1, <2>8, WrittenEffect DEF SetArchived
      <3> QED
        BY <2>1, <2>8, <3>1, <3>2
        DEF Inductive, TypeOK, SetArchived, Fitting, Exists, Final, OwnerMissingOnlyAfterFailure
    <2>9. ASSUME NEW r \in Requests, CheckInvitee(r)
          PROVE  Inductive'
      <3>1. Exists /\ r # Creator
        BY <2>9 DEF CheckInvitee, Inductive, Untouched, Fitting, Final
      <3> QED
        BY <2>1, <2>9, <3>1
        DEF Inductive, TypeOK, CheckInvitee, Answer, Goto, Fitting, Exists, Final, groupVars,
            OwnerMissingOnlyAfterFailure
    <2>10. ASSUME NEW r \in Requests, AddInvitee(r)
           PROVE  Inductive'
      <3>1. Exists /\ r # Creator
        BY <2>10 DEF AddInvitee, Inductive, Untouched, Fitting, Final
      <3>2. arg[r].user \in Users
        BY <2>1 DEF TypeOK, Arg
      <3>3. CASE member[arg[r].user] = "none"
        <4>1. /\ pc' = [pc EXCEPT ![r] = "ok"] \/ pc' = [pc EXCEPT ![r] = "failed"]
              /\ arg' = arg /\ name' = name /\ groupStatus' = groupStatus
          BY <2>1, <2>10, <3>3, WrittenEffect DEF AddInvitee, groupRow
        <4>2. \A u \in Users : member[u] # "none" => member'[u] # "none"
          BY <2>1, <2>10, <3>2, <3>3 DEF AddInvitee, TypeOK, GroupTypeOK
        <4>3. member[Owner] = "active" => member'[Owner] = "active"
          BY <2>1, <2>10, <3>2, <3>3 DEF AddInvitee, TypeOK, GroupTypeOK
        <4>4. \A q \in Requests : arg[q].user \in Users
          BY <2>1 DEF TypeOK, Arg
        <4>5. \A q \in Requests : Fitting(q)'
          BY <2>1, <3>1, <4>1, <4>2, <4>4 DEF Inductive, Fitting, TypeOK, Final
        <4> QED
          BY <2>1, <3>1, <4>1, <4>3, <4>5
          DEF Inductive, TypeOK, Exists, Final, OwnerMissingOnlyAfterFailure
      <3>4. CASE member[arg[r].user] # "none"
        BY <2>1, <2>10, <3>1, <3>4
        DEF Inductive, TypeOK, AddInvitee, Answer, Goto, Fitting, Exists, Final,
            groupRow, OwnerMissingOnlyAfterFailure
      <3> QED
        BY <3>3, <3>4
    <2>11. ASSUME NEW r \in Requests, FindMember(r)
           PROVE  Inductive'
      <3>1. Exists /\ r # Creator
        BY <2>11 DEF FindMember, Inductive, Untouched, Fitting, Final
      <3> QED
        BY <2>1, <2>11, <3>1
        DEF Inductive, TypeOK, FindMember, Answer, Goto, Fitting, Exists, Final, groupVars,
            OwnerMissingOnlyAfterFailure
    <2>12. ASSUME NEW r \in Requests, DropInvitee(r)
           PROVE  Inductive'
      <3>1. Exists /\ r # Creator /\ arg[r].user # Owner
        BY <2>12 DEF DropInvitee, Inductive, Untouched, Fitting, Final
      <3>2. /\ pc' = [pc EXCEPT ![r] = "ok"] \/ pc' = [pc EXCEPT ![r] = "failed"]
            /\ arg' = arg /\ name' = name
        BY <2>1, <2>12, WrittenEffect DEF DropInvitee, groupRow
      <3>3. \A u \in Users : member[u] # "none" => member'[u] # "none"
        BY <2>1, <2>12 DEF DropInvitee, TypeOK, GroupTypeOK
      <3>4. member'[Owner] = member[Owner]
        BY <2>1, <2>12, <3>1 DEF DropInvitee, TypeOK, GroupTypeOK
      <3>5. \A q \in Requests : arg[q].user \in Users
        BY <2>1 DEF TypeOK, Arg
      <3>6. \A q \in Requests : Fitting(q)'
        BY <2>1, <3>1, <3>2, <3>3, <3>5 DEF Inductive, Fitting, TypeOK, Final
      <3> QED
        BY <2>1, <3>1, <3>2, <3>4, <3>6
        DEF Inductive, TypeOK, Exists, Final, OwnerMissingOnlyAfterFailure
    <2>13. ASSUME NEW r \in Requests, Fail(r)
           PROVE  Inductive'
      BY <2>1, <2>13
      DEF Inductive, TypeOK, Fail, Answer, Goto, Fitting, Exists, Untouched, Final, groupVars,
          OwnerMissingOnlyAfterFailure
    <2>14. ASSUME UNCHANGED vars
           PROVE  Inductive'
      BY <2>1, <2>14
      DEF vars, Inductive, Fitting, Exists, Untouched, OwnerMissingOnlyAfterFailure
    <2> QED
      BY <2>3, <2>4, <2>5, <2>6, <2>7, <2>8, <2>9, <2>10, <2>11, <2>12, <2>13, <2>14
      DEF Next, Handle, Done
  <1> QED
    BY <1>1, <1>2, PTL DEF Spec

\* A group without its owner's membership is one whose creation has failed
\* half-way, or has not ended yet.
THEOREM OwnersAreMembers == Spec => []OwnerMissingOnlyAfterFailure
  <1>1. Inductive => OwnerMissingOnlyAfterFailure
    BY DEF Inductive
  <1> QED
    BY <1>1, InductiveHolds, PTL

\* Whatever the handlers do, the two tables make only steps of GroupTable.
THEOREM TablesAreGroupTable == Spec => IsGroupTable
  <1>1. Init => GroupInit
    BY DEF Init
  <1>2. Inductive /\ [Next]_vars => [GroupNext]_groupVars
    <2> SUFFICES ASSUME Inductive, [Next]_vars, groupVars' # groupVars PROVE GroupNext
      OBVIOUS
    <2>1. TypeOK
      BY DEF Inductive
    <2>2. \A r \in Requests : arg[r].user \in Users /\ arg[r].caller \in Users
      BY <2>1 DEF TypeOK, Arg
    <2>3. ASSUME NEW r \in Requests, InsertGroup(r)
          PROVE  GroupNext
      <3>1. ~Exists
        BY <2>3, ScriptAssumption DEF InsertGroup, Inductive, Fitting, Final
      <3> QED
        BY <2>3, <3>1 DEF InsertGroup, Inductive, Untouched, groupVars
    <2>4. ASSUME NEW r \in Requests, InsertOwner(r)
          PROVE  GroupNext
      <3>1. member[arg[r].caller] = "none" /\ AddMember(arg[r].caller)
        BY <2>4 DEF InsertOwner, AddMember, groupRow, groupVars
      <3> QED
        BY <2>2, <3>1 DEF GroupNext
    <2>5. ASSUME NEW r \in Requests, SaveGroup(r)
          PROVE  GroupNext
      <3>1. groupStatus' # groupStatus /\ member' = member /\ groupStatus' = row[r].status
        BY <2>5 DEF SaveGroup, groupVars
      <3>2. groupStatus \in GroupStatus /\ row[r].status \in GroupStatus
        BY <2>1 DEF TypeOK, GroupTypeOK
      <3> QED
        BY <3>1, <3>2 DEF GroupNext, ArchiveGroup, ReopenGroup, GroupStatus
    <2>6. ASSUME NEW r \in Requests, SetArchived(r)
          PROVE  GroupNext
      BY <2>6 DEF SetArchived, GroupNext, ArchiveGroup
    <2>7. ASSUME NEW r \in Requests, AddInvitee(r)
          PROVE  GroupNext
      <3>1. AddMember(arg[r].user)
        BY <2>7 DEF AddInvitee, AddMember, groupRow, groupVars
      <3> QED
        BY <2>2, <3>1 DEF GroupNext
    <2>8. ASSUME NEW r \in Requests, DropInvitee(r)
          PROVE  GroupNext
      <3>1. DropMember(arg[r].user)
        BY <2>8 DEF DropInvitee, DropMember, Inductive, Fitting, groupRow
      <3> QED
        BY <2>2, <3>1 DEF GroupNext
    <2> QED
      BY <2>3, <2>4, <2>5, <2>6, <2>7, <2>8
      DEF Next, Handle, Done, vars, Begin, FindGroup, CheckInvitee, FindMember, Fail, groupVars
  <1> QED
    BY <1>1, <1>2, InductiveHolds, PTL DEF Spec, IsGroupTable, GroupSpec

\* Only an edit that read the group while it was active brings it back.
THEOREM StaleEditsReopen == Spec => ReopenedOnlyByStaleEdit
  <1>1. Inductive /\ [Next]_vars =>
          (groupStatus = "archived" /\ groupStatus' = "active" =>
             \E r \in Requests : pc[r] = "save" /\ row[r].status = "active" /\ pc'[r] \in Final)
    <2> SUFFICES ASSUME Inductive, [Next]_vars, groupStatus = "archived", groupStatus' = "active"
                 PROVE  \E r \in Requests :
                          pc[r] = "save" /\ row[r].status = "active" /\ pc'[r] \in Final
      OBVIOUS
    <2>1. ASSUME NEW r \in Requests, InsertGroup(r)
          PROVE  FALSE
      BY <2>1, ScriptAssumption DEF InsertGroup, Inductive, Fitting, Untouched, Final
    <2>2. ASSUME NEW r \in Requests, SaveGroup(r)
          PROVE  pc[r] = "save" /\ row[r].status = "active" /\ pc'[r] \in Final
      BY <2>2, WrittenEffect DEF SaveGroup, Inductive
    <2> QED
      BY <2>1, <2>2
      DEF Next, Handle, Done, vars, Begin, InsertOwner, FindGroup, SetArchived, CheckInvitee,
          AddInvitee, FindMember, DropInvitee, Fail, groupVars, groupRow
  <1> QED
    BY <1>1, InductiveHolds, PTL DEF Spec, ReopenedOnlyByStaleEdit

\* Once the group exists, what an edit writes changes only by an edit, to what
\* it asked for; an archiving that read the group before leaves it there.
THEOREM ArchivingKeepsEdits == Spec => EditsStay
  <1>1. Inductive /\ [Next]_vars =>
          (Exists /\ name' # name =>
             \E r \in Requests : pc[r] = "save" /\ pc'[r] \in Final /\ name' = arg[r].name)
    <2> SUFFICES ASSUME Inductive, [Next]_vars, Exists, name' # name
                 PROVE  \E r \in Requests :
                          pc[r] = "save" /\ pc'[r] \in Final /\ name' = arg[r].name
      OBVIOUS
    <2>1. ASSUME NEW r \in Requests, InsertGroup(r)
          PROVE  FALSE
      BY <2>1, ScriptAssumption DEF InsertGroup, Inductive, Fitting, Final
    <2>2. ASSUME NEW r \in Requests, SaveGroup(r)
          PROVE  pc[r] = "save" /\ pc'[r] \in Final /\ name' = arg[r].name
      BY <2>2, WrittenEffect DEF SaveGroup, Inductive
    <2> QED
      BY <2>1, <2>2
      DEF Next, Handle, Done, vars, Begin, InsertOwner, FindGroup, SetArchived, CheckInvitee,
          AddInvitee, FindMember, DropInvitee, Fail, groupVars, groupRow
  <1> QED
    BY <1>1, InductiveHolds, PTL DEF Spec, EditsStay
=============================================================================
