---------------------------- MODULE GroupService ----------------------------
(***************************************************************************)
(* GroupService: the handlers that create a group, edit and archive it,     *)
(* invite and remove members, run by concurrent HTTP requests.  Every step  *)
(* is one SQL statement with the checks that follow it, and commits by      *)
(* itself: Create opens a transaction, but the repositories it calls use    *)
(* the pool.  One group; the name stands for every column an edit writes.   *)
(* A write whose reply is lost has taken effect and is answered with 500.   *)
(*                                                                         *)
(* The tables are those of GroupTable, plus the name and the time before    *)
(* the group exists.                                                        *)
(***************************************************************************)
EXTENDS GroupTable

CONSTANTS Requests,   \* the HTTP requests of a run, each handled once
          Creator,    \* the one that creates the group
          Admins,     \* users with the administrator's role
          Names,      \* what a group may be called
          Script      \* what each request may ask for, a set of Arg

Ops == {"create", "update", "archive", "invite", "remove"}
Arg == [op : Ops, caller : Users, user : Users, name : Names]

NoName == "no group"

ASSUME NamesAssumption == NoName \notin Names

ASSUME ScriptAssumption ==
  /\ Creator \in Requests
  /\ \A r \in Requests : Script[r] # {} /\ Script[r] \subseteq Arg
  /\ \A r \in Requests : \A a \in Script[r] :
       /\ a.op = "create" <=> r = Creator
       /\ r = Creator => a.caller = Owner

VARIABLES name,     \* groups.name, NoName before the row is inserted
          pc,       \* the statement each request runs next
          arg,      \* what the request asks for
          row       \* the groups row FindByID read into memory

groupRow == <<groupStatus, name>>
vars == <<groupStatus, member, name, pc, arg, row>>

Exists == name # NoName

Final == {"ok", "failed"}
Working == {"insert", "owner", "find", "save", "archive", "invitee", "add", "member", "drop"}
Stage == {"idle"} \cup Working \cup Final

NoRow == [name |-> NoName, status |-> "active"]

\* The types of the tables and of what requests keep in memory.
TypeOK ==
  /\ GroupTypeOK
  /\ name \in Names \cup {NoName}
  /\ pc \in [Requests -> Stage]
  /\ arg \in [Requests -> Arg]
  /\ row \in [Requests -> [name : Names \cup {NoName}, status : GroupStatus]]

Init ==
  /\ GroupInit
  /\ name = NoName
  /\ pc = [r \in Requests |-> "idle"]
  /\ arg \in {f \in [Requests -> UNION {Script[r] : r \in Requests}] :
                \A r \in Requests : f[r] \in Script[r]}
  /\ row = [r \in Requests |-> NoRow]

-----------------------------------------------------------------------------
Goto(r, stage) == pc' = [pc EXCEPT ![r] = stage] /\ UNCHANGED arg

Answer(r, outcome) == Goto(r, outcome) /\ row' = [row EXCEPT ![r] = NoRow]

\* The answer to a statement that took effect: "failed" when its reply is lost.
AnswerWritten(r) == \E outcome \in Final : Answer(r, outcome)

\* canManage: the owner named in the row, or an administrator.
CanManage(u) == u = Owner \/ u \in Admins

\* A request arrives.
Begin(r) ==
  /\ pc[r] = "idle"
  /\ Goto(r, IF arg[r].op = "create" THEN "insert" ELSE "find")
  /\ UNCHANGED <<groupVars, name, row>>

-----------------------------------------------------------------------------
(* Create *)

\* groupRepo.Create: on the pool, so the row is there at once, and stays when
\* its reply is lost.
InsertGroup(r) ==
  /\ pc[r] = "insert"
  /\ name' = arg[r].name
  /\ groupStatus' = "active"
  /\ \/ Goto(r, "owner") /\ UNCHANGED row
     \/ Answer(r, "failed")
  /\ UNCHANGED member

\* Variant: the row is made for the user named in the request.
InsertOwnerUser(r) ==
  /\ pc[r] = "owner"
  /\ member' = [member EXCEPT ![arg[r].user] = "active"]
  /\ AnswerWritten(r)
  /\ UNCHANGED groupRow

\* memberRepo.Create for the creator.  The unique index refuses the row when an
\* administrator has invited the owner in the meantime.
InsertOwner(r) ==
  /\ pc[r] = "owner"
  /\ IF member[arg[r].caller] = "none"
       THEN /\ member' = [member EXCEPT ![arg[r].caller] = "active"]
            /\ AnswerWritten(r)
       ELSE Answer(r, "failed") /\ UNCHANGED member
  /\ UNCHANGED groupRow

-----------------------------------------------------------------------------
(* The other handlers begin with FindByID *)

NextStage ==
  [op \in Ops |-> CASE op = "update" -> "save"
                    [] op = "archive" -> "archive"
                    [] op = "invite" -> "invitee"
                    [] op = "remove" -> "member"
                    [] OTHER -> "failed"]

\* Variant: the owner is removed like anybody else.
MayRemoveOwner(r) ==
  /\ CanManage(arg[r].caller)
  /\ arg[r].op = "invite" => groupStatus = "active"

\* The checks on the row just read.
May(r) ==
  /\ CanManage(arg[r].caller)
  /\ arg[r].op = "invite" => groupStatus = "active"
  /\ arg[r].op = "remove" => arg[r].user # Owner

FindGroup(r) ==
  /\ pc[r] = "find"
  /\ IF Exists /\ May(r)
       THEN /\ row' = [row EXCEPT ![r] = [name |-> name, status |-> groupStatus]]
            /\ Goto(r, NextStage[arg[r].op])
       ELSE Answer(r, "failed")
  /\ UNCHANGED <<groupVars, name>>

\* Variant: an edited group is active.
SaveGroupActive(r) ==
  /\ pc[r] = "save"
  /\ name' = arg[r].name
  /\ groupStatus' = "active"
  /\ AnswerWritten(r)
  /\ UNCHANGED member

\* groupRepo.Update, Save of the whole row: the status goes back to what it was
\* when the row was read.
SaveGroup(r) ==
  /\ pc[r] = "save"
  /\ name' = arg[r].name
  /\ groupStatus' = row[r].status
  /\ AnswerWritten(r)
  /\ UNCHANGED member

\* Variant: the whole row goes back with the new status, as it was read.
SetArchivedWholeRow(r) ==
  /\ pc[r] = "archive"
  /\ groupStatus' = "archived"
  /\ name' = row[r].name
  /\ AnswerWritten(r)
  /\ UNCHANGED member

\* UpdateFields: only the status.
SetArchived(r) ==
  /\ pc[r] = "archive"
  /\ groupStatus' = "archived"
  /\ AnswerWritten(r)
  /\ UNCHANGED <<member, name>>

\* FindByUsername and memberRepo.Exists: an active member is not invited again.
CheckInvitee(r) ==
  /\ pc[r] = "invitee"
  /\ IF IsMember(arg[r].user)
       THEN Answer(r, "failed")
       ELSE Goto(r, "add") /\ UNCHANGED row
  /\ UNCHANGED <<groupVars, name>>

\* memberRepo.Create: idx_group_user refuses a second row for the user, also
\* when the first one is archived.
AddInvitee(r) ==
  /\ pc[r] = "add"
  /\ IF member[arg[r].user] = "none"
       THEN /\ member' = [member EXCEPT ![arg[r].user] = "active"]
            /\ AnswerWritten(r)
       ELSE Answer(r, "failed") /\ UNCHANGED member
  /\ UNCHANGED groupRow

\* memberRepo.Find: a row of any status.
FindMember(r) ==
  /\ pc[r] = "member"
  /\ IF member[arg[r].user] = "none"
       THEN Answer(r, "failed")
       ELSE Goto(r, "drop") /\ UNCHANGED row
  /\ UNCHANGED <<groupVars, name>>

\* Variant: a status of its own for former members.
DropInviteeRemoved(r) ==
  /\ pc[r] = "drop"
  /\ member' = [member EXCEPT ![arg[r].user] = "removed"]
  /\ AnswerWritten(r)
  /\ UNCHANGED groupRow

\* memberRepo.Remove: UPDATE of the status.
DropInvitee(r) ==
  /\ pc[r] = "drop"
  /\ member' = [member EXCEPT ![arg[r].user] = "archived"]
  /\ AnswerWritten(r)
  /\ UNCHANGED groupRow

\* Any statement may return an error without having taken effect, and the
\* handler answers 500.
Fail(r) ==
  /\ pc[r] \in Working
  /\ Answer(r, "failed")
  /\ UNCHANGED <<groupVars, name>>

Handle(r) ==
  \/ InsertGroup(r) \/ InsertOwner(r) \/ FindGroup(r) \/ SaveGroup(r) \/ SetArchived(r)
  \/ CheckInvitee(r) \/ AddInvitee(r) \/ FindMember(r) \/ DropInvitee(r)

Done == (\A r \in Requests : pc[r] \in Final) /\ UNCHANGED vars

Next == (\E r \in Requests : Begin(r) \/ Handle(r) \/ Fail(r)) \/ Done

Spec == Init /\ [][Next]_vars

-----------------------------------------------------------------------------
(* Properties *)

\* Whatever the handlers do to groups and group_members, the modules that take
\* the two tables as their environment expect it.
IsGroupTable == GroupSpec

\* An archived group becomes active again only through an edit that read it
\* while it was active and now saves that row.
ReopenedOnlyByStaleEdit ==
  [][groupStatus = "archived" /\ groupStatus' = "active" =>
       \E r \in Requests : pc[r] = "save" /\ row[r].status = "active" /\ pc'[r] \in Final]_vars

\* Once the group exists its columns change only to what an edit asks for, in
\* the step that saves that edit: archiving never takes back an edit that was
\* saved after it had read the group.
EditsStay ==
  [][Exists /\ name' # name =>
       \E r \in Requests : pc[r] = "save" /\ pc'[r] \in Final /\ name' = arg[r].name]_vars

\* A group without its owner is one whose creation failed half-way, or has not
\* ended yet.
OwnerMissingOnlyAfterFailure ==
  Exists /\ member[Owner] # "active" => pc[Creator] \in {"owner", "failed"}

-----------------------------------------------------------------------------
(* The inductive invariant *)

\* What a request carries fits the statement it is about to run; who is to be
\* removed is not the owner and has a row.
Fitting(r) ==
  /\ arg[r] \in Script[r]
  /\ pc[r] \in {"insert", "owner"} => r = Creator
  /\ r = Creator => pc[r] \in {"idle", "insert", "owner"} \cup Final
  /\ pc[r] \in {"member", "drop"} => arg[r].user # Owner
  /\ pc[r] = "drop" => member[arg[r].user] # "none"

\* Until the group is there, nobody has touched it.
Untouched ==
  /\ groupStatus = "active"
  /\ member = [u \in Users |-> "none"]
  /\ \A r \in Requests : pc[r] \in {"idle", "insert", "find"} \cup Final

\* What holds at the start and after every statement of every request.
Inductive ==
  /\ TypeOK
  /\ \A r \in Requests : Fitting(r)
  /\ ~Exists => Untouched
  /\ Exists => pc[Creator] \in {"owner"} \cup Final
  /\ OwnerMissingOnlyAfterFailure
=============================================================================
