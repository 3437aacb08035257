----------------------------- MODULE GroupTable -----------------------------
(***************************************************************************)
(* What the tables groups and group_members of one group may do, whatever  *)
(* handler writes them: the group is open or archived, and every user is a *)
(* stranger, an active member, or a former member.  The handlers that      *)
(* produce these steps are in GroupService; modules that only read the two *)
(* tables take this specification as their environment.                    *)
(***************************************************************************)
CONSTANTS Users,    \* every registered user
          Owner     \* groups.owner_id, which no handler ever rewrites

ASSUME OwnerAssumption == Owner \in Users

VARIABLES groupStatus,   \* groups.status
          member         \* group_members.status per user, "none": no row

groupVars == <<groupStatus, member>>

GroupStatus  == {"active", "archived"}
MemberStatus == {"none", "active", "archived"}

GroupTypeOK ==
  /\ groupStatus \in GroupStatus
  /\ member \in [Users -> MemberStatus]

\* The groups row has just been inserted; the owner's own membership is a
\* second, separate write, so the group may stay without it.
GroupInit ==
  /\ groupStatus = "active"
  /\ member = [u \in Users |-> "none"]

IsMember(u) == member[u] = "active"

\* The users ListUserIDs returns.
ActiveMembers == {u \in Users : IsMember(u)}

(***************************************************************************)
(* The four writes.  Reopen is nobody's intention: it is a Save of a whole *)
(* groups row that was read before the group was archived.                 *)
(***************************************************************************)
ArchiveGroup ==
  /\ groupStatus' = "archived"
  /\ UNCHANGED member

ReopenGroup ==
  /\ groupStatus = "archived"
  /\ groupStatus' = "active"
  /\ UNCHANGED member

AddMember(u) ==
  /\ member[u] = "none"
  /\ member' = [member EXCEPT ![u] = "active"]
  /\ UNCHANGED groupStatus

DropMember(u) ==
  /\ u # Owner
  /\ member[u] # "none"
  /\ member' = [member EXCEPT ![u] = "archived"]
  /\ UNCHANGED groupStatus

GroupNext ==
  \/ ArchiveGroup
  \/ ReopenGroup
  \/ \E u \in Users : AddMember(u) \/ DropMember(u)

GroupSpec == GroupInit /\ [][GroupNext]_groupVars
=============================================================================
