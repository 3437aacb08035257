--------------------------- MODULE MCGroupService ---------------------------
(* Model values and bounds for GroupService: u1 creates the group, u2 is to be *)
(* a member, u3 is an administrator; three more requests, of every kind.       *)
EXTENDS GroupService, TLC

CONSTANTS u1, u2, u3, c1, r1, r2, r3, trip, flat

Ask(op, c, u, n) == [op |-> op, caller |-> c, user |-> u, name |-> n]

Edits   == {Ask("update", u1, u1, flat), Ask("update", u2, u1, flat), Ask("archive", u3, u1, flat)}
Members == {Ask("invite", u1, u2, flat), Ask("invite", u3, u1, flat), Ask("remove", u3, u2, flat),
            Ask("remove", u1, u1, flat)}

MCScript ==
     c1 :> {Ask("create", u1, u2, trip)}
  @@ r1 :> Edits
  @@ r2 :> Members
  @@ r3 :> Edits \cup Members
=============================================================================
