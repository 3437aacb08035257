----------------------------- MODULE MCAccounts -----------------------------
(* Model values and bounds for Accounts: the bootstrap administrator, one user *)
(* who may do everything, a name that two registrations want, and an email     *)
(* that three requests want: registrations under two names and a profile edit. *)
EXTENDS Accounts

CONSTANTS root, ann, bob,
          admin, annie, bobby, atRoot, atAnn, none,
          p1, p2,
          r1, r2, r3

Ask(op, u, role) ==
  [op |-> op, token |-> [user |-> u, role |-> role], target |-> u, name |-> annie,
   email |-> none, old |-> p1, new |-> p2, role |-> "user"]

MCScript ==
  { [Ask("register", root, "user") EXCEPT !.new = p1, !.role = "admin"],
    [Ask("register", root, "user") EXCEPT !.new = p1, !.email = atAnn],
    [Ask("register", root, "user") EXCEPT !.name = bobby, !.email = atAnn],
    [Ask("login", root, "user") EXCEPT !.name = admin],
    Ask("login", root, "user"),
    [Ask("login", root, "user") EXCEPT !.old = p2],
    Ask("me", ann, "user"),
    [Ask("profile", ann, "user") EXCEPT !.email = atAnn, !.target = root],
    [Ask("profile", ann, "user") EXCEPT !.email = atRoot],
    Ask("password", ann, "user"),
    Ask("list", root, "admin"),
    [Ask("role", root, "admin") EXCEPT !.target = ann, !.role = "admin"],
    [Ask("role", root, "admin") EXCEPT !.target = ann],
    [Ask("role", ann, "admin") EXCEPT !.target = root],
    [Ask("role", ann, "user") EXCEPT !.role = "admin"] }
=============================================================================
