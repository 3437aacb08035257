------------------------------ MODULE Accounts ------------------------------
(***************************************************************************)
(* Accounts: the handlers that register users, sign them in, and change a   *)
(* profile, a password or a role, run by concurrent HTTP requests.  Every   *)
(* step is one SQL statement with the checks in memory that follow it;      *)
(* there are no transactions.  Who asks, and with which role, is decided    *)
(* once, from the token, before the handler starts.                        *)
(*                                                                         *)
(* A statement may fail, and a write may take effect and its reply be lost: *)
(* the handler answers 500 either way.  (An answer that runs ahead of its   *)
(* write is a request that is still under way beside the ones after it.)    *)
(*                                                                         *)
(* Left out: nickname and avatar, which nothing reads, and users.status,    *)
(* which is "active" in every row the program writes.                      *)
(***************************************************************************)
CONSTANTS Ids,        \* user ids; they bound the number of accounts
          Root,       \* the account main makes before it serves anybody
          Names, RootName,
          Emails, RootEmail, NoEmail,
          Passwords, RootPassword,
          Requests,   \* request slots: each handles one request after another
          Script      \* what may be asked for, a set of Arg

Roles  == {"user", "admin"}
Token  == [user : Ids, role : Roles]
Email  == Emails \cup {NoEmail}
Ops    == {"register", "login", "me", "profile", "password", "list", "role"}
Public == {"register", "login"}
Arg    == [op : Ops, token : Token, target : Ids, name : Names, email : Email,
           old : Passwords, new : Passwords, role : Roles]

ASSUME AccountsAssumption ==
  /\ Root \in Ids
  /\ RootName \in Names
  /\ RootEmail \in Emails /\ NoEmail \notin Emails
  /\ RootPassword \in Passwords
  /\ Script \subseteq Arg

VARIABLES users,     \* the table users
          tokens,    \* tokens that have been issued and have not expired
          pc,        \* the statement each request runs next, or its answer
          arg,       \* what the request asks for, with the token it came with
          row,       \* the users row the request has read into memory
          granted,   \* history: who has been made an administrator by one who had
          told       \* history: the password each account's owner was told is set

stored  == <<users, tokens>>
history == <<granted, told>>
vars    == <<users, tokens, pc, arg, row, granted, told>>

\* bcrypt: all one learns from a hash is whether a password matches it.
HashPassword(p) == <<"bcrypt", p>>
CheckPassword(h, p) == h = HashPassword(p)

Hashes  == {HashPassword(p) : p \in Passwords}
Account == [id : Ids, name : Names, email : Email, hash : Hashes, role : Roles]
NoUser  == [id |-> "nobody"]

Final   == {"ok", "failed"}
Working == {"name", "email", "insert", "user", "sign", "find", "save", "hash", "list", "role"}
Stage   == {"idle"} \cup Working \cup Final

NoArg == [op |-> "none"]

\* The types of the tables and of what requests keep in memory.
TypeOK ==
  /\ users \in [Ids -> Account \cup {NoUser}]
  /\ tokens \subseteq Token
  /\ pc \in [Requests -> Stage]
  /\ arg \in [Requests -> Arg \cup {NoArg}]
  /\ row \in [Requests -> Account \cup {NoUser}]
  /\ granted \subseteq Ids
  /\ told \in [Ids -> Passwords]

\* EnsureBootstrapUser has run on an empty table.
Init ==
  /\ users = [u \in Ids |->
       IF u = Root
         THEN [id |-> Root, name |-> RootName, email |-> RootEmail,
               hash |-> HashPassword(RootPassword), role |-> "admin"]
         ELSE NoUser]
  /\ tokens = {}
  /\ pc = [r \in Requests |-> "idle"]
  /\ arg = [r \in Requests |-> NoArg]
  /\ row = [r \in Requests |-> NoUser]
  /\ granted = {Root}
  /\ told = [u \in Ids |-> RootPassword]

-----------------------------------------------------------------------------
(* Helpers *)

Registered(u) == users[u] # NoUser
Named(n)      == {u \in Ids : Registered(u) /\ users[u].name = n}
Mailed(e)     == {u \in Ids : Registered(u) /\ users[u].email = e}
Caller(r)     == arg[r].token.user

\* Variant: no unique indexes.
NeverClashes(u, n, e) == FALSE

\* The unique indexes of users; NULL is equal to nothing.
Clashes(u, n, e) == Named(n) \ {u} # {} \/ (e # NoEmail /\ Mailed(e) \ {u} # {})

Goto(r, stage) == pc' = [pc EXCEPT ![r] = stage] /\ UNCHANGED arg

Answer(r, outcome) ==
  /\ pc' = [pc EXCEPT ![r] = outcome]
  /\ arg' = [arg EXCEPT ![r] = NoArg]
  /\ row' = [row EXCEPT ![r] = NoUser]

\* The answer after a write that has taken effect, whether or not its reply came.
AnswerWritten(r) == \E outcome \in Final : Answer(r, outcome)

\* ChangePassword returns nil when the FindByID before it fails, and the handler
\* answers that the password has been changed; every other handler answers 500.
SwallowsError(r) == arg[r].op = "password" /\ pc[r] = "find"
ErrorAnswer(r)   == IF SwallowsError(r) THEN "ok" ELSE "failed"

\* The handler sets only some columns of users[u] (UpdateFields).
Set(u, a) == users' = [users EXCEPT ![u] = IF Registered(u) THEN a ELSE NoUser]

-----------------------------------------------------------------------------
(* A request arrives *)

\* Variant: RequireRoles is forgotten on the route.
SignedIn(a) == a.token \in tokens

\* Auth, and RequireRoles("admin") where the route has it.
Authorized(a) ==
  /\ a.token \in tokens
  /\ a.op \in {"list", "role"} => a.token.role = "admin"

First == [op \in Ops |-> CASE op = "register" -> "name"
                           [] op = "login" -> "user"
                           [] op \in {"list", "role"} -> op
                           [] OTHER -> "find"]

Begin(r) ==
  /\ pc[r] \notin Working
  /\ \E a \in Script :
       IF a.op \in Public \/ Authorized(a)
         THEN /\ pc' = [pc EXCEPT ![r] = First[a.op]]
              /\ arg' = [arg EXCEPT ![r] = a]
              /\ UNCHANGED row
         ELSE Answer(r, "failed")
  /\ UNCHANGED <<stored, history>>

\* A token's time is over.
Expire(t) ==
  /\ tokens' = tokens \ {t}
  /\ UNCHANGED <<users, pc, arg, row, history>>

-----------------------------------------------------------------------------
(* Register *)

CountByUsername(r) ==
  /\ pc[r] = "name"
  /\ IF Named(arg[r].name) # {}
       THEN Answer(r, "failed")
       ELSE /\ Goto(r, IF arg[r].email = NoEmail THEN "insert" ELSE "email")
            /\ UNCHANGED row
  /\ UNCHANGED <<stored, history>>

\* In Register, and in UpdateProfile when the email changes.
CountByEmail(r) ==
  /\ pc[r] = "email"
  /\ IF Mailed(arg[r].email) # {}
       THEN Answer(r, "failed")
       ELSE /\ Goto(r, IF arg[r].op = "register" THEN "insert" ELSE "save")
            /\ UNCHANGED row
  /\ UNCHANGED <<stored, history>>

NewAccount(u, a, role) ==
  [id |-> u, name |-> a.name, email |-> a.email, hash |-> HashPassword(a.new), role |-> role]

\* Variant: the role comes from the request.
CreateUserAsAsked(r) ==
  /\ pc[r] = "insert"
  /\ \E u \in Ids :
       /\ ~Registered(u)
       /\ users' = [users EXCEPT ![u] = NewAccount(u, arg[r], arg[r].role)]
       /\ told' = [told EXCEPT ![u] = arg[r].new]
  /\ AnswerWritten(r)
  /\ UNCHANGED <<tokens, granted>>

\* userRepo.Create: refused by an index, or the next free id.  Who has never had
\* another password is taken as told of the first one.
CreateUser(r) ==
  /\ pc[r] = "insert"
  /\ \E u \in Ids :
       /\ ~Registered(u)
       /\ IF Clashes(u, arg[r].name, arg[r].email)
            THEN Answer(r, "failed") /\ UNCHANGED <<users, told>>
            ELSE /\ users' = [users EXCEPT ![u] = NewAccount(u, arg[r], "user")]
                 /\ told' = [told EXCEPT ![u] = arg[r].new]
                 /\ AnswerWritten(r)
  /\ UNCHANGED <<tokens, granted>>

-----------------------------------------------------------------------------
(* Login *)

FindByUsername(r) ==
  /\ pc[r] = "user"
  /\ IF Named(arg[r].name) = {}
       THEN Answer(r, "failed")
       ELSE \E u \in Named(arg[r].name) :
              /\ row' = [row EXCEPT ![r] = users[u]]
              /\ Goto(r, "sign")
  /\ UNCHANGED <<stored, history>>

\* Variant: a login brings the stored hash up to date with the row it read.
IssueTokenRehash(r) ==
  /\ pc[r] = "sign"
  /\ IF CheckPassword(row[r].hash, arg[r].old)
       THEN /\ tokens' = tokens \cup {[user |-> row[r].id, role |-> row[r].role]}
            /\ users' = [users EXCEPT ![row[r].id].hash = row[r].hash]
            /\ Answer(r, "ok")
       ELSE Answer(r, "failed") /\ UNCHANGED <<users, tokens>>
  /\ UNCHANGED history

\* The password is checked, and the token made, from the row that was read.
IssueToken(r) ==
  /\ pc[r] = "sign"
  /\ IF CheckPassword(row[r].hash, arg[r].old)
       THEN /\ tokens' = tokens \cup {[user |-> row[r].id, role |-> row[r].role]}
            /\ Answer(r, "ok")
       ELSE Answer(r, "failed") /\ UNCHANGED tokens
  /\ UNCHANGED <<users, history>>

-----------------------------------------------------------------------------
(* GetMe, UpdateProfile and ChangePassword begin with FindByID of the caller *)

AfterFind(r) ==
  CASE arg[r].op = "profile" ->
         IF arg[r].email \in {NoEmail, users[Caller(r)].email} THEN "save" ELSE "email"
    [] arg[r].op = "password" ->
         IF CheckPassword(users[Caller(r)].hash, arg[r].old) THEN "hash" ELSE "failed"
    [] OTHER -> "ok"

FindCaller(r) ==
  /\ pc[r] = "find"
  /\ IF Registered(Caller(r)) /\ AfterFind(r) \in Working
       THEN /\ row' = [row EXCEPT ![r] = users[Caller(r)]]
            /\ Goto(r, AfterFind(r))
       ELSE Answer(r, IF Registered(Caller(r)) THEN AfterFind(r) ELSE ErrorAnswer(r))
  /\ UNCHANGED <<stored, history>>

\* Variant: the row saved is that of the user named in the request.
SaveProfileOfTarget(r) ==
  /\ pc[r] = "save"
  /\ users' = [users EXCEPT ![arg[r].target] = [row[r] EXCEPT !.email = arg[r].email]]
  /\ AnswerWritten(r)
  /\ UNCHANGED <<tokens, history>>

\* userRepo.Update: Save of the whole row that was read, whatever has changed
\* since.  The index on email may refuse it.
SaveProfile(r) ==
  /\ pc[r] = "save"
  /\ IF Clashes(Caller(r), row[r].name, arg[r].email)
       THEN Answer(r, "failed") /\ UNCHANGED users
       ELSE /\ users' = [users EXCEPT ![Caller(r)] = [row[r] EXCEPT !.email = arg[r].email]]
            /\ AnswerWritten(r)
  /\ UNCHANGED <<tokens, history>>

\* UpdateFields: only the hash.
SetHash(r) ==
  /\ pc[r] = "hash"
  /\ Set(Caller(r), [users[Caller(r)] EXCEPT !.hash = HashPassword(arg[r].new)])
  /\ \/ Answer(r, "ok") /\ told' = [told EXCEPT ![Caller(r)] = arg[r].new]
     \/ Answer(r, "failed") /\ UNCHANGED told
  /\ UNCHANGED <<tokens, granted>>

-----------------------------------------------------------------------------
(* For administrators: List and ChangeRole *)

ListUsers(r) ==
  /\ pc[r] = "list"
  /\ Answer(r, "ok")
  /\ UNCHANGED <<stored, history>>

\* UpdateFields: only the role; an id that is not there changes nothing.
SetRole(r) ==
  /\ pc[r] = "role"
  /\ Set(arg[r].target, [users[arg[r].target] EXCEPT !.role = arg[r].role])
  /\ granted' = IF arg[r].role = "admin" /\ Caller(r) \in granted
                  THEN granted \cup {arg[r].target} ELSE granted
  /\ AnswerWritten(r)
  /\ UNCHANGED <<tokens, told>>

-----------------------------------------------------------------------------
(* Any statement may return an error and leave the tables alone. *)

Fail(r) ==
  /\ pc[r] \in Working
  /\ told' = IF SwallowsError(r) THEN [told EXCEPT ![Caller(r)] = arg[r].new] ELSE told
  /\ Answer(r, ErrorAnswer(r))
  /\ UNCHANGED <<stored, granted>>

Handle(r) ==
  \/ CountByUsername(r) \/ CountByEmail(r) \/ CreateUser(r) \/ FindByUsername(r) \/ IssueToken(r)
  \/ FindCaller(r) \/ SaveProfile(r) \/ SetHash(r) \/ ListUsers(r) \/ SetRole(r)

Next ==
  \/ \E r \in Requests : Begin(r) \/ Handle(r) \/ Fail(r)
  \/ \E t \in tokens : Expire(t)

Spec == Init /\ [][Next]_vars

-----------------------------------------------------------------------------
(* Properties *)

\* A username, and an email that is given, belongs to one account, however
\* many registrations and profile edits have counted zero before they write.
OneAccountEach ==
  \A u, v \in Ids : Registered(u) /\ Registered(v) /\ u # v =>
    /\ users[u].name # users[v].name
    /\ users[u].email = users[v].email => users[u].email = NoEmail

\* The administrator's role comes down from Root, grant by grant, wherever it
\* is written: in the table, in a token, in a row still to be saved.
AdminsAreMade ==
  /\ \A u \in Ids : Registered(u) /\ users[u].role = "admin" => u \in granted
  /\ \A t \in tokens : t.role = "admin" => t.user \in granted
  /\ \A r \in Requests : row[r] # NoUser /\ row[r].role = "admin" => row[r].id \in granted

\* An account is changed by its owner's requests, or its role alone by somebody
\* who has been made an administrator, perhaps no longer is, and has a token.
WrittenByOwnerOrAdmin ==
  [][\A u \in Ids : Registered(u) /\ users'[u] # users[u] =>
       \E r \in Requests :
         \/ pc[r] \in {"save", "hash"} /\ Caller(r) = u
         \/ /\ pc[r] = "role" /\ arg[r].target = u /\ Caller(r) \in granted
            /\ users'[u] = [users[u] EXCEPT !.role = arg[r].role]]_vars

AsTold(u) == Registered(u) => users[u].hash = HashPassword(told[u])

\* The password an owner was told is set is the one that works, until one of
\* three things: a profile edit of the owner's own that read the row before the
\* password was changed; a change of password that could not read the row and was
\* answered ok; or one whose UPDATE took effect and was answered 500.
PasswordStaysAsTold ==
  [][\A u \in Ids : AsTold(u) /\ ~AsTold(u)' =>
       \E r \in Requests :
         /\ \/ pc[r] = "save" /\ row[r].hash # users[u].hash
            \/ SwallowsError(r)
            \/ pc[r] = "hash" /\ pc'[r] = "failed"
         /\ Caller(r) = u]_vars

-----------------------------------------------------------------------------
(* The inductive invariant *)

\* What a request carries fits the statement it is about to run.
Fitting(r) ==
  /\ pc[r] \in Working => arg[r] \in Script
  /\ pc[r] \in Working /\ arg[r].op \notin Public => Registered(Caller(r))
  /\ pc[r] \in {"find", "save", "hash", "list", "role"} => arg[r].op \notin Public
  /\ pc[r] = "name" => arg[r].op = "register"
  /\ pc[r] = "email" => arg[r].op \in {"register", "profile"}
  /\ pc[r] = "role" => Caller(r) \in granted
  /\ pc[r] \in {"save", "hash"} => row[r] # NoUser /\ row[r].id = Caller(r)
  /\ pc[r] = "email" /\ arg[r].op # "register" => row[r] # NoUser /\ row[r].id = Caller(r)
  /\ pc[r] = "sign" => row[r] # NoUser

\* A row in memory is an earlier version of an account, and usernames never change.
RowsAreOld ==
  \A r \in Requests : row[r] # NoUser =>
    Registered(row[r].id) /\ users[row[r].id].name = row[r].name

\* The primary key.
IdsAreOwn == \A u \in Ids : Registered(u) => users[u].id = u

\* Tokens are issued from rows, and no account is deleted.
TokensAreOfUsers == \A t \in tokens : Registered(t.user)

\* What holds at the start and after every statement of every request: the tables,
\* the tokens and what each request carries are consistent.
Inductive ==
  /\ TypeOK
  /\ IdsAreOwn
  /\ TokensAreOfUsers
  /\ \A r \in Requests : Fitting(r)
  /\ RowsAreOld
  /\ OneAccountEach
  /\ AdminsAreMade
=============================================================================
