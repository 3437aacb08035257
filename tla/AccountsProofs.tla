--------------------------- MODULE AccountsProofs ---------------------------
(***************************************************************************)
(* For every set of users, names, emails, passwords and requests: a name    *)
(* belongs to one account, the administrator's role was granted wherever it *)
(* is written, and who writes which account, and which password works, is   *)
(* as stated.                                                              *)
(*                                                                         *)
(* What a request carries from one statement to the next (Carried) is kept  *)
(* apart from what the tables owe to one another (Tables).  Only five       *)
(* handlers write; each ends with its write.                               *)
(***************************************************************************)
EXTENDS Accounts, TLAPS

\* The row of nobody is not an account.
LEMMA NobodyIsNoAccount == NoUser \notin Account
  BY DEF NoUser, Account

\* What a working request asks for has its type.
LEMMA ArgsAreTyped ==
  ASSUME Inductive, NEW r \in Requests, pc[r] \in Working
  PROVE  /\ arg[r] \in Arg
         /\ arg[r].token \in Token /\ Caller(r) \in Ids /\ arg[r].target \in Ids
         /\ arg[r].name \in Names /\ arg[r].email \in Email
         /\ arg[r].old \in Passwords /\ arg[r].new \in Passwords /\ arg[r].role \in Roles
  <1>1. arg[r] \in Arg
    BY AccountsAssumption DEF Inductive, Fitting
  <1> QED
    BY <1>1 DEF Arg, Token, Caller

\* To answer ends the request and forgets what it carried.
LEMMA AnswerEffect ==
  ASSUME TypeOK, NEW r \in Requests, NEW outcome \in Final, Answer(r, outcome)
  PROVE  /\ pc' = [pc EXCEPT ![r] = outcome]
         /\ arg' = [arg EXCEPT ![r] = NoArg]
         /\ row' = [row EXCEPT ![r] = NoUser]
         /\ pc' \in [Requests -> Stage]
         /\ arg' \in [Requests -> Arg \cup {NoArg}]
         /\ row' \in [Requests -> Account \cup {NoUser}]
  BY DEF Answer, TypeOK, Stage

\* An account as it is built or changed by a request is one.
LEMMA NewAccountIsAccount ==
  ASSUME NEW u \in Ids, NEW a \in Arg, NEW role \in Roles
  PROVE  NewAccount(u, a, role) \in Account
  BY DEF NewAccount, Account, Arg, Hashes

\* An account with another email, hash or role is an account.
LEMMA ChangedAccounts ==
  ASSUME NEW a \in Account
  PROVE  /\ \A e \in Email : [a EXCEPT !.email = e] \in Account
         /\ \A p \in Passwords : [a EXCEPT !.hash = HashPassword(p)] \in Account
         /\ \A role \in Roles : [a EXCEPT !.role = role] \in Account
  BY DEF Account, Hashes

\* Every step of a well-formed state keeps the types.
LEMMA TypeStep ==
  ASSUME Inductive, [Next]_vars
  PROVE  TypeOK'
  <1>0. TypeOK
    BY DEF Inductive
  <1> USE DEF stored, history
  <1>1. ASSUME NEW r \in Requests, Begin(r)
        PROVE  TypeOK'
    <2>1. PICK a \in Script :
            IF a.op \in Public \/ Authorized(a)
              THEN /\ pc' = [pc EXCEPT ![r] = First[a.op]]
                   /\ arg' = [arg EXCEPT ![r] = a]
                   /\ UNCHANGED row
              ELSE Answer(r, "failed")
      BY <1>1 DEF Begin
    <2>2. a \in Arg
      BY AccountsAssumption
    <2>3. First[a.op] \in Stage
      BY <2>2 DEF Arg, Ops, First, Stage, Working
    <2>4. CASE a.op \in Public \/ Authorized(a)
      BY <1>0, <1>1, <2>1, <2>2, <2>3, <2>4 DEF Begin, TypeOK
    <2>5. CASE ~(a.op \in Public \/ Authorized(a))
      BY <1>0, <1>1, <2>1, <2>5, AnswerEffect DEF Begin, TypeOK, Final
    <2> QED
      BY <2>4, <2>5
  <1>2. ASSUME NEW r \in Requests, CountByUsername(r)
        PROVE  TypeOK'
    <2>1. CASE Named(arg[r].name) # {}
      BY <1>0, <1>2, <2>1, AnswerEffect DEF CountByUsername, TypeOK, Final
    <2>2. CASE Named(arg[r].name) = {}
      BY <1>0, <1>2, <2>2 DEF CountByUsername, Goto, TypeOK, Stage, Working
    <2> QED
      BY <2>1, <2>2
  <1>3. ASSUME NEW r \in Requests, CountByEmail(r)
        PROVE  TypeOK'
    <2>1. CASE Mailed(arg[r].email) # {}
      BY <1>0, <1>3, <2>1, AnswerEffect DEF CountByEmail, TypeOK, Final
    <2>2. CASE Mailed(arg[r].email) = {}
      BY <1>0, <1>3, <2>2 DEF CountByEmail, Goto, TypeOK, Stage, Working
    <2> QED
      BY <2>1, <2>2
  <1>4. ASSUME NEW r \in Requests, CreateUser(r)
        PROVE  TypeOK'
    <2>1. arg[r] \in Arg /\ arg[r].new \in Passwords
      BY <1>4, ArgsAreTyped DEF CreateUser, Working
    <2>2. \A u \in Ids : NewAccount(u, arg[r], "user") \in Account
      BY <2>1, NewAccountIsAccount DEF Roles
    <2>3. users' \in [Ids -> Account \cup {NoUser}] /\ told' \in [Ids -> Passwords]
      BY <1>0, <1>4, <2>1, <2>2 DEF CreateUser, TypeOK
    <2>4. \E outcome \in Final : Answer(r, outcome)
      BY <1>4 DEF CreateUser, AnswerWritten, Final
    <2> QED
      BY <1>0, <1>4, <2>3, <2>4, AnswerEffect DEF CreateUser, TypeOK
  <1>5. ASSUME NEW r \in Requests, FindByUsername(r)
        PROVE  TypeOK'
    <2>1. CASE Named(arg[r].name) = {}
      BY <1>0, <1>5, <2>1, AnswerEffect DEF FindByUsername, TypeOK, Final
    <2>2. CASE Named(arg[r].name) # {}
      BY <1>0, <1>5, <2>2 DEF FindByUsername, Goto, Named, TypeOK, Stage, Working
    <2> QED
      BY <2>1, <2>2
  <1>6. ASSUME NEW r \in Requests, IssueToken(r)
        PROVE  TypeOK'
    <2>1. row[r] \in Account
      BY <1>0, <1>6 DEF IssueToken, Inductive, Fitting, TypeOK
    <2>2. [user |-> row[r].id, role |-> row[r].role] \in Token
      BY <2>1 DEF Account, Token
    <2>3. \E outcome \in Final : Answer(r, outcome)
      BY <1>6 DEF IssueToken, Final
    <2>4. tokens' \subseteq Token
      BY <1>0, <1>6, <2>2 DEF IssueToken, TypeOK
    <2> QED
      BY <1>0, <1>6, <2>3, <2>4, AnswerEffect DEF IssueToken, TypeOK
  <1>7. ASSUME NEW r \in Requests, FindCaller(r)
        PROVE  TypeOK'
    <2>1. CASE Registered(Caller(r)) /\ AfterFind(r) \in Working
      <3>1. Caller(r) \in Ids
        BY <1>7, ArgsAreTyped DEF FindCaller, Working
      <3> QED
        BY <1>0, <1>7, <2>1, <3>1 DEF FindCaller, Goto, TypeOK, Stage
    <2>2. CASE ~(Registered(Caller(r)) /\ AfterFind(r) \in Working)
      <3>1. \E outcome \in Final : Answer(r, outcome)
        BY <1>7, <2>2 DEF FindCaller, AfterFind, ErrorAnswer, Final, Working
      <3> QED
        BY <1>0, <1>7, <3>1, <2>2, AnswerEffect DEF FindCaller, TypeOK
    <2> QED
      BY <2>1, <2>2
  <1>8. ASSUME NEW r \in Requests, SaveProfile(r)
        PROVE  TypeOK'
    <2>1. arg[r].email \in Email /\ Caller(r) \in Ids
      BY <1>8, ArgsAreTyped DEF SaveProfile, Working
    <2>2. row[r] \in Account
      BY <1>0, <1>8 DEF SaveProfile, Inductive, Fitting, TypeOK
    <2>3. [row[r] EXCEPT !.email = arg[r].email] \in Account
      BY <2>1, <2>2, ChangedAccounts
    <2>4. users' \in [Ids -> Account \cup {NoUser}]
      BY <1>0, <1>8, <2>1, <2>3 DEF SaveProfile, TypeOK
    <2>5. \E outcome \in Final : Answer(r, outcome)
      BY <1>8 DEF SaveProfile, AnswerWritten, Final
    <2> QED
      BY <1>0, <1>8, <2>4, <2>5, AnswerEffect DEF SaveProfile, TypeOK
  <1>9. ASSUME NEW r \in Requests, SetHash(r)
        PROVE  TypeOK'
    <2>1. arg[r].new \in Passwords /\ Caller(r) \in Ids
      BY <1>9, ArgsAreTyped DEF SetHash, Working
    <2>2. Registered(Caller(r)) =>
            [users[Caller(r)] EXCEPT !.hash = HashPassword(arg[r].new)] \in Account
      BY <1>0, <2>1, ChangedAccounts DEF TypeOK, Registered
    <2>3. users' \in [Ids -> Account \cup {NoUser}] /\ told' \in [Ids -> Passwords]
      BY <1>0, <1>9, <2>1, <2>2 DEF SetHash, Set, TypeOK
    <2>4. \E outcome \in Final : Answer(r, outcome)
      BY <1>9 DEF SetHash, Final
    <2> QED
      BY <1>0, <1>9, <2>3, <2>4, AnswerEffect DEF SetHash, TypeOK
  <1>10. ASSUME NEW r \in Requests, ListUsers(r)
         PROVE  TypeOK'
    BY <1>0, <1>10, AnswerEffect DEF ListUsers, TypeOK, Final
  <1>11. ASSUME NEW r \in Requests, SetRole(r)
         PROVE  TypeOK'
    <2>1. arg[r].role \in Roles /\ arg[r].target \in Ids
      BY <1>11, ArgsAreTyped DEF SetRole, Working
    <2>2. Registered(arg[r].target) =>
            [users[arg[r].target] EXCEPT !.role = arg[r].role] \in Account
      BY <1>0, <2>1, ChangedAccounts DEF TypeOK, Registered
    <2>3. users' \in [Ids -> Account \cup {NoUser}] /\ granted' \subseteq Ids
      BY <1>0, <1>11, <2>1, <2>2 DEF SetRole, Set, TypeOK
    <2>4. \E outcome \in Final : Answer(r, outcome)
      BY <1>11 DEF SetRole, AnswerWritten
    <2> QED
      BY <1>0, <1>11, <2>3, <2>4, AnswerEffect DEF SetRole, TypeOK
  <1>12. ASSUME NEW r \in Requests, Fail(r)
         PROVE  TypeOK'
    <2>1. arg[r].new \in Passwords /\ Caller(r) \in Ids
      BY <1>12, ArgsAreTyped DEF Fail
    <2>2. told' \in [Ids -> Passwords]
      BY <1>0, <1>12, <2>1 DEF Fail, TypeOK
    <2>3. \E outcome \in Final : Answer(r, outcome)
      BY <1>12 DEF Fail, ErrorAnswer, Final
    <2> QED
      BY <1>0, <1>12, <2>2, <2>3, AnswerEffect DEF Fail, TypeOK
  <1>13. ASSUME NEW t \in tokens, Expire(t)
         PROVE  TypeOK'
    BY <1>0, <1>13 DEF Expire, TypeOK
  <1>14. ASSUME UNCHANGED vars
         PROVE  TypeOK'
    BY <1>0, <1>14 DEF vars, TypeOK
  <1> QED
    BY <1>1, <1>2, <1>3, <1>4, <1>5, <1>6, <1>7, <1>8, <1>9, <1>10, <1>11, <1>12, <1>13, <1>14
    DEF Next, Handle

-----------------------------------------------------------------------------
\* What a request carries is fitting, and is a row of the table as it was: since
\* then the account keeps its id and name, and who was made an administrator
\* stays one who was made.
Carried(r) ==
  /\ Fitting(r)
  /\ row[r] # NoUser =>
       /\ Registered(row[r].id)
       /\ users[row[r].id].name = row[r].name
       /\ row[r].role = "admin" => row[r].id \in granted

\* What no step takes back.
Grows ==
  /\ \A u \in Ids : Registered(u) => Registered(u)' /\ users'[u].name = users[u].name
  /\ granted \subseteq granted'

\* What the tables owe to one another.
Tables ==
  /\ IdsAreOwn
  /\ TokensAreOfUsers
  /\ OneAccountEach
  /\ \A u \in Ids : Registered(u) /\ users[u].role = "admin" => u \in granted
  /\ \A t \in tokens : t.role = "admin" => t.user \in granted

\* The invariant is the part about the tables and, for each request, the part
\* about what it carries.
LEMMA InductiveParts ==
  Inductive <=> TypeOK /\ Tables /\ \A r \in Requests : Carried(r)
  BY DEF Inductive, Tables, Carried, RowsAreOld, AdminsAreMade

\* The same after a step.
LEMMA InductivePartsNext ==
  ASSUME TypeOK', Tables', \A r \in Requests : Carried(r)'
  PROVE  Inductive'
  BY DEF Inductive, Tables, Carried, RowsAreOld, AdminsAreMade

\* The requests that do not run keep what they carry.
LEMMA OthersKeep ==
  ASSUME Inductive, Grows, NEW r \in Requests, NEW q \in Requests,
         q # r => pc'[q] = pc[q] /\ arg'[q] = arg[q] /\ row'[q] = row[q],
         Carried(r)'
  PROVE  Carried(q)'
  <1>1. CASE q = r
    BY <1>1
  <1>2. CASE q # r
    <2>1. pc'[q] = pc[q] /\ arg'[q] = arg[q] /\ row'[q] = row[q] /\ Carried(q)
      BY <1>2, InductiveParts
    <2>2. pc[q] \in Working => Caller(q) \in Ids
      BY ArgsAreTyped
    <2>3. row[q] # NoUser => row[q].id \in Ids
      BY DEF Inductive, TypeOK, Account
    <2>4. Fitting(q)'
      BY <2>1, <2>2 DEF Carried, Fitting, Grows, Working, Caller
    <2>5. row[q] # NoUser =>
            /\ Registered(row[q].id)'
            /\ users'[row[q].id].name = row[q].name
            /\ row[q].role = "admin" => row[q].id \in granted'
      BY <2>1, <2>3 DEF Carried, Grows
    <2> QED
      BY <2>1, <2>4, <2>5 DEF Carried, Registered
  <1> QED
    BY <1>1, <1>2

\* A request that has answered carries nothing.
LEMMA AnswersCarryNothing ==
  ASSUME Inductive, Grows, NEW r \in Requests, NEW outcome \in Final, Answer(r, outcome)
  PROVE  \A q \in Requests : Carried(q)'
  <1>1. /\ pc' = [pc EXCEPT ![r] = outcome] /\ arg' = [arg EXCEPT ![r] = NoArg]
        /\ row' = [row EXCEPT ![r] = NoUser]
    BY AnswerEffect DEF Inductive
  <1>2. Carried(r)'
    BY <1>1 DEF Inductive, TypeOK, Carried, Fitting, Final, Working
  <1>3. \A q \in Requests : q # r => pc'[q] = pc[q] /\ arg'[q] = arg[q] /\ row'[q] = row[q]
    BY <1>1 DEF Inductive, TypeOK
  <1> QED
    BY <1>2, <1>3, OthersKeep

\* A step that leaves the tables alone keeps what they owe to one another.
LEMMA QuietTables ==
  ASSUME Tables, UNCHANGED <<users, tokens, granted>>
  PROVE  Tables' /\ Grows
  BY DEF Tables, Grows, IdsAreOwn, TokensAreOfUsers, OneAccountEach, Registered

\* The invariant holds when main has made the first administrator.
LEMMA InductiveInit == Init => Inductive
  <1> SUFFICES ASSUME Init PROVE Inductive
    OBVIOUS
  <1> DEFINE first == [id |-> Root, name |-> RootName, email |-> RootEmail,
                       hash |-> HashPassword(RootPassword), role |-> "admin"]
  <1>1. first \in Account
    BY AccountsAssumption DEF Account, Hashes, Email, Roles
  <1>2. users \in [Ids -> Account \cup {NoUser}]
        /\ \A u \in Ids : Registered(u) => u = Root /\ users[u] = first
    BY <1>1 DEF Init, Registered
  <1>3. TypeOK
    BY <1>2, AccountsAssumption DEF Init, TypeOK, Stage
  <1>4. Tables
    BY <1>2 DEF Init, Tables, IdsAreOwn, TokensAreOfUsers, OneAccountEach
  <1>5. \A r \in Requests : Carried(r)
    BY DEF Init, Carried, Fitting, Working
  <1> QED
    BY <1>3, <1>4, <1>5, InductiveParts

\* Reads, checks and answers: the tables stay, and what is read is a row of them.
LEMMA CarriedSteps ==
  ASSUME Inductive, TypeOK', NEW r \in Requests,
         Begin(r) \/ CountByUsername(r) \/ CountByEmail(r) \/ FindByUsername(r)
           \/ FindCaller(r) \/ ListUsers(r) \/ Fail(r)
  PROVE  Inductive'
  <1> USE DEF stored, history
  <1>0. TypeOK /\ Tables /\ Carried(r)
    BY InductiveParts
  <1>1. UNCHANGED <<users, tokens, granted>>
    BY DEF Begin, CountByUsername, CountByEmail, FindByUsername, FindCaller, ListUsers, Fail
  <1>2. Tables' /\ Grows
    BY <1>0, <1>1, QuietTables
  <1>3. CASE \E outcome \in Final : Answer(r, outcome)
    BY <1>2, <1>3, AnswersCarryNothing, InductivePartsNext
  <1> DEFINE Moves(stage) ==
        /\ pc' = [pc EXCEPT ![r] = stage]
        /\ \A q \in Requests : q # r => arg'[q] = arg[q] /\ row'[q] = row[q]
  <1>4. ASSUME NEW stage, Moves(stage), Carried(r)'
        PROVE  Inductive'
    <2>1. \A q \in Requests : q # r => pc'[q] = pc[q] /\ arg'[q] = arg[q] /\ row'[q] = row[q]
      BY <1>0, <1>4 DEF TypeOK
    <2>2. \A q \in Requests : Carried(q)'
      BY <1>2, <1>4, <2>1, OthersKeep
    <2> QED
      BY <1>2, <2>2, InductivePartsNext
  <1> HIDE DEF Moves
  <1>5. CASE Begin(r)
    <2>1. PICK a \in Script :
            IF a.op \in Public \/ Authorized(a)
              THEN /\ pc' = [pc EXCEPT ![r] = First[a.op]]
                   /\ arg' = [arg EXCEPT ![r] = a]
                   /\ UNCHANGED row
              ELSE Answer(r, "failed")
      BY <1>5 DEF Begin
    <2>2. CASE a.op \in Public \/ Authorized(a)
      <3>1. a \in Arg /\ a.op \in Ops /\ a.token \in Token /\ a.token.user \in Ids
        BY AccountsAssumption DEF Arg, Token
      <3>2. pc'[r] = First[a.op] /\ arg'[r] = a /\ row'[r] = row[r] /\ users' = users
            /\ granted' = granted
        BY <1>0, <1>1, <2>1, <2>2 DEF TypeOK
      <3>3. First[a.op] \in {"name", "user", "list", "role", "find"}
            /\ (First[a.op] \in {"list", "role", "find"} => a.op \notin Public)
            /\ (First[a.op] = "name" => a.op = "register")
            /\ (First[a.op] = "role" => a.op = "role")
        BY <3>1 DEF First, Ops, Public
      <3>4. a.op \notin Public => Registered(a.token.user)
        BY <1>0, <2>2 DEF Authorized, Tables, TokensAreOfUsers
      <3>5. a.op = "role" => a.token.user \in granted
        BY <1>0, <2>2 DEF Authorized, Tables, Public
      <3>6. Fitting(r)'
        BY <3>2, <3>3, <3>4, <3>5 DEF Fitting, Caller, Registered
      <3>7. Carried(r)'
        BY <1>0, <1>1, <3>2, <3>6 DEF Carried, Registered
      <3>8. Moves(First[a.op])
        BY <1>0, <2>1, <2>2 DEF Moves, TypeOK
      <3> QED
        BY <1>4, <3>7, <3>8
    <2>3. CASE ~(a.op \in Public \/ Authorized(a))
      BY <1>3, <2>1, <2>3 DEF Final
    <2> QED
      BY <2>2, <2>3
  <1>6. CASE CountByUsername(r)
    <2>1. CASE Named(arg[r].name) # {}
      BY <1>3, <1>6, <2>1 DEF CountByUsername, Final
    <2>2. CASE Named(arg[r].name) = {}
      <3> DEFINE stage == IF arg[r].email = NoEmail THEN "insert" ELSE "email"
      <3>1. pc' = [pc EXCEPT ![r] = stage] /\ arg' = arg /\ row' = row
        BY <1>6, <2>2 DEF CountByUsername, Goto
      <3>2. arg[r].op = "register"
        BY <1>0, <1>6 DEF CountByUsername, Carried, Fitting, Working
      <3>3. stage \in {"insert", "email"} /\ Moves(stage)
        BY <3>1 DEF Moves
      <3>4. pc'[r] = stage /\ arg'[r] = arg[r] /\ row'[r] = row[r]
        BY <1>0, <3>1 DEF TypeOK
      <3>5. Fitting(r)'
        BY <1>0, <1>6, <3>2, <3>3, <3>4 DEF CountByUsername, Carried, Fitting, Working, Public
      <3>6. Carried(r)'
        BY <1>0, <1>1, <3>4, <3>5 DEF Carried, Registered
      <3> HIDE DEF stage
      <3> QED
        BY <1>4, <3>3, <3>6
    <2> QED
      BY <2>1, <2>2
  <1>7. CASE CountByEmail(r)
    <2>1. CASE Mailed(arg[r].email) # {}
      BY <1>3, <1>7, <2>1 DEF CountByEmail, Final
    <2>2. CASE Mailed(arg[r].email) = {}
      <3> DEFINE stage == IF arg[r].op = "register" THEN "insert" ELSE "save"
      <3>1. pc' = [pc EXCEPT ![r] = stage] /\ arg' = arg /\ row' = row
        BY <1>7, <2>2 DEF CountByEmail, Goto
      <3>2. /\ stage \in {"insert", "save"} /\ (stage = "save" <=> arg[r].op # "register")
            /\ Moves(stage)
        BY <3>1 DEF Moves
      <3>3. pc'[r] = stage /\ arg'[r] = arg[r] /\ row'[r] = row[r]
        BY <1>0, <3>1 DEF TypeOK
      <3>4. pc[r] = "email" /\ Fitting(r)
        BY <1>0, <1>7 DEF CountByEmail, Carried
      <3>5. stage = "save" => arg[r].op \notin Public
        BY <3>2, <3>4 DEF Fitting, Public
      <3>6. Fitting(r)'
        BY <1>1, <3>2, <3>3, <3>4, <3>5 DEF Fitting, Working, Public, Caller, Registered
      <3>7. Carried(r)'
        BY <1>0, <1>1, <3>3, <3>6 DEF Carried, Registered
      <3> HIDE DEF stage
      <3> QED
        BY <1>4, <3>2, <3>7
    <2> QED
      BY <2>1, <2>2
  <1>8. CASE FindByUsername(r)
    <2>1. CASE Named(arg[r].name) = {}
      BY <1>3, <1>8, <2>1 DEF FindByUsername, Final
    <2>2. CASE Named(arg[r].name) # {}
      <3>1. PICK u \in Ids : Registered(u) /\ row' = [row EXCEPT ![r] = users[u]]
                             /\ pc' = [pc EXCEPT ![r] = "sign"] /\ arg' = arg
        BY <1>8, <2>2 DEF FindByUsername, Goto, Named
      <3>2. row'[r] = users[u] /\ users[u].id = u
        BY <1>0, <3>1 DEF TypeOK, Tables, IdsAreOwn
      <3>3. pc'[r] = "sign" /\ arg'[r] = arg[r] /\ Moves("sign")
        BY <1>0, <3>1 DEF TypeOK, Moves
      <3>4. Fitting(r) /\ pc[r] = "user"
        BY <1>0, <1>8 DEF FindByUsername, Carried
      <3>5. row'[r] # NoUser
        BY <3>1, <3>2 DEF Registered
      <3>6. Fitting(r)'
        BY <1>1, <3>3, <3>4, <3>5 DEF Fitting, Caller, Registered, Working
      <3>7. Registered(u) /\ (users[u].role = "admin" => u \in granted)
        BY <1>0, <3>1 DEF Tables
      <3>8. Carried(r)'
        BY <1>1, <3>2, <3>6, <3>7 DEF Carried, Registered
      <3> QED
        BY <1>4, <3>3, <3>8
    <2> QED
      BY <2>1, <2>2
  <1>9. CASE FindCaller(r)
    <2>1. CASE Registered(Caller(r)) /\ AfterFind(r) \in Working
      <3>1. row' = [row EXCEPT ![r] = users[Caller(r)]] /\ arg' = arg
            /\ pc' = [pc EXCEPT ![r] = AfterFind(r)]
        BY <1>9, <2>1 DEF FindCaller, Goto
      <3>2. Caller(r) \in Ids /\ arg[r].op \notin Public
        BY <1>0, <1>9, ArgsAreTyped DEF FindCaller, Carried, Fitting, Working
      <3>3. row'[r] = users[Caller(r)] /\ users[Caller(r)].id = Caller(r)
        BY <1>0, <2>1, <3>1, <3>2 DEF TypeOK, Tables, IdsAreOwn
      <3>4. /\ AfterFind(r) \in {"save", "email", "hash"}
            /\ AfterFind(r) = "email" => arg[r].op = "profile"
        BY <2>1 DEF AfterFind, Working
      <3> QED
        BY <1>0, <1>1, <1>4, <1>9, <2>1, <3>1, <3>2, <3>3, <3>4
        DEF FindCaller, TypeOK, Tables, Carried, Fitting, Moves, Caller, Registered, Working
    <2>2. CASE ~(Registered(Caller(r)) /\ AfterFind(r) \in Working)
      BY <1>3, <1>9, <2>2 DEF FindCaller, AfterFind, ErrorAnswer, Final, Working
    <2> QED
      BY <2>1, <2>2
  <1>10. CASE ListUsers(r)
    BY <1>3, <1>10 DEF ListUsers, Final
  <1>11. CASE Fail(r)
    BY <1>3, <1>11 DEF Fail, ErrorAnswer, Final
  <1> QED
    BY <1>5, <1>6, <1>7, <1>8, <1>9, <1>10, <1>11

\* A write answers at once, so what is left to show is that the tables agree.
LEMMA WritesEnd ==
  ASSUME Inductive, TypeOK', Grows, Tables', NEW r \in Requests,
         \E outcome \in Final : Answer(r, outcome)
  PROVE  Inductive'
  BY AnswersCarryNothing, InductivePartsNext

\* userRepo.Create adds an account only where the indexes let it, as a user.
LEMMA CreateStep ==
  ASSUME Inductive, TypeOK', NEW r \in Requests, CreateUser(r)
  PROVE  Inductive'
  <1>0. TypeOK /\ Tables
    BY InductiveParts
  <1>1. PICK u \in Ids :
          /\ ~Registered(u)
          /\ IF Clashes(u, arg[r].name, arg[r].email)
               THEN Answer(r, "failed") /\ UNCHANGED <<users, told>>
               ELSE /\ users' = [users EXCEPT ![u] = NewAccount(u, arg[r], "user")]
                    /\ told' = [told EXCEPT ![u] = arg[r].new]
                    /\ AnswerWritten(r)
    BY DEF CreateUser
  <1>2. tokens' = tokens /\ granted' = granted /\ \E outcome \in Final : Answer(r, outcome)
    BY DEF CreateUser, AnswerWritten, Final
  <1>3. CASE Clashes(u, arg[r].name, arg[r].email)
    BY <1>0, <1>1, <1>2, <1>3, QuietTables, WritesEnd
  <1>4. CASE ~Clashes(u, arg[r].name, arg[r].email)
    <2> DEFINE new == NewAccount(u, arg[r], "user")
    <2>1. arg[r] \in Arg
      BY ArgsAreTyped DEF CreateUser, Working
    <2>2. new \in Account /\ new # NoUser
      BY <2>1, NewAccountIsAccount, NobodyIsNoAccount DEF Roles
    <2>3. new.id = u /\ new.name = arg[r].name /\ new.email = arg[r].email /\ new.role = "user"
      BY DEF NewAccount
    <2>4. users'[u] = new /\ \A v \in Ids : v # u => users'[v] = users[v]
      BY <1>0, <1>1, <1>4 DEF TypeOK
    <2> HIDE DEF new
    <2>5. \A v \in Ids : Registered(v)' <=> v = u \/ Registered(v)
      BY <2>2, <2>4 DEF Registered
    <2>6. Grows
      BY <1>1, <1>2, <2>4, <2>5 DEF Grows
    <2>7. IdsAreOwn'
      BY <1>0, <2>3, <2>4, <2>5 DEF Tables, IdsAreOwn
    <2>8. TokensAreOfUsers'
      <3>1. \A t \in tokens : t.user \in Ids
        BY <1>0 DEF TypeOK, Token
      <3> QED
        BY <1>0, <1>2, <2>5, <3>1 DEF Tables, TokensAreOfUsers
    <2>9. \A v \in Ids \ {u} : Registered(v) =>
            users[v].name # arg[r].name
            /\ (arg[r].email # NoEmail => users[v].email # arg[r].email)
      BY <1>4 DEF Clashes, Named, Mailed
    <2>10. OneAccountEach'
      BY <1>0, <2>3, <2>4, <2>5, <2>9 DEF Tables, OneAccountEach
    <2>11. \A v \in Ids : Registered(v)' /\ users'[v].role = "admin" => v \in granted'
      BY <1>0, <1>2, <2>3, <2>4, <2>5 DEF Tables
    <2>12. \A t \in tokens' : t.role = "admin" => t.user \in granted'
      BY <1>0, <1>2 DEF Tables
    <2>13. Tables'
      BY <2>7, <2>8, <2>10, <2>11, <2>12 DEF Tables
    <2> QED
      BY <1>2, <2>6, <2>13, WritesEnd
  <1> QED
    BY <1>3, <1>4

\* A token carries the role of the row that was read, which came down from Root.
LEMMA IssueStep ==
  ASSUME Inductive, TypeOK', NEW r \in Requests, IssueToken(r)
  PROVE  Inductive'
  <1> DEFINE new == [user |-> row[r].id, role |-> row[r].role]
  <1>0. TypeOK /\ Tables /\ Carried(r)
    BY InductiveParts
  <1>1. /\ users' = users /\ granted' = granted /\ (tokens' = tokens \/ tokens' = tokens \cup {new})
        /\ \E outcome \in Final : Answer(r, outcome)
    BY DEF IssueToken, history, Final
  <1>2. /\ new.user = row[r].id /\ new.role = row[r].role
        /\ Registered(row[r].id) /\ (row[r].role = "admin" => row[r].id \in granted)
    BY <1>0 DEF IssueToken, Carried, Fitting
  <1> HIDE DEF new
  <1>3. Grows
    BY <1>1 DEF Grows, Registered
  <1>4. IdsAreOwn' /\ OneAccountEach'
        /\ \A u \in Ids : Registered(u)' /\ users'[u].role = "admin" => u \in granted'
    BY <1>0, <1>1 DEF Tables, IdsAreOwn, OneAccountEach, Registered
  <1>5. TokensAreOfUsers'
    BY <1>0, <1>1, <1>2 DEF Tables, TokensAreOfUsers, Registered
  <1>6. \A t \in tokens' : t.role = "admin" => t.user \in granted'
    BY <1>0, <1>1, <1>2 DEF Tables
  <1>7. Tables'
    BY <1>4, <1>5, <1>6 DEF Tables
  <1> QED
    BY <1>1, <1>3, <1>7, WritesEnd

\* The three handlers that change an account.  It keeps its id and its name;
\* the email is nobody else's, and the role is an old one or a granted one.
LEMMA ChangeStep ==
  ASSUME Inductive, TypeOK', NEW r \in Requests, NEW u \in Ids, NEW a,
         \E outcome \in Final : Answer(r, outcome),
         tokens' = tokens, granted \subseteq granted',
         users' = [users EXCEPT ![u] = a],
         IF Registered(u)
           THEN /\ a # NoUser /\ a.id = u /\ a.name = users[u].name
                /\ a.role = "admin" => u \in granted'
                /\ a.email # NoEmail =>
                     \A v \in Ids \ {u} : Registered(v) => users[v].email # a.email
           ELSE a = NoUser
  PROVE  Inductive'
  <1>0. TypeOK /\ Tables
    BY InductiveParts
  <1>1. users'[u] = a /\ \A v \in Ids : v # u => users'[v] = users[v]
    BY <1>0 DEF TypeOK
  <1>2. \A v \in Ids : Registered(v)' <=> Registered(v)
    BY <1>1 DEF Registered
  <1>3. Grows
    BY <1>1, <1>2 DEF Grows
  <1>4. IdsAreOwn'
    BY <1>0, <1>1, <1>2 DEF Tables, IdsAreOwn
  <1>5. TokensAreOfUsers'
    <2>1. \A t \in tokens : t.user \in Ids
      BY <1>0 DEF TypeOK, Token
    <2> QED
      BY <1>0, <1>2, <2>1 DEF Tables, TokensAreOfUsers
  <1>6. OneAccountEach'
    BY <1>0, <1>1, <1>2 DEF Tables, OneAccountEach
  <1>7. \A v \in Ids : Registered(v)' /\ users'[v].role = "admin" => v \in granted'
    BY <1>0, <1>1, <1>2 DEF Tables
  <1>8. \A t \in tokens' : t.role = "admin" => t.user \in granted'
    BY <1>0 DEF Tables
  <1>9. Tables'
    BY <1>4, <1>5, <1>6, <1>7, <1>8 DEF Tables
  <1> QED
    BY <1>3, <1>9, WritesEnd

\* Save writes back a row whose name is still its own and whose role was granted.
LEMMA SaveStep ==
  ASSUME Inductive, TypeOK', NEW r \in Requests, SaveProfile(r)
  PROVE  Inductive'
  <1> USE DEF history
  <1>0. TypeOK /\ Tables /\ Carried(r)
    BY InductiveParts
  <1>1. tokens' = tokens /\ granted' = granted /\ \E outcome \in Final : Answer(r, outcome)
    BY DEF SaveProfile, AnswerWritten, Final
  <1>2. arg[r].email \in Email /\ Caller(r) \in Ids
    BY ArgsAreTyped DEF SaveProfile, Working
  <1>3. CASE Clashes(Caller(r), row[r].name, arg[r].email)
    BY <1>0, <1>1, <1>3, QuietTables, WritesEnd DEF SaveProfile
  <1>4. CASE ~Clashes(Caller(r), row[r].name, arg[r].email)
    <2> DEFINE new == [row[r] EXCEPT !.email = arg[r].email]
    <2>1. row[r] \in Account /\ row[r] # NoUser /\ row[r].id = Caller(r)
      BY <1>0 DEF SaveProfile, Carried, Fitting, TypeOK
    <2>2. new \in Account /\ new # NoUser
      BY <1>2, <2>1, ChangedAccounts, NobodyIsNoAccount
    <2>3. new.id = row[r].id /\ new.name = row[r].name /\ new.role = row[r].role
          /\ new.email = arg[r].email
      BY <2>1 DEF Account
    <2>4. users' = [users EXCEPT ![Caller(r)] = new]
      BY <1>4 DEF SaveProfile
    <2> HIDE DEF new
    <2>5. Registered(Caller(r)) /\ users[Caller(r)].name = row[r].name
          /\ (row[r].role = "admin" => Caller(r) \in granted)
      BY <1>0, <2>1 DEF Carried
    <2>6. new.email # NoEmail =>
            \A v \in Ids \ {Caller(r)} : Registered(v) => users[v].email # new.email
      BY <1>4, <2>3 DEF Clashes, Mailed
    <2> QED
      BY <1>1, <1>2, <2>1, <2>2, <2>3, <2>4, <2>5, <2>6, ChangeStep
  <1> QED
    BY <1>3, <1>4

\* UpdateFields of the hash leaves names, emails and roles alone.
LEMMA HashStep ==
  ASSUME Inductive, TypeOK', NEW r \in Requests, SetHash(r)
  PROVE  Inductive'
  <1> DEFINE u == Caller(r)
             new == [users[u] EXCEPT !.hash = HashPassword(arg[r].new)]
             a == IF Registered(u) THEN new ELSE NoUser
  <1>0. TypeOK /\ Tables
    BY InductiveParts
  <1>1. tokens' = tokens /\ granted' = granted /\ \E outcome \in Final : Answer(r, outcome)
    BY DEF SetHash, Final
  <1>2. arg[r].new \in Passwords /\ u \in Ids
    BY ArgsAreTyped DEF SetHash, Working
  <1>3. users' = [users EXCEPT ![u] = a]
    BY DEF SetHash, Set
  <1>4. CASE Registered(u)
    <2>1. users[u] \in Account /\ a = new
      BY <1>0, <1>2, <1>4 DEF TypeOK, Registered
    <2>2. new \in Account /\ new # NoUser
      BY <1>2, <2>1, ChangedAccounts, NobodyIsNoAccount
    <2>3. new.id = users[u].id /\ new.name = users[u].name /\ new.role = users[u].role
          /\ new.email = users[u].email
      BY <2>1 DEF Account
    <2> HIDE DEF u, new, a
    <2>4. users[u].id = u /\ (users[u].role = "admin" => u \in granted)
          /\ (users[u].email # NoEmail =>
                \A v \in Ids \ {u} : Registered(v) => users[v].email # users[u].email)
      BY <1>0, <1>2, <1>4 DEF Tables, IdsAreOwn, OneAccountEach
    <2> QED
      BY <1>1, <1>2, <1>3, <1>4, <2>1, <2>2, <2>3, <2>4, ChangeStep
  <1>5. CASE ~Registered(u)
    <2>1. a = NoUser
      BY <1>5
    <2> HIDE DEF u, a
    <2> QED
      BY <1>1, <1>2, <1>3, <1>5, <2>1, ChangeStep
  <1> QED
    BY <1>4, <1>5

\* ChangeRole hands on a role its caller has been made to hold.
LEMMA RoleStep ==
  ASSUME Inductive, TypeOK', NEW r \in Requests, SetRole(r)
  PROVE  Inductive'
  <1> DEFINE u == arg[r].target
             new == [users[u] EXCEPT !.role = arg[r].role]
             a == IF Registered(u) THEN new ELSE NoUser
  <1>0. TypeOK /\ Tables /\ Carried(r)
    BY InductiveParts
  <1>1. tokens' = tokens /\ \E outcome \in Final : Answer(r, outcome)
    BY DEF SetRole, AnswerWritten
  <1>2. arg[r].role \in Roles /\ u \in Ids
    BY ArgsAreTyped DEF SetRole, Working
  <1>3. users' = [users EXCEPT ![u] = a]
    BY DEF SetRole, Set
  <1>4. Caller(r) \in granted
    BY <1>0 DEF SetRole, Carried, Fitting
  <1>5. granted \subseteq granted' /\ (arg[r].role = "admin" => u \in granted')
    BY <1>4 DEF SetRole
  <1>6. CASE Registered(u)
    <2>1. users[u] \in Account /\ a = new
      BY <1>0, <1>2, <1>6 DEF TypeOK, Registered
    <2>2. new \in Account /\ new # NoUser
      BY <1>2, <2>1, ChangedAccounts, NobodyIsNoAccount
    <2>3. new.id = users[u].id /\ new.name = users[u].name /\ new.role = arg[r].role
          /\ new.email = users[u].email
      BY <2>1 DEF Account
    <2> HIDE DEF u, new, a
    <2>4. users[u].id = u
          /\ (users[u].email # NoEmail =>
                \A v \in Ids \ {u} : Registered(v) => users[v].email # users[u].email)
      BY <1>0, <1>2, <1>6 DEF Tables, IdsAreOwn, OneAccountEach
    <2> QED
      BY <1>1, <1>2, <1>3, <1>5, <1>6, <2>1, <2>2, <2>3, <2>4, ChangeStep
  <1>7. CASE ~Registered(u)
    <2>1. a = NoUser
      BY <1>7
    <2> HIDE DEF u, a
    <2> QED
      BY <1>1, <1>2, <1>3, <1>5, <1>7, <2>1, ChangeStep
  <1> QED
    BY <1>6, <1>7

\* A token whose time is over is of no concern to the rest.
LEMMA ExpireStep ==
  ASSUME Inductive, TypeOK', NEW t \in tokens, Expire(t)
  PROVE  Inductive'
  <1> USE DEF history
  <1>0. TypeOK /\ Tables /\ \A r \in Requests : Carried(r)
    BY InductiveParts
  <1>1. Tables'
    BY <1>0
    DEF Expire, Tables, IdsAreOwn, TokensAreOfUsers, OneAccountEach, Registered
  <1>2. \A r \in Requests : Carried(r)'
    BY <1>0 DEF Expire, Carried, Fitting, Registered, Caller
  <1> QED
    BY <1>1, <1>2, InductivePartsNext

-----------------------------------------------------------------------------
\* The inductive invariant: what requests carry between their statements is in
\* keeping with the table, and the table with the tokens and the grants.
THEOREM InductiveHolds == Spec => []Inductive
  <1>1. Inductive /\ [Next]_vars => Inductive'
    <2> SUFFICES ASSUME Inductive, [Next]_vars PROVE Inductive'
      OBVIOUS
    <2>1. TypeOK'
      BY TypeStep
    <2>2. ASSUME NEW r \in Requests, Begin(r) \/ Handle(r) \/ Fail(r)
          PROVE  Inductive'
      BY <2>1, <2>2, CarriedSteps, CreateStep, IssueStep, SaveStep, HashStep, RoleStep DEF Handle
    <2>3. ASSUME NEW t \in tokens, Expire(t)
          PROVE  Inductive'
      BY <2>1, <2>3, ExpireStep
    <2>4. ASSUME UNCHANGED vars
          PROVE  Inductive'
      <3>1. TypeOK /\ Tables /\ \A r \in Requests : Carried(r)
        BY InductiveParts
      <3>2. Tables'
        BY <2>4, <3>1, QuietTables DEF vars
      <3>3. \A r \in Requests : Carried(r)'
        BY <2>4, <3>1 DEF vars, Carried, Fitting, Registered, Caller
      <3> QED
        BY <2>1, <3>2, <3>3, InductivePartsNext
    <2> QED
      BY <2>2, <2>3, <2>4 DEF Next
  <1> QED
    BY <1>1, InductiveInit, PTL DEF Spec

\* However registrations and profile edits interleave, a name, and an email
\* that is given, belongs to one account.
THEOREM AccountsAreDistinct == Spec => []OneAccountEach
  <1>1. Inductive => OneAccountEach
    BY DEF Inductive
  <1> QED
    BY <1>1, InductiveHolds, PTL

\* Wherever the administrator's role is written, it was granted.
THEOREM RolesAreGranted == Spec => []AdminsAreMade
  <1>1. Inductive => AdminsAreMade
    BY DEF Inductive
  <1> QED
    BY <1>1, InductiveHolds, PTL

\* An account is changed by its owner's requests, or in its role by somebody
\* who has been made an administrator.
THEOREM OnlyOwnerOrAdminWrites == Spec => WrittenByOwnerOrAdmin
  <1> DEFINE Written ==
        \A u \in Ids : Registered(u) /\ users'[u] # users[u] =>
          \E r \in Requests :
            \/ pc[r] \in {"save", "hash"} /\ Caller(r) = u
            \/ /\ pc[r] = "role" /\ arg[r].target = u /\ Caller(r) \in granted
               /\ users'[u] = [users[u] EXCEPT !.role = arg[r].role]
  <1>1. Inductive /\ [Next]_vars => [Written]_vars
    <2> SUFFICES ASSUME Inductive, [Next]_vars, NEW u \in Ids, Registered(u), users'[u] # users[u]
                 PROVE  \E r \in Requests :
                          \/ pc[r] \in {"save", "hash"} /\ Caller(r) = u
                          \/ /\ pc[r] = "role" /\ arg[r].target = u /\ Caller(r) \in granted
                             /\ users'[u] = [users[u] EXCEPT !.role = arg[r].role]
      OBVIOUS
    <2>1. users \in [Ids -> Account \cup {NoUser}]
      BY DEF Inductive, TypeOK
    <2>2. ASSUME NEW r \in Requests, CreateUser(r)
          PROVE  FALSE
      BY <2>1, <2>2 DEF CreateUser
    <2>3. ASSUME NEW r \in Requests, SaveProfile(r)
          PROVE  pc[r] = "save" /\ Caller(r) = u
      BY <2>1, <2>3 DEF SaveProfile
    <2>4. ASSUME NEW r \in Requests, SetHash(r)
          PROVE  pc[r] = "hash" /\ Caller(r) = u
      BY <2>1, <2>4 DEF SetHash, Set
    <2>5. ASSUME NEW r \in Requests, SetRole(r)
          PROVE  /\ pc[r] = "role" /\ arg[r].target = u /\ Caller(r) \in granted
                 /\ users'[u] = [users[u] EXCEPT !.role = arg[r].role]
      <3>1. pc[r] = "role" /\ arg[r].target = u
        BY <2>1, <2>5 DEF SetRole, Set
      <3>2. Caller(r) \in granted
        BY <3>1 DEF Inductive, Fitting
      <3> QED
        BY <2>1, <2>5, <3>1, <3>2 DEF SetRole, Set
    <2>6. ASSUME NEW r \in Requests,
                 Begin(r) \/ CountByUsername(r) \/ CountByEmail(r) \/ FindByUsername(r)
                   \/ IssueToken(r) \/ FindCaller(r) \/ ListUsers(r) \/ Fail(r)
          PROVE  FALSE
      BY <2>6 DEF Begin, CountByUsername, CountByEmail, FindByUsername, IssueToken, FindCaller,
                  ListUsers, Fail, stored
    <2>7. ASSUME NEW t \in tokens, Expire(t)
          PROVE  FALSE
      BY <2>7 DEF Expire
    <2> QED
      BY <2>2, <2>3, <2>4, <2>5, <2>6, <2>7 DEF Next, Handle, vars
  <1> QED
    BY <1>1, InductiveHolds, PTL DEF Spec, WrittenByOwnerOrAdmin

\* The password an owner was told is set stays the one that works, until a
\* profile edit of the owner's own that read the row before the password was
\* changed, a change of password that could not read the row and was answered ok,
\* or one whose UPDATE took effect and was answered 500.
THEOREM PasswordsStay == Spec => PasswordStaysAsTold
  <1> DEFINE Unsaid(r) == \/ pc[r] = "save" /\ row[r].hash # users[Caller(r)].hash
                          \/ SwallowsError(r)
                          \/ pc[r] = "hash" /\ pc'[r] = "failed"
             Kept == \A u \in Ids : AsTold(u) /\ ~AsTold(u)' =>
                       \E r \in Requests : Unsaid(r) /\ Caller(r) = u
  <1>1. Inductive /\ [Next]_vars => [Kept]_vars
    <2> SUFFICES ASSUME Inductive, [Next]_vars, NEW u \in Ids, AsTold(u), ~AsTold(u)'
                 PROVE  \E r \in Requests : Unsaid(r) /\ Caller(r) = u
      OBVIOUS
    <2>1. users \in [Ids -> Account \cup {NoUser}] /\ told \in [Ids -> Passwords]
      BY DEF Inductive, TypeOK
    <2>2. ~(users'[u] = users[u] /\ told'[u] = told[u])
      BY DEF AsTold, Registered
    <2>3. ASSUME NEW r \in Requests, CreateUser(r)
          PROVE  FALSE
      <3>1. users'[u] = NewAccount(u, arg[r], "user") /\ told'[u] = arg[r].new
        BY <2>1, <2>2, <2>3 DEF CreateUser
      <3> QED
        BY <3>1 DEF AsTold, NewAccount
    <2>4. ASSUME NEW r \in Requests, SaveProfile(r)
          PROVE  Unsaid(r) /\ Caller(r) = u
      <3> DEFINE new == [row[r] EXCEPT !.email = arg[r].email]
      <3>1. pc[r] = "save" /\ Caller(r) = u /\ told' = told
            /\ users' = [users EXCEPT ![u] = new]
        BY <2>1, <2>2, <2>4 DEF SaveProfile, history
      <3>2. row[r] \in Account /\ row[r] # NoUser /\ row[r].id = u /\ Registered(u)
        BY <3>1 DEF Inductive, TypeOK, Fitting, RowsAreOld
      <3>3. new.hash = row[r].hash
        BY <3>2 DEF Account
      <3> HIDE DEF new
      <3>4. users'[u] = new
        BY <2>1, <3>1
      <3>5. row[r].hash = users[u].hash => AsTold(u)'
        BY <3>1, <3>2, <3>3, <3>4 DEF AsTold
      <3> QED
        BY <3>1, <3>5
    <2>5. ASSUME NEW r \in Requests, SetHash(r)
          PROVE  Unsaid(r) /\ Caller(r) = u
      <3>1. /\ pc[r] = "hash" /\ Caller(r) = u
            /\ users'[u] = IF Registered(u) THEN [users[u] EXCEPT !.hash = HashPassword(arg[r].new)]
                                            ELSE NoUser
        BY <2>1, <2>2, <2>5 DEF SetHash, Set
      <3>2. CASE Answer(r, "failed")
        <4>1. pc'[r] = "failed"
          BY <3>2, AnswerEffect DEF Inductive, TypeOK, Final
        <4> QED
          BY <3>1, <4>1
      <3>3. CASE told' = [told EXCEPT ![u] = arg[r].new]
        <4>1. Registered(u)' => Registered(u)
          BY <3>1 DEF Registered
        <4>2. Registered(u) => users'[u].hash = HashPassword(arg[r].new)
          BY <2>1, <3>1 DEF Registered, Account
        <4>3. AsTold(u)'
          BY <2>1, <3>3, <4>1, <4>2 DEF AsTold
        <4> QED
          BY <4>3
      <3> QED
        BY <2>5, <3>1, <3>2, <3>3 DEF SetHash
    <2>6. ASSUME NEW r \in Requests, SetRole(r)
          PROVE  FALSE
      <3>1. told'[u] = told[u] /\ arg[r].target = u
        BY <2>1, <2>2, <2>6 DEF SetRole, Set
      <3>2. users'[u] = IF Registered(u) THEN [users[u] EXCEPT !.role = arg[r].role] ELSE NoUser
        BY <2>1, <2>6, <3>1 DEF SetRole, Set
      <3>3. Registered(u)' => Registered(u)
        BY <3>2 DEF Registered
      <3>4. Registered(u) => users'[u].hash = users[u].hash
        BY <2>1, <3>2 DEF Registered, Account
      <3> QED
        BY <3>1, <3>3, <3>4 DEF AsTold
    <2>7. ASSUME NEW r \in Requests, Fail(r)
          PROVE  Unsaid(r) /\ Caller(r) = u
      BY <2>1, <2>2, <2>7 DEF Fail, stored
    <2>8. ASSUME NEW r \in Requests,
                 Begin(r) \/ CountByUsername(r) \/ CountByEmail(r) \/ FindByUsername(r)
                   \/ IssueToken(r) \/ FindCaller(r) \/ ListUsers(r)
          PROVE  FALSE
      BY <2>2, <2>8 DEF Begin, CountByUsername, CountByEmail, FindByUsername, IssueToken,
                        FindCaller, ListUsers, stored, history
    <2>9. ASSUME NEW t \in tokens, Expire(t)
          PROVE  FALSE
      BY <2>2, <2>9 DEF Expire, history
    <2>10. ASSUME UNCHANGED vars
           PROVE  FALSE
      BY <2>2, <2>10 DEF vars
    <2> HIDE DEF Unsaid
    <2> QED
      BY <2>3, <2>4, <2>5, <2>6, <2>7, <2>8, <2>9, <2>10 DEF Next, Handle
  <1>2. Kept => \A u \in Ids : AsTold(u) /\ ~AsTold(u)' =>
                  \E r \in Requests :
                    /\ \/ pc[r] = "save" /\ row[r].hash # users[u].hash
                       \/ SwallowsError(r)
                       \/ pc[r] = "hash" /\ pc'[r] = "failed"
                    /\ Caller(r) = u
    OBVIOUS
  <1> QED
    BY <1>1, <1>2, InductiveHolds, PTL DEF Spec, PasswordStaysAsTold
=============================================================================
