------------------------------ MODULE Accounts ------------------------------
(***************************************************************************)
(* Registration, login and the profile of a user: AuthController with its  *)
(* four use cases, the middleware that checks tokens, and the users table. *)
(* The handlers run concurrently, each awaiting the database and bcrypt.   *)
(*                                                                         *)
(*   Requests                 HTTP requests; a user's id is the request    *)
(*                            that registered it                           *)
(*   Emails, Names, Passwords what the bodies of the requests may hold     *)
(*   Unset                    a field the body does not hold               *)
(***************************************************************************)
CONSTANTS Requests, Emails, Names, Passwords, Unset

ASSUME UnsetAssumption == Unset \notin Emails \cup Names \cup Passwords

VARIABLES
    users,   \* the users table: the row of each registered id
    tokens,  \* the tokens given to clients; none is ever withdrawn
    kind,    \* what each request asks for
    wants,   \* the fields of its body
    pc,      \* where its handler is, or the status it was answered with
    user,    \* the id it has found: of the login's user or of the token
    hash     \* the password hash it holds in memory

vars == <<users, tokens, kind, wants, pc, user, hash>>

Hashes  == [password : Passwords, salt : Requests]
Rows    == [email : Emails, name : Names, hash : Hashes]
Tokens  == [userId : Requests, email : Emails]
Bodies  == [email : Emails \cup {Unset}, name : Names \cup {Unset},
            password : Passwords \cup {Unset}]
Empty   == [email |-> Unset, name |-> Unset, password |-> Unset]
Answers == {"200", "201", "400", "401", "404", "500"}
MidWay  == {"hash", "create", "compare", "update"}

Ids == DOMAIN users

Init ==
    /\ users = [u \in {} |-> Empty]
    /\ tokens = {}
    /\ kind = [r \in Requests |-> "none"]
    /\ wants = [r \in Requests |-> Empty]
    /\ pc = [r \in Requests |-> "idle"]
    /\ user = [r \in Requests |-> r]
    /\ hash = [r \in Requests |-> Unset]

-----------------------------------------------------------------------------
(* BcryptPasswordService: equal passwords have different hashes.           *)

Hash(password, salt) == [password |-> password, salt |-> salt]

Matches(password, h) == h.password = password

(* PrismaUserRepository.  E-mails are unique in the users table.           *)

FindByEmail(email) == {u \in Ids : users[u].email = email}

FindById(id) == Ids \cap {id}

Create(id, row) ==
    users' = [u \in Ids \cup {id} |-> IF u = id THEN row ELSE users[u]]

\* Mutant of Updated: a column that is not provided is cleared.
Updated_AllColumns(row, body) == [row EXCEPT !.email = body.email, !.name = body.name]

\* Only the columns that the request provides are written.
Updated(row, body) ==
    [row EXCEPT !.email = IF body.email = Unset THEN @ ELSE body.email,
                !.name = IF body.name = Unset THEN @ ELSE body.name]

Update(id, body) == users' = [users EXCEPT ![id] = Updated(@, body)]

-----------------------------------------------------------------------------
(* A handler reads the body, and either answers at once or goes on.  Of a  *)
(* request answered at once nothing but the answer is kept.                *)

Answer(r, status) ==
    /\ pc[r] = "idle"
    /\ pc' = [pc EXCEPT ![r] = status]
    /\ UNCHANGED <<users, tokens, kind, wants, user, hash>>

Start(r, what, body, next) ==
    /\ pc[r] = "idle"
    /\ kind' = [kind EXCEPT ![r] = what]
    /\ wants' = [wants EXCEPT ![r] = body]
    /\ pc' = [pc EXCEPT ![r] = next]
    /\ UNCHANGED <<users, tokens>>

Goto(r, next) ==
    /\ pc' = [pc EXCEPT ![r] = next]
    /\ UNCHANGED <<kind, wants>>

\* The body does not pass the schema of its route.
Refuse(r) == Answer(r, "400")

(* RegisterUseCase                                                         *)

RegisterFind(r) ==
    \E email \in Emails, name \in Names, password \in Passwords :
        \/ /\ FindByEmail(email) # {}
           /\ Answer(r, "400")
        \/ /\ FindByEmail(email) = {}
           /\ Start(r, "register",
                    [email |-> email, name |-> name, password |-> password], "hash")
           /\ UNCHANGED <<user, hash>>

RegisterHash(r) ==
    /\ pc[r] = "hash"
    /\ hash' = [hash EXCEPT ![r] = Hash(wants[r].password, r)]
    /\ Goto(r, "create")
    /\ UNCHANGED <<users, tokens, user>>

NewRow(r) == [email |-> wants[r].email, name |-> wants[r].name, hash |-> hash[r]]

\* Mutant of RegisterCreate: a row with the e-mail is replaced.
RegisterCreate_Upsert(r) ==
    LET old == FindByEmail(wants[r].email) IN
    /\ pc[r] = "create"
    /\ IF old = {} THEN Create(r, NewRow(r))
                   ELSE \E u \in old : users' = [users EXCEPT ![u] = NewRow(r)]
    /\ Goto(r, "201")
    /\ UNCHANGED <<tokens, user, hash>>

\* An e-mail taken since RegisterFind violates the unique index, which is
\* answered as an unexpected error.  The connection may also break after the
\* row is stored.
RegisterCreate(r) ==
    /\ pc[r] = "create"
    /\ IF FindByEmail(wants[r].email) # {}
          THEN UNCHANGED users /\ Goto(r, "500")
          ELSE Create(r, NewRow(r)) /\ (Goto(r, "201") \/ Goto(r, "500"))
    /\ UNCHANGED <<tokens, user, hash>>

Register(r) == RegisterFind(r) \/ RegisterHash(r) \/ RegisterCreate(r)

(* LoginUseCase                                                            *)

LoginFind(r) ==
    \E email \in Emails, password \in Passwords :
        \/ /\ FindByEmail(email) = {}
           /\ Answer(r, "404")
        \/ \E u \in FindByEmail(email) :
              /\ Start(r, "login",
                       [email |-> email, name |-> Unset, password |-> password], "compare")
              /\ user' = [user EXCEPT ![r] = u]
              /\ hash' = [hash EXCEPT ![r] = users[u].hash]

\* Mutant of LoginCompare: the result of the comparison is ignored.
LoginCompare_Unchecked(r) ==
    /\ pc[r] = "compare"
    /\ tokens' = tokens \cup {[userId |-> user[r], email |-> wants[r].email]}
    /\ Goto(r, "200")
    /\ UNCHANGED <<users, user, hash>>

\* The token is signed for the id and the e-mail that LoginFind read, whoever
\* has that e-mail now.
LoginCompare(r) ==
    /\ pc[r] = "compare"
    /\ IF Matches(wants[r].password, hash[r])
          THEN /\ tokens' = tokens \cup {[userId |-> user[r], email |-> wants[r].email]}
               /\ Goto(r, "200")
          ELSE UNCHANGED tokens /\ Goto(r, "400")
    /\ UNCHANGED <<users, user, hash>>

Login(r) == LoginFind(r) \/ LoginCompare(r)

-----------------------------------------------------------------------------
(* The routes behind the middleware.  A client that has been given a token *)
(* may present it for ever, until the token expires.                       *)

\* Without a token, or with one that does not verify.
Unauthorized(r) == Answer(r, "401")

\* The token's id, and nothing else of it, becomes the request's userId.
Authorized(token) == {token.userId}

(* GetCurrentUserUseCase                                                   *)

CurrentUser(id) == IF FindById(id) = {} THEN "404" ELSE "200"

GetMe(r) ==
    \E token \in tokens : \E id \in Authorized(token) : Answer(r, CurrentUser(id))

(* UpdateUserUseCase                                                       *)

\* The body provides a name, an e-mail or both.
UpdateFind(r) ==
    \E token \in tokens, email \in Emails \cup {Unset}, name \in Names \cup {Unset} :
        \E id \in Authorized(token) :
            \/ /\ FindById(id) = {}
               /\ Answer(r, "404")
            \/ /\ FindById(id) # {}
               /\ email # Unset \/ name # Unset
               /\ Start(r, "update",
                        [email |-> email, name |-> name, password |-> Unset], "update")
               /\ user' = [user EXCEPT ![r] = id]
               /\ UNCHANGED hash

\* An e-mail that another row has violates the unique index.
Clashes(r) == FindByEmail(wants[r].email) \ {user[r]} # {}

UpdateApply(r) ==
    /\ pc[r] = "update"
    /\ IF Clashes(r)
          THEN UNCHANGED users /\ Goto(r, "500")
          ELSE Update(user[r], wants[r]) /\ (Goto(r, "200") \/ Goto(r, "500"))
    /\ UNCHANGED <<tokens, user, hash>>

UpdateMe(r) == UpdateFind(r) \/ UpdateApply(r)

-----------------------------------------------------------------------------
\* The database or bcrypt fails before the awaited call has any effect.
Fails(r) ==
    /\ pc[r] \in MidWay
    /\ Goto(r, "500")
    /\ UNCHANGED <<users, tokens, user, hash>>

Handle(r) ==
    \/ Refuse(r) \/ Register(r) \/ Login(r)
    \/ Unauthorized(r) \/ GetMe(r) \/ UpdateMe(r)
    \/ Fails(r)

Next == \E r \in Requests : Handle(r)

Spec == Init /\ [][Next]_vars

-----------------------------------------------------------------------------
(* Properties.                                                             *)

\* Every variable stays in the set of values its code can give it.
TypeOK ==
    /\ Ids \subseteq Requests
    /\ users \in [Ids -> Rows]
    /\ tokens \subseteq Tokens
    /\ kind \in [Requests -> {"none", "register", "login", "update"}]
    /\ wants \in [Requests -> Bodies]
    /\ pc \in [Requests -> {"idle"} \cup MidWay \cup Answers]
    /\ user \in [Requests -> Requests]
    /\ hash \in [Requests -> Hashes \cup {Unset}]

\* What a registration was answered stays true: a user told that it is
\* registered can log in with its password for ever, whatever registrations of
\* the same e-mail raced with its own and whatever updates came later.  A user
\* is in the table without having been told only if the connection broke, and
\* no two users have the same e-mail.
RegistrationHolds ==
    /\ \A r \in Requests : kind[r] = "register" /\ pc[r] = "201" =>
          r \in Ids /\ Matches(wants[r].password, users[r].hash)
    /\ \A u \in Ids : kind[u] = "register" /\ pc[u] \in {"201", "500"}
    /\ \A u, v \in Ids : users[u].email = users[v].email => u = v

\* Every token a client holds names a user whose password some login has
\* presented, although the login found the user by an e-mail that has since
\* changed hands; and no login was refused that presented the right password.
LoginsAreJust ==
    /\ \A t \in tokens : t.userId \in Ids /\
          \E r \in Requests :
              /\ kind[r] = "login" /\ pc[r] = "200" /\ user[r] = t.userId
              /\ Matches(wants[r].password, users[t.userId].hash)
    /\ \A r \in Requests :
          kind[r] = "login" /\ pc[r] = "400" =>
              ~Matches(wants[r].password, users[user[r]].hash)

\* A user stays registered with its password, and its e-mail and its name
\* change only to what an update under way with a token of that user asks for:
\* two updates at once do not undo each other's columns, and a token of an
\* e-mail's former holder does not reach the present one.
OwnersOnly ==
    [][\A u \in Ids :
          /\ u \in Ids'
          /\ users'[u] # users[u] =>
                /\ users'[u].hash = users[u].hash
                /\ \E t \in tokens : t.userId = u
                /\ \E r \in Requests :
                      /\ kind[r] = "update" /\ pc[r] = "update" /\ user[r] = u
                      /\ users'[u].email \in {users[u].email, wants[r].email} \ {Unset}
                      /\ users'[u].name \in {users[u].name, wants[r].name} \ {Unset}]_vars

=============================================================================
