--------------------------- MODULE Accounts_proofs ---------------------------
(***************************************************************************)
(* Proofs about Accounts, for any number of requests, e-mails, names and   *)
(* passwords.                                                              *)
(***************************************************************************)
EXTENDS AccountsInvariants, TLAPS

\* In the initial state nobody is registered and nothing is under way.
LEMMA InitIInv == Init => IInv
<1> SUFFICES ASSUME Init PROVE IInv
  OBVIOUS
<1>1. Ids = {} /\ tokens = {}
  BY DEF Init, Ids
<1>2. TypeOK
  BY <1>1 DEF Init, TypeOK, Bodies, Empty, MidWay, Answers
<1>3. QED
  BY <1>1, <1>2
     DEF Init, IInv, UsersInv, KindInv, RegisterInv, LoginInv, TokenInv, UpdateInv

\* An update leaves a row a row, with its hash, and changes only the columns
\* that its body provides.
LEMMA UpdatedRow ==
    ASSUME NEW row \in Rows, NEW body \in Bodies
    PROVE  /\ Updated(row, body) \in Rows
           /\ Updated(row, body).hash = row.hash
           /\ Updated(row, body).email = IF body.email = Unset THEN row.email ELSE body.email
           /\ Updated(row, body).name = IF body.name = Unset THEN row.name ELSE body.name
BY DEF Updated, Rows, Bodies

\* A request answered at once leaves everything else as it is.
LEMMA AnswerStep ==
    ASSUME IInv, NEW r \in Requests, NEW status \in {"200", "400", "401", "404"},
           Answer(r, status)
    PROVE  IInv'
<1> USE DEF IInv, Answer, Ids
<1>1. TypeOK'
  BY DEF TypeOK, MidWay, Answers
<1>2. kind[r] = "none" /\ pc' = [pc EXCEPT ![r] = status] /\ pc \in [Requests -> {"idle"} \cup MidWay \cup Answers]
  BY DEF KindInv, TypeOK
<1>3. UsersInv' /\ KindInv'
  BY <1>2 DEF UsersInv, KindInv
<1>4. RegisterInv' /\ LoginInv'
  BY <1>2 DEF RegisterInv, LoginInv
<1>5. TokenInv' /\ UpdateInv'
  BY <1>2 DEF TokenInv, UpdateInv
<1>6. QED
  BY <1>1, <1>3, <1>4, <1>5

\* A registration remembers its body.
LEMMA RegisterFindStep ==
    ASSUME IInv, NEW r \in Requests, RegisterFind(r)
    PROVE  IInv'
<1>1. PICK email \in Emails, name \in Names, password \in Passwords :
         \/ Answer(r, "400")
         \/ /\ Start(r, "register",
                     [email |-> email, name |-> name, password |-> password], "hash")
            /\ UNCHANGED <<user, hash>>
  BY DEF RegisterFind
<1>2. CASE Answer(r, "400")
  BY <1>2, AnswerStep
<1>3. CASE /\ Start(r, "register",
                    [email |-> email, name |-> name, password |-> password], "hash")
           /\ UNCHANGED <<user, hash>>
  <2> DEFINE body == [email |-> email, name |-> name, password |-> password]
  <2>1. body \in Bodies /\ body.email = email /\ body.name = name /\ body.password = password
    BY DEF Bodies
  <2>2. /\ pc[r] = "idle" /\ kind[r] = "none"
        /\ kind' = [kind EXCEPT ![r] = "register"]
        /\ wants' = [wants EXCEPT ![r] = body]
        /\ pc' = [pc EXCEPT ![r] = "hash"]
        /\ UNCHANGED <<users, tokens, user, hash>>
    BY <1>3 DEF Start, IInv, KindInv
  <2> HIDE DEF body
  <2> USE DEF IInv, Ids
  <2>3. TypeOK'
    BY <2>1, <2>2 DEF TypeOK, MidWay
  <2>4. UsersInv' /\ KindInv'
    BY <2>2 DEF UsersInv, KindInv, TypeOK
  <2>5. RegisterInv' /\ LoginInv'
    BY <2>1, <2>2 DEF RegisterInv, LoginInv, TypeOK
  <2>6. TokenInv' /\ UpdateInv'
    BY <2>2 DEF TokenInv, UpdateInv, TypeOK
  <2>7. QED
    BY <2>3, <2>4, <2>5, <2>6
<1>4. QED
  BY <1>1, <1>2, <1>3

\* A login remembers its body, and the id and the hash of the row it found.
LEMMA LoginFindStep ==
    ASSUME IInv, NEW r \in Requests, LoginFind(r)
    PROVE  IInv'
<1>1. PICK email \in Emails, password \in Passwords :
         \/ Answer(r, "404")
         \/ \E u \in FindByEmail(email) :
               /\ Start(r, "login",
                        [email |-> email, name |-> Unset, password |-> password], "compare")
               /\ user' = [user EXCEPT ![r] = u]
               /\ hash' = [hash EXCEPT ![r] = users[u].hash]
  BY DEF LoginFind
<1>2. CASE Answer(r, "404")
  BY <1>2, AnswerStep
<1>3. ASSUME NEW u \in FindByEmail(email),
             Start(r, "login",
                   [email |-> email, name |-> Unset, password |-> password], "compare"),
             user' = [user EXCEPT ![r] = u],
             hash' = [hash EXCEPT ![r] = users[u].hash]
      PROVE  IInv'
  <2> DEFINE body == [email |-> email, name |-> Unset, password |-> password]
  <2>1. body \in Bodies /\ body.email = email
    BY DEF Bodies
  <2>2. /\ pc[r] = "idle" /\ kind[r] = "none"
        /\ kind' = [kind EXCEPT ![r] = "login"]
        /\ wants' = [wants EXCEPT ![r] = body]
        /\ pc' = [pc EXCEPT ![r] = "compare"]
        /\ UNCHANGED <<users, tokens>>
    BY <1>3 DEF Start, IInv, KindInv
  <2> HIDE DEF body
  <2>3. u \in Ids /\ u \in Requests /\ users[u].hash \in Hashes
    BY <1>3 DEF FindByEmail, Rows, IInv, TypeOK, Ids
  <2> USE DEF IInv, Ids
  <2>4. TypeOK'
    BY <1>3, <2>1, <2>2, <2>3 DEF TypeOK, MidWay
  <2>5. UsersInv' /\ KindInv'
    BY <2>2 DEF UsersInv, KindInv, TypeOK
  <2>6. RegisterInv' /\ LoginInv'
    BY <1>3, <2>1, <2>2, <2>3 DEF RegisterInv, LoginInv, TypeOK
  <2>7. TokenInv' /\ UpdateInv'
    BY <1>3, <2>2 DEF TokenInv, UpdateInv, TypeOK
  <2>8. QED
    BY <2>4, <2>5, <2>6, <2>7
<1>4. QED
  BY <1>1, <1>2, <1>3

\* An update remembers its body and the id of the token it came with.
LEMMA UpdateFindStep ==
    ASSUME IInv, NEW r \in Requests, UpdateFind(r)
    PROVE  IInv'
<1>1. PICK token \in tokens, email \in Emails \cup {Unset}, name \in Names \cup {Unset} :
         \/ Answer(r, "404")
         \/ /\ FindById(token.userId) # {}
            /\ Start(r, "update",
                     [email |-> email, name |-> name, password |-> Unset], "update")
            /\ user' = [user EXCEPT ![r] = token.userId]
            /\ UNCHANGED hash
  BY DEF UpdateFind, Authorized
<1>2. CASE Answer(r, "404")
  BY <1>2, AnswerStep
<1>3. CASE /\ FindById(token.userId) # {}
           /\ Start(r, "update",
                    [email |-> email, name |-> name, password |-> Unset], "update")
           /\ user' = [user EXCEPT ![r] = token.userId]
           /\ UNCHANGED hash
  <2> DEFINE body == [email |-> email, name |-> name, password |-> Unset]
  <2>1. body \in Bodies
    BY DEF Bodies
  <2>2. /\ pc[r] = "idle" /\ kind[r] = "none"
        /\ kind' = [kind EXCEPT ![r] = "update"]
        /\ wants' = [wants EXCEPT ![r] = body]
        /\ pc' = [pc EXCEPT ![r] = "update"]
        /\ user' = [user EXCEPT ![r] = token.userId]
        /\ UNCHANGED <<users, tokens, hash>>
    BY <1>3 DEF Start, IInv, KindInv
  <2> HIDE DEF body
  <2>3. token.userId \in Ids /\ token.userId \in Requests
    BY <1>3 DEF FindById, IInv, TypeOK
  <2> USE DEF IInv, Ids
  <2>4. TypeOK'
    BY <2>1, <2>2, <2>3 DEF TypeOK, MidWay
  <2>5. UsersInv' /\ KindInv'
    BY <2>2 DEF UsersInv, KindInv, TypeOK
  <2>6. RegisterInv' /\ LoginInv'
    BY <2>2 DEF RegisterInv, LoginInv, TypeOK
  <2>7. TokenInv' /\ UpdateInv'
    BY <2>2, <2>3 DEF TokenInv, UpdateInv, TypeOK
  <2>8. QED
    BY <2>4, <2>5, <2>6, <2>7
<1>4. QED
  BY <1>1, <1>2, <1>3

\* Hashing only prepares the registration.
LEMMA RegisterHashStep ==
    ASSUME IInv, NEW r \in Requests, RegisterHash(r)
    PROVE  IInv'
<1>1. /\ pc[r] = "hash" /\ kind[r] = "register"
      /\ pc' = [pc EXCEPT ![r] = "create"]
      /\ hash' = [hash EXCEPT ![r] = Hash(wants[r].password, r)]
      /\ UNCHANGED <<users, tokens, kind, wants, user>>
  BY DEF RegisterHash, Goto, IInv, KindInv
<1>2. Hash(wants[r].password, r) \in Hashes
  BY <1>1 DEF IInv, RegisterInv, Hash, Hashes
<1> USE DEF IInv, Ids
<1>3. TypeOK'
  BY <1>1, <1>2 DEF TypeOK, MidWay
<1>4. UsersInv' /\ KindInv'
  BY <1>1 DEF UsersInv, KindInv, TypeOK
<1>5. RegisterInv' /\ LoginInv'
  BY <1>1 DEF RegisterInv, LoginInv, TypeOK
<1>6. TokenInv' /\ UpdateInv'
  BY <1>1 DEF TokenInv, UpdateInv, TypeOK
<1>7. QED
  BY <1>3, <1>4, <1>5, <1>6

\* A failing call only answers its request.
LEMMA AbortStep ==
    ASSUME IInv, NEW r \in Requests, pc[r] \in MidWay, Goto(r, "500"),
           UNCHANGED <<users, tokens, user, hash>>
    PROVE  IInv'
<1>1. pc' = [pc EXCEPT ![r] = "500"] /\ UNCHANGED <<users, tokens, kind, wants, user, hash>>
  BY DEF Goto
<1> USE DEF IInv, Ids
<1>2. TypeOK'
  BY <1>1 DEF TypeOK, Answers
<1>3. UsersInv' /\ KindInv'
  BY <1>1 DEF UsersInv, KindInv, TypeOK
<1>4. RegisterInv' /\ LoginInv'
  BY <1>1 DEF RegisterInv, LoginInv, TypeOK
<1>5. TokenInv' /\ UpdateInv'
  BY <1>1 DEF TokenInv, UpdateInv, TypeOK, MidWay
<1>6. QED
  BY <1>2, <1>3, <1>4, <1>5

\* Comparing decides the login, and signs a token when the password is right.
LEMMA LoginCompareStep ==
    ASSUME IInv, NEW r \in Requests, LoginCompare(r)
    PROVE  IInv'
<1> DEFINE token == [userId |-> user[r], email |-> wants[r].email]
<1>1. /\ pc[r] = "compare" /\ kind[r] = "login"
      /\ UNCHANGED <<users, kind, wants, user, hash>>
  BY DEF LoginCompare, Goto, IInv, KindInv
<1>2. token \in Tokens /\ token.userId = user[r]
  BY <1>1 DEF Tokens, IInv, TypeOK, LoginInv
<1> HIDE DEF token
<1>3. CASE /\ Matches(wants[r].password, hash[r])
           /\ tokens' = tokens \cup {token}
           /\ pc' = [pc EXCEPT ![r] = "200"]
  <2> USE DEF IInv, Ids
  <2>1. TypeOK'
    BY <1>1, <1>2, <1>3 DEF TypeOK, Answers
  <2>2. UsersInv' /\ KindInv'
    BY <1>1, <1>3 DEF UsersInv, KindInv, TypeOK
  <2>3. RegisterInv'
    BY <1>1, <1>3 DEF RegisterInv, TypeOK
  <2>4. LoginInv'
    BY <1>1, <1>3 DEF LoginInv, TypeOK
  <2>5. TokenInv' /\ UpdateInv'
    BY <1>1, <1>2, <1>3 DEF TokenInv, UpdateInv, TypeOK
  <2>6. QED
    BY <2>1, <2>2, <2>3, <2>4, <2>5
<1>4. CASE /\ ~Matches(wants[r].password, hash[r])
           /\ UNCHANGED tokens
           /\ pc' = [pc EXCEPT ![r] = "400"]
  <2> USE DEF IInv, Ids
  <2>1. TypeOK'
    BY <1>1, <1>4 DEF TypeOK, Answers
  <2>2. UsersInv' /\ KindInv'
    BY <1>1, <1>4 DEF UsersInv, KindInv, TypeOK
  <2>3. RegisterInv' /\ LoginInv'
    BY <1>1, <1>4 DEF RegisterInv, LoginInv, TypeOK
  <2>4. TokenInv' /\ UpdateInv'
    BY <1>1, <1>4 DEF TokenInv, UpdateInv, TypeOK
  <2>5. QED
    BY <2>1, <2>2, <2>3, <2>4
<1>5. QED
  BY <1>3, <1>4 DEF LoginCompare, Goto, token

\* A new row has an e-mail that nobody has and the hash of its own request.
LEMMA RegisterCreateStep ==
    ASSUME IInv, NEW r \in Requests, RegisterCreate(r)
    PROVE  IInv'
<1>1. pc[r] = "create" /\ kind[r] = "register" /\ r \notin Ids
  BY DEF RegisterCreate, IInv, KindInv, UsersInv
<1>2. CASE UNCHANGED users /\ Goto(r, "500")
  BY <1>1, <1>2, AbortStep DEF RegisterCreate, MidWay
<1>3. CASE /\ FindByEmail(wants[r].email) = {}
           /\ Create(r, NewRow(r))
           /\ Goto(r, "201") \/ Goto(r, "500")
  <2> DEFINE row == NewRow(r)
  <2>1. /\ wants[r].email \in Emails /\ wants[r].name \in Names
        /\ wants[r].password \in Passwords
        /\ hash[r] = Hash(wants[r].password, r)
    BY <1>1 DEF IInv, RegisterInv
  <2>2. /\ row \in Rows /\ row.email = wants[r].email
        /\ Matches(wants[r].password, row.hash)
    BY <2>1 DEF NewRow, Rows, Hashes, Hash, Matches
  <2>3. PICK status \in {"201", "500"} : pc' = [pc EXCEPT ![r] = status]
    BY <1>3 DEF Goto
  <2>4. UNCHANGED <<tokens, kind, wants, user, hash>>
    BY <1>3 DEF RegisterCreate, Goto
  <2> HIDE DEF row
  <2>5. users' = [u \in Ids \cup {r} |-> IF u = r THEN row ELSE users[u]]
    BY <1>3 DEF Create, row
  <2>6. /\ Ids' = Ids \cup {r} /\ users'[r] = row
        /\ \A u \in Ids : users'[u] = users[u]
    BY <1>1, <2>5 DEF Ids
  <2> USE DEF IInv
  <2>7. TypeOK'
    <3>1. users' \in [Ids' -> Rows]
      BY <2>2, <2>5, <2>6 DEF TypeOK
    <3>2. QED
      BY <2>3, <2>4, <2>6, <3>1 DEF TypeOK, Answers
  <2>8. UsersInv'
    <3>1. \A u \in Ids : users[u].email # row.email
      BY <1>3, <2>2 DEF FindByEmail
    <3>2. ASSUME NEW u \in Ids'
          PROVE  /\ kind'[u] = "register" /\ pc'[u] \in {"201", "500"}
                 /\ Matches(wants'[u].password, users'[u].hash)
      BY <1>1, <2>2, <2>3, <2>4, <2>6 DEF UsersInv, TypeOK
    <3>3. ASSUME NEW u \in Ids', NEW v \in Ids', users'[u].email = users'[v].email
          PROVE  u = v
      BY <2>6, <3>1, <3>3 DEF UsersInv
    <3>4. QED
      BY <3>2, <3>3 DEF UsersInv
  <2>9. KindInv'
    BY <1>1, <2>3, <2>4 DEF KindInv, TypeOK
  <2>10. RegisterInv' /\ LoginInv'
    BY <1>1, <2>3, <2>4, <2>6 DEF RegisterInv, LoginInv, TypeOK
  <2>11. TokenInv' /\ UpdateInv'
    BY <1>1, <2>3, <2>4, <2>6 DEF TokenInv, UpdateInv, TypeOK
  <2>12. QED
    BY <2>7, <2>8, <2>9, <2>10, <2>11
<1>4. QED
  BY <1>2, <1>3 DEF RegisterCreate

\* An update writes its own user's row, and an e-mail that nobody else has.
LEMMA UpdateApplyStep ==
    ASSUME IInv, NEW r \in Requests, UpdateApply(r)
    PROVE  IInv'
<1>1. pc[r] = "update" /\ kind[r] = "update" /\ user[r] \in Ids
  BY DEF UpdateApply, IInv, KindInv, UpdateInv
<1>2. CASE UNCHANGED users /\ Goto(r, "500")
  BY <1>1, <1>2, AbortStep DEF UpdateApply, MidWay
<1>3. CASE /\ ~Clashes(r)
           /\ Update(user[r], wants[r])
           /\ Goto(r, "200") \/ Goto(r, "500")
  <2> DEFINE id == user[r]
             row == Updated(users[id], wants[r])
  <2>1. users[id] \in Rows /\ wants[r] \in Bodies
    BY <1>1 DEF IInv, TypeOK
  <2>2. /\ row \in Rows /\ row.hash = users[id].hash
        /\ row.email = IF wants[r].email = Unset THEN users[id].email ELSE wants[r].email
    BY <2>1, UpdatedRow
  <2>3. PICK status \in {"200", "500"} : pc' = [pc EXCEPT ![r] = status]
    BY <1>3 DEF Goto
  <2>4. UNCHANGED <<tokens, kind, wants, user, hash>>
    BY <1>3 DEF UpdateApply, Goto
  <2> HIDE DEF row
  <2>5. users' = [users EXCEPT ![id] = row]
    BY <1>3 DEF Update, row
  <2>6. /\ Ids' = Ids /\ users'[id] = row
        /\ \A u \in Ids \ {id} : users'[u] = users[u]
        /\ \A u \in Ids : users'[u].hash = users[u].hash
    BY <1>1, <2>2, <2>5 DEF IInv, TypeOK, Ids
  <2> USE DEF IInv
  <2>7. TypeOK'
    <3>1. users' \in [Ids' -> Rows]
      BY <2>2, <2>5, <2>6 DEF TypeOK
    <3>2. QED
      BY <2>3, <2>4, <2>6, <3>1 DEF TypeOK, Answers
  <2>8. UsersInv'
    <3>1. \A u \in Ids \ {id} : users[u].email # row.email
      BY <1>1, <1>3, <2>2 DEF Clashes, FindByEmail, UsersInv
    <3>2. ASSUME NEW u \in Ids'
          PROVE  /\ kind'[u] = "register" /\ pc'[u] \in {"201", "500"}
                 /\ Matches(wants'[u].password, users'[u].hash)
      BY <1>1, <2>3, <2>4, <2>6 DEF UsersInv, TypeOK, Matches
    <3>3. ASSUME NEW u \in Ids', NEW v \in Ids', users'[u].email = users'[v].email
          PROVE  u = v
      BY <2>6, <3>1, <3>3 DEF UsersInv
    <3>4. QED
      BY <3>2, <3>3 DEF UsersInv
  <2>9. KindInv'
    BY <1>1, <2>3, <2>4 DEF KindInv, TypeOK
  <2>10. RegisterInv' /\ LoginInv'
    BY <1>1, <2>3, <2>4, <2>6 DEF RegisterInv, LoginInv, TypeOK
  <2>11. TokenInv' /\ UpdateInv'
    BY <1>1, <2>3, <2>4, <2>6 DEF TokenInv, UpdateInv, TypeOK
  <2>12. QED
    BY <2>7, <2>8, <2>9, <2>10, <2>11
<1>4. QED
  BY <1>2, <1>3 DEF UpdateApply

\* Every step preserves the inductive invariant.
LEMMA StepIInv == IInv /\ [Next]_vars => IInv'
<1> SUFFICES ASSUME IInv, [Next]_vars PROVE IInv'
  OBVIOUS
<1>1. ASSUME NEW r \in Requests, Register(r) PROVE IInv'
  BY <1>1, RegisterFindStep, RegisterHashStep, RegisterCreateStep DEF Register
<1>2. ASSUME NEW r \in Requests, Login(r) PROVE IInv'
  BY <1>2, LoginFindStep, LoginCompareStep DEF Login
<1>3. ASSUME NEW r \in Requests, UpdateMe(r) PROVE IInv'
  BY <1>3, UpdateFindStep, UpdateApplyStep DEF UpdateMe
<1>4. ASSUME NEW r \in Requests, Refuse(r) \/ Unauthorized(r) \/ GetMe(r) PROVE IInv'
  BY <1>4, AnswerStep DEF Refuse, Unauthorized, GetMe, CurrentUser
<1>5. ASSUME NEW r \in Requests, Fails(r) PROVE IInv'
  BY <1>5, AbortStep DEF Fails
<1>6. CASE UNCHANGED vars
  BY <1>6 DEF vars, IInv, TypeOK, UsersInv, KindInv, RegisterInv, LoginInv, TokenInv,
              UpdateInv, Ids
<1> QED
  BY <1>1, <1>2, <1>3, <1>4, <1>5, <1>6 DEF Next, Handle

\* The inductive invariant, from which the properties follow.
THEOREM AccountsInductive == Spec => []IInv
BY InitIInv, StepIInv, PTL DEF Spec

\* A registration that was confirmed is never lost, overwritten or shared.
THEOREM RegistrationsHold == Spec => []RegistrationHolds
<1>1. IInv => RegistrationHolds
  BY DEF IInv, UsersInv, RegisterInv, RegistrationHolds
<1>2. QED
  BY <1>1, AccountsInductive, PTL

\* Tokens are given to, and only to, logins with the user's password.
THEOREM TokensAreEarned == Spec => []LoginsAreJust
<1>1. IInv => LoginsAreJust
  BY DEF IInv, LoginInv, TokenInv, LoginsAreJust
<1>2. QED
  BY <1>1, AccountsInductive, PTL

\* A row changes only by an update that its user has authorised, and only in
\* the columns that the update provides.
THEOREM RowsHaveOneWriter == Spec => OwnersOnly
<1> DEFINE Owned ==
      \A u \in Ids :
          /\ u \in Ids'
          /\ users'[u] # users[u] =>
                /\ users'[u].hash = users[u].hash
                /\ \E t \in tokens : t.userId = u
                /\ \E r \in Requests :
                      /\ kind[r] = "update" /\ pc[r] = "update" /\ user[r] = u
                      /\ users'[u].email \in {users[u].email, wants[r].email} \ {Unset}
                      /\ users'[u].name \in {users[u].name, wants[r].name} \ {Unset}
<1>1. ASSUME UNCHANGED users PROVE Owned
  BY <1>1 DEF Ids
<1>2. ASSUME IInv, NEW r \in Requests, RegisterCreate(r) PROVE Owned
  <2>1. r \notin Ids
    BY <1>2 DEF RegisterCreate, IInv, UsersInv
  <2>2. QED
    BY <1>1, <1>2, <2>1 DEF RegisterCreate, Create, Ids
<1>3. ASSUME IInv, NEW r \in Requests, UpdateApply(r) PROVE Owned
  <2> DEFINE row == Updated(users[user[r]], wants[r])
  <2>1. /\ pc[r] = "update" /\ kind[r] = "update" /\ user[r] \in Ids
        /\ \E t \in tokens : t.userId = user[r]
    BY <1>3 DEF UpdateApply, IInv, KindInv, UpdateInv
  <2>2. CASE UNCHANGED users
    BY <2>2, <1>1
  <2>3. CASE users' = [users EXCEPT ![user[r]] = row]
    <3>1. users[user[r]] \in Rows /\ wants[r] \in Bodies /\ users \in [Ids -> Rows]
      BY <1>3, <2>1 DEF IInv, TypeOK
    <3>2. /\ row.hash = users[user[r]].hash
          /\ row.email = IF wants[r].email = Unset THEN users[user[r]].email ELSE wants[r].email
          /\ row.name = IF wants[r].name = Unset THEN users[user[r]].name ELSE wants[r].name
      BY <3>1, UpdatedRow
    <3>3. users[user[r]].email # Unset /\ users[user[r]].name # Unset
      BY <3>1, UnsetAssumption DEF Rows
    <3> HIDE DEF row
    <3>4. /\ row.email \in {users[user[r]].email, wants[r].email} \ {Unset}
          /\ row.name \in {users[user[r]].name, wants[r].name} \ {Unset}
      BY <3>2, <3>3
    <3>5. Ids' = Ids /\ users'[user[r]] = row /\ \A u \in Ids \ {user[r]} : users'[u] = users[u]
      BY <2>1, <2>3, <3>1 DEF Ids
    <3>6. QED
      BY <2>1, <3>2, <3>4, <3>5
  <2>4. QED
    BY <1>3, <2>2, <2>3 DEF UpdateApply, Update
<1>4. IInv /\ [Next]_vars => [Owned]_vars
  <2> SUFFICES ASSUME IInv, Next PROVE Owned
    OBVIOUS
  <2> HIDE DEF Owned
  <2>1. PICK r \in Requests : Handle(r)
    BY DEF Next
  <2>2. CASE RegisterCreate(r) \/ UpdateApply(r)
    BY <2>2, <1>2, <1>3
  <2>3. CASE ~(RegisterCreate(r) \/ UpdateApply(r))
    <3>1. UNCHANGED users
      BY <2>1, <2>3
         DEF Handle, Refuse, Unauthorized, GetMe, Fails, Register, RegisterFind,
             RegisterHash, Login, LoginFind, LoginCompare, UpdateMe, UpdateFind, Answer, Start
    <3>2. QED
      BY <3>1, <1>1
  <2>4. QED
    BY <2>2, <2>3
<1>5. QED
  BY <1>4, AccountsInductive, PTL DEF Spec, OwnersOnly

=============================================================================
