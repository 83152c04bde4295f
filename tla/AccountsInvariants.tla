------------------------- MODULE AccountsInvariants -------------------------
(***************************************************************************)
(* The inductive invariant of Accounts: how the requests' local state, the *)
(* users table and the tokens belong together.                             *)
(***************************************************************************)
EXTENDS Accounts

\* Who is registered asked for it, has the password it asked for, and shares
\* its e-mail with nobody.
UsersInv ==
    /\ \A u \in Ids :
          /\ kind[u] = "register" /\ pc[u] \in {"201", "500"}
          /\ Matches(wants[u].password, users[u].hash)
    /\ \A u, v \in Ids : users[u].email = users[v].email => u = v

\* A handler that is under way is in its own use case.
KindInv ==
    \A r \in Requests :
        /\ pc[r] = "idle" => kind[r] = "none"
        /\ pc[r] \in {"hash", "create", "201"} => kind[r] = "register"
        /\ pc[r] = "compare" => kind[r] = "login"
        /\ pc[r] = "update" => kind[r] = "update"

\* What a registration knows of its user.
RegisterInv ==
    \A r \in Requests : kind[r] = "register" =>
        /\ wants[r].email \in Emails
        /\ wants[r].name \in Names
        /\ wants[r].password \in Passwords
        /\ pc[r] = "create" => hash[r] = Hash(wants[r].password, r)
        /\ pc[r] = "201" => r \in Ids

\* The hash that a login holds is that of the user it found, who still has it,
\* and the login is answered by it.
LoginInv ==
    \A r \in Requests : kind[r] = "login" =>
        /\ wants[r].email \in Emails
        /\ user[r] \in Ids
        /\ hash[r] = users[user[r]].hash
        /\ pc[r] = "400" => ~Matches(wants[r].password, hash[r])
        /\ pc[r] = "200" => Matches(wants[r].password, hash[r])

\* A token is for a user that some login has found.
TokenInv ==
    \A t \in tokens :
        \E r \in Requests : kind[r] = "login" /\ pc[r] = "200" /\ user[r] = t.userId

\* An update has come with a token of its user.
UpdateInv ==
    \A r \in Requests : kind[r] = "update" =>
        user[r] \in Ids /\ \E t \in tokens : t.userId = user[r]

IInv ==
    TypeOK /\ UsersInv /\ KindInv /\ RegisterInv /\ LoginInv /\ TokenInv /\ UpdateInv

=============================================================================
