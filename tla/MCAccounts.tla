----------------------------- MODULE MCAccounts -----------------------------
(***************************************************************************)
(* An instance of Accounts for TLC.  Requests, e-mails, names and          *)
(* passwords are interchangeable.                                          *)
(***************************************************************************)
EXTENDS AccountsInvariants, TLC

Symmetry ==
    Permutations(Requests) \cup Permutations(Emails)
        \cup Permutations(Names) \cup Permutations(Passwords)

=============================================================================
