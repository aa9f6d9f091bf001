------------------------------ MODULE MCAccounts ------------------------------
(* Small instances of Accounts.                                            *)
EXTENDS Accounts, TLC

CONSTANTS e1, w1

\* Move to an address that may be taken, keep one's own, or be demoted with a
\* new password.
SomeChanges ==
    {[Nothing EXCEPT !.email = e1], [Nothing EXCEPT !.email = RootEmail],
     [Nothing EXCEPT !.password = w1, !.role = User]}

\* Demote, or promote again.
RoleChanges == {[Nothing EXCEPT !.role = role] : role \in {User, Admin}}

\* Requests are interchangeable, and so are the ids the seeded account has not.
Symmetry == Permutations(Requests) \cup Permutations(Ids \ {Root})
=============================================================================
