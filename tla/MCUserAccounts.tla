--------------------------- MODULE MCUserAccounts ---------------------------
(***************************************************************************)
(* Model checking of UserAccounts: a superuser, a manager and a simple     *)
(* user, none of them with a scope in the beginning.                       *)
(***************************************************************************)
EXTENDS UserAccounts, TLC

CONSTANTS boss, lead, member, s1

Staffing == boss :> "superuser" @@ lead :> "manager" @@ member :> "simpleuser"
Scoping == [u \in Users |-> {}]
Asked == {{s1}}

Symmetry == Permutations(Requests)
=============================================================================
