--------------------------- MODULE MCPermissions ---------------------------
(***************************************************************************)
(* Model checking of Permissions: a manager and a simple user in one       *)
(* scope, an object of that scope, and one still to be created.            *)
(***************************************************************************)
EXTENDS Permissions, TLC

CONSTANTS lead, member, team, s1, item, other

Staffing == lead :> "manager" @@ member :> "simpleuser"
Scoping == [u \in Users |-> {s1}]
Membership == team :> {member}
Table == item :> [owner |-> lead, scope |-> s1, public |-> FALSE]
         @@ other :> NoRow
Naming == [l \in Lists |-> [o \in Objects |->
             CASE l = "can_admin_users" /\ o = item -> {member}
               [] l = "can_admin_groups" /\ o = item -> {team}
               [] OTHER -> {}]]
Levels == [m \in {"POST", "PUT", "DELETE"} |->
             IF m = "DELETE" THEN "manager" ELSE "authenticated"]
Roles == [u \in Users \cup {NoUser} |-> {"POST", "PUT", "DELETE"}]
Bodies == {[public |-> TRUE, lists |-> NoLists],
           [public |-> FALSE, lists |-> NoLists],
           [public |-> Keep, lists |-> "can_view_users" :> {member}]}
Assigned == {{}, {s1}}

Symmetry == Permutations(Requests)
=============================================================================
