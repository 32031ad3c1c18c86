---------------------------- MODULE Permissions ----------------------------
(***************************************************************************)
(* Who may see and change the objects of concrete-datastore: the filters   *)
(* of get_queryset, has_object_permission, and the lists of an object that *)
(* name users and groups (can_view_users, can_admin_users and their group  *)
(* forms), under concurrent requests.                                      *)
(*                                                                         *)
(* An update loads the object once, checks it twice, writes the whole row  *)
(* that it loaded, and then writes each list in a query of its own.        *)
(* A user who loses a scope is first taken off the lists of the objects of *)
(* that scope, one list after the other.  No transaction spans two of      *)
(* these queries.                                                          *)
(***************************************************************************)
EXTENDS Integers, Functions

CONSTANTS
    Users, Groups,
    Scopes,         \* instances of the divider model
    Objects,        \* uids that objects can have
    Undivided,      \* those of models without a scope
    Requests,       \* request slots
    InitialLevel, InitialScopes, InitialMembers, InitialRows, InitialLists,
    Minimum,        \* the level that a model asks for, per method
    RoleMethods,    \* the methods that the roles of a user allow
    DefaultPublic,  \* the model property m_is_default_public
    AskedBodies,    \* request bodies of creations and updates
    AskedHeaders,   \* the X-Entity-Uid of a request
    AskedLevels,    \* levels and scopes that the accounts are given
    AskedScopes,
    MaxRequests,    \* bound of the model on the requests made
    NoUser, NoScope, NoRow,
    WrongScope,     \* an X-Entity-Uid of no scope
    Keep            \* a request body without the field

\* CRUD_LEVEL and LIST_USER_LEVEL, by rank.
Rank == [anonymous |-> 0, blocked |-> 0, authenticated |-> 1, simpleuser |-> 1,
         manager |-> 2, admin |-> 3, superuser |-> 4]
UserLevels == {"blocked", "simpleuser", "manager", "admin", "superuser"}
Staff == {"manager", "admin", "superuser"}      \* is_at_least_staff
Admins == {"admin", "superuser"}                \* is_at_least_admin

UserLists == {"can_view_users", "can_admin_users"}
AdminLists == {"can_admin_users", "can_admin_groups"}
Lists == UserLists \cup AdminLists \cup {"can_view_groups"}
Names == Users \cup Groups

Row == [owner: Users \cup {NoUser}, scope: Scopes \cup {NoScope}, public: BOOLEAN]
Body == [public: BOOLEAN \cup {Keep},
         lists: UNION {[L -> SUBSET Names] : L \in SUBSET Lists}]
NoLists == [l \in {} |-> {}]
NoBody == [public |-> Keep, lists |-> NoLists]

ASSUME ConstantsAssumption ==
    /\ Undivided \subseteq Objects
    /\ InitialLevel \in [Users -> UserLevels]
    /\ InitialScopes \in [Users -> SUBSET Scopes]
    /\ InitialMembers \in [Groups -> SUBSET Users]
    /\ InitialRows \in [Objects -> Row \cup {NoRow}]
    /\ InitialLists \in [Lists -> [Objects -> SUBSET Names]]
    /\ \A o \in Objects : InitialRows[o] = NoRow =>
         \A l \in Lists : InitialLists[l][o] = {}
    /\ \A o \in Undivided : InitialRows[o] # NoRow => InitialRows[o].scope = NoScope
    /\ Minimum \in [{"POST", "PUT", "DELETE"} -> DOMAIN Rank]
    /\ RoleMethods \in [Users \cup {NoUser} -> SUBSET {"POST", "PUT", "DELETE"}]
    /\ DefaultPublic \in BOOLEAN
    /\ AskedBodies \subseteq Body
    /\ AskedHeaders \subseteq Scopes \cup {NoScope, WrongScope}
    /\ AskedLevels \subseteq UserLevels /\ AskedScopes \subseteq SUBSET Scopes
    /\ MaxRequests \in Nat
    /\ NoUser \notin Users /\ NoRow \notin Row /\ Keep \notin BOOLEAN
    /\ NoScope \notin Scopes /\ WrongScope \notin Scopes \cup {NoScope}

VARIABLES
    level,    \* level[u]
    scopes,   \* scopes[u]: the dividers of u
    members,  \* members[g]: the users of group g
    rows,     \* rows[o]: the row of object o, or NoRow
    spent,    \* uids given to an object, now or earlier
    lists,    \* lists[l][o]: the users or groups that list l of o names
    request,  \* request[r]: the state of request slot r
    started,  \* requests made so far
    left,     \* history: <<u, s>> if u was taken off the lists of scope s to
              \* lose s, and does not have it
    late,     \* history: <<l, o, u>> if list l of o was given the name u while
              \* u was losing a scope, or did not have the scope of o
    hidden,   \* history: objects made private while no update held a public row
    entitled  \* history: <<u, o>> if u could change o at some time

accounts == <<level, scopes, members>>
objects == <<rows, spent, lists>>
vars == <<accounts, objects, request, started, left, late, hidden, entitled>>

IdleRequest == [pc |-> "idle"]
ObjectRequest ==
    [pc: {"load", "recheck", "insert", "save", "delete", "lists"},
     op: {"create", "update", "delete"},
     by: Users \cup {NoUser}, rank: UserLevels \cup {"anonymous"},
     header: Scopes \cup {NoScope, WrongScope},      \* X-Entity-Uid
     object: Objects, body: Body,     \* the lists still to write
     copy: Row \cup {NoRow}]                         \* the row loaded
AccountRequest ==
    [pc: {"view", "admin", "remove", "ungroup"},
     op: {"leave", "rescope", "block", "init"},
     target: Users, losing: SUBSET Scopes,
     to: SUBSET Scopes,       \* the scopes that rescope assigns
     cleared: SUBSET Scopes]  \* history: scopes whose lists were cleared
RequestState == {IdleRequest} \cup ObjectRequest \cup AccountRequest

Set(r, state) == request' = [request EXCEPT ![r] = state]
Target(r) == request[r].target
-----------------------------------------------------------------------------
(***************************************************************************)
(* What a user may see and change.                                         *)
(***************************************************************************)

\* can_..._users__pk = user.pk, can_..._groups__pk__in = user.concrete_groups
Named(u, some, o) ==
    \E l \in some : u \in lists[l][o] \/ \E g \in lists[l][o] \cap Groups : u \in members[g]

\* filter_queryset_by_permissions
Permitted(u, rank, o) ==
    \/ rows[o].public
    \/ u # NoUser /\ (rows[o].owner = u \/ Named(u, Lists, o))
    \/ rank \in Admins
    \/ rank = "manager" /\ rows[o].scope \in scopes[u]

\* filter_queryset_by_divider, for a header that counts: that of a model with
\* scopes.  No row has a WrongScope.
InDivider(u, rank, header, o) ==
    header # NoScope /\ o \notin Undivided =>
        /\ rows[o].scope = header
        /\ rank \in Admins \cup {"anonymous"} \/ rows[o].scope \in scopes[u]

InQueryset(u, rank, header, o) ==
    rows[o] # NoRow /\ Permitted(u, rank, o) /\ InDivider(u, rank, header, o)

\* check_divider_permission
DividerAllows(u, o) ==
    o \in Undivided \/ rows[o].scope \in scopes[u] \cup {NoScope}

\* has_object_permission for a method that is not safe
MayChange(u, rank, o) ==
    /\ u # NoUser
    /\ \/ rank \in Admins
       \/ rows[o].owner = u
       \/ Named(u, AdminLists, o)
       \/ rank \in Staff /\ DividerAllows(u, o)

\* Faulty variant: get_object that only filters.
GetObjectFiltered(r) ==
    LET q == request[r] IN InQueryset(q.by, q.rank, q.header, q.object)

\* get_object, with the user as authenticated and the tables as they are.
GetObject(r) ==
    LET q == request[r] IN
    /\ InQueryset(q.by, q.rank, q.header, q.object)
    /\ MayChange(q.by, q.rank, q.object)

\* check_minimum_level, check_roles
MethodAllowed(u, rank, method) ==
    /\ Rank[rank] >= Rank[Minimum[method]]
    /\ rank \in Admins \/ method \in RoleMethods[u]
-----------------------------------------------------------------------------
(***************************************************************************)
(* Requests on objects.                                                    *)
(***************************************************************************)
Spend(r, state) ==
    /\ request[r].pc = "idle"
    /\ started < MaxRequests /\ started' = started + 1
    /\ Set(r, state)

MethodOf == [create |-> "POST", update |-> "PUT", delete |-> "DELETE"]

\* Authentication and has_permission.
Start(r, op, u, o, header, body) ==
    LET rank == IF u = NoUser THEN "anonymous" ELSE level[u] IN
    /\ rank # "blocked" /\ MethodAllowed(u, rank, MethodOf[op])
    /\ op = "create" <=> o \notin spent
    /\ Spend(r, [pc |-> IF op = "create" THEN "insert" ELSE "load",
                 op |-> op, by |-> u, rank |-> rank, header |-> header,
                 object |-> o, body |-> body, copy |-> NoRow])
    /\ UNCHANGED <<accounts, objects, left, late, hidden>>

\* Faulty variant: a body without the field sets the default.
WrittenDefault(row, body) ==
    [row EXCEPT !.public = IF body.public = Keep THEN DefaultPublic ELSE body.public]

\* The row with what the body changes.
Written(row, body) ==
    [row EXCEPT !.public = IF body.public = Keep THEN @ ELSE body.public]

Load(r) ==
    /\ request[r].pc = "load" /\ GetObject(r)
    /\ request' = [request EXCEPT
         ![r].pc = "recheck",
         ![r].copy = Written(rows[request[r].object], request[r].body)]
    /\ UNCHANGED <<accounts, objects, started, left, late, hidden>>

\* perform_update and the destroy of the superclass call get_object again, and
\* the update keeps the row of the first call.
Recheck(r) ==
    /\ request[r].pc = "recheck" /\ GetObject(r)
    /\ request' = [request EXCEPT
         ![r].pc = IF request[r].op = "update" THEN "save" ELSE "delete"]
    /\ UNCHANGED <<accounts, objects, started, left, late, hidden>>

AfterRow(r) ==
    IF request[r].body.lists = NoLists THEN IdleRequest
    ELSE [request[r] EXCEPT !.pc = "lists"]

\* perform_create: the scope is that of the header, whether the user has it or
\* not, and none for a WrongScope; the uid is new.
Insert(r) ==
    LET q == request[r]
        scope == IF q.header \in Scopes /\ q.object \notin Undivided
                 THEN q.header ELSE NoScope
        row == [owner |-> q.by, scope |-> scope, public |-> DefaultPublic] IN
    /\ q.pc = "insert" /\ q.object \notin spent
    /\ rows' = [rows EXCEPT ![q.object] = Written(row, q.body)]
    /\ spent' = spent \cup {q.object}
    /\ Set(r, AfterRow(r))
    /\ UNCHANGED <<accounts, lists, started, left, late, hidden>>

\* Updates that hold a row that they will write with public true.
Publishing(o) ==
    {r \in Requests : /\ request[r].pc \in {"recheck", "save"}
                      /\ request[r].object = o /\ request[r].op = "update"
                      /\ request[r].copy.public}

\* instance.save(): every field of the row, which is inserted again if it was
\* deleted meanwhile.
Save(r) ==
    LET q == request[r] IN
    /\ q.pc = "save"
    /\ rows' = [rows EXCEPT ![q.object] = q.copy]
    /\ Set(r, AfterRow(r))
    /\ hidden' = CASE q.body.public = TRUE -> hidden \ {q.object}
                   [] q.body.public = FALSE /\ Publishing(q.object) = {} ->
                        hidden \cup {q.object}
                   [] OTHER -> hidden
    /\ UNCHANGED <<accounts, spent, lists, started, left, late>>

\* Users who are losing a scope.
Leaving == {request[r].target : r \in {q \in Requests :
                request[q].pc \in {"view", "admin", "remove"}}}

\* manager.set(): one list, in any order.
SetList(r) ==
    LET q == request[r] IN
    /\ q.pc = "lists"
    /\ \E l \in DOMAIN q.body.lists :
         LET names == q.body.lists[l]
             rest == Restrict(q.body.lists, DOMAIN q.body.lists \ {l})
             state == [q EXCEPT !.body.lists = rest] IN
         /\ rows[q.object] # NoRow \/ names = {}      \* foreign key
         /\ lists' = [lists EXCEPT ![l][q.object] = names]
         /\ late' = {e \in late : e[1] # l \/ e[2] # q.object}
                      \cup {<<l, q.object, u>> : u \in
                              {n \in names \cap Users :
                                 \/ n \in Leaving
                                 \/ rows[q.object].scope \notin scopes[n]}}
         /\ Set(r, IF rest = NoLists THEN IdleRequest ELSE state)
    /\ UNCHANGED <<accounts, rows, spent, started, left, hidden>>

\* Faulty variant: the rows of the lists stay.
DeleteRowOnly(r) ==
    /\ request[r].pc = "delete"
    /\ rows' = [rows EXCEPT ![request[r].object] = NoRow]
    /\ Set(r, IdleRequest)
    /\ UNCHANGED <<accounts, lists, late, spent, started, left, hidden>>

\* The row, with what the lists hold of it.
Delete(r) ==
    LET o == request[r].object IN
    /\ request[r].pc = "delete"
    /\ rows' = [rows EXCEPT ![o] = NoRow]
    /\ lists' = [l \in Lists |-> [lists[l] EXCEPT ![o] = {}]]
    /\ late' = {e \in late : e[2] # o}
    /\ Set(r, IdleRequest)
    /\ UNCHANGED <<accounts, spent, started, left, hidden>>
-----------------------------------------------------------------------------
(***************************************************************************)
(* Requests that take scopes away from a user, once UserAccounts accepts   *)
(* them: DELETE with an X-Entity-Uid, an update with scopes, a block; and  *)
(* the command init_app.                                                   *)
(***************************************************************************)
AccountState(op, t, losing, to) ==
    [pc |-> "view", op |-> op, target |-> t, losing |-> losing, to |-> to,
     cleared |-> {}]

StartLeave(r, t, s) ==
    /\ s \in scopes[t]
    /\ Spend(r, AccountState("leave", t, {s}, {}))
    /\ UNCHANGED level

StartRescope(r, t, to) ==
    /\ Spend(r, AccountState("rescope", t, scopes[t] \ to, to))
    /\ UNCHANGED level

\* The signal of the save that blocks; init_app does the same to a user who is
\* blocked already.
StartBlock(r, t) ==
    /\ Spend(r, AccountState("block", t, {}, {}))
    /\ level' = [level EXCEPT ![t] = "blocked"]

\* init_app, for a user who is active.
StartInit(r, t) ==
    /\ level[t] # "blocked"
    /\ Spend(r, AccountState("init", t, {}, {}))
    /\ UNCHANGED level

StartAccount(r) ==
    /\ \E t \in Users :
         \/ \E s \in Scopes : StartLeave(r, t, s)
         \/ \E to \in AskedScopes : StartRescope(r, t, to)
         \/ StartBlock(r, t)
         \/ StartInit(r, t)
    /\ UNCHANGED <<scopes, members, objects, left, late, hidden>>

\* The scopes whose lists are cleared: a block and init_app compute them in the
\* query itself.
Losing(r) ==
    CASE request[r].op = "block" -> scopes[Target(r)]
      [] request[r].op = "init"  -> Scopes \ scopes[Target(r)]
      [] OTHER -> request[r].losing

\* <<u, s>> pairs after u was taken off the lists of the scopes in cleared, and
\* has those in held.
LeftAfter(u, cleared, held) ==
    {e \in left \cup ({u} \X cleared) : e[1] = u => e[2] \notin held}

\* Faulty variant: the objects are found, and saved as they are.
KeepList(r, l) == UNCHANGED <<lists, late>>

\* remove_instances_user_tracked_fields, for one of the lists.
ClearList(r, l) ==
    LET t == Target(r)
        cleared == {o \in Objects : rows[o] # NoRow /\ rows[o].scope \in Losing(r)} IN
    /\ lists' = [lists EXCEPT ![l] = [o \in Objects |->
                   IF o \in cleared THEN @[o] \ {t} ELSE @[o]]]
    /\ late' = late \ {<<l, o, t>> : o \in cleared}

\* No scope is lost: remove_instances_user_tracked_fields returns at once.
SkipLists(r) ==
    /\ request[r].pc = "view" /\ Losing(r) = {}
    /\ Set(r, IF request[r].op = "init" THEN IdleRequest
              ELSE [request[r] EXCEPT !.pc = "remove"])
    /\ UNCHANGED <<accounts, objects, started, left, late, hidden>>

ClearViewers(r) ==
    /\ request[r].pc = "view" /\ Losing(r) # {}
    /\ ClearList(r, "can_view_users")
    /\ request' = [request EXCEPT ![r].pc = "admin", ![r].cleared = Losing(r)]
    /\ UNCHANGED <<accounts, rows, spent, started, left, hidden>>

ClearAdmins(r) ==
    LET cleared == request[r].cleared \cap Losing(r) IN
    /\ request[r].pc = "admin" /\ ClearList(r, "can_admin_users")
    /\ IF request[r].op = "init"
       THEN /\ Set(r, IdleRequest)
            /\ left' = LeftAfter(Target(r), cleared, scopes[Target(r)])
       ELSE /\ request' = [request EXCEPT ![r].pc = "remove", ![r].cleared = cleared]
            /\ UNCHANGED left
    /\ UNCHANGED <<accounts, rows, spent, started, hidden>>

\* remove_user_divider, serializer.save() with scopes, divider_manager.clear()
Remove(r) ==
    LET q == request[r]
        held == CASE q.op = "leave" -> scopes[q.target] \ q.losing
                  [] q.op = "rescope" -> q.to
                  [] q.op = "block" -> {} IN
    /\ q.pc = "remove"
    /\ scopes' = [scopes EXCEPT ![q.target] = held]
    /\ left' = LeftAfter(q.target, q.cleared, held)
    /\ Set(r, IF q.op = "block" THEN [q EXCEPT !.pc = "ungroup"] ELSE IdleRequest)
    /\ UNCHANGED <<level, members, objects, started, late, hidden>>

\* on_post_save: instance.concrete_groups.clear()
Ungroup(r) ==
    /\ request[r].pc = "ungroup"
    /\ members' = [g \in Groups |-> members[g] \ {Target(r)}]
    /\ Set(r, IdleRequest)
    /\ UNCHANGED <<level, scopes, objects, started, left, late, hidden>>

\* A user's level is set otherwise than by a block.
SetLevel(u, l) ==
    /\ started < MaxRequests /\ started' = started + 1
    /\ level' = [level EXCEPT ![u] = l]
    /\ UNCHANGED <<scopes, members, objects, request, left, late, hidden>>

\* A refusal, an exception or the end of the worker: what was saved stays.
End(r) ==
    /\ request[r].pc # "idle" /\ Set(r, IdleRequest)
    /\ UNCHANGED <<accounts, objects, started, left, late, hidden>>
-----------------------------------------------------------------------------
\* The levels that a user has, or had when a request under way was made.
Standing(u) ==
    {level[u]} \cup {request[r].rank : r \in {q \in Requests :
        /\ request[q].pc \in {"load", "recheck", "insert", "save", "delete", "lists"}
        /\ request[q].by = u}}

\* Who could change what, if he saw it.
Changeable ==
    {e \in Users \X Objects :
       rows[e[2]] # NoRow /\ \E rank \in Standing(e[1]) : MayChange(e[1], rank, e[2])}

Init ==
    /\ level = InitialLevel /\ scopes = InitialScopes /\ members = InitialMembers
    /\ rows = InitialRows /\ spent = {o \in Objects : InitialRows[o] # NoRow}
    /\ lists = InitialLists
    /\ request = [r \in Requests |-> IdleRequest] /\ started = 0
    /\ left = {} /\ late = {}
    /\ hidden = {o \in spent : ~rows[o].public}
    /\ entitled = Changeable

StartObject(r) ==
    \E u \in Users \cup {NoUser}, o \in Objects, header \in AskedHeaders :
       \/ \E body \in AskedBodies, op \in {"create", "update"} :
            Start(r, op, u, o, header, body)
       \/ Start(r, "delete", u, o, header, NoBody)

Step ==
    \/ \E r \in Requests :
         \/ StartObject(r) \/ StartAccount(r) \/ End(r)
         \/ Load(r) \/ Recheck(r) \/ Insert(r) \/ Save(r) \/ SetList(r) \/ Delete(r)
         \/ SkipLists(r) \/ ClearViewers(r) \/ ClearAdmins(r) \/ Remove(r) \/ Ungroup(r)
    \/ \E u \in Users, l \in AskedLevels : SetLevel(u, l)

Next == Step /\ entitled' = entitled \cup Changeable'

Spec == Init /\ [][Next]_vars
-----------------------------------------------------------------------------
(***************************************************************************)
(* Properties.                                                             *)
(***************************************************************************)

\* Every variable keeps its type, and an object without a row is on no list.
TypeOK ==
    /\ level \in [Users -> UserLevels]
    /\ scopes \in [Users -> SUBSET Scopes]
    /\ members \in [Groups -> SUBSET Users]
    /\ rows \in [Objects -> Row \cup {NoRow}] /\ spent \subseteq Objects
    /\ lists \in [Lists -> [Objects -> SUBSET Names]]
    /\ \A o \in Objects : rows[o] = NoRow => \A l \in Lists : lists[l][o] = {}
    /\ request \in [Requests -> RequestState]
    /\ started \in Nat
    /\ left \subseteq Users \X Scopes /\ late \subseteq Lists \X Objects \X Users
    /\ hidden \subseteq Objects /\ entitled \subseteq Users \X Objects

\* A user who lost a scope through a request that cleared the lists, and to
\* whom it was not given again, is on no list of the objects of that scope but
\* those that named him while he was losing a scope, or since: neither another
\* removal, nor an object saved with a stale row, nor a deletion undone by a
\* save brings an old name back.
LeaversUnlisted ==
    \A e \in left, l \in UserLists, o \in Objects :
        /\ rows[o] # NoRow
        /\ rows[o].scope = e[2]
        /\ e[1] \in lists[l][o]
        => <<l, o, e[1]>> \in late

\* An object made private stays so until an update asks for the opposite, if no
\* update held a row to be written with public true at that time: a stale row
\* publishes an object only when it was loaded before.
HiddenStaysHidden ==
    \A o \in hidden : rows[o] # NoRow => ~rows[o].public

\* An object is written, given lists or deleted only by a user who could
\* change it at some time, with a level that he had when he made the request:
\* no request brings about the right that it needs.
WritersEntitled ==
    [][\A r \in Requests :
          \/ Save(r) \/ Delete(r)
          \/ SetList(r) /\ request[r].op # "create"
          => <<request[r].by, request[r].object>> \in entitled]_vars
=============================================================================
