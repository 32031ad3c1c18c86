---------------------------- MODULE UserAccounts ----------------------------
(***************************************************************************)
(* The levels and scopes of the users of concrete-datastore, under         *)
(* concurrent requests: PUT, PATCH and DELETE of a user, account/me, the   *)
(* password changes and unblock-users.                                     *)
(*                                                                         *)
(* A request decides with the level that its user had when it was          *)
(* authenticated; it loads its target in one query, and user.save() later  *)
(* writes the whole row that was loaded, whatever happened to it in        *)
(* between.  Scopes and groups are relations with queries of their own.    *)
(* No transaction spans two queries.                                       *)
(***************************************************************************)
EXTENDS Integers

CONSTANTS
    Users,          \* accounts that exist (registration is elsewhere)
    Scopes,         \* instances of the divider model
    Requests,       \* request slots
    InitialLevel,   \* the levels and the scopes that the users begin with
    InitialScopes,
    AskedLevels,    \* the levels and the scopes that a request body can have
    AskedScopes,
    MaxRequests,    \* bound of the model on the requests made
    KeepLevel       \* a request body without a level

\* LIST_USER_LEVEL, by rank.
Rank == [blocked |-> 0, simpleuser |-> 1, manager |-> 2, admin |-> 3,
         superuser |-> 4]
Levels == {"blocked", "simpleuser", "manager", "admin", "superuser"}

ASSUME ConstantsAssumption ==
    /\ InitialLevel \in [Users -> Levels]
    /\ InitialScopes \in [Users -> SUBSET Scopes]
    /\ AskedLevels \subseteq Levels /\ AskedScopes \subseteq SUBSET Scopes
    /\ MaxRequests \in Nat
    /\ KeepLevel \notin Levels

VARIABLES
    level,       \* level[u]: is_superuser, admin, is_staff and is_active as one
    scopes,      \* scopes[u]: the dividers of u
    grouped,     \* the users that belong to some group
    request,     \* request[r]: the state of request slot r
    started,     \* requests made so far
    appointed,   \* history: <<u, l>> if u began with level l or was given it by
                 \* a request authenticated as a superuser
    introduced,  \* history: scopes that some user began with, or was given by
                 \* a request authenticated as an admin or a superuser
    disturbed    \* history: blocked users that were given scopes or groups, or
                 \* whose cleaning was cut short

history == <<appointed, introduced, disturbed>>
vars == <<level, scopes, grouped, request, started, history>>

AtLeast(l, m) == Rank[l] >= Rank[m]
Staff == {"manager", "admin", "superuser"}      \* is_at_least_staff
Admins == {"admin", "superuser"}                \* is_at_least_admin

Ops == {"update",    \* PUT, PATCH user/<uid>
        "block",     \* DELETE user/<uid>
        "leave",     \* DELETE user/<uid> with the X-Entity-Uid of a scope
        "self",      \* PUT, PATCH account/me, and one's own password change
        "password",  \* another user's password change
        "reset",     \* a password change with a token
        "unblock"}   \* unblock-users

IdleRequest == [pc |-> "idle"]
RequestState ==
    {IdleRequest} \cup
    [pc: {"check", "load", "recheck", "save", "unscope", "ungroup", "assign",
          "remove"},
     op: Ops, by: Users, rank: Levels,          \* the user authenticated
     target: Users, copy: Levels,               \* the row loaded
     saves: 0..2,                               \* user.save() still to come
     newLevel: Levels \cup {KeepLevel},         \* the request body: a level,
     giving: BOOLEAN, newScopes: SUBSET Scopes] \* and scopes if giving

Init ==
    /\ level = InitialLevel /\ scopes = InitialScopes /\ grouped = {}
    /\ request = [r \in Requests |-> IdleRequest] /\ started = 0
    /\ appointed = {<<u, InitialLevel[u]>> : u \in Users}
    /\ introduced = UNION {InitialScopes[u] : u \in Users}
    /\ disturbed = {u \in Users : InitialLevel[u] = "blocked"}

Target(r) == request[r].target
Set(r, state) == request' = [request EXCEPT ![r] = state]
-----------------------------------------------------------------------------
(***************************************************************************)
(* Authentication and the permissions that depend on the request alone.    *)
(***************************************************************************)
Start(r, state) ==
    /\ request[r].pc = "idle"
    /\ started < MaxRequests /\ started' = started + 1
    /\ Set(r, state)
    /\ UNCHANGED <<level, scopes, grouped, history>>

\* request.user is loaded with the token, and refused when inactive.
As(op, pc, u, t) ==
    [pc |-> pc, op |-> op, by |-> u, rank |-> level[u], target |-> t,
     copy |-> level[u], saves |-> 1,
     newLevel |-> KeepLevel, giving |-> FALSE, newScopes |-> {}]

Active(u) == level[u] # "blocked"

\* A body with neither level nor scopes changes some other field.
StartUpdate(r, u, t, l, giving, s) ==
    /\ level[u] \in Staff
    /\ Start(r, [As("update", "check", u, t) EXCEPT
                   !.newLevel = l, !.giving = giving, !.newScopes = s])

StartBlock(r, u, t) ==
    level[u] \in Staff /\ Start(r, As("block", "load", u, t))

StartLeave(r, u, t, s) ==
    level[u] \in Staff
      /\ Start(r, [As("leave", "load", u, t) EXCEPT !.newScopes = {s}])

\* The row written is that of request.user; account/me saves it a second time
\* when the body has a password.
StartSelf(r, u) ==
    /\ Active(u)
    /\ \E n \in {1, 2} : Start(r, [As("self", "save", u, u) EXCEPT !.saves = n])

StartPassword(r, u, t) ==
    Active(u) /\ u # t /\ Start(r, As("password", "load", u, t))

\* The token stands for the user: none is authenticated, and a blocked user is
\* not refused.
StartReset(r, t) == Start(r, As("reset", "save", t, t))

StartUnblock(r, u, t) ==
    level[u] \in Admins /\ Start(r, As("unblock", "load", u, t))
-----------------------------------------------------------------------------
(***************************************************************************)
(* Loading the target.  Every get_object filters the blocked users out and *)
(* applies has_object_permission to the row that it has just loaded.       *)
(***************************************************************************)
OnlyScopes(r) == request[r].newLevel = KeepLevel /\ request[r].giving

MayUpdate(r) ==
    /\ Active(Target(r))
    /\ \/ request[r].by = Target(r)
       \/ request[r].rank = "superuser"
       \/ ~AtLeast(level[Target(r)], request[r].rank)
       \/ level[Target(r)] = request[r].rank /\ OnlyScopes(r)

\* handle_divider_update: scopes that are new to the target must be scopes of
\* the requester, and one does not change one's own.
MayAssign(r) ==
    request[r].rank \notin Admins /\ request[r].giving =>
        /\ request[r].by # Target(r)
        /\ request[r].newScopes \ scopes[Target(r)] \subseteq scopes[request[r].by]

\* Among equals the scopes of the target are only added to.
ScopesToAssign(r) ==
    IF /\ request[r].rank \notin Admins /\ request[r].giving
       /\ request[r].rank = level[Target(r)]
    THEN request[r].newScopes \cup scopes[Target(r)] ELSE request[r].newScopes

\* Faulty variant: the scopes that are new to the target are not looked at.
CheckTargetOnly(r) ==
    /\ request[r].pc = "check" /\ MayUpdate(r)
    /\ request' = [request EXCEPT ![r].pc = "load",
                                  ![r].newScopes = ScopesToAssign(r)]

Check(r) ==
    /\ request[r].pc = "check" /\ MayUpdate(r) /\ MayAssign(r)
    /\ request' = [request EXCEPT ![r].pc = "load",
                                  ![r].newScopes = ScopesToAssign(r)]

\* Faulty variant: an admin may make admins.
ForbiddenAboveAdmin(rank) ==
    CASE rank = "admin"      -> {"superuser"}
      [] rank = "manager"    -> {"admin", "superuser", "manager", "blocked"}
      [] rank = "simpleuser" -> Levels
      [] OTHER               -> {}

\* validate_level: the levels that a user of this rank may not set.
ForbiddenTo(rank) ==
    CASE rank = "admin"      -> {"admin", "superuser"}
      [] rank = "manager"    -> {"admin", "superuser", "manager", "blocked"}
      [] rank = "simpleuser" -> Levels
      [] OTHER               -> {}

\* The row that serializer.save() will write, with one save for the level and
\* one for the rest.
LoadUpdate(r) ==
    LET l == request[r].newLevel IN
    /\ request[r].op = "update" /\ MayUpdate(r) /\ l \notin ForbiddenTo(request[r].rank)
    /\ request' = [request EXCEPT
         ![r].pc = "recheck",
         ![r].copy = IF l = KeepLevel THEN level[Target(r)] ELSE l,
         ![r].saves = IF l = KeepLevel THEN 1 ELSE 2]

\* can_delete_user_obj; with X-Entity-Uid the target must have the scope.
LoadDelete(r) ==
    /\ request[r].op \in {"block", "leave"} /\ Active(Target(r))
    /\ \/ request[r].rank = "superuser"
       \/ ~AtLeast(level[Target(r)], request[r].rank)
    /\ request[r].op = "leave" => request[r].newScopes \subseteq scopes[Target(r)]
    /\ request' = [request EXCEPT
         ![r].pc = IF request[r].op = "block" THEN "save" ELSE "remove",
         ![r].copy = "blocked"]

\* change_another_user_password, for a target of any level: a manager needs a
\* scope in common.
LoadPassword(r) ==
    /\ request[r].op = "password"
    /\ \/ request[r].rank = "superuser"
       \/ /\ request[r].rank \in Staff
          /\ ~AtLeast(level[Target(r)], request[r].rank)
          /\ request[r].rank = "manager" =>
               scopes[Target(r)] \cap scopes[request[r].by] # {}
    /\ request' = [request EXCEPT ![r].pc = "save", ![r].copy = level[Target(r)]]

\* Faulty variant: the row is saved with the level that it has.
LoadUnblockUnchanged(r) ==
    /\ request[r].op = "unblock" /\ ~Active(Target(r))
    /\ request' = [request EXCEPT ![r].pc = "save", ![r].copy = level[Target(r)]]

\* unblock_users skips a user who is active.
LoadUnblock(r) ==
    /\ request[r].op = "unblock" /\ ~Active(Target(r))
    /\ request' = [request EXCEPT ![r].pc = "save", ![r].copy = "simpleuser"]

Load(r) ==
    /\ request[r].pc = "load"
    /\ LoadUpdate(r) \/ LoadDelete(r) \/ LoadPassword(r) \/ LoadUnblock(r)

\* perform_update loads the target once more, for the check alone.
Recheck(r) ==
    /\ request[r].pc = "recheck" /\ MayUpdate(r)
    /\ request' = [request EXCEPT ![r].pc = "save"]

Reading(r) ==
    /\ Check(r) \/ Load(r) \/ Recheck(r)
    /\ UNCHANGED <<level, scopes, grouped, started, history>>
-----------------------------------------------------------------------------
(***************************************************************************)
(* Writing.                                                                *)
(***************************************************************************)

\* What follows a save and its signal.
AfterSave(state) ==
    IF state.saves > 0 THEN [state EXCEPT !.pc = "save"]
    ELSE IF state.giving THEN [state EXCEPT !.pc = "assign"]
    ELSE IdleRequest

\* Faulty variant: an update() of the queryset, which sends no signal.
SaveWithoutSignal(r) ==
    LET state == [request[r] EXCEPT !.saves = @ - 1] IN
    /\ request[r].pc = "save"
    /\ level' = [level EXCEPT ![Target(r)] = state.copy]
    /\ Set(r, AfterSave(state))
    /\ UNCHANGED <<scopes, grouped, started, history>>

\* user.save(): the whole row, then on_post_save, which goes on for a blocked
\* user.
Save(r) ==
    LET state == [request[r] EXCEPT !.saves = @ - 1]
        t == Target(r) IN
    /\ request[r].pc = "save"
    /\ level' = [level EXCEPT ![t] = state.copy]
    /\ \/ /\ state.copy = "blocked"
          /\ Set(r, [state EXCEPT !.pc = "unscope"])
          /\ disturbed' = disturbed \ {t}
       \/ /\ state.copy # "blocked"
          /\ Set(r, AfterSave(state))
          /\ UNCHANGED disturbed
    /\ appointed' = IF state.rank = "superuser" /\ state.newLevel # KeepLevel
                    THEN appointed \cup {<<t, state.newLevel>>} ELSE appointed
    /\ UNCHANGED <<scopes, grouped, started, introduced>>

\* on_post_save: divider_manager.clear()
Unscope(r) ==
    /\ request[r].pc = "unscope"
    /\ scopes' = [scopes EXCEPT ![Target(r)] = {}]
    /\ request' = [request EXCEPT ![r].pc = "ungroup"]
    /\ UNCHANGED <<level, grouped, started, history>>

\* on_post_save: instance.concrete_groups.clear()
Ungroup(r) ==
    /\ request[r].pc = "ungroup"
    /\ grouped' = grouped \ {Target(r)}
    /\ Set(r, AfterSave(request[r]))
    /\ UNCHANGED <<level, scopes, started, history>>

\* serializer.save() sets the relations after the row.
Assign(r) ==
    /\ request[r].pc = "assign"
    /\ scopes' = [scopes EXCEPT ![Target(r)] = request[r].newScopes]
    /\ introduced' = IF request[r].rank \in Admins
                     THEN introduced \cup request[r].newScopes ELSE introduced
    /\ disturbed' = IF Active(Target(r)) THEN disturbed
                    ELSE disturbed \cup {Target(r)}
    /\ Set(r, IdleRequest)
    /\ UNCHANGED <<level, grouped, started, appointed>>

\* remove_user_divider
Remove(r) ==
    /\ request[r].pc = "remove"
    /\ scopes' = [scopes EXCEPT ![Target(r)] = @ \ request[r].newScopes]
    /\ Set(r, IdleRequest)
    /\ UNCHANGED <<level, grouped, started, history>>

\* A refusal, an exception or the end of the worker: what was saved stays.
End(r) ==
    /\ request[r].pc # "idle"
    /\ disturbed' = IF request[r].pc \in {"unscope", "ungroup"}
                    THEN disturbed \cup {Target(r)} ELSE disturbed
    /\ Set(r, IdleRequest)
    /\ UNCHANGED <<level, scopes, grouped, started, appointed, introduced>>

\* The members of a group are a field of the group, not of the user: a login
\* through another backend adds the user, and so does an update of the group.
JoinGroup(u) ==
    /\ u \notin grouped
    /\ started < MaxRequests /\ started' = started + 1
    /\ grouped' = grouped \cup {u}
    /\ disturbed' = IF Active(u) THEN disturbed ELSE disturbed \cup {u}
    /\ UNCHANGED <<level, scopes, request, appointed, introduced>>

Starting(r) ==
    \E u, t \in Users :
       \/ \E l \in AskedLevels \cup {KeepLevel} :
            \/ \E s \in AskedScopes : StartUpdate(r, u, t, l, TRUE, s)
            \/ StartUpdate(r, u, t, l, FALSE, {})
       \/ StartBlock(r, u, t)
       \/ \E s \in Scopes : StartLeave(r, u, t, s)
       \/ StartSelf(r, u)
       \/ StartPassword(r, u, t)
       \/ StartReset(r, t)
       \/ StartUnblock(r, u, t)

Writing(r) == Save(r) \/ Unscope(r) \/ Ungroup(r) \/ Assign(r) \/ Remove(r)

Next ==
    \/ \E r \in Requests : Starting(r) \/ Reading(r) \/ Writing(r) \/ End(r)
    \/ \E u \in Users : JoinGroup(u)

Spec == Init /\ [][Next]_vars
-----------------------------------------------------------------------------
(***************************************************************************)
(* Properties.                                                             *)
(***************************************************************************)

\* Every variable keeps its type, and the row that an operation is about to
\* write has the level that the operation is for.
TypeOK ==
    /\ level \in [Users -> Levels]
    /\ scopes \in [Users -> SUBSET Scopes]
    /\ grouped \subseteq Users /\ disturbed \subseteq Users
    /\ request \in [Requests -> RequestState]
    /\ started \in Nat
    /\ appointed \subseteq Users \X Levels /\ introduced \subseteq Scopes
    /\ \A r \in Requests :
         /\ request[r].pc \in {"check", "recheck"} => request[r].op = "update"
         /\ request[r].pc \in {"check", "load", "recheck", "save"} =>
              request[r].saves > 0
         /\ request[r].pc \in {"save", "unscope", "ungroup"} =>
              /\ request[r].op = "block" => request[r].copy = "blocked"
              /\ request[r].op = "unblock" => request[r].copy = "simpleuser"

\* A user is an admin or a superuser only if the account began as one or a
\* request authenticated as a superuser made it one: neither an admin's or a
\* manager's update, nor a user's own, nor a stale row saved late does.
OnlySuperusersAppoint ==
    \A u \in Users : level[u] \in Admins => <<u, level[u]>> \in appointed

\* A manager passes on scopes and never brings in one: every scope that a user
\* has was had by some user in the beginning, or given by an admin, although
\* the check and the assignment are apart and the scopes change in between.
ScopesSpread ==
    \A u \in Users : scopes[u] \subseteq introduced

Cleaning(u) == {r \in Requests : /\ request[r].pc \in {"unscope", "ungroup"}
                                 /\ Target(r) = u}

\* Blocking a user takes the scopes and the groups away, whichever request
\* blocks and whatever others write meanwhile; only an assignment that comes
\* after, or a cleaning cut short, leaves a blocked user any.
BlockedStripped ==
    \A u \in Users \ disturbed :
        level[u] = "blocked" /\ Cleaning(u) = {}
            => scopes[u] = {} /\ u \notin grouped

\* What makes the three properties above inductive.  A row that is going to be
\* saved has a level that was appointed, or that its superuser appoints.
AppointInv ==
    /\ OnlySuperusersAppoint
    /\ \A r \in Requests : request[r].pc # "idle" =>
         /\ request[r].op = "update" => request[r].rank \in Staff
         /\ request[r].copy \in Admins /\ request[r].pc \notin {"check", "load"} =>
              \/ <<Target(r), request[r].copy>> \in appointed
              \/ /\ request[r].rank = "superuser"
                 /\ request[r].newLevel = request[r].copy

\* What a manager's request is going to assign was checked against scopes that
\* users had.
SpreadInv ==
    /\ ScopesSpread
    /\ \A r \in Requests :
         /\ request[r].pc = "assign" => request[r].giving
         /\ /\ request[r].pc \notin {"idle", "check"}
            /\ request[r].giving /\ request[r].rank \notin Admins
            => request[r].newScopes \subseteq introduced

\* The scopes are taken away before the groups.
StripInv ==
    \A u \in Users \ disturbed : level[u] = "blocked" =>
        /\ \/ scopes[u] = {}
           \/ \E r \in Requests : request[r].pc = "unscope" /\ Target(r) = u
        /\ u \notin grouped \/ Cleaning(u) # {}
=============================================================================
