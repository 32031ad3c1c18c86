--------------------------- MODULE SecureConnect ---------------------------
(***************************************************************************)
(* Secure connect: one of the two tables SecureConnectToken and            *)
(* SecureConnectCode, as one user's requests see it (every query below     *)
(* filters by the user).  A view hands out an instance unless the user     *)
(* already has the maximum; logins present an instance; every              *)
(* authenticated API call marks the user's overdue instances as expired.   *)
(* No transaction spans two queries, and every save writes the whole row   *)
(* that the request holds, however old.                                    *)
(***************************************************************************)
EXTENDS Integers, FiniteSets

CONSTANTS
    Values,       \* instances that can be drawn
    Requests,     \* request slots that ask for an instance or make an API call
    Logins,       \* request slots that log in with an instance
    Views,        \* the views over the table, a subset of AllViews
    MaxInstances, \* MAX_SECURE_CONNECT_TOKENS or MAX_SIMULTANEOUS_SECURE_
                  \* CONNECT_CODES_PER_USER
    Expiry,       \* the EXPIRY_TIME_SECONDS of the table
    MaxClock,     \* bound of the model on the clock
    NoRow         \* what a request holds of a row it has not loaded

\* RetrieveSecureConnectCode, RetrieveSecureTokenApiView,
\* GenerateSecureTokenApiView, and an API call of the user.
AllViews == {"code", "token", "generate", "call"}

\* No view reads the url and mail_sent of a row back: they are left out, and
\* the saves that set them write the rest of the row.
Row == [expired: BOOLEAN, expiry: Nat]

ASSUME ConstantsAssumption ==
    /\ Views \subseteq AllViews
    /\ MaxInstances \in Nat /\ Expiry \in Nat /\ MaxClock \in Nat
    /\ NoRow \notin Row

ASSUME FinitenessAssumption == IsFiniteSet(Values) /\ IsFiniteSet(Requests)

VARIABLES
    now,       \* the clock
    rows,      \* the table: a function on the values that have a row
    request,   \* request[r]: the state of request slot r
    login,     \* login[l]: the state of login slot l
    overdue    \* history: values that some request has marked as expired

vars == <<now, rows, request, login, overdue>>

IdleRequest == [pc |-> "idle"]
RequestState ==
    {IdleRequest} \cup
    [pc: {"flag"}, view: AllViews,
     loaded: SUBSET Values,             \* the rows its query returned,
     copy: [Values -> Row \cup {NoRow}], \* what they were then,
     todo: SUBSET Values] \cup          \* and those still to be looked at
    [pc: {"create"}, view: AllViews] \cup
    [pc: {"url", "mail"}, value: Values, row: Row]

IdleLogin == [pc |-> "idle"]
LoginState ==
    {IdleLogin} \cup [pc: {"loaded", "accepted"}, value: Values, row: Row]

Write(v, row) == [x \in DOMAIN rows \cup {v} |-> IF x = v THEN row ELSE rows[x]]

\* ensure_secure_connect_instance_is_not_expired decides by the date alone.
Overdue(row) == row.expiry <= now

Init ==
    /\ now = 0
    /\ rows = [v \in {} |-> 0]
    /\ request = [r \in Requests |-> IdleRequest]
    /\ login = [l \in Logins |-> IdleLogin]
    /\ overdue = {}
-----------------------------------------------------------------------------
(***************************************************************************)
(* Asking for an instance, and making an API call: both begin by a loop    *)
(* over the instances that are not marked as expired.                      *)
(***************************************************************************)
Unmarked == {v \in DOMAIN rows : ~rows[v].expired}

Load(r, view) ==
    /\ request[r].pc = "idle"
    /\ request' = [request EXCEPT ![r] =
                     [pc |-> "flag", view |-> view,
                      loaded |-> Unmarked, todo |-> Unmarked,
                      copy |-> [v \in Values |->
                                  IF v \in Unmarked THEN rows[v] ELSE NoRow]]]
    /\ UNCHANGED <<now, rows, login, overdue>>

\* One turn of the loop: an overdue instance is marked and saved.
FlagOverdue(r) ==
    /\ request[r].pc = "flag"
    /\ \E v \in request[r].todo :
         LET row == request[r].copy[v] IN
         /\ request' = [request EXCEPT ![r].todo = @ \ {v}]
         /\ \/ /\ Overdue(row)
               /\ rows' = Write(v, [row EXCEPT !.expired = TRUE])
               /\ overdue' = overdue \cup {v}
            \/ /\ ~Overdue(row)
               /\ UNCHANGED <<rows, overdue>>
    /\ UNCHANGED <<now, login>>

LoopDone(r) == request[r].pc = "flag" /\ request[r].todo = {}

\* secure_codes.count(): the loop has filled the cache of the queryset, so this
\* counts the rows that were loaded, those it has just marked included.
CountLoaded(r) == Cardinality(request[r].loaded)

EndCall(r) ==
    /\ LoopDone(r) /\ request[r].view = "call"
    /\ request' = [request EXCEPT ![r] = IdleRequest]
    /\ UNCHANGED <<now, rows, login, overdue>>

\* HTTP_429_TOO_MANY_REQUESTS
Refuse(r) ==
    /\ LoopDone(r) /\ request[r].view # "call"
    /\ CountLoaded(r) >= MaxInstances
    /\ request' = [request EXCEPT ![r] = IdleRequest]
    /\ UNCHANGED <<now, rows, login, overdue>>

\* Faulty variant: the maximum itself is let through.
AllowAtMaximum(r) ==
    /\ LoopDone(r) /\ request[r].view # "call"
    /\ CountLoaded(r) <= MaxInstances
    /\ request' = [request EXCEPT ![r] =
                     [pc |-> "create", view |-> request[r].view]]
    /\ UNCHANGED <<now, rows, login, overdue>>

Allow(r) ==
    /\ LoopDone(r) /\ request[r].view # "call"
    /\ CountLoaded(r) < MaxInstances
    /\ request' = [request EXCEPT ![r] =
                     [pc |-> "create", view |-> request[r].view]]
    /\ UNCHANGED <<now, rows, login, overdue>>

\* Faulty variant: the value drawn may be that of a row, which is overwritten.
CreateOver(r) ==
    /\ request[r].pc = "create"
    /\ \E v \in Values :
         LET row == [expired |-> FALSE, expiry |-> now + Expiry]
         IN /\ rows' = Write(v, row)
            /\ request' = [request EXCEPT ![r] =
                 CASE @.view = "token" -> [pc |-> "url", value |-> v, row |-> row]
                   [] @.view = "code" -> [pc |-> "mail", value |-> v, row |-> row]
                   [] OTHER -> IdleRequest]
    /\ UNCHANGED <<now, login, overdue>>

\* objects.create, and what the view does next: a token gets its url saved, a
\* code is sent, a generated token is in the answer.
Create(r) ==
    /\ request[r].pc = "create"
    /\ \E v \in Values \ DOMAIN rows :
         LET row == [expired |-> FALSE, expiry |-> now + Expiry]
         IN /\ rows' = Write(v, row)
            /\ request' = [request EXCEPT ![r] =
                 CASE @.view = "token" -> [pc |-> "url", value |-> v, row |-> row]
                   [] @.view = "code" -> [pc |-> "mail", value |-> v, row |-> row]
                   [] OTHER -> IdleRequest]
    /\ UNCHANGED <<now, login, overdue>>

\* token.save(), for the url.
SaveUrl(r) ==
    /\ request[r].pc = "url"
    /\ rows' = Write(request[r].value, request[r].row)
    /\ request' = [request EXCEPT ![r].pc = "mail"]
    /\ UNCHANGED <<now, login, overdue>>

\* send_mail: after the Email is created, the instance is saved with mail_sent.
SaveMailSent(r) ==
    /\ request[r].pc = "mail"
    /\ rows' = Write(request[r].value, request[r].row)
    /\ request' = [request EXCEPT ![r] = IdleRequest]
    /\ UNCHANGED <<now, login, overdue>>

\* An exception, or the end of the worker: what was saved stays.
Abort(r) ==
    /\ request[r].pc # "idle"
    /\ request' = [request EXCEPT ![r] = IdleRequest]
    /\ UNCHANGED <<now, rows, login, overdue>>
-----------------------------------------------------------------------------
(***************************************************************************)
(* Logging in with an instance.                                            *)
(***************************************************************************)

\* objects.get(value=token), marked as expired or not; an unknown value is
\* answered 401 with no effect.
LoadInstance(l, v) ==
    /\ login[l].pc = "idle"
    /\ v \in DOMAIN rows
    /\ login' = [login EXCEPT ![l] =
                   [pc |-> "loaded", value |-> v, row |-> rows[v]]]
    /\ UNCHANGED <<now, rows, request, overdue>>

\* TOKEN_HAS_EXPIRED, CODE_HAS_EXPIRED
RefuseLogin(l) ==
    /\ login[l].pc = "loaded" /\ Overdue(login[l].row)
    /\ rows' = Write(login[l].value, [login[l].row EXCEPT !.expired = TRUE])
    /\ overdue' = overdue \cup {login[l].value}
    /\ login' = [login EXCEPT ![l] = IdleLogin]
    /\ UNCHANGED <<now, request>>

\* Faulty variant: the flag of the loaded row stands for the date.
AcceptUnmarked(l) ==
    /\ login[l].pc = "loaded" /\ ~login[l].row.expired
    /\ login' = [login EXCEPT ![l].pc = "accepted"]
    /\ UNCHANGED <<now, rows, request, overdue>>

\* The answer is made by UserSerializer, which issues an AuthToken.
AcceptLogin(l) ==
    /\ login[l].pc = "loaded" /\ ~Overdue(login[l].row)
    /\ login' = [login EXCEPT ![l].pc = "accepted"]
    /\ UNCHANGED <<now, rows, request, overdue>>

AnswerLogin(l) ==
    /\ login[l].pc = "accepted"
    /\ login' = [login EXCEPT ![l] = IdleLogin]
    /\ UNCHANGED <<now, rows, request, overdue>>

Tick ==
    /\ now < MaxClock
    /\ now' = now + 1
    /\ UNCHANGED <<rows, request, login, overdue>>

RequestStep(r) ==
    \/ \E view \in Views : Load(r, view)
    \/ FlagOverdue(r) \/ EndCall(r) \/ Refuse(r) \/ Allow(r)
    \/ Create(r) \/ SaveUrl(r) \/ SaveMailSent(r)
    \/ Abort(r)

LoginStep(l) ==
    \/ \E v \in Values : LoadInstance(l, v)
    \/ RefuseLogin(l) \/ AcceptLogin(l) \/ AnswerLogin(l)

Next ==
    \/ \E r \in Requests : RequestStep(r)
    \/ \E l \in Logins : LoginStep(l)
    \/ Tick

Spec == Init /\ [][Next]_vars
-----------------------------------------------------------------------------
(***************************************************************************)
(* Properties.                                                             *)
(***************************************************************************)

\* A row that a request holds is an older state of a row of the table, and
\* the date is the same.
HeldRow(v, row) == v \in DOMAIN rows /\ row.expiry = rows[v].expiry

HeldRows ==
    /\ \A r \in Requests : request[r].pc = "flag" =>
         /\ request[r].todo \subseteq request[r].loaded
         /\ \A v \in request[r].loaded :
              request[r].copy[v] # NoRow /\ HeldRow(v, request[r].copy[v])
    /\ \A r \in Requests : request[r].pc \in {"url", "mail"} =>
         HeldRow(request[r].value, request[r].row)
    /\ \A l \in Logins : login[l].pc # "idle" =>
         HeldRow(login[l].value, login[l].row)

\* Every variable keeps its type, and no request holds a row of another value
\* or date than the table has, however old its copy is.
TypeOK ==
    /\ now \in Nat
    /\ DOMAIN rows \subseteq Values /\ rows \in [DOMAIN rows -> Row]
    /\ request \in [Requests -> RequestState]
    /\ login \in [Logins -> LoginState]
    /\ overdue \subseteq DOMAIN rows
    /\ HeldRows

\* Instances that a login would accept.
Live == {v \in DOMAIN rows : ~Overdue(rows[v])}

\* Requests that have found room for one more instance.
Admitted == {r \in Requests : request[r].pc = "create"}

\* The count and the create are separate queries, so concurrent requests can
\* overshoot the maximum, by at most the number of requests at work at once
\* less one; later requests never add to the excess.
LiveCapped ==
    Live # {} =>
        Cardinality(Live) + Cardinality(Admitted)
            < MaxInstances + Cardinality(Requests)

\* What makes LiveCapped inductive: a request that loaded too few instances to
\* be refused is counted as if it had created one, for only requests that
\* began when an instance was missing are so counted.
Contenders ==
    {r \in Requests : \/ request[r].pc = "create"
                      \/ /\ request[r].pc = "flag"
                         /\ CountLoaded(r) < MaxInstances}

CapInv ==
    \/ Live = {} /\ Contenders = {}
    \/ Cardinality(Live) + Cardinality(Contenders)
           < MaxInstances + Cardinality(Requests)

\* An instance is marked only when it is overdue, here or in a copy.
MarksTrue ==
    /\ \A v \in DOMAIN rows : rows[v].expired => Overdue(rows[v])
    /\ \A v \in overdue : Overdue(rows[v])
    /\ \A r \in Requests : request[r].pc \in {"url", "mail"} =>
         ~request[r].row.expired

SecureInv == TypeOK /\ MarksTrue /\ CapInv

\* An instance that any request has marked as expired is never accepted
\* again, even by a login that loaded it earlier, and even after a save of an
\* older copy (send_mail) has taken the mark away.
MarkedNeverAccepted ==
    [][\A l \in Logins :
          login[l].pc = "loaded" /\ login'[l].pc = "accepted"
              => login[l].value \notin overdue]_vars

-----------------------------------------------------------------------------
(***************************************************************************)
(* What comments and tests say, and the code does not do.                  *)
(***************************************************************************)

\* "Ensure that the code is not expired", then count: an instance that some
\* request has marked as expired is not among those that make a request refused.
RefusedOnlyWhenFull ==
    [][\A r \in Requests : Refuse(r) =>
          Cardinality(request[r].loaded \ overdue) >= MaxInstances]_vars
=============================================================================
