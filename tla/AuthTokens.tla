----------------------------- MODULE AuthTokens -----------------------------
(***************************************************************************)
(* The AuthToken table of concrete-datastore: how logins issue, reuse,     *)
(* expire and delete API tokens, and how API calls are authenticated with  *)
(* them.  No view runs in a transaction (ATOMIC_REQUESTS is not set), so   *)
(* every query of a handler commits on its own: one action below is one    *)
(* query that reads or writes the table, and the handlers of different     *)
(* requests interleave between queries.                                    *)
(*                                                                         *)
(* A login slot runs LoginApiView.post or one of the views that go         *)
(* straight to UserSerializer (secure connect, password change with a      *)
(* token, two-factor login); a call slot runs one authenticated API call.  *)
(* Time is counted in minutes, the unit of API_TOKEN_EXPIRY.               *)
(***************************************************************************)
EXTENDS Integers, FiniteSets

CONSTANTS
    Users,           \* accounts that exist (registration is elsewhere)
    Keys,            \* values AuthToken.key can take, each drawn at most once
    Logins,          \* request slots that run a login view
    Calls,           \* request slots that run an authenticated API view
    ApiTokenExpiry,  \* API_TOKEN_EXPIRY, 0 for no expiration
    ExtraPeriod,     \* EXPIRY_EXTRA_PERIOD
    MultipleTokens,  \* USE_MULTIPLE_TOKENS
    AllowMultiple,   \* ALLOW_MULTIPLE_AUTH_TOKEN_SESSION
    SessionControl,  \* SESSIONS_NUMBER_CONTROL_ENABLED
    MaxSessions,     \* MAX_SIMULTANEOUS_SESSIONS, 0 for unlimited
    Exempt,          \* users the session control rule exempts
    Century,         \* the 100 years given to a token that does not expire
    MaxClock,        \* bound of the model on the clock
    MaxCuts,         \* bound of the model on the logins that are cut short
    NoUser, NoKey    \* values of an idle slot

ASSUME ConstantsAssumption ==
    /\ ApiTokenExpiry \in Nat /\ ExtraPeriod \in Nat
    /\ MaxSessions \in Nat /\ Century \in Nat \ {0}
    /\ MaxClock \in Nat /\ MaxCuts \in Nat
    /\ {MultipleTokens, AllowMultiple, SessionControl} \subseteq BOOLEAN
    /\ Exempt \subseteq Users
    /\ NoUser \notin Users /\ NoKey \notin Keys

ASSUME FinitenessAssumption == IsFiniteSet(Keys) /\ IsFiniteSet(Logins)

VARIABLES
    now,       \* the clock
    isActive,  \* isActive[u]: User.is_active, FALSE for a blocked user
    tokens,    \* the AuthToken table: a function on the keys that have a row
    issued,    \* every key a row was ever created with
    login,     \* login[l]: the state of login slot l
    call,      \* call[c]: the state of call slot c
    cuts,      \* history: the logins that were cut short
    left,      \* history: left[u]: the sessions that such logins left to u,
               \* since a login of u counted them and closed the excess
    since      \* history: since[l]: those left since l counted the sessions

history == <<cuts, left, since>>
vars == <<now, isActive, tokens, issued, login, call, history>>

(***************************************************************************)
(* Rows and slots.                                                         *)
(***************************************************************************)
TokenRow == [owner: Users, expired: BOOLEAN, expiration: Nat, lastAction: Nat]

IdleLogin == [pc |-> "idle", user |-> NoUser, key |-> NoKey, excess |-> 0,
              rivals |-> {}, sweptAt |-> -1]
IdleCall  == [pc |-> "idle"]

BusyPcs == {"delete", "sweep", "select", "create", "count", "recount", "prune",
            "answered"}

LoginState ==
    {IdleLogin} \cup
    [pc: BusyPcs,
     user: Users,
     key: Keys \cup {NoKey},     \* the key the login will answer
     excess: Nat,                \* nb_of_token_to_expire
     rivals: SUBSET Keys,        \* tokens the user had when the login began
     sweptAt: Nat \cup {-1}]     \* when the login swept the table, -1 if never

CallState ==
    {IdleCall} \cup
    [pc: {"loaded", "touch"},
     key: Keys, unsafe: BOOLEAN,
     active: BOOLEAN, row: TokenRow]   \* the user and the row it loaded

TokensOf(u) == {k \in DOMAIN tokens : tokens[k].owner = u}
ActiveTokens(u) == {k \in TokensOf(u) : ~tokens[k].expired}

\* The other sessions of the user that login l is for: manage_session_token
\* excludes the key it is about to return.
OtherSessions(l) == ActiveTokens(login[l].user) \ {login[l].key}

Expire(S) == [k \in DOMAIN tokens |->
                IF k \in S THEN [tokens[k] EXCEPT !.expired = TRUE]
                           ELSE tokens[k]]
Delete(S) == [k \in DOMAIN tokens \ S |-> tokens[k]]

\* compute_auth_token_expiry
ExpirationFrom(t) == t + (IF ApiTokenExpiry = 0 THEN Century
                                                ELSE ApiTokenExpiry)

\* api_token_has_expired, on the row that the request loaded.
HasExpired(row) ==
    \/ row.expired
    \/ /\ ApiTokenExpiry > 0
       /\ now > row.expiration
       /\ \/ ExtraPeriod = 0
          \/ now - row.lastAction > ExtraPeriod

Init ==
    /\ now = 0
    /\ isActive = [u \in Users |-> TRUE]
    /\ tokens = [k \in {} |-> 0]
    /\ issued = {}
    /\ login = [l \in Logins |-> IdleLogin]
    /\ call = [c \in Calls |-> IdleCall]
    /\ cuts = 0
    /\ left = [u \in Users |-> 0]
    /\ since = [l \in Logins |-> 0]

Goto(l, pc) == login' = [login EXCEPT ![l].pc = pc]
-----------------------------------------------------------------------------
(***************************************************************************)
(* Issuing a token.                                                        *)
(***************************************************************************)

\* Every started login may draw one key: a bound of the model on logins.
KeysLeft ==
    Cardinality(Keys \ issued)
        > Cardinality({l \in Logins :
              login[l].pc \in {"delete", "sweep", "select", "create"}})

\* UserSerializer._get_token_key looks for a token only when
\* USE_MULTIPLE_TOKENS is False.
SerializePc == IF MultipleTokens THEN "create" ELSE "select"

Begin(l, u, pc) ==
    /\ login[l].pc = "idle"
    /\ KeysLeft
    /\ login' = [login EXCEPT ![l] = [IdleLogin EXCEPT
                    !.pc = pc, !.user = u, !.rivals = TokensOf(u)]]
    /\ UNCHANGED <<now, isActive, tokens, issued, call, history>>

\* LoginApiView.post up to the credential checks.  A wrong password, an
\* unconfirmed or a blocked user and an expired password are answered without
\* touching the table.
PasswordLogin(l, u) ==
    /\ isActive[u]
    /\ Begin(l, u, IF AllowMultiple THEN "sweep" ELSE "delete")

\* The views that reach UserSerializer without the queries of LoginApiView:
\* secure connect by token and by code (none of which reads is_active).
DirectLogin(l, u) == Begin(l, u, SerializePc)

\* Faulty variant: only the tokens already marked expired are deleted.
DeleteExpiredTokens(l) ==
    /\ login[l].pc = "delete"
    /\ tokens' = Delete(TokensOf(login[l].user) \ ActiveTokens(login[l].user))
    /\ Goto(l, "sweep")
    /\ UNCHANGED <<now, isActive, issued, call, history>>

\* AuthToken.objects.filter(user_id=user.uid).delete()
DeleteTokens(l) ==
    /\ login[l].pc = "delete"
    /\ tokens' = Delete(TokensOf(login[l].user))
    /\ Goto(l, "sweep")
    /\ UNCHANGED <<now, isActive, issued, call, history>>

\* Faulty variant: the sweep leaves the tokens that expire this very minute.
SweepBeforeNow(l) ==
    /\ login[l].pc = "sweep"
    /\ tokens' = Expire({k \in TokensOf(login[l].user) :
                            tokens[k].expiration < now})
    /\ login' = [login EXCEPT ![l].pc = SerializePc, ![l].sweptAt = now]
    /\ UNCHANGED <<now, isActive, issued, call, history>>

\* user.auth_tokens.filter(expiration_date__lte=now).update(expired=True)
SweepTokens(l) ==
    /\ login[l].pc = "sweep"
    /\ tokens' = Expire({k \in TokensOf(login[l].user) :
                            tokens[k].expiration <= now})
    /\ login' = [login EXCEPT ![l].pc = SerializePc, ![l].sweptAt = now]
    /\ UNCHANGED <<now, isActive, issued, call, history>>

\* Faulty variant: _get_token_key does not look for a token to reuse.
SelectNothing(l) ==
    /\ login[l].pc = "select"
    /\ Goto(l, "create")
    /\ UNCHANGED <<now, isActive, tokens, issued, call, history>>

\* _get_token_key, USE_MULTIPLE_TOKENS False: any token not marked expired
\* (the query has no ordering), else a new one.
SelectToken(l) ==
    /\ login[l].pc = "select"
    /\ LET reusable == ActiveTokens(login[l].user) IN
       \/ \E k \in reusable :
            login' = [login EXCEPT ![l].pc = "count", ![l].key = k]
       \/ reusable = {} /\ Goto(l, "create")
    /\ UNCHANGED <<now, isActive, tokens, issued, call, history>>

\* _get_token_key: AuthToken.objects.create(user=user)
CreateToken(l) ==
    /\ login[l].pc = "create"
    /\ \E k \in Keys \ issued :
         /\ tokens' = [j \in DOMAIN tokens \cup {k} |->
                         IF j = k
                         THEN [owner |-> login[l].user, expired |-> FALSE,
                               expiration |-> ExpirationFrom(now),
                               lastAction |-> now]
                         ELSE tokens[j]]
         /\ issued' = issued \cup {k}
         /\ login' = [login EXCEPT ![l].pc = "count", ![l].key = k]
    /\ UNCHANGED <<now, isActive, call, history>>

(***************************************************************************)
(* manage_session_token: two counts of the other sessions, then the update *)
(* that expires the oldest ones, each a query of its own.                  *)
(***************************************************************************)
CountSessions(l) ==
    /\ login[l].pc = "count"
    /\ Goto(l, IF /\ SessionControl
                  /\ Cardinality(OtherSessions(l)) >= MaxSessions
                  /\ MaxSessions # 0
                  /\ login[l].user \notin Exempt
               THEN "recount" ELSE "answered")
    /\ left' = IF Cardinality(OtherSessions(l)) < MaxSessions
                 THEN [left EXCEPT ![login[l].user] = 0] ELSE left
    /\ UNCHANGED <<now, isActive, tokens, issued, call, cuts, since>>

\* Faulty variant: the + 1 for the session being opened is forgotten.
RecountWithoutNew(l) ==
    /\ login[l].pc = "recount"
    /\ LET excess == Cardinality(OtherSessions(l)) - MaxSessions IN
       login' = [login EXCEPT ![l] =
                   IF excess < 0 THEN IdleLogin
                   ELSE [@ EXCEPT !.pc = "prune", !.excess = excess]]
    /\ since' = [since EXCEPT ![l] = 0]
    /\ UNCHANGED <<now, isActive, tokens, issued, call, cuts, left>>

\* Faulty variant: a negative number of tokens reaches the update.
RecountUnchecked(l) ==
    /\ login[l].pc = "recount"
    /\ login' = [login EXCEPT ![l].pc = "prune",
                   ![l].excess = Cardinality(OtherSessions(l)) - MaxSessions + 1]
    /\ since' = [since EXCEPT ![l] = 0]
    /\ UNCHANGED <<now, isActive, tokens, issued, call, cuts, left>>

\* nb_of_token_to_expire = tokens_count - max_sessions_allowed + 1.  When other
\* requests removed sessions since the first count it can be negative: the
\* slice then raises and the request ends in an error.
RecountSessions(l) ==
    /\ login[l].pc = "recount"
    /\ LET excess == Cardinality(OtherSessions(l)) - MaxSessions + 1 IN
       login' = [login EXCEPT ![l] =
                   IF excess < 0 THEN IdleLogin
                   ELSE [@ EXCEPT !.pc = "prune", !.excess = excess]]
    /\ since' = [since EXCEPT ![l] = 0]
    /\ UNCHANGED <<now, isActive, tokens, issued, call, cuts, left>>

\* user_active_tokens.order_by('expiration_date')[:n]: ties in any order.
Oldest(S, n) ==
    {E \in SUBSET S :
        /\ Cardinality(E) = (IF n <= Cardinality(S) THEN n ELSE Cardinality(S))
        /\ \A e \in E, f \in S \ E : tokens[e].expiration <= tokens[f].expiration}

PruneSessions(l) ==
    /\ login[l].pc = "prune"
    /\ \E E \in Oldest(OtherSessions(l), login[l].excess) : tokens' = Expire(E)
    /\ Goto(l, "answered")
    /\ left' = [left EXCEPT ![login[l].user] =
                   IF since[l] < @ THEN since[l] ELSE @]
    /\ UNCHANGED <<now, isActive, issued, call, cuts, since>>

\* The response carries login[l].key to the client.
AnswerLogin(l) ==
    /\ login[l].pc = "answered"
    /\ login' = [login EXCEPT ![l] = IdleLogin]
    /\ UNCHANGED <<now, isActive, tokens, issued, call, history>>

\* A session that was created, and whose login has not closed the excess yet.
Unpruned(l) == login[l].pc \in {"count", "recount", "prune"}

\* The worker ends, or a query raises, between two queries of a login.
CutShort(l) ==
    /\ login[l].pc # "idle" /\ cuts < MaxCuts
    /\ cuts' = cuts + 1
    /\ login' = [login EXCEPT ![l] = IdleLogin]
    /\ IF Unpruned(l)
         THEN /\ left' = [left EXCEPT ![login[l].user] = @ + 1]
              /\ since' = [m \in Logins |->
                             IF login[m].user = login[l].user
                             THEN since[m] + 1 ELSE since[m]]
         ELSE UNCHANGED <<left, since>>
    /\ UNCHANGED <<now, isActive, tokens, issued, call>>

(***************************************************************************)
(* An API call with a token.                                               *)
(***************************************************************************)

\* model.objects.select_related('user').get(key=key); a key without a row is
\* answered 401 with no effect.  unsafe: a POST, PUT, PATCH or DELETE of an
\* ApiModelViewSet with the key in the Authorization header.
LoadToken(c, k, unsafe) ==
    /\ call[c].pc = "idle"
    /\ k \in DOMAIN tokens
    /\ call' = [call EXCEPT ![c] =
                  [pc |-> "loaded", key |-> k, unsafe |-> unsafe,
                   active |-> isActive[tokens[k].owner], row |-> tokens[k]]]
    /\ UNCHANGED <<now, isActive, tokens, issued, login, history>>

Served(c) == call[c].active /\ ~HasExpired(call[c].row)

\* The rest of authenticate_credentials, and the view itself when the call is
\* served: an expired token is deleted, a blocked user refused before that.
AuthenticateCall(c) ==
    /\ call[c].pc = "loaded"
    /\ tokens' = IF call[c].active /\ HasExpired(call[c].row)
                 THEN Delete({call[c].key}) ELSE tokens
    /\ call' = [call EXCEPT ![c] = IF @.unsafe THEN [@ EXCEPT !.pc = "touch"]
                                               ELSE IdleCall]
    /\ UNCHANGED <<now, isActive, issued, login, history>>

\* Faulty variant: dispatch saves the row it loaded (an update of every
\* column, an insert when the row is gone) instead of updating one column.
TouchBySave(c) ==
    /\ call[c].pc = "touch"
    /\ tokens' = [k \in DOMAIN tokens \cup {call[c].key} |->
                    IF k = call[c].key
                    THEN [call[c].row EXCEPT !.lastAction = now] ELSE tokens[k]]
    /\ call' = [call EXCEPT ![c] = IdleCall]
    /\ UNCHANGED <<now, isActive, issued, login, history>>

\* ApiModelViewSet.dispatch, after the response is made, whatever its status:
\* filter(key=...).update(last_action_date=now).
TouchToken(c) ==
    /\ call[c].pc = "touch"
    /\ tokens' = [k \in DOMAIN tokens |->
                    IF k = call[c].key
                    THEN [tokens[k] EXCEPT !.lastAction = now] ELSE tokens[k]]
    /\ call' = [call EXCEPT ![c] = IdleCall]
    /\ UNCHANGED <<now, isActive, issued, login, history>>

(***************************************************************************)
(* The environment: administrators and time.                               *)
(***************************************************************************)
BlockUser(u) ==
    /\ isActive[u]
    /\ isActive' = [isActive EXCEPT ![u] = FALSE]
    /\ UNCHANGED <<now, tokens, issued, login, call, history>>

UnblockUser(u) ==
    /\ ~isActive[u]
    /\ isActive' = [isActive EXCEPT ![u] = TRUE]
    /\ UNCHANGED <<now, tokens, issued, login, call, history>>

Tick ==
    /\ now < MaxClock
    /\ now' = now + 1
    /\ UNCHANGED <<isActive, tokens, issued, login, call, history>>

LoginStep(l) ==
    \/ \E u \in Users : PasswordLogin(l, u) \/ DirectLogin(l, u)
    \/ DeleteTokens(l) \/ SweepTokens(l)
    \/ SelectToken(l) \/ CreateToken(l)
    \/ CountSessions(l) \/ RecountSessions(l) \/ PruneSessions(l)
    \/ AnswerLogin(l) \/ CutShort(l)

CallStep(c) ==
    \/ \E k \in Keys, unsafe \in BOOLEAN : LoadToken(c, k, unsafe)
    \/ AuthenticateCall(c)
    \/ TouchToken(c)

Next ==
    \/ \E l \in Logins : LoginStep(l)
    \/ \E c \in Calls : CallStep(c)
    \/ \E u \in Users : BlockUser(u) \/ UnblockUser(u)
    \/ Tick

Spec == Init /\ [][Next]_vars
-----------------------------------------------------------------------------
(***************************************************************************)
(* Properties.                                                             *)
(***************************************************************************)

\* Every variable keeps its type, and a row exists only for an issued key.
TypeOK ==
    /\ now \in Nat
    /\ isActive \in [Users -> BOOLEAN]
    /\ issued \subseteq Keys
    /\ DOMAIN tokens \subseteq issued
    /\ tokens \in [DOMAIN tokens -> TokenRow]
    /\ login \in [Logins -> LoginState]
    /\ call \in [Calls -> CallState]
    /\ cuts \in Nat /\ left \in [Users -> Nat] /\ since \in [Logins -> Nat]

\* Login slots that have created a session and not yet pruned the others.
Issuing(u) == {l \in Logins : login[l].user = u /\ Unpruned(l)}

\* manage_session_token under concurrent logins: a user never has more than
\* MAX_SIMULTANEOUS_SESSIONS active tokens, but for one more per login that is
\* between its create and its update, and one per login that ended there since
\* another login last counted the sessions.  In particular the next login that
\* runs to its end brings the sessions back to the limit, although count and
\* update are separate queries.
SessionsCapped ==
    SessionControl /\ MaxSessions # 0 =>
        \A u \in Users \ Exempt :
            Cardinality(ActiveTokens(u))
                <= MaxSessions + Cardinality(Issuing(u)) + left[u]

\* A token that was expired or deleted never becomes usable again, whatever a
\* request that loaded it earlier does afterwards (dispatch updates one column
\* and does not save the row that the request holds).
NoTokenRevived ==
    [][\A k \in issued :
          k \in DOMAIN tokens' /\ ~tokens'[k].expired
              => k \in DOMAIN tokens /\ ~tokens[k].expired]_vars

\* With ALLOW_MULTIPLE_AUTH_TOKEN_SESSION False, no token that the user had
\* when a password login started is left once that login reaches its answer,
\* whatever other logins and calls do meanwhile.
RivalSessionsClosed ==
    ~AllowMultiple =>
        \A l \in Logins : login[l].sweptAt # -1 =>
            login[l].rivals \cap DOMAIN tokens = {}

\* A password login never answers with a usable token whose expiration date
\* had passed when the login swept the table, although _get_token_key does not
\* look at the date.
PasswordLoginFresh ==
    \A l \in Logins :
        login[l].sweptAt # -1 /\ login[l].key \in ActiveTokens(login[l].user)
            => tokens[login[l].key].expiration > login[l].sweptAt

\* What makes the two properties above inductive: the rivals are rows of the
\* user until they are deleted, and a sweep leaves the user no active token
\* that had expired, old or created since.
SlotInv(l) ==
    /\ login[l].rivals \subseteq issued
    /\ login[l].sweptAt <= now
    /\ login[l].pc \in {"delete", "sweep"} => login[l].sweptAt = -1
    /\ login[l].pc = "delete" =>
        login[l].rivals \cap DOMAIN tokens \subseteq TokensOf(login[l].user)
    /\ ~AllowMultiple /\ (login[l].pc = "sweep" \/ login[l].sweptAt # -1) =>
        login[l].rivals \cap DOMAIN tokens = {}
    /\ login[l].sweptAt # -1 =>
        \A k \in ActiveTokens(login[l].user) :
            tokens[k].expiration > login[l].sweptAt

LoginInv == \A l \in Logins : SlotInv(l)

\* With USE_MULTIPLE_TOKENS False the select and the create of _get_token_key
\* are two queries, so concurrent first logins can each create a token; the
\* tokens of a user never outnumber the requests that can race.
ReuseBoundsTokens ==
    ~MultipleTokens =>
        \A u \in Users : Cardinality(ActiveTokens(u)) <= Cardinality(Logins)
=============================================================================
