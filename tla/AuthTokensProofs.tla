-------------------------- MODULE AuthTokensProofs --------------------------
(***************************************************************************)
(* Proofs about AuthTokens, for every set of users, keys and requests and  *)
(* for every value of the settings.                                        *)
(***************************************************************************)
EXTENDS AuthTokens, FiniteSetTheorems, TLAPS

\* The sets of sessions are finite, so that counting them gives a number.
LEMMA CountLemma ==
    ASSUME TypeOK, NEW l \in Logins
    PROVE  /\ IsFiniteSet(OtherSessions(l))
           /\ Cardinality(OtherSessions(l)) \in Nat
  <1>1. OtherSessions(l) \subseteq Keys
    BY DEF OtherSessions, ActiveTokens, TokensOf, TypeOK
  <1>2. QED
    BY <1>1, FinitenessAssumption, FS_Subset, FS_CardinalityType

-----------------------------------------------------------------------------
(***************************************************************************)
(* The effect of one step on the table, which the safety proofs share.     *)
(***************************************************************************)

\* A new row is made for key k, a key never issued before.
Created(l, k) ==
    /\ login[l].pc = "create"
    /\ k \in Keys \ issued
    /\ DOMAIN tokens' = DOMAIN tokens \cup {k}
    /\ \A j \in DOMAIN tokens : tokens'[j] = tokens[j]
    /\ tokens'[k] \in TokenRow
    /\ tokens'[k].expiration > now
    /\ issued' = issued \cup {k}
    /\ tokens' = [j \in DOMAIN tokens' |-> tokens'[j]]

\* No row is made: rows may go, stay unexpired or become expired.
OnlyRemoved ==
    /\ DOMAIN tokens' \subseteq DOMAIN tokens
    /\ \A k \in DOMAIN tokens' :
         /\ tokens'[k] \in TokenRow
         /\ tokens'[k].owner = tokens[k].owner
         /\ tokens'[k].expiration = tokens[k].expiration
         /\ ~tokens'[k].expired => ~tokens[k].expired
    /\ issued' = issued
    /\ tokens' = [j \in DOMAIN tokens' |-> tokens'[j]]

\* Deleting rows leaves the other rows as they are.
LEMMA DeleteRemoves ==
    ASSUME TypeOK, NEW S, tokens' = Delete(S), issued' = issued
    PROVE  OnlyRemoved
  <1>1. DOMAIN tokens' = DOMAIN tokens \ S
    BY DEF Delete
  <1>2. \A k \in DOMAIN tokens' : tokens'[k] = tokens[k]
    BY DEF Delete
  <1>3. \A k \in DOMAIN tokens : tokens[k] \in TokenRow
    BY DEF TypeOK
  <1>4. tokens' = [j \in DOMAIN tokens' |-> tokens'[j]]
    BY DEF Delete
  <1>5. QED
    BY <1>1, <1>2, <1>3, <1>4 DEF OnlyRemoved

\* Expiring rows keeps the keys of the table, and changes nothing in a row but
\* the flag, which it only sets.
LEMMA ExpireRemoves ==
    ASSUME TypeOK, NEW S, tokens' = Expire(S), issued' = issued
    PROVE  /\ OnlyRemoved
           /\ DOMAIN tokens' = DOMAIN tokens
           /\ \A k \in DOMAIN tokens' : ~tokens'[k].expired => k \notin S
  <1>1. DOMAIN tokens' = DOMAIN tokens
    BY DEF Expire
  <1>2. ASSUME NEW k \in DOMAIN tokens'
        PROVE  /\ tokens'[k] \in TokenRow
               /\ tokens'[k].owner = tokens[k].owner
               /\ tokens'[k].expiration = tokens[k].expiration
               /\ ~tokens'[k].expired => ~tokens[k].expired /\ k \notin S
    <2>1. tokens[k] \in TokenRow
      BY <1>1 DEF TypeOK
    <2>2. CASE k \in S
      BY <1>1, <2>1, <2>2 DEF Expire, TokenRow
    <2>3. CASE k \notin S
      BY <1>1, <2>1, <2>3 DEF Expire, TokenRow
    <2>4. QED
      BY <2>2, <2>3
  <1>3. tokens' = [j \in DOMAIN tokens' |-> tokens'[j]]
    BY DEF Expire
  <1>4. QED
    BY <1>1, <1>2, <1>3 DEF OnlyRemoved

\* Every step either makes one row for a new key or only removes and expires.
LEMMA TableStep ==
    ASSUME TypeOK, [Next]_vars
    PROVE  OnlyRemoved \/ \E l \in Logins, k \in Keys : Created(l, k)
  <1> USE DEF TypeOK
  <1>0. \A k \in DOMAIN tokens : tokens[k] \in TokenRow
    OBVIOUS
  <1>1. CASE UNCHANGED <<tokens, issued>>
    BY <1>0, <1>1 DEF OnlyRemoved
  <1>2. ASSUME NEW l \in Logins, DeleteTokens(l)
        PROVE  OnlyRemoved
    BY <1>0, <1>2, DeleteRemoves DEF DeleteTokens
  <1>3. ASSUME NEW l \in Logins, SweepTokens(l)
        PROVE  OnlyRemoved
    BY <1>0, <1>3, ExpireRemoves DEF SweepTokens
  <1>4. ASSUME NEW l \in Logins, CreateToken(l)
        PROVE  \E k \in Keys : Created(l, k)
    <2>1. PICK k \in Keys \ issued :
            tokens' = [j \in DOMAIN tokens \cup {k} |->
                         IF j = k
                         THEN [owner |-> login[l].user, expired |-> FALSE,
                               expiration |-> ExpirationFrom(now),
                               lastAction |-> now]
                         ELSE tokens[j]]
            /\ issued' = issued \cup {k}
      BY <1>4 DEF CreateToken
    <2>2. ExpirationFrom(now) \in Nat /\ ExpirationFrom(now) > now
      BY ConstantsAssumption DEF ExpirationFrom
    <2>3. login[l].user \in Users
      BY <1>4 DEF CreateToken, LoginState, IdleLogin
    <2>4. k \notin DOMAIN tokens
      BY <2>1
    <2>5. tokens'[k] \in TokenRow /\ tokens'[k].expiration > now
      BY <2>1, <2>2, <2>3 DEF TokenRow
    <2>6. QED
      BY <1>4, <2>1, <2>4, <2>5 DEF CreateToken, Created
  <1>5. ASSUME NEW l \in Logins, PruneSessions(l)
        PROVE  OnlyRemoved
    BY <1>0, <1>5, ExpireRemoves DEF PruneSessions
  <1>6. ASSUME NEW c \in Calls, AuthenticateCall(c)
        PROVE  OnlyRemoved
    <2>1. issued' = issued /\ tokens' \in {tokens, Delete({call[c].key})}
      BY <1>6, Zenon DEF AuthenticateCall
    <2>2. QED
      BY <1>0, <2>1, DeleteRemoves DEF OnlyRemoved
  <1>7. ASSUME NEW c \in Calls, TouchToken(c)
        PROVE  OnlyRemoved
    <2>1. DOMAIN tokens' = DOMAIN tokens /\ issued' = issued
      BY <1>7 DEF TouchToken
    <2>2. ASSUME NEW k \in DOMAIN tokens
          PROVE  /\ tokens'[k] \in TokenRow
                 /\ tokens'[k].owner = tokens[k].owner
                 /\ tokens'[k].expiration = tokens[k].expiration
                 /\ tokens'[k].expired = tokens[k].expired
      BY <1>0, <1>7 DEF TouchToken, TokenRow
    <2>3. tokens' = [j \in DOMAIN tokens' |-> tokens'[j]]
      BY <1>7 DEF TouchToken
    <2>4. QED
      BY <2>1, <2>2, <2>3 DEF OnlyRemoved
  <1>8. QED
    BY <1>1, <1>2, <1>3, <1>4, <1>5, <1>6, <1>7
       DEF Next, LoginStep, CallStep, vars, PasswordLogin, DirectLogin, Begin,
           SelectToken, CountSessions, RecountSessions, AnswerLogin, CutShort,
           LoadToken, BlockUser, UnblockUser, Tick


-----------------------------------------------------------------------------
(***************************************************************************)
(* Types.                                                                  *)
(***************************************************************************)

\* A busy slot that moves on stays a slot state.
LEMMA BusySlot ==
    ASSUME NEW s \in LoginState, s.pc # "idle",
           NEW pc \in BusyPcs, NEW k \in Keys \cup {NoKey},
           NEW n \in Nat, NEW t \in Nat \cup {-1}
    PROVE  /\ [s EXCEPT !.pc = pc] \in LoginState
           /\ [s EXCEPT !.pc = pc, !.key = k] \in LoginState
           /\ [s EXCEPT !.pc = pc, !.excess = n] \in LoginState
           /\ [s EXCEPT !.pc = pc, !.sweptAt = t] \in LoginState
  <1>1. s \in [pc: BusyPcs, user: Users, key: Keys \cup {NoKey}, excess: Nat,
               rivals: SUBSET Keys, sweptAt: Nat \cup {-1}]
    BY DEF LoginState, IdleLogin
  <1>2. QED
    BY <1>1 DEF LoginState

LEMMA GotoType ==
    ASSUME TypeOK, NEW l \in Logins, login[l].pc # "idle",
           NEW pc \in BusyPcs, Goto(l, pc)
    PROVE  login' \in [Logins -> LoginState]
  <1>1. [login[l] EXCEPT !.pc = pc] \in LoginState
    BY BusySlot DEF TypeOK, LoginState
  <1>2. login' = [login EXCEPT ![l] = [login[l] EXCEPT !.pc = pc]]
    BY DEF Goto
  <1>3. QED
    BY <1>1, <1>2 DEF TypeOK

\* The slots of the logins keep their type: every login action that leaves a
\* slot busy does so for the user it started with.
LEMMA LoginStateStep ==
    ASSUME TypeOK, [Next]_vars
    PROVE  login' \in [Logins -> LoginState]
  <1> USE DEF TypeOK
  <1>0. CASE login' = login
    BY <1>0
  <1>1. ASSUME NEW l \in Logins, NEW u \in Users, NEW pc, Begin(l, u, pc),
               pc \in {"delete", "sweep", "select", "create"}
        PROVE  login' \in [Logins -> LoginState]
    <2>1. TokensOf(u) \in SUBSET Keys
      BY DEF TokensOf
    <2>2. [IdleLogin EXCEPT !.pc = pc, !.user = u, !.rivals = TokensOf(u)]
            \in LoginState
      BY <1>1, <2>1 DEF IdleLogin, LoginState, BusyPcs
    <2>3. QED
      BY <1>1, <2>2 DEF Begin
  <1>2. ASSUME NEW l \in Logins, LoginStep(l)
        PROVE  login' \in [Logins -> LoginState]
    <2>0. login[l] \in LoginState /\ IdleLogin \in LoginState
      BY DEF LoginState
    <2>1. CASE \E u \in Users : PasswordLogin(l, u) \/ DirectLogin(l, u)
      <3>1. SerializePc \in {"select", "create"}
        BY DEF SerializePc
      <3>2. (IF AllowMultiple THEN "sweep" ELSE "delete") \in {"sweep", "delete"}
        OBVIOUS
      <3>3. QED
        BY <1>1, <2>1, <3>1, <3>2 DEF PasswordLogin, DirectLogin
    <2>2. CASE DeleteTokens(l)
      BY <2>2, GotoType DEF DeleteTokens, BusyPcs
    <2>3. CASE SweepTokens(l)
      <3>1. SerializePc \in BusyPcs
        BY DEF SerializePc, BusyPcs
      <3>2. [login[l] EXCEPT !.pc = SerializePc, !.sweptAt = now] \in LoginState
        BY <2>0, <2>3, <3>1, BusySlot DEF SweepTokens
      <3>3. QED
        BY <2>3, <3>2 DEF SweepTokens
    <2>4. CASE SelectToken(l)
      <3>1. CASE Goto(l, "create")
        BY <2>4, <3>1, GotoType DEF SelectToken, BusyPcs
      <3>2. ASSUME NEW k \in Keys,
                   login' = [login EXCEPT ![l].pc = "count", ![l].key = k]
            PROVE  login' \in [Logins -> LoginState]
        <4>1. [login[l] EXCEPT !.pc = "count", !.key = k] \in LoginState
          BY <2>0, <2>4, BusySlot DEF SelectToken, BusyPcs
        <4>2. QED
          BY <3>2, <4>1
      <3>3. ActiveTokens(login[l].user) \subseteq Keys
        BY DEF ActiveTokens, TokensOf
      <3>4. QED
        BY <2>4, <3>1, <3>2, <3>3 DEF SelectToken
    <2>5. CASE CreateToken(l)
      <3>1. PICK k \in Keys :
              login' = [login EXCEPT ![l].pc = "count", ![l].key = k]
        BY <2>5 DEF CreateToken
      <3>2. [login[l] EXCEPT !.pc = "count", !.key = k] \in LoginState
        BY <2>0, <2>5, BusySlot DEF CreateToken, BusyPcs
      <3>3. QED
        BY <3>1, <3>2
    <2>6. CASE CountSessions(l)
      <3>1. \E pc \in {"recount", "answered"} : Goto(l, pc)
        BY <2>6 DEF CountSessions
      <3>2. QED
        BY <2>6, <3>1, GotoType DEF CountSessions, BusyPcs
    <2>7. CASE RecountSessions(l)
      <3> DEFINE n == Cardinality(OtherSessions(l)) - MaxSessions + 1
      <3>1. n \in Int
        BY CountLemma, ConstantsAssumption
      <3>2. CASE n < 0
        BY <2>0, <2>7, <3>2 DEF RecountSessions
      <3>3. CASE ~(n < 0)
        <4>1. n \in Nat
          BY <3>1, <3>3
        <4>2. login' = [login EXCEPT ![l] =
                          [login[l] EXCEPT !.pc = "prune", !.excess = n]]
          BY <2>7, <3>3 DEF RecountSessions
        <4> HIDE DEF n
        <4>3. [login[l] EXCEPT !.pc = "prune", !.excess = n] \in LoginState
          BY <2>0, <2>7, <4>1, BusySlot DEF RecountSessions, BusyPcs
        <4>4. QED
          BY <4>2, <4>3
      <3>4. QED
        BY <3>2, <3>3
    <2>8. CASE PruneSessions(l)
      BY <2>8, GotoType DEF PruneSessions, BusyPcs
    <2>9. CASE AnswerLogin(l)
      BY <2>0, <2>9 DEF AnswerLogin
    <2>10. CASE CutShort(l)
      BY <2>0, <2>10 DEF CutShort
    <2>11. QED
      BY <1>2, <2>1, <2>2, <2>3, <2>4, <2>5, <2>6, <2>7, <2>8, <2>9, <2>10
         DEF LoginStep
  <1>3. QED
    BY <1>0, <1>2
       DEF Next, CallStep, vars, LoadToken, AuthenticateCall, TouchToken,
           BlockUser, UnblockUser, Tick


\* The slots of the calls keep their type.
LEMMA CallStateStep ==
    ASSUME TypeOK, [Next]_vars
    PROVE  call' \in [Calls -> CallState]
  <1> USE DEF TypeOK
  <1>0. CASE call' = call
    BY <1>0
  <1>1. ASSUME NEW c \in Calls, NEW k \in Keys, NEW unsafe \in BOOLEAN,
               LoadToken(c, k, unsafe)
        PROVE  call' \in [Calls -> CallState]
    <2>1. tokens[k] \in TokenRow /\ tokens[k].owner \in Users
      BY <1>1 DEF LoadToken, TokenRow
    <2>2. isActive[tokens[k].owner] \in BOOLEAN
      BY <2>1
    <2>3. [pc |-> "loaded", key |-> k, unsafe |-> unsafe,
           active |-> isActive[tokens[k].owner], row |-> tokens[k]] \in CallState
      BY <2>1, <2>2 DEF CallState
    <2>4. QED
      BY <1>1, <2>3 DEF LoadToken
  <1>2. IdleCall \in CallState
    BY DEF CallState
  <1>3. ASSUME NEW c \in Calls, AuthenticateCall(c)
        PROVE  call' \in [Calls -> CallState]
    <2>1. call[c] \in CallState /\ call[c].pc = "loaded"
      BY <1>3 DEF AuthenticateCall
    <2>2. [call[c] EXCEPT !.pc = "touch"] \in CallState
      BY <2>1 DEF CallState, IdleCall
    <2>3. \E s \in {IdleCall, [call[c] EXCEPT !.pc = "touch"]} :
            call' = [call EXCEPT ![c] = s]
      BY <1>3, Zenon DEF AuthenticateCall
    <2>4. QED
      BY <1>2, <2>2, <2>3
  <1>4. ASSUME NEW c \in Calls, TouchToken(c)
        PROVE  call' \in [Calls -> CallState]
    BY <1>2, <1>4 DEF TouchToken
  <1>5. QED
    BY <1>0, <1>1, <1>3, <1>4
       DEF Next, LoginStep, CallStep, vars, PasswordLogin, DirectLogin, Begin,
           DeleteTokens, SweepTokens, SelectToken, CreateToken, CountSessions,
           RecountSessions, PruneSessions, AnswerLogin, CutShort, BlockUser,
           UnblockUser, Tick

\* The history variables keep their type.
LEMMA HistoryStep ==
    ASSUME TypeOK, [Next]_vars
    PROVE  cuts' \in Nat /\ left' \in [Users -> Nat] /\ since' \in [Logins -> Nat]
  <1> USE DEF TypeOK
  <1>0. CASE UNCHANGED history
    BY <1>0 DEF history
  <1>1. ASSUME NEW l \in Logins, login[l].pc # "idle"
        PROVE  login[l].user \in Users
    BY <1>1 DEF LoginState, IdleLogin
  <1>2. ASSUME NEW l \in Logins, CountSessions(l)
        PROVE  /\ cuts' = cuts /\ since' = since /\ left' \in [Users -> Nat]
    <2>1. left' \in {left, [left EXCEPT ![login[l].user] = 0]}
      BY <1>2 DEF CountSessions
    <2>2. QED
      BY <1>1, <1>2, <2>1 DEF CountSessions
  <1>3. ASSUME NEW l \in Logins, RecountSessions(l)
        PROVE  /\ cuts' = cuts /\ left' = left /\ since' \in [Logins -> Nat]
    BY <1>3 DEF RecountSessions
  <1>4. ASSUME NEW l \in Logins, PruneSessions(l)
        PROVE  /\ cuts' = cuts /\ since' = since /\ left' \in [Users -> Nat]
    <2>1. PICK n \in Nat : left' = [left EXCEPT ![login[l].user] = n]
      BY <1>1, <1>4 DEF PruneSessions
    <2>2. QED
      BY <1>1, <1>4, <2>1 DEF PruneSessions
  <1>5. ASSUME NEW l \in Logins, CutShort(l)
        PROVE  /\ cuts' \in Nat /\ left' \in [Users -> Nat]
               /\ since' \in [Logins -> Nat]
    BY <1>1, <1>5 DEF CutShort
  <1>6. QED
    BY <1>0, <1>2, <1>3, <1>4, <1>5
       DEF Next, LoginStep, CallStep, vars, PasswordLogin, DirectLogin, Begin,
           DeleteTokens, SweepTokens, SelectToken, CreateToken, AnswerLogin,
           LoadToken, AuthenticateCall, TouchToken, BlockUser, UnblockUser, Tick

\* Every reachable state is well typed: in particular the number of sessions
\* that manage_session_token slices by is never negative.
THEOREM TypeCorrect == Spec => []TypeOK
  <1>1. Init => TypeOK
    BY DEF Init, TypeOK, LoginState, CallState
  <1>2. TypeOK /\ [Next]_vars => TypeOK'
    <2> SUFFICES ASSUME TypeOK, [Next]_vars
                 PROVE  TypeOK'
      OBVIOUS
    <2>1. login' \in [Logins -> LoginState] /\ call' \in [Calls -> CallState]
      BY LoginStateStep, CallStateStep
    <2>2. now' \in Nat /\ isActive' \in [Users -> BOOLEAN]
      <3>1. \/ UNCHANGED <<now, isActive>>
            \/ Tick
            \/ \E u \in Users : BlockUser(u) \/ UnblockUser(u)
        BY DEF Next, LoginStep, CallStep, vars, PasswordLogin, DirectLogin,
               Begin, DeleteTokens, SweepTokens, SelectToken, CreateToken,
               CountSessions, RecountSessions, PruneSessions, AnswerLogin,
               CutShort, LoadToken, AuthenticateCall, TouchToken
      <3>2. CASE Tick
        BY <3>2 DEF Tick, TypeOK
      <3>3. ASSUME NEW u \in Users, BlockUser(u) \/ UnblockUser(u)
            PROVE  now' \in Nat /\ isActive' \in [Users -> BOOLEAN]
        BY <3>3 DEF BlockUser, UnblockUser, TypeOK
      <3>4. QED
        BY <3>1, <3>2, <3>3 DEF TypeOK
    <2>3. tokens' = [k \in DOMAIN tokens' |-> tokens'[k]]
      BY TableStep DEF OnlyRemoved, Created
    <2>4. /\ issued' \subseteq Keys
          /\ DOMAIN tokens' \subseteq issued'
          /\ \A k \in DOMAIN tokens' : tokens'[k] \in TokenRow
      <3>1. CASE OnlyRemoved
        BY <3>1 DEF OnlyRemoved, TypeOK
      <3>2. ASSUME NEW l \in Logins, NEW k \in Keys, Created(l, k)
            PROVE  /\ issued' \subseteq Keys
                   /\ DOMAIN tokens' \subseteq issued'
                   /\ \A j \in DOMAIN tokens' : tokens'[j] \in TokenRow
        BY <3>2 DEF Created, TypeOK
      <3>3. QED
        BY <3>1, <3>2, TableStep
    <2>5. QED
      BY <2>1, <2>2, <2>3, <2>4, HistoryStep DEF TypeOK
  <1>3. QED
    BY <1>1, <1>2, PTL DEF Spec


-----------------------------------------------------------------------------
(***************************************************************************)
(* Safety.                                                                 *)
(***************************************************************************)

\* No step makes an expired or deleted token usable again: the theorem behind
\* closing a session, for any number of requests in flight.
THEOREM ClosedSessionsStayClosed == Spec => NoTokenRevived
  <1> DEFINE Kept == \A k \in issued :
                       k \in DOMAIN tokens' /\ ~tokens'[k].expired
                         => k \in DOMAIN tokens /\ ~tokens[k].expired
  <1>1. TypeOK /\ [Next]_vars => [Kept]_vars
    <2> SUFFICES ASSUME TypeOK, [Next]_vars
                 PROVE  Kept
      OBVIOUS
    <2>1. CASE OnlyRemoved
      BY <2>1 DEF OnlyRemoved
    <2>2. ASSUME NEW l \in Logins, NEW j \in Keys, Created(l, j)
          PROVE  Kept
      BY <2>2 DEF Created
    <2>3. QED
      BY <2>1, <2>2, TableStep
  <1>2. QED
    BY <1>1, TypeCorrect, PTL DEF Spec, NoTokenRevived

\* The clock does not go back.
LEMMA ClockStep ==
    ASSUME TypeOK, [Next]_vars
    PROVE  now' \in Nat /\ now <= now'
  <1>1. now' = now \/ now' = now + 1
    BY DEF Next, LoginStep, CallStep, vars, PasswordLogin, DirectLogin, Begin,
           DeleteTokens, SweepTokens, SelectToken, CreateToken, CountSessions,
           RecountSessions, PruneSessions, AnswerLogin, CutShort, LoadToken,
           AuthenticateCall, TouchToken, BlockUser, UnblockUser, Tick
  <1>2. QED
    BY <1>1 DEF TypeOK

\* What holds of a slot survives the steps of every other request.
LEMMA SlotUndisturbed ==
    ASSUME TypeOK, TypeOK', [Next]_vars, NEW l \in Logins, SlotInv(l),
           login'[l].pc = login[l].pc \/ login[l].pc \notin {"delete", "sweep"},
           login'[l].pc \in {"delete", "sweep"} => login'[l].pc = login[l].pc,
           login'[l].user = login[l].user,
           login'[l].rivals = login[l].rivals,
           login'[l].sweptAt = login[l].sweptAt
    PROVE  SlotInv(l)'
  <1>1. now' \in Nat /\ now \in Nat /\ now <= now'
    BY ClockStep DEF TypeOK
  <1>2. login[l].sweptAt \in Nat \cup {-1}
    BY DEF TypeOK, LoginState, IdleLogin
  <1>3. CASE OnlyRemoved
    <2>1. /\ DOMAIN tokens' \subseteq DOMAIN tokens
          /\ TokensOf(login[l].user)' = TokensOf(login[l].user) \cap DOMAIN tokens'
          /\ ActiveTokens(login[l].user)' \subseteq ActiveTokens(login[l].user)
          /\ \A k \in ActiveTokens(login[l].user)' :
                tokens'[k].expiration = tokens[k].expiration
      BY <1>3 DEF OnlyRemoved, TokensOf, ActiveTokens
    <2>2. QED
      BY <1>1, <1>2, <1>3, <2>1 DEF SlotInv, OnlyRemoved
  <1>4. ASSUME NEW m \in Logins, NEW j \in Keys, Created(m, j)
        PROVE  SlotInv(l)'
    <2>1. /\ \A k \in DOMAIN tokens : k # j /\ tokens'[k] = tokens[k]
          /\ tokens'[j].expiration \in Nat /\ tokens'[j].expiration > now
          /\ j \notin login[l].rivals
      BY <1>4 DEF Created, TypeOK, SlotInv, TokenRow
    <2>2. /\ TokensOf(login[l].user) \subseteq TokensOf(login[l].user)'
          /\ ActiveTokens(login[l].user)' \subseteq ActiveTokens(login[l].user) \cup {j}
      BY <1>4, <2>1 DEF Created, TokensOf, ActiveTokens
    <2>3. login[l].rivals \cap DOMAIN tokens' = login[l].rivals \cap DOMAIN tokens
      BY <1>4, <2>1 DEF Created
    <2>4. \A k \in ActiveTokens(login[l].user) : k \in DOMAIN tokens
      BY DEF ActiveTokens, TokensOf
    <2>5. QED
      BY <1>1, <1>2, <1>4, <2>1, <2>2, <2>3, <2>4 DEF SlotInv, Created
  <1>5. QED
    BY <1>3, <1>4, TableStep

\* Which slot a step moves, and from which program counter to which.
LEMMA SlotMoves ==
    ASSUME TypeOK, [Next]_vars, NEW l \in Logins
    PROVE  \/ login'[l] = login[l]
           \/ login'[l] = IdleLogin
           \/ \E u \in Users : PasswordLogin(l, u) \/ DirectLogin(l, u)
           \/ DeleteTokens(l)
           \/ SweepTokens(l)
           \/ /\ login[l].pc \notin {"delete", "sweep"}
              /\ login'[l].pc \notin {"delete", "sweep"}
              /\ login'[l].user = login[l].user
              /\ login'[l].rivals = login[l].rivals
              /\ login'[l].sweptAt = login[l].sweptAt
  <1> DEFINE Forward ==
        /\ login[l].pc \notin {"delete", "sweep"}
        /\ login'[l].pc \notin {"delete", "sweep"}
        /\ login'[l].user = login[l].user
        /\ login'[l].rivals = login[l].rivals
        /\ login'[l].sweptAt = login[l].sweptAt
  <1>0. login \in [Logins -> LoginState] /\ login[l] \in LoginState
    BY DEF TypeOK
  <1>1. ASSUME NEW m \in Logins, LoginStep(m), m # l
        PROVE  login'[l] = login[l]
    BY <1>0, <1>1
       DEF LoginStep, PasswordLogin, DirectLogin, Begin, DeleteTokens,
           SweepTokens, SelectToken, CreateToken, CountSessions,
           RecountSessions, PruneSessions, AnswerLogin, CutShort, Goto
  <1>2. ASSUME login[l].pc \notin {"idle", "delete", "sweep"},
               NEW pc \in BusyPcs \ {"delete", "sweep"}, NEW k, NEW n,
               \/ Goto(l, pc)
               \/ login' = [login EXCEPT ![l].pc = pc, ![l].key = k]
               \/ login' = [login EXCEPT ![l].pc = pc, ![l].excess = n]
        PROVE  Forward
    <2>1. login[l] \in [pc: BusyPcs, user: Users, key: Keys \cup {NoKey},
                        excess: Nat, rivals: SUBSET Keys,
                        sweptAt: Nat \cup {-1}]
      BY <1>0, <1>2 DEF LoginState, IdleLogin
    <2>2. \/ login'[l] = [login[l] EXCEPT !.pc = pc]
          \/ login'[l] = [login[l] EXCEPT !.pc = pc, !.key = k]
          \/ login'[l] = [login[l] EXCEPT !.pc = pc, !.excess = n]
      BY <1>0, <1>2 DEF Goto
    <2>3. QED
      BY <1>2, <2>1, <2>2
  <1>3. CASE SelectToken(l) \/ CreateToken(l)
    <2>1. \/ Goto(l, "create")
          \/ \E k \in Keys :
               login' = [login EXCEPT ![l].pc = "count", ![l].key = k]
      BY <1>3 DEF SelectToken, CreateToken, ActiveTokens, TokensOf, TypeOK
    <2>2. login[l].pc \notin {"idle", "delete", "sweep"}
      BY <1>3 DEF SelectToken, CreateToken
    <2>3. QED
      BY <1>2, <2>1, <2>2 DEF BusyPcs
  <1>4. CASE CountSessions(l) \/ PruneSessions(l)
    <2>1. \E pc \in {"recount", "answered"} : Goto(l, pc)
      BY <1>4 DEF CountSessions, PruneSessions
    <2>2. login[l].pc \notin {"idle", "delete", "sweep"}
      BY <1>4 DEF CountSessions, PruneSessions
    <2>3. QED
      BY <1>2, <2>1, <2>2 DEF BusyPcs
  <1>5. CASE RecountSessions(l)
    <2>1. \/ login'[l] = IdleLogin
          \/ \E n \in Int :
               login' = [login EXCEPT ![l].pc = "prune", ![l].excess = n]
      <3> DEFINE n == Cardinality(OtherSessions(l)) - MaxSessions + 1
      <3>1. n \in Int
        BY CountLemma, ConstantsAssumption
      <3>2. CASE n < 0
        BY <1>0, <1>5, <3>2 DEF RecountSessions
      <3>3. CASE ~(n < 0)
        <4>1. login' = [login EXCEPT ![l] =
                          [login[l] EXCEPT !.pc = "prune", !.excess = n]]
          BY <1>5, <3>3 DEF RecountSessions
        <4> HIDE DEF n
        <4>2. QED
          BY <3>1, <4>1
      <3>4. QED
        BY <3>2, <3>3
    <2>2. login[l].pc \notin {"idle", "delete", "sweep"}
      BY <1>5 DEF RecountSessions
    <2>3. QED
      BY <1>2, <2>1, <2>2 DEF BusyPcs
  <1>6. CASE AnswerLogin(l) \/ CutShort(l)
    BY <1>0, <1>6 DEF AnswerLogin, CutShort
  <1>7. CASE login' = login
    BY <1>7
  <1>8. CASE LoginStep(l)
    BY <1>3, <1>4, <1>5, <1>6, <1>8 DEF LoginStep
  <1>9. QED
    BY <1>1, <1>7, <1>8
       DEF Next, CallStep, vars, LoadToken, AuthenticateCall, TouchToken,
           BlockUser, UnblockUser, Tick

\* The strengthened invariant is inductive.
LEMMA LoginInvStep ==
    ASSUME TypeOK, TypeOK', [Next]_vars, LoginInv
    PROVE  LoginInv'
  <1> SUFFICES ASSUME NEW l \in Logins
               PROVE  SlotInv(l)'
    BY DEF LoginInv
  <1>0. SlotInv(l) /\ login[l] \in LoginState /\ now \in Nat
    BY DEF LoginInv, TypeOK
  <1>1. CASE login'[l] = login[l]
    BY <1>0, <1>1, SlotUndisturbed
  <1>2. CASE login'[l] = IdleLogin
    BY <1>2 DEF SlotInv, IdleLogin, TypeOK
  <1>3. ASSUME NEW u \in Users, PasswordLogin(l, u) \/ DirectLogin(l, u)
        PROVE  SlotInv(l)'
    <2>1. PICK pc \in {"delete", "sweep", "select", "create"} :
            Begin(l, u, pc) /\ (pc = "sweep" => AllowMultiple)
      BY <1>3, Zenon DEF PasswordLogin, DirectLogin, SerializePc
    <2>2. /\ login'[l].pc = pc /\ login'[l].user = u
          /\ login'[l].rivals = TokensOf(u) /\ login'[l].sweptAt = -1
      BY <2>1 DEF Begin, IdleLogin, TypeOK
    <2>3. TokensOf(u) \subseteq issued
      BY DEF TypeOK, TokensOf
    <2>4. UNCHANGED <<now, tokens, issued>>
      BY <2>1 DEF Begin
    <2>5. TokensOf(u)' = TokensOf(u)
      BY <2>4 DEF TokensOf
    <2>6. -1 <= now'
      BY <1>0, <2>4
    <2>7. QED
      BY <2>1, <2>2, <2>3, <2>4, <2>5, <2>6 DEF SlotInv
  <1>4. CASE DeleteTokens(l)
    <2>1. /\ login'[l].pc = "sweep" /\ login'[l].user = login[l].user
          /\ login'[l].rivals = login[l].rivals
          /\ login'[l].sweptAt = login[l].sweptAt
          /\ login[l].sweptAt = -1
      BY <1>0, <1>4
         DEF DeleteTokens, Goto, SlotInv, TypeOK, LoginState, IdleLogin
    <2>2. login[l].rivals \cap DOMAIN tokens' = {}
      BY <1>0, <1>4 DEF DeleteTokens, Delete, SlotInv
    <2>3. now' = now /\ issued' = issued
      BY <1>4 DEF DeleteTokens
    <2>4. QED
      BY <1>0, <2>1, <2>2, <2>3 DEF SlotInv
  <1>5. CASE SweepTokens(l)
    <2>1. /\ login'[l].pc \notin {"delete", "sweep"}
          /\ login'[l].user = login[l].user
          /\ login'[l].rivals = login[l].rivals
          /\ login'[l].sweptAt = now
          /\ login[l].pc = "sweep"
      BY <1>0, <1>5
         DEF SweepTokens, SerializePc, TypeOK, LoginState, IdleLogin
    <2>2. now' = now /\ issued' = issued /\ DOMAIN tokens' = DOMAIN tokens
      BY <1>5 DEF SweepTokens, Expire
    <2>3. ASSUME NEW k \in ActiveTokens(login[l].user)'
          PROVE  tokens'[k].expiration > now
      <3> DEFINE S == {j \in TokensOf(login[l].user) :
                          tokens[j].expiration <= now}
      <3>1. tokens' = Expire(S) /\ issued' = issued
        BY <1>5 DEF SweepTokens
      <3>2. OnlyRemoved /\ \A j \in DOMAIN tokens' : ~tokens'[j].expired => j \notin S
        BY <3>1, ExpireRemoves
      <3>3. /\ k \in DOMAIN tokens' /\ ~tokens'[k].expired
            /\ tokens'[k].owner = login[l].user
        BY <2>1 DEF ActiveTokens, TokensOf
      <3>4. /\ k \in DOMAIN tokens /\ tokens[k].owner = login[l].user
            /\ tokens'[k].expiration = tokens[k].expiration
            /\ tokens[k].expiration \in Nat
        BY <3>2, <3>3 DEF OnlyRemoved, TypeOK, TokenRow
      <3>5. k \notin S
        BY <3>2, <3>3
      <3>6. QED
        BY <1>0, <3>4, <3>5 DEF TokensOf
    <2>4. ~AllowMultiple => login[l].rivals \cap DOMAIN tokens' = {}
      BY <1>0, <2>1, <2>2 DEF SlotInv
    <2>5. QED
      BY <1>0, <2>1, <2>2, <2>3, <2>4 DEF SlotInv
  <1>6. CASE /\ login[l].pc \notin {"delete", "sweep"}
             /\ login'[l].pc \notin {"delete", "sweep"}
             /\ login'[l].user = login[l].user
             /\ login'[l].rivals = login[l].rivals
             /\ login'[l].sweptAt = login[l].sweptAt
    BY <1>0, <1>6, SlotUndisturbed
  <1>7. QED
    BY <1>1, <1>2, <1>3, <1>4, <1>5, <1>6, SlotMoves

LEMMA LoginInvCorrect == Spec => []LoginInv
  <1>1. Init => LoginInv
    BY DEF Init, LoginInv, SlotInv, IdleLogin
  <1>2. TypeOK /\ TypeOK' /\ LoginInv /\ [Next]_vars => LoginInv'
    BY LoginInvStep
  <1>3. QED
    BY <1>1, <1>2, TypeCorrect, PTL DEF Spec

\* A password login under ALLOW_MULTIPLE_AUTH_TOKEN_SESSION False closes every
\* session the user had when it started, for any number of concurrent requests.
THEOREM PasswordLoginClosesRivals == Spec => []RivalSessionsClosed
  <1>1. LoginInv => RivalSessionsClosed
    BY DEF LoginInv, SlotInv, RivalSessionsClosed
  <1>2. QED
    BY <1>1, LoginInvCorrect, PTL

\* A password login never answers a live token that had expired at its sweep.
THEOREM PasswordLoginAnswersFresh == Spec => []PasswordLoginFresh
  <1>1. LoginInv => PasswordLoginFresh
    BY DEF LoginInv, SlotInv, PasswordLoginFresh
  <1>2. QED
    BY <1>1, LoginInvCorrect, PTL
-----------------------------------------------------------------------------
(***************************************************************************)
(* Counting the sessions of a user.                                        *)
(*                                                                         *)
(* a is the number of active tokens, I are the logins that have created a  *)
(* session and not pruned yet, P those of them that have counted and will  *)
(* prune, x[l] is how many tokens l will expire, s[l] and t are how many   *)
(* logins ended before they pruned since l counted, and in all.  What the  *)
(* cap needs to know of the past is which logins created their session     *)
(* after l counted (after[l]), and which since the last count that a prune *)
(* has made good (fresh).  A login that counted later than l is in         *)
(* after[l] with everything that is after it.                              *)
(***************************************************************************)
CappedBy(a, I, P, x, s, t, after, fresh) ==
    /\ after \in [P -> SUBSET I] /\ fresh \in SUBSET I
    /\ a <= MaxSessions + Cardinality(fresh) + t
    /\ \A l \in P :
        /\ l \notin after[l]
        /\ a <= MaxSessions + x[l] + Cardinality(after[l]) + s[l]
        /\ \A m \in P \cap after[l] :
            after[m] \subseteq after[l] \ {m} /\ s[m] <= s[l]
    /\ \A m \in P \cap fresh : after[m] \subseteq fresh \ {m} /\ s[m] <= t

Capped(a, I, P, x, s, t) ==
    \E after \in [P -> SUBSET I], fresh \in SUBSET I :
        CappedBy(a, I, P, x, s, t, after, fresh)

\* The numbers and sets that the lemmas below are about.
Counts(a, I, P, x, s, t) ==
    /\ a \in Nat /\ t \in Nat
    /\ I \subseteq Logins /\ P \subseteq I
    /\ \A l \in P : x[l] \in Nat /\ s[l] \in Nat

LEMMA CappedIff ==
    ASSUME NEW a, NEW I, NEW P, NEW x, NEW s, NEW t
    PROVE  Capped(a, I, P, x, s, t)
             <=> \E after, fresh : CappedBy(a, I, P, x, s, t, after, fresh)
BY DEF Capped, CappedBy

LEMMA SubsetCount ==
    ASSUME NEW S, S \subseteq Logins
    PROVE  /\ IsFiniteSet(S) /\ Cardinality(S) \in Nat
           /\ \A T \in SUBSET S : Cardinality(T) \in Nat /\ Cardinality(T) <= Cardinality(S)
           /\ \A m : /\ Cardinality(S \ {m}) \in Nat
                     /\ Cardinality(S) <= Cardinality(S \ {m}) + 1
           /\ \A m \in Logins : m \notin S =>
                Cardinality(S \cup {m}) = Cardinality(S) + 1
<1>1. IsFiniteSet(S) /\ Cardinality(S) \in Nat
  BY FinitenessAssumption, FS_Subset, FS_CardinalityType
<1>2. \A T \in SUBSET S : Cardinality(T) \in Nat /\ Cardinality(T) <= Cardinality(S)
  BY <1>1, FS_Subset, FS_CardinalityType
<1>3. ASSUME NEW m PROVE /\ Cardinality(S \ {m}) \in Nat
                         /\ Cardinality(S) <= Cardinality(S \ {m}) + 1
  <2>1. Cardinality(S \ {m}) = IF m \in S THEN Cardinality(S) - 1 ELSE Cardinality(S)
    BY <1>1, FS_RemoveElement
  <2>2. S \ {m} \in SUBSET S
    OBVIOUS
  <2>3. Cardinality(S \ {m}) \in Nat
    BY <1>2, <2>2
  <2> QED BY <1>1, <2>1, <2>3
<1>4. ASSUME NEW m \in Logins, m \notin S PROVE Cardinality(S \cup {m}) = Cardinality(S) + 1
  BY <1>1, <1>4, FS_AddElement
<1> QED BY <1>1, <1>2, <1>3, <1>4

\* Sessions that go away, or logins that join without creating one, are free.
LEMMA CappedLoosens ==
    ASSUME NEW a, NEW I, NEW P, NEW x, NEW s, NEW t, Counts(a, I, P, x, s, t),
           NEW a2 \in Nat, a2 <= a, NEW I2 \in SUBSET Logins, I \subseteq I2,
           NEW x2, NEW s2, \A l \in P : x2[l] = x[l] /\ s2[l] = s[l],
           Capped(a, I, P, x, s, t)
    PROVE  Capped(a2, I2, P, x2, s2, t)
<1>1. PICK after, fresh : CappedBy(a, I, P, x, s, t, after, fresh)
  BY CappedIff
<1>2. after \in [P -> SUBSET I2] /\ fresh \in SUBSET I2
  BY <1>1 DEF CappedBy
<1>3. /\ Cardinality(fresh) \in Nat
      /\ \A l \in P : Cardinality(after[l]) \in Nat
  BY <1>2, SubsetCount
<1>4. a2 <= MaxSessions + Cardinality(fresh) + t
  BY <1>1, <1>3, ConstantsAssumption DEF CappedBy, Counts
<1>5. \A l \in P : a2 <= MaxSessions + x2[l] + Cardinality(after[l]) + s2[l]
  BY <1>1, <1>3, ConstantsAssumption DEF CappedBy, Counts
<1>6. CappedBy(a2, I2, P, x2, s2, t, after, fresh)
  BY <1>1, <1>2, <1>4, <1>5 DEF CappedBy
<1> QED BY <1>6, CappedIff

\* A login creates a session: it is after every login that has counted.
LEMMA CappedCreates ==
    ASSUME NEW a, NEW I, NEW P, NEW x, NEW s, NEW t, Counts(a, I, P, x, s, t),
           NEW a2 \in Nat, a2 <= a + 1, NEW m \in Logins, m \notin I,
           NEW I2, I2 = I \cup {m}, NEW x2, \A l \in P : x2[l] = x[l],
           Capped(a, I, P, x, s, t)
    PROVE  Capped(a2, I2, P, x2, s, t)
<1>1. PICK after, fresh : CappedBy(a, I, P, x, s, t, after, fresh)
  BY CappedIff
<1> DEFINE after2 == [l \in P |-> after[l] \cup {m}]
           fresh2 == fresh \cup {m}
<1>2. after2 \in [P -> SUBSET I2] /\ fresh2 \in SUBSET I2
  BY <1>1 DEF CappedBy
<1>3. /\ Cardinality(fresh) \in Nat /\ Cardinality(fresh2) = Cardinality(fresh) + 1
      /\ \A l \in P : Cardinality(after[l]) \in Nat
                      /\ Cardinality(after2[l]) = Cardinality(after[l]) + 1
  BY <1>1, SubsetCount DEF CappedBy, Counts
<1> HIDE DEF fresh2
<1>4. a2 <= MaxSessions + Cardinality(fresh2) + t
  BY <1>1, <1>3, ConstantsAssumption DEF CappedBy, Counts
<1>5. \A l \in P : a2 <= MaxSessions + x2[l] + Cardinality(after2[l]) + s[l]
  <2> TAKE l \in P
  <2>1. a <= MaxSessions + x[l] + Cardinality(after[l]) + s[l]
    BY <1>1 DEF CappedBy
  <2>2. /\ Cardinality(after[l]) \in Nat /\ x[l] \in Nat /\ s[l] \in Nat
        /\ Cardinality(after2[l]) = Cardinality(after[l]) + 1 /\ x2[l] = x[l]
    BY <1>3 DEF Counts
  <2> HIDE DEF after2
  <2> QED BY <2>1, <2>2, ConstantsAssumption DEF Counts
<1>6. m \notin P
  BY DEF Counts
<1>7. \A l \in P : /\ l \notin after2[l]
                   /\ \A q \in P \cap after2[l] :
                        after2[q] \subseteq after2[l] \ {q} /\ s[q] <= s[l]
  BY <1>1, <1>6 DEF CappedBy
<1>8. \A q \in P \cap fresh2 : after2[q] \subseteq fresh2 \ {q} /\ s[q] <= t
  BY <1>1, <1>6 DEF CappedBy, fresh2
<1> HIDE DEF after2
<1>9. CappedBy(a2, I2, P, x2, s, t, after2, fresh2)
  BY <1>2, <1>4, <1>5, <1>7, <1>8 DEF CappedBy
<1> QED BY <1>9, CappedIff

\* A login counts for the second time: no session is after it yet.
LEMMA CappedCounts ==
    ASSUME NEW a, NEW I, NEW P, NEW x, NEW s, NEW t, Counts(a, I, P, x, s, t),
           NEW m \in I, m \notin P, NEW P2, P2 = P \cup {m}, NEW x2, NEW s2,
           \A l \in P : x2[l] = x[l] /\ s2[l] = s[l],
           s2[m] = 0, x2[m] \in Nat, a <= MaxSessions + x2[m],
           Capped(a, I, P, x, s, t)
    PROVE  Capped(a, I, P2, x2, s2, t)
<1>1. PICK after, fresh : CappedBy(a, I, P, x, s, t, after, fresh)
  BY CappedIff
<1> DEFINE after2 == [l \in P2 |-> IF l = m THEN {} ELSE after[l]]
<1>2. after2 \in [P2 -> SUBSET I] /\ fresh \in SUBSET I
  BY <1>1 DEF CappedBy
<1>3. /\ after2[m] = {} /\ Cardinality({}) = 0
      /\ \A l \in P : after2[l] = after[l] /\ l # m
  BY FS_EmptySet
<1>4. \A l \in P2 : /\ l \notin after2[l]
                    /\ a <= MaxSessions + x2[l] + Cardinality(after2[l]) + s2[l]
  <2> TAKE l \in P2
  <2>1. CASE l = m
    <3>1. after2[l] = {} /\ Cardinality(after2[l]) = 0
      BY <1>3, <2>1
    <3>2. x2[l] \in Nat /\ s2[l] = 0 /\ a <= MaxSessions + x2[l]
      BY <2>1
    <3> HIDE DEF after2
    <3> QED BY <3>1, <3>2, ConstantsAssumption DEF Counts
  <2>2. CASE l # m
    BY <1>1, <1>3, <2>2 DEF CappedBy
  <2> QED BY <2>1, <2>2
<1>5. \A l \in P2 : \A q \in P2 \cap after2[l] :
        after2[q] \subseteq after2[l] \ {q} /\ s2[q] <= s2[l]
  <2> TAKE l \in P2
  <2> TAKE q \in P2 \cap after2[l]
  <2>1. l \in P /\ after2[l] = after[l] /\ s2[l] = s[l] /\ s[l] \in Nat
    BY <1>3 DEF Counts
  <2>2. CASE q = m
    BY <1>3, <2>1, <2>2
  <2>3. CASE q # m
    BY <1>1, <1>3, <2>1, <2>3 DEF CappedBy
  <2> QED BY <2>2, <2>3
<1>6. \A q \in P2 \cap fresh : after2[q] \subseteq fresh \ {q} /\ s2[q] <= t
  <2> TAKE q \in P2 \cap fresh
  <2>2. CASE q = m
    BY <1>3, <2>2 DEF Counts
  <2>3. CASE q # m
    BY <1>1, <1>3, <2>3 DEF CappedBy
  <2> QED BY <2>2, <2>3
<1> HIDE DEF after2
<1>7. CappedBy(a, I, P2, x2, s2, t, after2, fresh)
  BY <1>1, <1>2, <1>4, <1>5, <1>6 DEF CappedBy
<1> QED BY <1>7, CappedIff

\* A count finds the user below the limit: nothing of the past matters.
LEMMA CappedResets ==
    ASSUME NEW a, NEW I, NEW P, NEW x, NEW s, NEW t, Counts(a, I, P, x, s, t),
           NEW m, m \notin P, a <= MaxSessions,
           NEW I2, I2 = I \ {m}, NEW x2, NEW s2,
           \A l \in P : x2[l] = x[l] /\ s2[l] = s[l], NEW t2 \in Nat,
           Capped(a, I, P, x, s, t)
    PROVE  Capped(a, I2, P, x2, s2, t2)
<1>1. PICK after, fresh : CappedBy(a, I, P, x, s, t, after, fresh)
  BY CappedIff
<1> PICK after2 : after2 = [l \in P |-> after[l] \ {m}]
  OBVIOUS
<1>2. P \ {m} = P
  OBVIOUS
<1>3. /\ after2 \in [P -> SUBSET I2]
      /\ \A l \in P : /\ l \notin after2[l]
                      /\ \A q \in P \cap after2[l] :
                           after2[q] \subseteq after2[l] \ {q} /\ s[q] <= s[l]
  BY <1>1, <1>2 DEF CappedBy
<1>4. Cardinality({}) = 0 /\ {} \in SUBSET I2
  BY FS_EmptySet
<1>5. \A l \in P : Cardinality(after2[l]) \in Nat
  <2> TAKE l \in P
  <2>1. after2[l] \subseteq Logins
    BY <1>3 DEF Counts
  <2> QED BY <2>1, SubsetCount
<1>6. a <= MaxSessions + Cardinality({}) + t2
  BY <1>4, ConstantsAssumption DEF Counts
<1>7. \A l \in P : a <= MaxSessions + x2[l] + Cardinality(after2[l]) + s2[l]
  BY <1>5, ConstantsAssumption DEF Counts
<1>8. CappedBy(a, I2, P, x2, s2, t2, after2, {})
  BY <1>3, <1>4, <1>6, <1>7 DEF CappedBy
<1> QED BY <1>8, CappedIff

\* A login prunes: what is left is the limit and what came after its count.
LEMMA CappedPrunes ==
    ASSUME NEW a, NEW I, NEW P, NEW x, NEW s, NEW t, Counts(a, I, P, x, s, t),
           NEW m \in P, NEW a2 \in Nat, a2 <= a, a2 <= MaxSessions \/ a2 + x[m] <= a,
           NEW I2, I2 = I \ {m}, NEW P2, P2 = P \ {m},
           NEW x2, \A l \in P2 : x2[l] = x[l], NEW t2, t2 = IF s[m] < t THEN s[m] ELSE t,
           Capped(a, I, P, x, s, t)
    PROVE  Capped(a2, I2, P2, x2, s, t2)
<1>1. PICK after, fresh : CappedBy(a, I, P, x, s, t, after, fresh)
  BY CappedIff
<1> PICK after2 : after2 = [l \in P2 |-> after[l] \ {m}]
  OBVIOUS
<1> DEFINE fresh2 == IF s[m] <= t THEN after[m] ELSE fresh
<1> HIDE DEF fresh2
<1>2. /\ after2 \in [P2 -> SUBSET I2]
      /\ \A l \in P2 :
          /\ l \notin after2[l] /\ after2[l] = after[l] \ {m}
          /\ \A q \in P2 \cap after2[l] :
               after2[q] \subseteq after2[l] \ {q} /\ s[q] <= s[l]
  BY <1>1 DEF CappedBy
<1>3. /\ Cardinality(fresh) \in Nat
      /\ \A l \in P : Cardinality(after[l]) \in Nat /\ after[l] \subseteq Logins
      /\ \A l \in P2 : Cardinality(after2[l]) \in Nat /\ after2[l] \subseteq Logins
  <2>1. fresh \subseteq Logins /\ \A l \in P : after[l] \subseteq Logins
    BY <1>1 DEF CappedBy, Counts
  <2>2. \A l \in P2 : after2[l] \subseteq Logins
    BY <1>2 DEF Counts
  <2> QED BY <2>1, <2>2, SubsetCount
<1>4. a2 <= MaxSessions + Cardinality(after[m]) + s[m]
  <2>1. a <= MaxSessions + x[m] + Cardinality(after[m]) + s[m]
    BY <1>1 DEF CappedBy
  <2> QED BY <1>3, <2>1, ConstantsAssumption DEF Counts
<1>5. \A l \in P2 : a2 <= MaxSessions + x2[l] + Cardinality(after2[l]) + s[l]
  <2> TAKE l \in P2
  <2>1. l \in P /\ x2[l] = x[l] /\ x[l] \in Nat /\ s[l] \in Nat /\ s[m] \in Nat
    BY DEF Counts
  <2>2. CASE m \in after[l]
    <3>1. after[m] \subseteq after[l] \ {m} /\ s[m] <= s[l]
      BY <1>1, <2>1, <2>2 DEF CappedBy
    <3>2. Cardinality(after[m]) <= Cardinality(after2[l])
      <4>1. after[m] \in SUBSET after2[l] /\ after2[l] \subseteq Logins
        BY <1>2, <1>3, <3>1
      <4> QED BY <4>1, SubsetCount
    <3>3. /\ Cardinality(after[m]) \in Nat /\ Cardinality(after2[l]) \in Nat
          /\ x[l] \in Nat /\ MaxSessions \in Nat /\ s[m] <= s[l]
      BY <1>3, <2>1, <3>1, ConstantsAssumption
    <3> QED BY <1>4, <2>1, <3>2, <3>3
  <2>3. CASE m \notin after[l]
    <3>1. after2[l] = after[l]
      <4>1. after2[l] = after[l] \ {m}
        BY <1>2
      <4>2. after[l] \ {m} = after[l]
        BY <2>3
      <4> QED BY <4>1, <4>2
    <3>2. a <= MaxSessions + x[l] + Cardinality(after[l]) + s[l]
      BY <1>1, <2>1 DEF CappedBy
    <3>3. /\ Cardinality(after[l]) \in Nat /\ x[l] \in Nat /\ MaxSessions \in Nat
          /\ a \in Nat
      BY <1>3, <2>1, ConstantsAssumption DEF Counts
    <3>4. Cardinality(after2[l]) = Cardinality(after[l])
      BY <3>1
    <3>5. a2 <= MaxSessions + x2[l] + Cardinality(after[l]) + s[l]
      BY <2>1, <3>2, <3>3
    <3> QED BY <3>4, <3>5
  <2> QED BY <2>2, <2>3
<1>6. /\ fresh2 \in SUBSET I2
      /\ a2 <= MaxSessions + Cardinality(fresh2) + t2
      /\ \A q \in P2 \cap fresh2 : after2[q] \subseteq fresh2 \ {q} /\ s[q] <= t2
  <2>1. s[m] \in Nat /\ t \in Nat
    BY DEF Counts
  <2>2. CASE s[m] <= t
    <3>1. fresh2 = after[m] /\ t2 = s[m]
      BY <2>1, <2>2 DEF fresh2
    <3>2. after[m] \subseteq I /\ m \notin after[m]
      BY <1>1 DEF CappedBy
    <3>3. \A q \in P2 \cap after[m] : after[q] \subseteq after[m] \ {q} /\ s[q] <= s[m]
      BY <1>1 DEF CappedBy
    <3>4. \A q \in P2 \cap after[m] : after2[q] \subseteq after[m] \ {q}
      BY <1>2, <3>3
    <3> QED BY <1>4, <3>1, <3>2, <3>3, <3>4
  <2>3. CASE ~(s[m] <= t)
    <3>1. fresh2 = fresh /\ t2 = t
      BY <2>1, <2>3 DEF fresh2
    <3>2. fresh \subseteq I /\ m \notin fresh
      BY <1>1, <2>3 DEF CappedBy
    <3>3. a2 <= MaxSessions + Cardinality(fresh) + t
      BY <1>1, <1>3, ConstantsAssumption DEF CappedBy, Counts
    <3>4. \A q \in P2 \cap fresh : after[q] \subseteq fresh \ {q} /\ s[q] <= t
      BY <1>1 DEF CappedBy
    <3>5. \A q \in P2 \cap fresh : after2[q] \subseteq fresh \ {q}
      BY <1>2, <3>4
    <3> QED BY <3>1, <3>2, <3>3, <3>4, <3>5
  <2> QED BY <2>2, <2>3
<1>7. CappedBy(a2, I2, P2, x2, s, t2, after2, fresh2)
  BY <1>2, <1>5, <1>6 DEF CappedBy
<1> QED BY <1>7, CappedIff

\* A login is cut short before it pruned: its session counts as left.
LEMMA CappedCut ==
    ASSUME NEW a, NEW I, NEW P, NEW x, NEW s, NEW t, Counts(a, I, P, x, s, t),
           NEW m \in I, NEW I2, I2 = I \ {m}, NEW P2, P2 = P \ {m},
           NEW x2, NEW s2,
           \A l \in P2 : x2[l] = x[l], \A l \in P : s2[l] = s[l] + 1,
           NEW t2, t2 = t + 1, Capped(a, I, P, x, s, t)
    PROVE  Capped(a, I2, P2, x2, s2, t2)
<1>1. PICK after, fresh : CappedBy(a, I, P, x, s, t, after, fresh)
  BY CappedIff
<1> PICK after2 : after2 = [l \in P2 |-> after[l] \ {m}]
  OBVIOUS
<1> DEFINE fresh2 == fresh \ {m}
<1>2. /\ after2 \in [P2 -> SUBSET I2]
      /\ \A l \in P2 :
          /\ l \notin after2[l] /\ after2[l] = after[l] \ {m}
          /\ \A q \in P2 \cap after2[l] :
               after2[q] \subseteq after2[l] \ {q} /\ s[q] <= s[l]
  BY <1>1 DEF CappedBy
<1>3. \A l \in P2 : after2[l] = after[l] \ {m} /\ after[l] \subseteq Logins
  BY <1>1, <1>2 DEF CappedBy, Counts
<1>4. \A l \in P2 : /\ Cardinality(after[l]) \in Nat /\ Cardinality(after2[l]) \in Nat
                    /\ Cardinality(after[l]) <= Cardinality(after2[l]) + 1
  BY <1>3, SubsetCount
<1>5. /\ fresh2 \in SUBSET I2 /\ Cardinality(fresh) \in Nat /\ Cardinality(fresh2) \in Nat
      /\ Cardinality(fresh) <= Cardinality(fresh2) + 1
  <2>1. fresh \subseteq I /\ fresh \subseteq Logins
    BY <1>1 DEF CappedBy, Counts
  <2> QED BY <2>1, SubsetCount
<1>6. \A q \in P2 \cap fresh2 : after2[q] \subseteq fresh2 \ {q} /\ s2[q] <= t2
  <2> TAKE q \in P2 \cap fresh2
  <2>1. after[q] \subseteq fresh \ {q} /\ s[q] <= t /\ s[q] \in Nat /\ s2[q] = s[q] + 1
    BY <1>1 DEF CappedBy, Counts
  <2>2. after2[q] = after[q] \ {m}
    BY <1>3
  <2> QED BY <2>1, <2>2 DEF Counts
<1> HIDE DEF fresh2
<1>7. a <= MaxSessions + Cardinality(fresh2) + t2
  BY <1>1, <1>5, ConstantsAssumption DEF CappedBy, Counts
<1>8. \A l \in P2 : a <= MaxSessions + x2[l] + Cardinality(after2[l]) + s2[l]
  <2> TAKE l \in P2
  <2>1. /\ a <= MaxSessions + x[l] + Cardinality(after[l]) + s[l]
        /\ x[l] \in Nat /\ s[l] \in Nat /\ s2[l] = s[l] + 1 /\ x2[l] = x[l]
    BY <1>1 DEF CappedBy, Counts
  <2> QED BY <1>4, <2>1, ConstantsAssumption DEF Counts
<1>9. \A l \in P2 : \A q \in P2 \cap after2[l] :
        after2[q] \subseteq after2[l] \ {q} /\ s2[q] <= s2[l]
  <2> TAKE l \in P2
  <2> TAKE q \in P2 \cap after2[l]
  <2>1. s[q] \in Nat /\ s[l] \in Nat /\ s2[q] = s[q] + 1 /\ s2[l] = s[l] + 1
    BY DEF Counts
  <2>2. after2[q] \subseteq after2[l] \ {q} /\ s[q] <= s[l]
    BY <1>2
  <2> QED BY <2>1, <2>2
<1>10. CappedBy(a, I2, P2, x2, s2, t2, after2, fresh2)
  BY <1>2, <1>5, <1>6, <1>7, <1>8, <1>9 DEF CappedBy
<1> QED BY <1>10, CappedIff

\* The logins of u that have counted its sessions and will expire the excess.
Pruning(u) == {l \in Logins : login[l].user = u /\ login[l].pc = "prune"}

Excess == [l \in Logins |-> login[l].excess]

\* The cap of one user, with what makes it inductive.
CappedUser(u) ==
    Capped(Cardinality(ActiveTokens(u)), Issuing(u), Pruning(u), Excess, since, left[u])

CapInv == SessionControl /\ MaxSessions # 0 => \A u \in Users \ Exempt : CappedUser(u)

LEMMA ActiveCount ==
    ASSUME TypeOK, NEW u
    PROVE  /\ ActiveTokens(u) \subseteq Keys /\ IsFiniteSet(ActiveTokens(u))
           /\ Cardinality(ActiveTokens(u)) \in Nat
<1>1. ActiveTokens(u) \subseteq Keys
  BY DEF ActiveTokens, TokensOf, TypeOK
<1> QED BY <1>1, FinitenessAssumption, FS_Subset, FS_CardinalityType

LEMMA FewerActive ==
    ASSUME TypeOK, TypeOK', NEW u, ActiveTokens(u)' \subseteq ActiveTokens(u)
    PROVE  /\ Cardinality(ActiveTokens(u)') \in Nat
           /\ Cardinality(ActiveTokens(u)') <= Cardinality(ActiveTokens(u))
<1>1. IsFiniteSet(ActiveTokens(u))
  BY ActiveCount
<1> QED BY <1>1, FS_Subset, FS_CardinalityType

LEMMA RemovedActive ==
    ASSUME TypeOK, OnlyRemoved, NEW u
    PROVE  ActiveTokens(u)' \subseteq ActiveTokens(u)
BY DEF OnlyRemoved, ActiveTokens, TokensOf

\* A slot at work is the record of its fields.
LEMMA SlotAtWork ==
    ASSUME TypeOK, NEW l \in Logins, login[l].pc # "idle"
    PROVE  /\ login[l] \in [pc: BusyPcs, user: Users, key: Keys \cup {NoKey},
                            excess: Nat, rivals: SUBSET Keys, sweptAt: Nat \cup {-1}]
           /\ login[l].user \in Users /\ login[l].excess \in Nat
<1>1. login[l] \in LoginState
  BY DEF TypeOK
<1> QED BY <1>1 DEF LoginState, IdleLogin

LEMMA UserCounts ==
    ASSUME TypeOK, NEW u \in Users
    PROVE  Counts(Cardinality(ActiveTokens(u)), Issuing(u), Pruning(u), Excess,
                  since, left[u])
<1>1. Cardinality(ActiveTokens(u)) \in Nat
  BY ActiveCount
<1>2. left[u] \in Nat /\ \A l \in Pruning(u) : since[l] \in Nat
  BY DEF TypeOK, Pruning
<1>3. Issuing(u) \subseteq Logins /\ Pruning(u) \subseteq Issuing(u)
  BY DEF Issuing, Pruning, Unpruned
<1>4. \A l \in Pruning(u) : Excess[l] \in Nat
  <2> TAKE l \in Pruning(u)
  <2>1. l \in Logins /\ login[l].pc # "idle"
    BY DEF Pruning
  <2> QED BY <2>1, SlotAtWork DEF Excess
<1> QED BY <1>1, <1>2, <1>3, <1>4 DEF Counts

\* A step that creates no session, lets no login end before it has pruned and
\* counts nothing.
Keeps(l) ==
    /\ Unpruned(l) => Unpruned(l)' /\ login'[l].user = login[l].user
    /\ login[l].pc = "prune" <=> login'[l].pc = "prune"
    /\ login[l].pc = "prune" => login'[l] = login[l]

LEMMA QuietCapped ==
    ASSUME TypeOK, TypeOK', NEW u \in Users, CappedUser(u),
           ActiveTokens(u)' \subseteq ActiveTokens(u), left'[u] = left[u],
           Issuing(u) \subseteq Issuing(u)', Pruning(u)' = Pruning(u),
           \A l \in Pruning(u) : /\ login'[l].excess = login[l].excess
                                 /\ since'[l] = since[l]
    PROVE  CappedUser(u)'
<1> DEFINE a == Cardinality(ActiveTokens(u))
           a2 == Cardinality(ActiveTokens(u)')
           I2 == Issuing(u)'
           x2 == Excess'
           s2 == since'
<1>1. Counts(a, Issuing(u), Pruning(u), Excess, since, left[u])
  BY UserCounts
<1>2. a2 \in Nat /\ a2 <= a
  BY FewerActive
<1>3. I2 \in SUBSET Logins /\ Issuing(u) \subseteq I2
  BY DEF Issuing
<1>4. \A l \in Pruning(u) : x2[l] = Excess[l] /\ s2[l] = since[l]
  BY DEF Excess, Pruning
<1>5. Capped(a, Issuing(u), Pruning(u), Excess, since, left[u])
  BY DEF CappedUser
<1> HIDE DEF a, a2, I2, x2, s2
<1>6. Capped(a2, I2, Pruning(u), x2, s2, left[u])
  BY <1>1, <1>2, <1>3, <1>4, <1>5, CappedLoosens
<1> QED BY <1>6 DEF CappedUser, a2, I2, x2, s2

LEMMA KeepsCapped ==
    ASSUME TypeOK, TypeOK', NEW u \in Users, CappedUser(u), OnlyRemoved,
           \A l \in Logins : Keeps(l), UNCHANGED <<left, since>>
    PROVE  CappedUser(u)'
<1>1. Issuing(u) \subseteq Issuing(u)'
  BY DEF Issuing, Keeps
<1>2. Pruning(u)' = Pruning(u)
  <2>1. \A l \in Logins : login[l].pc = "prune" => login'[l].user = login[l].user
    BY DEF Keeps
  <2>2. \A l \in Logins : login'[l].pc = "prune" => login'[l].user = login[l].user
    BY DEF Keeps
  <2> QED BY <2>1, <2>2 DEF Pruning, Keeps
<1>3. \A l \in Pruning(u) : login'[l].excess = login[l].excess /\ since'[l] = since[l]
  BY DEF Pruning, Keeps
<1> QED BY <1>1, <1>2, <1>3, RemovedActive, QuietCapped

\* One slot moves.
Becomes(m, n) == login' = [login EXCEPT ![m] = n]

\* What that does to the sets of logins.
LEMMA SlotSets ==
    ASSUME TypeOK, NEW m \in Logins, NEW n, Becomes(m, n), NEW u
    PROVE  /\ n.user = u /\ n.pc \in {"count", "recount", "prune"} =>
                Issuing(u)' = Issuing(u) \cup {m}
           /\ n.user # u \/ n.pc \notin {"count", "recount", "prune"} =>
                Issuing(u)' = Issuing(u) \ {m}
           /\ n.user = u /\ n.pc = "prune" => Pruning(u)' = Pruning(u) \cup {m}
           /\ n.user # u \/ n.pc # "prune" => Pruning(u)' = Pruning(u) \ {m}
           /\ \A l \in Logins \ {m} : login'[l] = login[l] /\ Excess'[l] = Excess[l]
           /\ Excess'[m] = n.excess
<1>1. login'[m] = n /\ \A l \in Logins \ {m} : login'[l] = login[l]
  BY DEF TypeOK, Becomes
<1>2. \A l \in Logins : l \in Issuing(u)' <=> login'[l].user = u
                            /\ login'[l].pc \in {"count", "recount", "prune"}
  BY DEF Issuing, Unpruned
<1>3. \A l \in Logins : l \in Issuing(u) <=> login[l].user = u
                            /\ login[l].pc \in {"count", "recount", "prune"}
  BY DEF Issuing, Unpruned
<1>4. Issuing(u) \subseteq Logins /\ Issuing(u)' \subseteq Logins
  BY DEF Issuing
<1>5. /\ n.user = u /\ n.pc \in {"count", "recount", "prune"} =>
           Issuing(u)' = Issuing(u) \cup {m}
      /\ n.user # u \/ n.pc \notin {"count", "recount", "prune"} =>
           Issuing(u)' = Issuing(u) \ {m}
  BY <1>1, <1>2, <1>3, <1>4
<1>6. /\ n.user = u /\ n.pc = "prune" => Pruning(u)' = Pruning(u) \cup {m}
      /\ n.user # u \/ n.pc # "prune" => Pruning(u)' = Pruning(u) \ {m}
  BY <1>1 DEF Pruning
<1>7. /\ \A l \in Logins \ {m} : Excess'[l] = Excess[l]
      /\ Excess'[m] = n.excess
  BY <1>1 DEF Excess
<1> QED BY <1>1, <1>5, <1>6, <1>7

\* The step of a login of another user.
LEMMA OtherCapped ==
    ASSUME TypeOK, TypeOK', NEW u \in Users, CappedUser(u),
           NEW m \in Logins, NEW n, Becomes(m, n), login[m].user # u, n.user # u,
           ActiveTokens(u)' \subseteq ActiveTokens(u), left'[u] = left[u],
           \A l \in Logins : l # m /\ login[l].user = u => since'[l] = since[l]
    PROVE  CappedUser(u)'
<1>1. m \notin Issuing(u) /\ m \notin Pruning(u)
  BY DEF Issuing, Pruning
<1>2. Issuing(u)' = Issuing(u) /\ Pruning(u)' = Pruning(u)
  <2>1. Issuing(u)' = Issuing(u) \ {m} /\ Pruning(u)' = Pruning(u) \ {m}
    BY SlotSets
  <2> QED BY <1>1, <2>1
<1>3. \A l \in Pruning(u) : login'[l].excess = login[l].excess /\ since'[l] = since[l]
  BY <1>1, SlotSets DEF Pruning
<1> QED BY <1>2, <1>3, QuietCapped

\* What CreateToken does to the slot and to the sessions.
LEMMA CreateFacts ==
    ASSUME TypeOK, TypeOK', NEW m \in Logins, CreateToken(m)
    PROVE  /\ login[m].pc = "create" /\ login[m].user \in Users
           /\ UNCHANGED <<left, since>>
           /\ \E n : n.pc = "count" /\ n.user = login[m].user /\ Becomes(m, n)
           /\ \E k : \A u :
                /\ login[m].user = u => ActiveTokens(u)' = ActiveTokens(u) \cup {k}
                /\ login[m].user # u => ActiveTokens(u)' = ActiveTokens(u)
<1> DEFINE old == login[m]
<1>1. /\ old.pc = "create" /\ old.user \in Users
      /\ old \in [pc: BusyPcs, user: Users, key: Keys \cup {NoKey}, excess: Nat,
                  rivals: SUBSET Keys, sweptAt: Nat \cup {-1}]
  BY SlotAtWork DEF CreateToken
<1>2. PICK k \in Keys \ issued :
        /\ tokens' = [j \in DOMAIN tokens \cup {k} |->
                        IF j = k
                        THEN [owner |-> old.user, expired |-> FALSE,
                              expiration |-> ExpirationFrom(now), lastAction |-> now]
                        ELSE tokens[j]]
        /\ login' = [login EXCEPT ![m].pc = "count", ![m].key = k]
  BY DEF CreateToken
<1>3. PICK n : n = [old EXCEPT !.pc = "count", !.key = k]
  OBVIOUS
<1>4. n.pc = "count" /\ n.user = old.user /\ Becomes(m, n)
  BY <1>1, <1>2, <1>3 DEF Becomes
<1>5. UNCHANGED <<left, since>>
  BY DEF CreateToken, history
<1>6. ASSUME NEW u
      PROVE  /\ old.user = u => ActiveTokens(u)' = ActiveTokens(u) \cup {k}
             /\ old.user # u => ActiveTokens(u)' = ActiveTokens(u)
  <2>1. k \notin DOMAIN tokens
    BY <1>2 DEF TypeOK
  <2> QED BY <1>2, <2>1 DEF ActiveTokens, TokensOf
<1> QED BY <1>1, <1>4, <1>5, <1>6

\* A set with one more token.
LEMMA OneMore ==
    ASSUME TypeOK, NEW u, NEW k, ActiveTokens(u)' = ActiveTokens(u) \cup {k}
    PROVE  /\ Cardinality(ActiveTokens(u)') \in Nat
           /\ Cardinality(ActiveTokens(u)') <= Cardinality(ActiveTokens(u)) + 1
<1>1. IsFiniteSet(ActiveTokens(u)) /\ Cardinality(ActiveTokens(u)) \in Nat
  BY ActiveCount
<1>2. Cardinality(ActiveTokens(u) \cup {k})
        = IF k \in ActiveTokens(u) THEN Cardinality(ActiveTokens(u))
          ELSE Cardinality(ActiveTokens(u)) + 1
  BY <1>1, FS_AddElement
<1> QED BY <1>1, <1>2

\* CreateToken: one more session, and its login has not pruned yet.
LEMMA CreateCapped ==
    ASSUME TypeOK, TypeOK', NEW u \in Users, CappedUser(u),
           NEW m \in Logins, CreateToken(m)
    PROVE  CappedUser(u)'
<1> DEFINE old == login[m]
<1>1. old.pc = "create" /\ UNCHANGED <<left, since>>
  BY CreateFacts
<1>2. PICK n : n.pc = "count" /\ n.user = old.user /\ Becomes(m, n)
  BY CreateFacts
<1>3. PICK k : /\ old.user = u => ActiveTokens(u)' = ActiveTokens(u) \cup {k}
               /\ old.user # u => ActiveTokens(u)' = ActiveTokens(u)
  BY CreateFacts
<1>4. CASE old.user # u
  <2>1. ActiveTokens(u)' \subseteq ActiveTokens(u)
    BY <1>3, <1>4
  <2> QED BY <1>1, <1>2, <1>4, <2>1, OtherCapped
<1>5. CASE old.user = u
  <2> DEFINE a == Cardinality(ActiveTokens(u))
             a2 == Cardinality(ActiveTokens(u)')
             I2 == Issuing(u)'
             x2 == Excess'
  <2>1. Counts(a, Issuing(u), Pruning(u), Excess, since, left[u])
    BY UserCounts
  <2>2. a2 \in Nat /\ a2 <= a + 1
    BY <1>3, <1>5, OneMore
  <2>3. m \notin Issuing(u) /\ m \notin Pruning(u)
    BY <1>1 DEF Issuing, Pruning, Unpruned
  <2>4. I2 = Issuing(u) \cup {m} /\ Pruning(u)' = Pruning(u)
    <3>1. Issuing(u)' = Issuing(u) \cup {m} /\ Pruning(u)' = Pruning(u) \ {m}
      BY <1>2, <1>5, SlotSets
    <3> QED BY <2>3, <3>1
  <2>5. \A l \in Pruning(u) : x2[l] = Excess[l]
    <3>1. \A l \in Logins \ {m} : Excess'[l] = Excess[l]
      BY <1>2, SlotSets
    <3> QED BY <2>3, <3>1 DEF Pruning
  <2>6. Capped(a, Issuing(u), Pruning(u), Excess, since, left[u])
    BY DEF CappedUser
  <2>7. left'[u] = left[u] /\ since' = since
    BY <1>1
  <2> HIDE DEF a, a2, I2, x2
  <2>8. Capped(a2, I2, Pruning(u), x2, since, left[u])
    BY <2>1, <2>2, <2>3, <2>4, <2>5, <2>6, CappedCreates
  <2> QED BY <2>4, <2>7, <2>8 DEF CappedUser, a2, I2, x2
<1> QED BY <1>4, <1>5

LEMMA OtherActive ==
    ASSUME TypeOK, NEW m \in Logins
    PROVE  /\ Cardinality(OtherSessions(m)) \in Nat
           /\ Cardinality(ActiveTokens(login[m].user)) \in Nat
           /\ Cardinality(ActiveTokens(login[m].user)) <= Cardinality(OtherSessions(m)) + 1
<1> DEFINE A == ActiveTokens(login[m].user)
           k == login[m].key
<1>1. IsFiniteSet(A) /\ Cardinality(A) \in Nat
  BY ActiveCount
<1>2. OtherSessions(m) = A \ {k} /\ Cardinality(OtherSessions(m)) \in Nat
  BY CountLemma DEF OtherSessions
<1> HIDE DEF A, k
<1>3. Cardinality(A \ {k}) = IF k \in A THEN Cardinality(A) - 1 ELSE Cardinality(A)
  BY <1>1, FS_RemoveElement
<1>4. Cardinality(A) <= Cardinality(OtherSessions(m)) + 1
  BY <1>1, <1>2, <1>3
<1> QED BY <1>1, <1>2, <1>4 DEF A

LEMMA SameActive ==
    ASSUME UNCHANGED tokens, NEW u
    PROVE  ActiveTokens(u)' = ActiveTokens(u)
BY DEF ActiveTokens, TokensOf

\* CountSessions: below the limit the login is done, and the past forgotten.
LEMMA CountCapped ==
    ASSUME TypeOK, TypeOK', SessionControl, MaxSessions # 0,
           NEW u \in Users \ Exempt, CappedUser(u),
           NEW m \in Logins, CountSessions(m)
    PROVE  CappedUser(u)'
<1> DEFINE old == login[m]
           a == Cardinality(ActiveTokens(u))
           many == Cardinality(OtherSessions(m)) >= MaxSessions
<1>1. /\ old.pc = "count" /\ old.user \in Users
      /\ old \in [pc: BusyPcs, user: Users, key: Keys \cup {NoKey}, excess: Nat,
                  rivals: SUBSET Keys, sweptAt: Nat \cup {-1}]
  BY SlotAtWork DEF CountSessions
<1>2. /\ ActiveTokens(u)' = ActiveTokens(u) /\ since' = since
      /\ left' = IF Cardinality(OtherSessions(m)) < MaxSessions
                   THEN [left EXCEPT ![old.user] = 0] ELSE left
  BY SameActive DEF CountSessions
<1>3. PICK p \in {"recount", "answered"} :
        /\ login' = [login EXCEPT ![m].pc = p]
        /\ p = "recount" <=> many /\ old.user \notin Exempt
  BY DEF CountSessions, Goto
<1>4. PICK n : n = [old EXCEPT !.pc = p]
  OBVIOUS
<1>5. n.pc = p /\ n.user = old.user /\ n.excess = old.excess /\ Becomes(m, n)
  BY <1>1, <1>3, <1>4 DEF Becomes
<1>6. Cardinality(OtherSessions(m)) \in Nat /\ MaxSessions \in Nat
  BY OtherActive, ConstantsAssumption
<1>7. m \notin Pruning(u)
  BY <1>1 DEF Pruning
<1>8. CASE old.user # u
  <2>1. left'[u] = left[u]
    BY <1>2, <1>8 DEF TypeOK
  <2> QED BY <1>2, <1>5, <1>8, <2>1, OtherCapped
<1>9. CASE old.user = u /\ many
  <2>1. p = "recount" /\ left' = left
    BY <1>2, <1>3, <1>6, <1>9
  <2>2. Issuing(u)' = Issuing(u) \cup {m} /\ Pruning(u)' = Pruning(u) \ {m}
    BY <1>5, <1>9, <2>1, SlotSets
  <2>3. \A l \in Logins \ {m} : login'[l] = login[l]
    BY <1>5, SlotSets
  <2>4. \A l \in Pruning(u) : login'[l].excess = login[l].excess /\ since'[l] = since[l]
    BY <1>2, <1>7, <2>3 DEF Pruning
  <2>5. Issuing(u) \subseteq Issuing(u)' /\ Pruning(u)' = Pruning(u)
    BY <1>7, <2>2
  <2> QED BY <1>2, <2>1, <2>4, <2>5, QuietCapped
<1>10. CASE old.user = u /\ ~many
  <2>1. p = "answered" /\ left' = [left EXCEPT ![u] = 0]
    BY <1>2, <1>3, <1>6, <1>10
  <2> DEFINE I2 == Issuing(u)'
             x2 == Excess'
  <2>2. I2 = Issuing(u) \ {m} /\ Pruning(u)' = Pruning(u) \ {m}
    BY <1>5, <2>1, SlotSets
  <2>3. Pruning(u)' = Pruning(u)
    BY <1>7, <2>2
  <2>4. Counts(a, Issuing(u), Pruning(u), Excess, since, left[u])
    BY UserCounts
  <2>5. a <= MaxSessions
    BY <1>6, <1>10, OtherActive
  <2>6. \A l \in Pruning(u) : x2[l] = Excess[l] /\ since[l] = since[l]
    <3>1. \A l \in Logins \ {m} : Excess'[l] = Excess[l]
      BY <1>5, SlotSets
    <3> QED BY <1>7, <3>1 DEF Pruning
  <2>7. Capped(a, Issuing(u), Pruning(u), Excess, since, left[u])
    BY DEF CappedUser
  <2>8. left'[u] = 0 /\ since' = since
    BY <1>2, <2>1 DEF TypeOK
  <2> HIDE DEF a, I2, x2
  <2>9. Capped(a, I2, Pruning(u), x2, since, 0)
    BY <1>7, <2>2, <2>4, <2>5, <2>6, <2>7, CappedResets
  <2> QED BY <1>2, <2>3, <2>8, <2>9 DEF CappedUser, a, I2, x2
<1> QED BY <1>8, <1>9, <1>10

\* RecountSessions: the login ends below the limit, or counts what it will
\* expire; no session is after it yet.
LEMMA RecountCapped ==
    ASSUME TypeOK, TypeOK', MaxSessions # 0,
           NEW u \in Users, CappedUser(u), NEW m \in Logins, RecountSessions(m)
    PROVE  CappedUser(u)'
<1> DEFINE old == login[m]
           a == Cardinality(ActiveTokens(u))
           excess == Cardinality(OtherSessions(m)) - MaxSessions + 1
           I2 == Issuing(u)'
           P2 == Pruning(u)'
           x2 == Excess'
           s2 == since'
<1>1. /\ old.pc = "recount" /\ old.user \in Users
      /\ old \in [pc: BusyPcs, user: Users, key: Keys \cup {NoKey}, excess: Nat,
                  rivals: SUBSET Keys, sweptAt: Nat \cup {-1}]
  BY SlotAtWork DEF RecountSessions
<1>2. /\ ActiveTokens(u)' = ActiveTokens(u) /\ left' = left
      /\ since' = [since EXCEPT ![m] = 0]
  BY SameActive DEF RecountSessions
<1>3. PICK n : n = IF excess < 0 THEN IdleLogin
                   ELSE [old EXCEPT !.pc = "prune", !.excess = excess]
  OBVIOUS
<1>4. Becomes(m, n)
  BY <1>3 DEF Becomes, RecountSessions
<1>5. excess \in Int /\ Cardinality(OtherSessions(m)) \in Nat /\ MaxSessions \in Nat
  BY OtherActive, ConstantsAssumption
<1>6. \/ excess < 0 /\ n.user = NoUser /\ n.pc = "idle"
      \/ ~(excess < 0) /\ n.user = old.user /\ n.pc = "prune" /\ n.excess = excess
  <2> HIDE DEF excess
  <2> QED BY <1>1, <1>3 DEF IdleLogin
<1>7. m \notin Pruning(u)
  BY <1>1 DEF Pruning
<1>8. \A l \in Pruning(u) : x2[l] = Excess[l] /\ s2[l] = since[l]
  <2>1. \A l \in Logins \ {m} : Excess'[l] = Excess[l]
    BY <1>4, SlotSets
  <2> QED BY <1>2, <1>7, <2>1 DEF Pruning, TypeOK
<1>9. Counts(a, Issuing(u), Pruning(u), Excess, since, left[u])
  BY UserCounts
<1>10. Capped(a, Issuing(u), Pruning(u), Excess, since, left[u])
  BY DEF CappedUser
<1>11. CASE old.user # u
  <2>1. n.user # u
    BY <1>6, <1>11, ConstantsAssumption
  <2>2. \A l \in Logins : l # m /\ login[l].user = u => since'[l] = since[l]
    BY <1>2 DEF TypeOK
  <2> QED BY <1>2, <1>4, <1>11, <2>1, <2>2, OtherCapped
<1>12. CASE old.user = u /\ excess < 0
  <2>1. n.user # u
    BY <1>5, <1>6, <1>12, ConstantsAssumption
  <2>2. I2 = Issuing(u) \ {m} /\ P2 = Pruning(u) \ {m}
    BY <1>4, <2>1, SlotSets
  <2>3. a <= MaxSessions
    BY <1>5, <1>12, OtherActive
  <2>4. left[u] \in Nat /\ P2 = Pruning(u)
    BY <1>7, <2>2 DEF TypeOK
  <2> HIDE DEF a, I2, P2, x2, s2
  <2>5. Capped(a, I2, Pruning(u), x2, s2, left[u])
    BY <1>7, <1>8, <1>9, <1>10, <2>2, <2>3, <2>4, CappedResets
  <2> QED BY <1>2, <2>4, <2>5 DEF CappedUser, a, I2, P2, x2, s2
<1>13. CASE old.user = u /\ ~(excess < 0)
  <2>1. n.user = u /\ n.pc = "prune" /\ n.excess = excess
    BY <1>6, <1>13
  <2>2. I2 = Issuing(u) \cup {m} /\ P2 = Pruning(u) \cup {m} /\ x2[m] = excess
    BY <1>4, <2>1, SlotSets
  <2>3. m \in Issuing(u)
    BY <1>1, <1>13 DEF Issuing, Unpruned
  <2>4. I2 = Issuing(u)
    BY <2>2, <2>3
  <2>5. s2[m] = 0 /\ x2[m] \in Nat /\ a <= MaxSessions + x2[m]
    <3>1. s2[m] = 0
      BY <1>2 DEF TypeOK
    <3>2. excess \in Nat /\ a <= MaxSessions + excess
      BY <1>5, <1>13, OtherActive
    <3> QED BY <2>2, <3>1, <3>2
  <2> HIDE DEF a, I2, P2, x2, s2
  <2>6. Capped(a, Issuing(u), P2, x2, s2, left[u])
    BY <1>7, <1>8, <1>9, <1>10, <2>2, <2>3, <2>5, CappedCounts
  <2> QED BY <1>2, <2>4, <2>6 DEF CappedUser, a, I2, P2, x2, s2
<1> QED BY <1>11, <1>12, <1>13

\* What a prune leaves: the limit, or as many fewer as it was to expire.
LEMMA PruneLeaves ==
    ASSUME TypeOK, TypeOK', MaxSessions # 0, NEW m \in Logins, PruneSessions(m),
           NEW u, u = login[m].user
    PROVE  /\ ActiveTokens(u)' \subseteq ActiveTokens(u)
           /\ \/ Cardinality(ActiveTokens(u)') <= MaxSessions
              \/ Cardinality(ActiveTokens(u)') + login[m].excess
                   <= Cardinality(ActiveTokens(u))
<1> DEFINE A == ActiveTokens(u)
           A2 == ActiveTokens(u)'
           k == login[m].key
           x == login[m].excess
<1>1. PICK E \in Oldest(OtherSessions(m), x) : tokens' = Expire(E)
  BY DEF PruneSessions
<1>2. issued' = issued
  BY DEF PruneSessions
<1>3. OnlyRemoved /\ \A j \in DOMAIN tokens' : ~tokens'[j].expired => j \notin E
  BY <1>1, <1>2, ExpireRemoves
<1>4. A2 \subseteq A \ E
  <2>1. A2 \subseteq A
    BY <1>3, RemovedActive
  <2>2. \A j \in A2 : j \notin E
    BY <1>3 DEF ActiveTokens, TokensOf
  <2> QED BY <2>1, <2>2
<1>5. E \subseteq OtherSessions(m) /\ OtherSessions(m) = A \ {k}
  BY <1>1 DEF Oldest, OtherSessions
<1>6. x \in Nat /\ IsFiniteSet(A) /\ Cardinality(A) \in Nat /\ MaxSessions \in Nat
      /\ IsFiniteSet(A2) /\ Cardinality(A2) \in Nat
      /\ IsFiniteSet(OtherSessions(m)) /\ Cardinality(OtherSessions(m)) \in Nat
  BY SlotAtWork, ActiveCount, FewerActive, CountLemma, ConstantsAssumption, <1>3,
     RemovedActive, FS_Subset DEF PruneSessions
<1>7. Cardinality(E) = IF x <= Cardinality(OtherSessions(m)) THEN x
                       ELSE Cardinality(OtherSessions(m))
  BY <1>1 DEF Oldest
<1> HIDE DEF A, A2, k, x
<1>8. CASE x <= Cardinality(OtherSessions(m))
  <2>1. Cardinality(E) = x
    BY <1>7, <1>8
  <2>2. E \in SUBSET A /\ A \cap E = E
    BY <1>5
  <2>3. IsFiniteSet(E)
    BY <1>6, <2>2, FS_Subset
  <2>4. IsFiniteSet(A \ E) /\ Cardinality(A \ E) = Cardinality(A) - Cardinality(A \cap E)
    BY <1>6, FS_Difference
  <2>5. Cardinality(A2) <= Cardinality(A \ E)
    BY <1>4, <2>4, FS_Subset
  <2>6. Cardinality(A2) + x <= Cardinality(A)
    BY <1>6, <2>1, <2>2, <2>4, <2>5
  <2> QED BY <1>4, <2>6 DEF A, A2, x
<1>9. CASE ~(x <= Cardinality(OtherSessions(m)))
  <2>1. E = OtherSessions(m)
    BY <1>5, <1>6, <1>7, <1>9, FS_Subset
  <2>2. A2 \in SUBSET {k}
    BY <1>4, <1>5, <2>1
  <2>3. Cardinality(A2) <= 1
    <3>1. IsFiniteSet({k}) /\ Cardinality({k}) = 1
      BY FS_Singleton
    <3> QED BY <2>2, <3>1, FS_Subset
  <2>4. Cardinality(A2) <= MaxSessions
    BY <1>6, <2>3
  <2> QED BY <1>4, <2>4 DEF A, A2
<1> QED BY <1>8, <1>9

\* PruneSessions: the excess that the login counted is expired.
LEMMA PruneCapped ==
    ASSUME TypeOK, TypeOK', MaxSessions # 0,
           NEW u \in Users, CappedUser(u), NEW m \in Logins, PruneSessions(m)
    PROVE  CappedUser(u)'
<1> DEFINE old == login[m]
           a == Cardinality(ActiveTokens(u))
           a2 == Cardinality(ActiveTokens(u)')
           I2 == Issuing(u)'
           P2 == Pruning(u)'
           x2 == Excess'
           t2 == left'[u]
<1>1. /\ old.pc = "prune" /\ old.user \in Users
      /\ old \in [pc: BusyPcs, user: Users, key: Keys \cup {NoKey}, excess: Nat,
                  rivals: SUBSET Keys, sweptAt: Nat \cup {-1}]
  BY SlotAtWork DEF PruneSessions
<1>2. /\ since' = since /\ issued' = issued
      /\ left' = [left EXCEPT ![old.user] = IF since[m] < @ THEN since[m] ELSE @]
  BY DEF PruneSessions
<1>3. PICK n : n = [old EXCEPT !.pc = "answered"]
  OBVIOUS
<1>4. n.pc = "answered" /\ n.user = old.user /\ Becomes(m, n)
  BY <1>1, <1>3 DEF Becomes, PruneSessions, Goto
<1>5. ActiveTokens(u)' \subseteq ActiveTokens(u)
  <2>1. PICK E : tokens' = Expire(E)
    BY DEF PruneSessions
  <2>2. OnlyRemoved
    BY <1>2, <2>1, ExpireRemoves
  <2> QED BY <2>2, RemovedActive
<1>6. CASE old.user # u
  <2>1. left'[u] = left[u]
    BY <1>2, <1>6 DEF TypeOK
  <2> QED BY <1>2, <1>4, <1>5, <1>6, <2>1, OtherCapped
<1>7. CASE old.user = u
  <2>1. m \in Pruning(u)
    BY <1>1, <1>7 DEF Pruning
  <2>2. I2 = Issuing(u) \ {m} /\ P2 = Pruning(u) \ {m}
    BY <1>4, SlotSets
  <2>3. \A l \in P2 : x2[l] = Excess[l]
    <3>1. \A l \in Logins \ {m} : Excess'[l] = Excess[l]
      BY <1>4, SlotSets
    <3> QED BY <2>2, <3>1 DEF Pruning
  <2>4. t2 = IF since[m] < left[u] THEN since[m] ELSE left[u]
    BY <1>2, <1>7 DEF TypeOK
  <2>5. a2 \in Nat /\ a2 <= a
    BY <1>5, FewerActive
  <2>6. a2 <= MaxSessions \/ a2 + Excess[m] <= a
    <3>1. Excess[m] = old.excess
      BY DEF Excess
    <3> QED BY <1>7, <3>1, PruneLeaves
  <2>7. Counts(a, Issuing(u), Pruning(u), Excess, since, left[u])
    BY UserCounts
  <2>8. Capped(a, Issuing(u), Pruning(u), Excess, since, left[u])
    BY DEF CappedUser
  <2> HIDE DEF a, a2, I2, P2, x2, t2
  <2>9. Capped(a2, I2, P2, x2, since, t2)
    BY <2>1, <2>2, <2>3, <2>4, <2>5, <2>6, <2>7, <2>8, CappedPrunes
  <2> QED BY <1>2, <2>9 DEF CappedUser, a2, I2, P2, x2, t2
<1> QED BY <1>6, <1>7

\* CutShort of a login that has a session and has not pruned yet.
LEMMA CutCapped ==
    ASSUME TypeOK, TypeOK', NEW u \in Users, CappedUser(u),
           NEW m \in Logins, CutShort(m), Unpruned(m)
    PROVE  CappedUser(u)'
<1> DEFINE old == login[m]
           a == Cardinality(ActiveTokens(u))
           I2 == Issuing(u)'
           P2 == Pruning(u)'
           x2 == Excess'
           s2 == since'
           t2 == left'[u]
<1>1. /\ ActiveTokens(u)' = ActiveTokens(u) /\ old.user \in Users
      /\ left' = [left EXCEPT ![old.user] = @ + 1]
      /\ since' = [l \in Logins |-> IF login[l].user = old.user THEN since[l] + 1
                                    ELSE since[l]]
  BY SameActive, SlotAtWork DEF CutShort, Unpruned
<1>2. IdleLogin.user = NoUser /\ IdleLogin.pc = "idle" /\ Becomes(m, IdleLogin)
  BY DEF CutShort, IdleLogin, Becomes
<1>3. IdleLogin.user # u
  BY <1>2, ConstantsAssumption
<1>4. CASE old.user # u
  <2>1. left'[u] = left[u]
    BY <1>1, <1>4 DEF TypeOK
  <2>2. \A l \in Logins : l # m /\ login[l].user = u => since'[l] = since[l]
    BY <1>1, <1>4
  <2> QED BY <1>1, <1>2, <1>3, <1>4, <2>1, <2>2, OtherCapped
<1>5. CASE old.user = u
  <2>1. I2 = Issuing(u) \ {m} /\ P2 = Pruning(u) \ {m}
    BY <1>2, <1>3, SlotSets
  <2>2. \A l \in Pruning(u) : l # m => x2[l] = Excess[l]
    <3>1. \A l \in Logins \ {m} : Excess'[l] = Excess[l]
      BY <1>2, SlotSets
    <3> QED BY <3>1 DEF Pruning
  <2>3. \A l \in Pruning(u) : s2[l] = since[l] + 1
    BY <1>1, <1>5 DEF Pruning
  <2>4. t2 = left[u] + 1
    BY <1>1, <1>5 DEF TypeOK
  <2>5. Counts(a, Issuing(u), Pruning(u), Excess, since, left[u])
    BY UserCounts
  <2>6. Capped(a, Issuing(u), Pruning(u), Excess, since, left[u])
    BY DEF CappedUser
  <2>7. \A l \in P2 : x2[l] = Excess[l]
    BY <2>1, <2>2
  <2>8. m \in Issuing(u)
    BY <1>5 DEF Issuing
  <2> HIDE DEF a, I2, P2, x2, s2, t2
  <2>9. Capped(a, I2, P2, x2, s2, t2)
    BY <2>1, <2>3, <2>4, <2>5, <2>6, <2>7, <2>8, CappedCut
  <2> QED BY <1>1, <2>9 DEF CappedUser, a, I2, P2, x2, s2, t2
<1> QED BY <1>4, <1>5

\* A step that creates no token keeps the table or takes from it.
LEMMA NotCreated ==
    ASSUME TypeOK, [Next]_vars, issued' = issued
    PROVE  OnlyRemoved
BY TableStep DEF Created

\* A slot that has no session to prune moves, and does not count.
LEMMA KeepsSlot ==
    ASSUME TypeOK, NEW m \in Logins, NEW n, Becomes(m, n),
           ~Unpruned(m), n.pc # "prune"
    PROVE  \A l \in Logins : Keeps(l)
<1>1. login'[m] = n /\ \A l \in Logins \ {m} : login'[l] = login[l]
  BY DEF Becomes, TypeOK
<1> QED BY <1>1 DEF Keeps, Unpruned

\* The slot that a login step leaves, where the step neither creates a token
\* nor counts.
LEMMA SlotNext ==
    ASSUME TypeOK, NEW m \in Logins,
           \/ \E u \in Users : PasswordLogin(m, u) \/ DirectLogin(m, u)
           \/ DeleteTokens(m) \/ SweepTokens(m) \/ SelectToken(m)
           \/ AnswerLogin(m) \/ (CutShort(m) /\ ~Unpruned(m))
    PROVE  /\ ~Unpruned(m) /\ UNCHANGED <<issued, left, since>>
           /\ \E n : /\ Becomes(m, n) /\ n.pc # "prune"
                     /\ \/ MultipleTokens \/ n.pc # "create"
                        \/ SelectToken(m) /\ n.pc = "create" /\ n.user = login[m].user
                           /\ ActiveTokens(login[m].user) = {}
<1> DEFINE old == login[m]
<1>1. UNCHANGED <<issued, left, since>>
  BY DEF PasswordLogin, DirectLogin, Begin, DeleteTokens, SweepTokens, SelectToken,
         AnswerLogin, CutShort, history
<1>2. ~Unpruned(m)
  BY DEF PasswordLogin, DirectLogin, Begin, DeleteTokens, SweepTokens, SelectToken,
         AnswerLogin, Unpruned
<1>3. ASSUME old.pc # "idle"
      PROVE  old \in [pc: BusyPcs, user: Users, key: Keys \cup {NoKey}, excess: Nat,
                      rivals: SUBSET Keys, sweptAt: Nat \cup {-1}]
  BY <1>3, SlotAtWork
<1>4. ASSUME NEW u \in Users, NEW p, Begin(m, u, p)
      PROVE  \E n : Becomes(m, n) /\ n.pc = p
  <2> PICK n : n = [IdleLogin EXCEPT !.pc = p, !.user = u, !.rivals = TokensOf(u)]
    OBVIOUS
  <2>1. n.pc = p
    BY DEF IdleLogin
  <2> QED BY <1>4, <2>1 DEF Begin, Becomes
<1>5. ASSUME NEW u \in Users, PasswordLogin(m, u) \/ DirectLogin(m, u)
      PROVE  \E n : Becomes(m, n) /\ n.pc # "prune" /\ (MultipleTokens \/ n.pc # "create")
  <2>1. \E p \in {"sweep", "delete", SerializePc} : Begin(m, u, p)
    BY <1>5 DEF PasswordLogin, DirectLogin
  <2>2. SerializePc # "prune" /\ (MultipleTokens \/ SerializePc # "create")
    BY DEF SerializePc
  <2> QED BY <1>4, <2>1, <2>2
<1>6. CASE DeleteTokens(m)
  <2> PICK n : n = [old EXCEPT !.pc = "sweep"]
    OBVIOUS
  <2>1. n.pc = "sweep" /\ Becomes(m, n)
    BY <1>3, <1>6 DEF DeleteTokens, Goto, Becomes
  <2> QED BY <1>1, <1>2, <2>1
<1>7. CASE SweepTokens(m)
  <2> PICK n : n = [old EXCEPT !.pc = SerializePc, !.sweptAt = now]
    OBVIOUS
  <2>1. n.pc = SerializePc /\ Becomes(m, n)
    BY <1>3, <1>7 DEF SweepTokens, Becomes
  <2>2. SerializePc # "prune" /\ (MultipleTokens \/ SerializePc # "create")
    BY DEF SerializePc
  <2> QED BY <1>1, <1>2, <2>1, <2>2
<1>8. CASE SelectToken(m)
  <2>1. CASE ActiveTokens(old.user) = {} /\ Goto(m, "create")
    <3> PICK n : n = [old EXCEPT !.pc = "create"]
      OBVIOUS
    <3>1. n.pc = "create" /\ n.user = old.user /\ Becomes(m, n)
      BY <1>3, <1>8, <2>1 DEF SelectToken, Goto, Becomes
    <3> QED BY <1>1, <1>2, <1>8, <2>1, <3>1
  <2>2. ASSUME NEW k, login' = [login EXCEPT ![m].pc = "count", ![m].key = k]
        PROVE  \E n : Becomes(m, n) /\ n.pc = "count"
    <3> PICK n : n = [old EXCEPT !.pc = "count", !.key = k]
      OBVIOUS
    <3>1. n.pc = "count" /\ Becomes(m, n)
      BY <1>3, <1>8, <2>2 DEF SelectToken, Becomes
    <3> QED BY <3>1
  <2> QED BY <1>1, <1>2, <1>8, <2>1, <2>2 DEF SelectToken
<1>9. CASE AnswerLogin(m) \/ CutShort(m)
  <2>1. Becomes(m, IdleLogin) /\ IdleLogin.pc = "idle"
    BY <1>9 DEF AnswerLogin, CutShort, Becomes, IdleLogin
  <2> QED BY <1>1, <1>2, <2>1
<1> QED BY <1>1, <1>2, <1>5, <1>6, <1>7, <1>8, <1>9

\* Every step keeps the cap of a user.
LEMMA CappedStep ==
    ASSUME TypeOK, TypeOK', [Next]_vars, SessionControl, MaxSessions # 0,
           NEW u \in Users \ Exempt, CappedUser(u)
    PROVE  CappedUser(u)'
<1>1. ASSUME UNCHANGED <<issued, left, since>>, \A l \in Logins : Keeps(l)
      PROVE  CappedUser(u)'
  BY <1>1, NotCreated, KeepsCapped
<1>2. ASSUME UNCHANGED <<issued, left, since, login>> PROVE CappedUser(u)'
  BY <1>1, <1>2 DEF Keeps, Unpruned
<1>3. ASSUME NEW m \in Logins, LoginStep(m) PROVE CappedUser(u)'
  <2>1. CASE CreateToken(m)
    BY <2>1, CreateCapped
  <2>2. CASE CountSessions(m)
    BY <2>2, CountCapped
  <2>3. CASE RecountSessions(m)
    BY <2>3, RecountCapped
  <2>4. CASE PruneSessions(m)
    BY <2>4, PruneCapped
  <2>5. CASE CutShort(m) /\ Unpruned(m)
    BY <2>5, CutCapped
  <2>6. CASE \/ \E v \in Users : PasswordLogin(m, v) \/ DirectLogin(m, v)
             \/ DeleteTokens(m) \/ SweepTokens(m) \/ SelectToken(m)
             \/ AnswerLogin(m) \/ (CutShort(m) /\ ~Unpruned(m))
    <3>1. /\ ~Unpruned(m) /\ UNCHANGED <<issued, left, since>>
          /\ \E n : Becomes(m, n) /\ n.pc # "prune"
      BY <2>6, SlotNext
    <3>2. PICK n : Becomes(m, n) /\ n.pc # "prune"
      BY <3>1
    <3>3. \A l \in Logins : Keeps(l)
      BY <3>1, <3>2, KeepsSlot
    <3> QED BY <1>1, <3>1, <3>3
  <2> QED BY <1>3, <2>1, <2>2, <2>3, <2>4, <2>5, <2>6 DEF LoginStep
<1>4. CASE ~\E m \in Logins : LoginStep(m)
  <2>1. UNCHANGED <<issued, left, since, login>>
    BY <1>4 DEF Next, CallStep, vars, LoadToken, AuthenticateCall, TouchToken,
                BlockUser, UnblockUser, Tick, history
  <2> QED BY <1>2, <2>1
<1> QED BY <1>3, <1>4

LEMMA InitCapped == Init => CapInv
<1> SUFFICES ASSUME Init, NEW u \in Users PROVE CappedUser(u)
  BY DEF CapInv
<1>1. ActiveTokens(u) = {} /\ Issuing(u) = {} /\ Pruning(u) = {} /\ left[u] = 0
  BY DEF Init, ActiveTokens, TokensOf, Issuing, Pruning, Unpruned, IdleLogin
<1>2. Cardinality({}) = 0
  BY FS_EmptySet
<1> DEFINE after == [l \in {} |-> {}]
<1>3. CappedBy(0, {}, {}, Excess, since, 0, after, {})
  BY <1>2, ConstantsAssumption DEF CappedBy
<1> HIDE DEF after
<1>4. Capped(0, {}, {}, Excess, since, 0)
  BY <1>3, CappedIff
<1> QED BY <1>1, <1>2, <1>4 DEF CappedUser

\* manage_session_token keeps the limit, although it counts twice and expires
\* in a third query: for any number of concurrent logins, the sessions of a user
\* exceed MAX_SIMULTANEOUS_SESSIONS only by those of the logins that have not
\* come to their update, and of those that ended before it since a count.
THEOREM SessionsStayCapped == Spec => []SessionsCapped
<1>1. TypeOK /\ CapInv => SessionsCapped
  <2> SUFFICES ASSUME TypeOK, CapInv, SessionControl, MaxSessions # 0,
                      NEW u \in Users \ Exempt
               PROVE  Cardinality(ActiveTokens(u))
                        <= MaxSessions + Cardinality(Issuing(u)) + left[u]
    BY DEF SessionsCapped
  <2>1. PICK after, fresh : CappedBy(Cardinality(ActiveTokens(u)), Issuing(u), Pruning(u),
                                     Excess, since, left[u], after, fresh)
    BY CappedIff DEF CapInv, CappedUser
  <2>2. fresh \in SUBSET Issuing(u) /\ Issuing(u) \subseteq Logins
        /\ Cardinality(ActiveTokens(u)) <= MaxSessions + Cardinality(fresh) + left[u]
    BY <2>1 DEF CappedBy, Issuing
  <2>3. Cardinality(fresh) <= Cardinality(Issuing(u)) /\ Cardinality(fresh) \in Nat
        /\ Cardinality(Issuing(u)) \in Nat
    BY <2>2, SubsetCount
  <2>4. Cardinality(ActiveTokens(u)) \in Nat /\ left[u] \in Nat /\ MaxSessions \in Nat
    BY ActiveCount, ConstantsAssumption DEF TypeOK
  <2> QED BY <2>2, <2>3, <2>4
<1>2. TypeOK /\ TypeOK' /\ CapInv /\ [Next]_vars => CapInv'
  BY CappedStep DEF CapInv
<1> QED BY <1>1, <1>2, InitCapped, TypeCorrect, PTL DEF Spec

-----------------------------------------------------------------------------
(***************************************************************************)
(* Reusing a token: the logins that have found none to reuse and are about *)
(* to create one count as if they had it.                                  *)
(***************************************************************************)
Creating(u) == {l \in Logins : login[l].user = u /\ login[l].pc = "create"}

ReuseUser(u) ==
    Cardinality(ActiveTokens(u)) + Cardinality(Creating(u)) <= Cardinality(Logins)

ReuseInv == ~MultipleTokens => \A u \in Users : ReuseUser(u)

LEMMA CreatingCount ==
    ASSUME NEW u
    PROVE  /\ IsFiniteSet(Creating(u)) /\ Cardinality(Creating(u)) \in Nat
           /\ Cardinality(Logins) \in Nat /\ Cardinality(Creating(u)) <= Cardinality(Logins)
<1>1. Creating(u) \in SUBSET Logins
  BY DEF Creating
<1> QED BY <1>1, FinitenessAssumption, FS_Subset, FS_CardinalityType

LEMMA LeanReuse ==
    ASSUME TypeOK, TypeOK', NEW u, ReuseUser(u),
           ActiveTokens(u)' \subseteq ActiveTokens(u), Creating(u)' \subseteq Creating(u)
    PROVE  ReuseUser(u)'
<1>1. /\ Cardinality(ActiveTokens(u)') \in Nat /\ Cardinality(ActiveTokens(u)) \in Nat
      /\ Cardinality(ActiveTokens(u)') <= Cardinality(ActiveTokens(u))
  BY FewerActive, ActiveCount
<1>2. IsFiniteSet(Creating(u)) /\ Cardinality(Creating(u)) \in Nat /\ Cardinality(Logins) \in Nat
  BY CreatingCount
<1>3. /\ Cardinality(Creating(u)') \in Nat
      /\ Cardinality(Creating(u)') <= Cardinality(Creating(u))
  BY <1>2, FS_Subset, FS_CardinalityType
<1> QED BY <1>1, <1>2, <1>3 DEF ReuseUser

LEMMA ReuseStep ==
    ASSUME TypeOK, TypeOK', [Next]_vars, ~MultipleTokens, NEW u \in Users, ReuseUser(u)
    PROVE  ReuseUser(u)'
<1>1. ASSUME NEW m \in Logins, NEW n, Becomes(m, n),
             n.pc # "create" \/ n.user # u
      PROVE  Creating(u)' = Creating(u) \ {m}
  BY <1>1 DEF Becomes, Creating, TypeOK
<1>2. ASSUME issued' = issued PROVE ActiveTokens(u)' \subseteq ActiveTokens(u)
  BY <1>2, NotCreated, RemovedActive
<1>3. ASSUME NEW m \in Logins, CreateToken(m) PROVE ReuseUser(u)'
  <2> DEFINE A2 == Cardinality(ActiveTokens(u)')
             C2 == Cardinality(Creating(u)')
  <2>1. PICK n : n.pc = "count" /\ n.user = login[m].user /\ Becomes(m, n)
    BY <1>3, CreateFacts
  <2>2. Creating(u)' = Creating(u) \ {m}
    BY <1>1, <2>1
  <2>3. PICK k : /\ login[m].user = u => ActiveTokens(u)' = ActiveTokens(u) \cup {k}
                 /\ login[m].user # u => ActiveTokens(u)' = ActiveTokens(u)
    BY <1>3, CreateFacts
  <2>4. CASE login[m].user # u
    BY <2>2, <2>3, <2>4, LeanReuse
  <2>5. CASE login[m].user = u
    <3>1. m \in Creating(u)
      BY <1>3, <2>5, CreateFacts DEF Creating
    <3>2. C2 = Cardinality(Creating(u)) - 1
      BY <2>2, <3>1, CreatingCount, FS_RemoveElement
    <3>3. A2 \in Nat /\ A2 <= Cardinality(ActiveTokens(u)) + 1
      BY <2>3, <2>5, OneMore
    <3>4. /\ Cardinality(Creating(u)) \in Nat /\ Cardinality(Logins) \in Nat
          /\ Cardinality(ActiveTokens(u)) \in Nat
      BY CreatingCount, ActiveCount
    <3> HIDE DEF A2, C2
    <3>5. A2 + C2 <= Cardinality(Logins)
      BY <3>2, <3>3, <3>4 DEF ReuseUser
    <3> QED BY <3>5 DEF ReuseUser, A2, C2
  <2> QED BY <2>4, <2>5
<1>4. ASSUME NEW m \in Logins, NEW p, p # "create", login[m].pc # "idle",
             login' = [login EXCEPT ![m].pc = p], issued' = issued
      PROVE  ReuseUser(u)'
  <2> PICK n : n = [login[m] EXCEPT !.pc = p]
    OBVIOUS
  <2>1. n.pc = p /\ Becomes(m, n)
    BY <1>4, SlotAtWork DEF Becomes
  <2> QED BY <1>1, <1>2, <1>4, <2>1, LeanReuse
<1>5. ASSUME NEW m \in Logins, RecountSessions(m) PROVE ReuseUser(u)'
  <2> DEFINE excess == Cardinality(OtherSessions(m)) - MaxSessions + 1
  <2>1. PICK n : n = IF excess < 0 THEN IdleLogin
                     ELSE [login[m] EXCEPT !.pc = "prune", !.excess = excess]
    OBVIOUS
  <2>2. Becomes(m, n) /\ issued' = issued
    BY <1>5, <2>1 DEF Becomes, RecountSessions
  <2>3. n.pc # "create"
    <3> HIDE DEF excess
    <3> QED BY <1>5, <2>1, SlotAtWork DEF IdleLogin, RecountSessions
  <2> QED BY <1>1, <1>2, <2>2, <2>3, LeanReuse
<1>6. ASSUME NEW m \in Logins, CutShort(m) PROVE ReuseUser(u)'
  <2>1. Becomes(m, IdleLogin) /\ IdleLogin.pc # "create" /\ issued' = issued
    BY <1>6 DEF CutShort, Becomes, IdleLogin
  <2> QED BY <1>1, <1>2, <2>1, LeanReuse
<1>7. ASSUME NEW m \in Logins,
             \/ \E v \in Users : PasswordLogin(m, v) \/ DirectLogin(m, v)
             \/ DeleteTokens(m) \/ SweepTokens(m) \/ SelectToken(m) \/ AnswerLogin(m)
      PROVE  ReuseUser(u)'
  <2>1. /\ issued' = issued
        /\ \E n : /\ Becomes(m, n)
                  /\ \/ MultipleTokens \/ n.pc # "create"
                     \/ SelectToken(m) /\ n.pc = "create" /\ n.user = login[m].user
                        /\ ActiveTokens(login[m].user) = {}
    BY <1>7, SlotNext
  <2>2. PICK n : /\ Becomes(m, n)
                 /\ \/ n.pc # "create"
                    \/ n.user = login[m].user /\ ActiveTokens(login[m].user) = {}
    BY <2>1
  <2>3. CASE n.pc # "create" \/ n.user # u
    BY <1>1, <1>2, <2>1, <2>2, <2>3, LeanReuse
  <2>4. CASE ActiveTokens(u) = {}
    <3>1. ActiveTokens(u)' = {}
      BY <1>2, <2>1, <2>4
    <3>2. Cardinality(ActiveTokens(u)') = 0
      BY <3>1, FS_EmptySet
    <3>3. Creating(u)' \in SUBSET Logins
      BY DEF Creating
    <3>4. Cardinality(Creating(u)') <= Cardinality(Logins) /\ Cardinality(Creating(u)') \in Nat
      BY <3>3, FinitenessAssumption, FS_Subset, FS_CardinalityType
    <3> QED BY <3>2, <3>4 DEF ReuseUser
  <2> QED BY <2>2, <2>3, <2>4
<1>8. CASE \E m \in Logins : LoginStep(m)
  <2>1. PICK m \in Logins : LoginStep(m)
    BY <1>8
  <2>2. CASE CountSessions(m)
    <3>1. /\ login[m].pc = "count" /\ issued' = issued
          /\ \E p \in {"recount", "answered"} : login' = [login EXCEPT ![m].pc = p]
      BY <2>2 DEF CountSessions, Goto
    <3> QED BY <1>4, <3>1
  <2>3. CASE PruneSessions(m)
    BY <1>4, <2>3 DEF PruneSessions, Goto
  <2> QED BY <1>3, <1>5, <1>6, <1>7, <2>1, <2>2, <2>3 DEF LoginStep
<1>9. CASE ~\E m \in Logins : LoginStep(m)
  <2>1. UNCHANGED <<issued, login>>
    BY <1>9 DEF Next, CallStep, vars, LoadToken, AuthenticateCall, TouchToken,
                BlockUser, UnblockUser, Tick
  <2>2. Creating(u)' = Creating(u)
    BY <2>1 DEF Creating
  <2> QED BY <1>2, <2>1, <2>2, LeanReuse
<1> QED BY <1>8, <1>9

LEMMA InitReuse == Init => ReuseInv
<1> SUFFICES ASSUME Init, NEW u \in Users PROVE ReuseUser(u)
  BY DEF ReuseInv
<1>1. ActiveTokens(u) = {} /\ Creating(u) = {}
  BY DEF Init, ActiveTokens, TokensOf, Creating, IdleLogin
<1>2. Cardinality({}) = 0 /\ Cardinality(Logins) \in Nat
  BY FS_EmptySet, CreatingCount
<1> QED BY <1>1, <1>2 DEF ReuseUser

\* _get_token_key selects and creates in two queries, so that first logins that
\* run at the same time each create a token; however many logins come after
\* them, a user never has more tokens than requests can run at once.
THEOREM TokensStayFew == Spec => []ReuseBoundsTokens
<1>1. TypeOK /\ ReuseInv => ReuseBoundsTokens
  <2> SUFFICES ASSUME TypeOK, ReuseInv, ~MultipleTokens, NEW u \in Users
               PROVE  Cardinality(ActiveTokens(u)) <= Cardinality(Logins)
    BY DEF ReuseBoundsTokens
  <2>1. /\ Cardinality(Creating(u)) \in Nat /\ Cardinality(Logins) \in Nat
        /\ Cardinality(ActiveTokens(u)) \in Nat
    BY CreatingCount, ActiveCount
  <2> QED BY <2>1 DEF ReuseInv, ReuseUser
<1>2. TypeOK /\ TypeOK' /\ ReuseInv /\ [Next]_vars => ReuseInv'
  BY ReuseStep DEF ReuseInv
<1> QED BY <1>1, <1>2, InitReuse, TypeCorrect, PTL DEF Spec
=============================================================================
