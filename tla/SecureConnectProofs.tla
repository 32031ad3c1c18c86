------------------------ MODULE SecureConnectProofs ------------------------
(***************************************************************************)
(* Proofs about SecureConnect, for any number of instances and requests    *)
(* and any setting of the maximum and of the expiry.                       *)
(***************************************************************************)
EXTENDS SecureConnect, FiniteSetTheorems, TLAPS

-----------------------------------------------------------------------------
(***************************************************************************)
(* The effect of one step on the table.                                    *)
(***************************************************************************)

\* Rows may be marked or unmarked, and nothing else.
OnlyMarks ==
    /\ DOMAIN rows' = DOMAIN rows
    /\ rows' \in [DOMAIN rows -> Row]
    /\ \A v \in DOMAIN rows : rows'[v].expiry = rows[v].expiry

\* One row is added.
Added(v) ==
    /\ v \in Values \ DOMAIN rows
    /\ DOMAIN rows' = DOMAIN rows \cup {v}
    /\ rows' \in [DOMAIN rows' -> Row]
    /\ \A x \in DOMAIN rows : rows'[x] = rows[x]
    /\ ~rows'[v].expired

\* Saving a copy of a row that has the date of the row.
LEMMA WriteMarks ==
    ASSUME TypeOK, NEW v, NEW row \in Row, HeldRow(v, row),
           rows' = Write(v, row)
    PROVE  /\ OnlyMarks
           /\ \A x \in DOMAIN rows : rows'[x] = IF x = v THEN row ELSE rows[x]
  <1>1. DOMAIN rows \cup {v} = DOMAIN rows
    BY DEF HeldRow
  <1>2. rows' = [x \in DOMAIN rows |-> IF x = v THEN row ELSE rows[x]]
    BY <1>1 DEF Write
  <1>3. \A x \in DOMAIN rows : rows[x] \in Row
    BY DEF TypeOK
  <1>4. QED
    BY <1>2, <1>3 DEF OnlyMarks, HeldRow

\* The rows that a request or a login can hold.
LEMMA HeldTypes ==
    ASSUME TypeOK
    PROVE  /\ \A r \in Requests : request[r].pc = "flag" =>
                /\ request[r].todo \in SUBSET Values
                /\ request[r].loaded \in SUBSET Values
                /\ request[r].todo \subseteq request[r].loaded
                /\ \A v \in request[r].loaded :
                     /\ request[r].copy[v] \in Row
                     /\ HeldRow(v, request[r].copy[v])
           /\ \A r \in Requests : request[r].pc \in {"url", "mail"} =>
                /\ request[r].value \in Values /\ request[r].row \in Row
                /\ HeldRow(request[r].value, request[r].row)
           /\ \A l \in Logins : login[l].pc # "idle" =>
                /\ login[l].value \in Values /\ login[l].row \in Row
                /\ HeldRow(login[l].value, login[l].row)
  <1>1. ASSUME NEW r \in Requests, request[r].pc = "flag"
        PROVE  request[r] \in
                 [pc: {"flag"}, view: AllViews, loaded: SUBSET Values,
                  copy: [Values -> Row \cup {NoRow}], todo: SUBSET Values]
    BY <1>1 DEF TypeOK, RequestState, IdleRequest
  <1>2. ASSUME NEW r \in Requests, request[r].pc \in {"url", "mail"}
        PROVE  request[r] \in [pc: {"url", "mail"}, value: Values, row: Row]
    BY <1>2 DEF TypeOK, RequestState, IdleRequest
  <1>3. ASSUME NEW l \in Logins, login[l].pc # "idle"
        PROVE  login[l] \in [pc: {"loaded", "accepted"}, value: Values, row: Row]
    BY <1>3 DEF TypeOK, LoginState, IdleLogin
  <1>4. ASSUME NEW r \in Requests, request[r].pc = "flag",
               NEW v \in request[r].loaded
        PROVE  request[r].copy[v] \in Row /\ HeldRow(v, request[r].copy[v])
    <2>1. request[r].copy \in [Values -> Row \cup {NoRow}] /\ v \in Values
      BY <1>1, <1>4
    <2>2. request[r].copy[v] # NoRow /\ HeldRow(v, request[r].copy[v])
      BY <1>4 DEF TypeOK, HeldRows
    <2>3. QED
      BY <2>1, <2>2
  <1>5. ASSUME NEW r \in Requests, request[r].pc = "flag"
        PROVE  /\ request[r].todo \in SUBSET Values
               /\ request[r].loaded \in SUBSET Values
               /\ request[r].todo \subseteq request[r].loaded
    BY <1>1, <1>5 DEF TypeOK, HeldRows
  <1>6. ASSUME NEW r \in Requests, request[r].pc \in {"url", "mail"}
        PROVE  /\ request[r].value \in Values /\ request[r].row \in Row
               /\ HeldRow(request[r].value, request[r].row)
    BY <1>2, <1>6 DEF TypeOK, HeldRows
  <1>7. ASSUME NEW l \in Logins, login[l].pc # "idle"
        PROVE  /\ login[l].value \in Values /\ login[l].row \in Row
               /\ HeldRow(login[l].value, login[l].row)
    BY <1>3, <1>7 DEF TypeOK, HeldRows
  <1>8. QED
    BY <1>4, <1>5, <1>6, <1>7

\* Every step marks rows or adds one, for a request that was let through.
LEMMA TableStep ==
    ASSUME TypeOK, [Next]_vars
    PROVE  \/ OnlyMarks
           \/ \E r \in Requests, v \in Values :
                Create(r) /\ Added(v)
  <1>0. \A v \in DOMAIN rows : rows[v] \in Row
    BY DEF TypeOK
  <1>1. ASSUME rows' = rows
        PROVE  OnlyMarks
    BY <1>1 DEF OnlyMarks, TypeOK
  <1>2. ASSUME NEW r \in Requests, FlagOverdue(r)
        PROVE  OnlyMarks
    <2>1. PICK v \in request[r].todo :
            \/ rows' = Write(v, [request[r].copy[v] EXCEPT !.expired = TRUE])
            \/ rows' = rows
      BY <1>2 DEF FlagOverdue
    <2>2. request[r].copy[v] \in Row /\ HeldRow(v, request[r].copy[v])
      BY <1>2, HeldTypes DEF FlagOverdue
    <2> DEFINE marked == [request[r].copy[v] EXCEPT !.expired = TRUE]
    <2>3. marked \in Row /\ HeldRow(v, marked)
      BY <2>2 DEF Row, HeldRow
    <2>4. QED
      BY <1>1, <2>1, <2>3, WriteMarks
  <1>3. ASSUME NEW r \in Requests, Create(r)
        PROVE  \E v \in Values : Added(v)
    <2>1. PICK v \in Values \ DOMAIN rows :
            rows' = Write(v, [expired |-> FALSE, expiry |-> now + Expiry])
      BY <1>3 DEF Create
    <2>2. [expired |-> FALSE, expiry |-> now + Expiry] \in Row
      BY ConstantsAssumption DEF TypeOK, Row
    <2>3. QED
      BY <1>0, <2>1, <2>2 DEF Added, Write
  <1>4. ASSUME NEW r \in Requests, SaveUrl(r) \/ SaveMailSent(r)
        PROVE  OnlyMarks
    BY <1>4, HeldTypes, WriteMarks DEF SaveUrl, SaveMailSent
  <1>5. ASSUME NEW l \in Logins, RefuseLogin(l)
        PROVE  OnlyMarks
    <2>1. login[l].row \in Row /\ HeldRow(login[l].value, login[l].row)
      BY <1>5, HeldTypes DEF RefuseLogin
    <2> DEFINE marked == [login[l].row EXCEPT !.expired = TRUE]
    <2>2. marked \in Row /\ HeldRow(login[l].value, marked)
      BY <2>1 DEF Row, HeldRow
    <2>3. QED
      BY <1>5, <2>2, WriteMarks DEF RefuseLogin
  <1>6. QED
    BY <1>1, <1>2, <1>3, <1>4, <1>5
       DEF Next, RequestStep, LoginStep, vars, Load, EndCall, Refuse, Allow,
           Abort, LoadInstance, AcceptLogin, AnswerLogin, Tick

\* A copy that a request holds stays a copy of its row.
LEMMA HeldStays ==
    ASSUME TypeOK, [Next]_vars, NEW v, NEW row, HeldRow(v, row)
    PROVE  v \in DOMAIN rows' /\ row.expiry = rows'[v].expiry
  <1>1. CASE OnlyMarks
    BY <1>1 DEF OnlyMarks, HeldRow
  <1>2. ASSUME NEW x \in Values, Added(x)
        PROVE  v \in DOMAIN rows' /\ row.expiry = rows'[v].expiry
    BY <1>2 DEF Added, HeldRow
  <1>3. QED
    BY <1>1, <1>2, TableStep

\* What a request slot may hold after a step.
GoodRequest(s) ==
    /\ s \in RequestState
    /\ s.pc = "flag" =>
         /\ s.todo \subseteq s.loaded
         /\ \A v \in s.loaded : /\ s.copy[v] # NoRow
                                /\ v \in DOMAIN rows'
                                /\ s.copy[v].expiry = rows'[v].expiry
    /\ s.pc \in {"url", "mail"} =>
         s.value \in DOMAIN rows' /\ s.row.expiry = rows'[s.value].expiry

LEMMA IdleIsGood == GoodRequest(IdleRequest)
  BY DEF GoodRequest, IdleRequest, RequestState

\* Every step moves at most one request slot, to what it may hold.
LEMMA RequestMoves ==
    ASSUME TypeOK, [Next]_vars
    PROVE  \/ request' = request
           \/ \E r \in Requests : \E s :
                GoodRequest(s) /\ request' = [request EXCEPT ![r] = s]
  <1> DEFINE Moves == \E r \in Requests : \E s :
                         GoodRequest(s) /\ request' = [request EXCEPT ![r] = s]
  <1>1. ASSUME NEW r \in Requests, NEW view \in Views, Load(r, view)
        PROVE  Moves
    <2> DEFINE s == [pc |-> "flag", view |-> view,
                     loaded |-> Unmarked, todo |-> Unmarked,
                     copy |-> [v \in Values |->
                                 IF v \in Unmarked THEN rows[v] ELSE NoRow]]
    <2>1. Unmarked \subseteq Values /\ \A v \in Unmarked : rows[v] \in Row
      BY DEF Unmarked, TypeOK
    <2>2. s.copy \in [Values -> Row \cup {NoRow}]
      BY <2>1
    <2>3. s \in RequestState
      BY <2>1, <2>2, ConstantsAssumption DEF RequestState
    <2>4. ASSUME NEW v \in Unmarked
          PROVE  /\ s.copy[v] # NoRow /\ v \in DOMAIN rows'
                 /\ s.copy[v].expiry = rows'[v].expiry
      <3>1. s.copy[v] = rows[v] /\ rows[v] # NoRow
        BY <2>1, ConstantsAssumption
      <3>2. rows' = rows /\ v \in DOMAIN rows
        BY <1>1 DEF Load, Unmarked
      <3>3. QED
        BY <3>1, <3>2
    <2>5. GoodRequest(s)
      BY <2>3, <2>4 DEF GoodRequest
    <2>6. request' = [request EXCEPT ![r] = s]
      BY <1>1 DEF Load
    <2>7. QED
      BY <2>5, <2>6
  <1>2. ASSUME NEW r \in Requests, FlagOverdue(r)
        PROVE  Moves
    <2>1. PICK v \in request[r].todo :
            request' = [request EXCEPT ![r].todo = @ \ {v}]
      BY <1>2 DEF FlagOverdue
    <2> DEFINE s == [request[r] EXCEPT !.todo = @ \ {v}]
    <2>2. request[r] \in
            [pc: {"flag"}, view: AllViews, loaded: SUBSET Values,
             copy: [Values -> Row \cup {NoRow}], todo: SUBSET Values]
      BY <1>2 DEF FlagOverdue, TypeOK, RequestState, IdleRequest
    <2>3. s \in RequestState /\ s.pc = "flag"
      BY <2>2 DEF RequestState
    <2>4. s.todo \subseteq s.loaded /\ s.loaded = request[r].loaded
          /\ s.copy = request[r].copy
      BY <1>2, <2>2, HeldTypes DEF FlagOverdue
    <2>5. ASSUME NEW x \in request[r].loaded
          PROVE  /\ request[r].copy[x] # NoRow /\ x \in DOMAIN rows'
                 /\ request[r].copy[x].expiry = rows'[x].expiry
      <3>1. request[r].copy[x] # NoRow /\ HeldRow(x, request[r].copy[x])
        BY <1>2, <2>5, HeldTypes, ConstantsAssumption DEF FlagOverdue
      <3>2. QED
        BY <3>1, HeldStays
    <2>6. GoodRequest(s)
      BY <2>3, <2>4, <2>5 DEF GoodRequest
    <2>7. request' = [request EXCEPT ![r] = s]
      BY <2>1
    <2>8. QED
      BY <2>6, <2>7
  <1>3. ASSUME NEW r \in Requests,
               EndCall(r) \/ Refuse(r) \/ SaveMailSent(r) \/ Abort(r)
        PROVE  Moves
    BY <1>3, IdleIsGood DEF EndCall, Refuse, SaveMailSent, Abort
  <1>4. ASSUME NEW r \in Requests, Allow(r)
        PROVE  Moves
    <2> DEFINE s == [pc |-> "create", view |-> request[r].view]
    <2>1. request[r].view \in AllViews
      BY <1>4 DEF Allow, LoopDone, TypeOK, RequestState, IdleRequest
    <2>2. GoodRequest(s)
      BY <2>1 DEF GoodRequest, RequestState
    <2>3. QED
      BY <1>4, <2>2 DEF Allow
  <1>5. ASSUME NEW r \in Requests, Create(r)
        PROVE  Moves
    <2> DEFINE row == [expired |-> FALSE, expiry |-> now + Expiry]
    <2>1. PICK v \in Values \ DOMAIN rows :
            /\ rows' = Write(v, row)
            /\ request' = [request EXCEPT ![r] =
                 CASE @.view = "token" -> [pc |-> "url", value |-> v, row |-> row]
                   [] @.view = "code" -> [pc |-> "mail", value |-> v, row |-> row]
                   [] OTHER -> IdleRequest]
      BY <1>5 DEF Create
    <2>2. row \in Row
      BY ConstantsAssumption DEF TypeOK, Row
    <2>3. v \in DOMAIN rows' /\ rows'[v] = row
      BY <2>1 DEF Write
    <2>4. ASSUME NEW pc \in {"url", "mail"}
          PROVE  GoodRequest([pc |-> pc, value |-> v, row |-> row])
      BY <2>1, <2>2, <2>3 DEF GoodRequest, RequestState
    <2>5. \E s : /\ request' = [request EXCEPT ![r] = s]
                 /\ s \in {[pc |-> "url", value |-> v, row |-> row],
                          [pc |-> "mail", value |-> v, row |-> row],
                          IdleRequest}
      <3> HIDE DEF row
      <3>1. QED
        BY <2>1
    <2>6. QED
      BY <2>4, <2>5, IdleIsGood
  <1>6. ASSUME NEW r \in Requests, SaveUrl(r)
        PROVE  Moves
    <2> DEFINE s == [request[r] EXCEPT !.pc = "mail"]
    <2>1. request[r] \in [pc: {"url", "mail"}, value: Values, row: Row]
      BY <1>6 DEF SaveUrl, TypeOK, RequestState, IdleRequest
    <2>2. /\ s \in RequestState /\ s.pc = "mail"
          /\ s.value = request[r].value /\ s.row = request[r].row
      BY <2>1 DEF RequestState
    <2>3. HeldRow(request[r].value, request[r].row)
      BY <1>6, HeldTypes DEF SaveUrl
    <2>4. /\ request[r].value \in DOMAIN rows'
          /\ request[r].row.expiry = rows'[request[r].value].expiry
      BY <2>3, HeldStays
    <2>5. GoodRequest(s)
      BY <2>2, <2>4 DEF GoodRequest
    <2>6. request' = [request EXCEPT ![r] = s]
      BY <1>6 DEF SaveUrl
    <2>7. QED
      BY <2>5, <2>6
  <1>7. QED
    BY <1>1, <1>2, <1>3, <1>4, <1>5, <1>6
       DEF Next, RequestStep, LoginStep, vars, LoadInstance, RefuseLogin,
           AcceptLogin, AnswerLogin, Tick

\* What a login slot may hold after a step.
GoodLogin(s) ==
    /\ s \in LoginState
    /\ s.pc # "idle" =>
         s.value \in DOMAIN rows' /\ s.row.expiry = rows'[s.value].expiry

\* Every step moves at most one login slot, to what it may hold.
LEMMA LoginMoves ==
    ASSUME TypeOK, [Next]_vars
    PROVE  \/ login' = login
           \/ \E l \in Logins : \E s :
                GoodLogin(s) /\ login' = [login EXCEPT ![l] = s]
  <1> DEFINE Moves == \E l \in Logins : \E s :
                         GoodLogin(s) /\ login' = [login EXCEPT ![l] = s]
  <1>0. GoodLogin(IdleLogin)
    BY DEF GoodLogin, IdleLogin, LoginState
  <1>1. ASSUME NEW l \in Logins, NEW v \in Values, LoadInstance(l, v)
        PROVE  Moves
    <2> DEFINE s == [pc |-> "loaded", value |-> v, row |-> rows[v]]
    <2>1. v \in DOMAIN rows /\ rows[v] \in Row /\ rows' = rows
      BY <1>1 DEF LoadInstance, TypeOK
    <2>2. GoodLogin(s)
      BY <2>1 DEF GoodLogin, LoginState
    <2>3. QED
      BY <1>1, <2>2 DEF LoadInstance
  <1>2. ASSUME NEW l \in Logins, RefuseLogin(l) \/ AnswerLogin(l)
        PROVE  Moves
    BY <1>0, <1>2 DEF RefuseLogin, AnswerLogin
  <1>3. ASSUME NEW l \in Logins, AcceptLogin(l)
        PROVE  Moves
    <2> DEFINE s == [login[l] EXCEPT !.pc = "accepted"]
    <2>1. login[l] \in [pc: {"loaded", "accepted"}, value: Values, row: Row]
      BY <1>3 DEF AcceptLogin, TypeOK, LoginState, IdleLogin
    <2>2. /\ s \in LoginState /\ s.pc = "accepted"
          /\ s.value = login[l].value /\ s.row = login[l].row
      BY <2>1 DEF LoginState
    <2>3. HeldRow(login[l].value, login[l].row)
      BY <1>3, HeldTypes DEF AcceptLogin
    <2>4. /\ login[l].value \in DOMAIN rows'
          /\ login[l].row.expiry = rows'[login[l].value].expiry
      BY <2>3, HeldStays
    <2>5. GoodLogin(s)
      BY <2>2, <2>4 DEF GoodLogin
    <2>6. login' = [login EXCEPT ![l] = s]
      BY <1>3 DEF AcceptLogin
    <2>7. QED
      BY <2>5, <2>6
  <1>4. QED
    BY <1>1, <1>2, <1>3
       DEF Next, RequestStep, LoginStep, vars, Load, FlagOverdue, EndCall,
           Refuse, Allow, Create, SaveUrl, SaveMailSent, Abort, Tick

\* Only rows of the table are ever marked.
LEMMA OverdueStep ==
    ASSUME TypeOK, [Next]_vars
    PROVE  /\ overdue' \subseteq DOMAIN rows
           /\ \A v \in overdue' : v \in overdue \/ Overdue(rows[v])
  <1>0. overdue \subseteq DOMAIN rows
    BY DEF TypeOK
  <1>1. ASSUME NEW r \in Requests, FlagOverdue(r)
        PROVE  /\ overdue' \subseteq DOMAIN rows
               /\ \A v \in overdue' : v \in overdue \/ Overdue(rows[v])
    <2>1. PICK v \in request[r].todo :
            \/ Overdue(request[r].copy[v]) /\ overdue' = overdue \cup {v}
            \/ overdue' = overdue
      BY <1>1 DEF FlagOverdue
    <2>2. HeldRow(v, request[r].copy[v])
      BY <1>1, HeldTypes DEF FlagOverdue
    <2>3. QED
      BY <1>0, <2>1, <2>2 DEF HeldRow, Overdue
  <1>2. ASSUME NEW l \in Logins, RefuseLogin(l)
        PROVE  /\ overdue' \subseteq DOMAIN rows
               /\ \A v \in overdue' : v \in overdue \/ Overdue(rows[v])
    <2>1. HeldRow(login[l].value, login[l].row)
      BY <1>2, HeldTypes DEF RefuseLogin
    <2>2. QED
      BY <1>0, <1>2, <2>1 DEF HeldRow, Overdue, RefuseLogin
  <1>3. QED
    BY <1>0, <1>1, <1>2
       DEF Next, RequestStep, LoginStep, vars, Load, EndCall, Refuse, Allow,
           Create, SaveUrl, SaveMailSent, Abort, LoadInstance, AcceptLogin,
           AnswerLogin, Tick

\* Time does not go back.
LEMMA ClockStep ==
    ASSUME TypeOK, [Next]_vars
    PROVE  now' \in Nat /\ now <= now'
  <1>1. now' = now \/ now' = now + 1
    BY DEF Next, RequestStep, LoginStep, vars, Load, FlagOverdue, EndCall,
           Refuse, Allow, Create, SaveUrl, SaveMailSent, Abort, LoadInstance,
           RefuseLogin, AcceptLogin, AnswerLogin, Tick
  <1>2. QED
    BY <1>1 DEF TypeOK

\* TypeOK is inductive.
LEMMA TypeStep ==
    ASSUME TypeOK, [Next]_vars
    PROVE  TypeOK'
  <1>1. now' \in Nat
    BY ClockStep
  <1>2. /\ DOMAIN rows' \subseteq Values /\ rows' \in [DOMAIN rows' -> Row]
        /\ DOMAIN rows \subseteq DOMAIN rows'
    BY TableStep DEF OnlyMarks, Added, TypeOK
  <1>3. overdue' \subseteq DOMAIN rows'
    BY <1>2, OverdueStep
  <1>4. \A r \in Requests : GoodRequest(request[r])
    <2> SUFFICES ASSUME NEW r \in Requests
                 PROVE  GoodRequest(request[r])
      OBVIOUS
    <2>1. ASSUME request[r].pc = "flag", NEW v \in request[r].loaded
          PROVE  /\ request[r].copy[v] # NoRow /\ v \in DOMAIN rows'
                 /\ request[r].copy[v].expiry = rows'[v].expiry
      <3>1. HeldRow(v, request[r].copy[v]) /\ request[r].copy[v] # NoRow
        BY <2>1, HeldTypes, ConstantsAssumption
      <3>2. QED
        BY <3>1, HeldStays
    <2>2. ASSUME request[r].pc \in {"url", "mail"}
          PROVE  /\ request[r].value \in DOMAIN rows'
                 /\ request[r].row.expiry = rows'[request[r].value].expiry
      <3>1. HeldRow(request[r].value, request[r].row)
        BY <2>2, HeldTypes
      <3>2. QED
        BY <3>1, HeldStays
    <2>3. QED
      BY <2>1, <2>2, HeldTypes DEF GoodRequest, TypeOK
  <1>5. \A l \in Logins : GoodLogin(login[l])
    <2> SUFFICES ASSUME NEW l \in Logins
                 PROVE  GoodLogin(login[l])
      OBVIOUS
    <2>1. ASSUME login[l].pc # "idle"
          PROVE  /\ login[l].value \in DOMAIN rows'
                 /\ login[l].row.expiry = rows'[login[l].value].expiry
      <3>1. HeldRow(login[l].value, login[l].row)
        BY <2>1, HeldTypes
      <3>2. QED
        BY <3>1, HeldStays
    <2>2. QED
      BY <2>1 DEF GoodLogin, TypeOK
  <1>6. /\ request' \in [Requests -> RequestState]
        /\ \A r \in Requests : GoodRequest(request'[r])
    <2>1. CASE request' = request
      BY <1>4, <2>1 DEF TypeOK
    <2>2. ASSUME NEW r \in Requests, NEW s, GoodRequest(s),
                 request' = [request EXCEPT ![r] = s]
          PROVE  <1>6!1 /\ <1>6!2
      BY <1>4, <2>2 DEF TypeOK, GoodRequest
    <2>3. QED
      BY <2>1, <2>2, RequestMoves
  <1>7. /\ login' \in [Logins -> LoginState]
        /\ \A l \in Logins : GoodLogin(login'[l])
    <2>1. CASE login' = login
      BY <1>5, <2>1 DEF TypeOK
    <2>2. ASSUME NEW l \in Logins, NEW s, GoodLogin(s),
                 login' = [login EXCEPT ![l] = s]
          PROVE  <1>7!1 /\ <1>7!2
      BY <1>5, <2>2 DEF TypeOK, GoodLogin
    <2>3. QED
      BY <2>1, <2>2, LoginMoves
  <1>8. HeldRows'
    BY <1>6, <1>7 DEF HeldRows, HeldRow, GoodRequest, GoodLogin
  <1>9. QED
    BY <1>1, <1>2, <1>3, <1>6, <1>7, <1>8 DEF TypeOK

\* Every variable keeps its type, and the copies of rows that requests and
\* logins hold keep the value and the date of the rows.
THEOREM TypeCorrect == Spec => []TypeOK
  <1>1. Init => TypeOK
    BY DEF Init, TypeOK, HeldRows, RequestState, LoginState, IdleRequest,
           IdleLogin, Row
  <1>2. TypeOK /\ [Next]_vars => TypeOK'
    BY TypeStep
  <1>3. QED
    BY <1>1, <1>2, PTL DEF Spec
-----------------------------------------------------------------------------
(***************************************************************************)
(* What is marked is overdue, and stays so.                                *)
(***************************************************************************)

\* A row never gets a later date.
LEMMA StaysOverdue ==
    ASSUME TypeOK, [Next]_vars, NEW v \in DOMAIN rows, Overdue(rows[v])
    PROVE  v \in DOMAIN rows' /\ Overdue(rows[v])' /\ rows'[v].expiry <= now'
  <1>1. rows[v] \in Row /\ HeldRow(v, rows[v])
    BY DEF TypeOK, HeldRow
  <1>2. v \in DOMAIN rows' /\ rows'[v].expiry = rows[v].expiry
    BY <1>1, HeldStays
  <1>3. rows[v].expiry <= now /\ now <= now' /\ rows[v].expiry \in Nat
    BY <1>1, ClockStep DEF Overdue, Row
  <1>4. rows'[v].expiry <= now'
    BY <1>2, <1>3, ClockStep DEF TypeOK
  <1>5. QED
    BY <1>2, <1>4 DEF Overdue

\* A row becomes marked only in a step that finds it overdue.
LEMMA MarkStep ==
    ASSUME TypeOK, MarksTrue, [Next]_vars, NEW v \in DOMAIN rows',
           rows'[v].expired
    PROVE  v \in DOMAIN rows /\ Overdue(rows[v])
  <1>1. CASE rows' = rows
    BY <1>1 DEF MarksTrue
  <1>2. ASSUME NEW r \in Requests, FlagOverdue(r)
        PROVE  v \in DOMAIN rows /\ Overdue(rows[v])
    <2>1. PICK x \in request[r].todo :
            \/ /\ Overdue(request[r].copy[x])
               /\ rows' = Write(x, [request[r].copy[x] EXCEPT !.expired = TRUE])
            \/ rows' = rows
      BY <1>2 DEF FlagOverdue
    <2>2. HeldRow(x, request[r].copy[x])
      BY <1>2, HeldTypes DEF FlagOverdue
    <2>3. CASE rows' = rows
      BY <2>3 DEF MarksTrue
    <2>4. CASE /\ Overdue(request[r].copy[x])
               /\ rows' = Write(x, [request[r].copy[x] EXCEPT !.expired = TRUE])
      BY <2>2, <2>4 DEF Write, HeldRow, Overdue, MarksTrue
    <2>5. QED
      BY <2>1, <2>3, <2>4
  <1>3. ASSUME NEW r \in Requests, Create(r)
        PROVE  v \in DOMAIN rows /\ Overdue(rows[v])
    <2>1. PICK x \in Values \ DOMAIN rows :
            rows' = Write(x, [expired |-> FALSE, expiry |-> now + Expiry])
      BY <1>3 DEF Create
    <2>2. QED
      BY <2>1 DEF Write, MarksTrue
  <1>4. ASSUME NEW r \in Requests, SaveUrl(r) \/ SaveMailSent(r)
        PROVE  v \in DOMAIN rows /\ Overdue(rows[v])
    <2>1. ~request[r].row.expired /\ HeldRow(request[r].value, request[r].row)
      BY <1>4, HeldTypes DEF SaveUrl, SaveMailSent, MarksTrue
    <2>2. QED
      BY <1>4, <2>1 DEF SaveUrl, SaveMailSent, Write, HeldRow, MarksTrue
  <1>5. ASSUME NEW l \in Logins, RefuseLogin(l)
        PROVE  v \in DOMAIN rows /\ Overdue(rows[v])
    <2>1. HeldRow(login[l].value, login[l].row)
      BY <1>5, HeldTypes DEF RefuseLogin
    <2>2. QED
      BY <1>5, <2>1 DEF RefuseLogin, Write, HeldRow, Overdue, MarksTrue
  <1>6. QED
    BY <1>1, <1>2, <1>3, <1>4, <1>5
       DEF Next, RequestStep, LoginStep, vars, Load, EndCall, Refuse, Allow,
           Abort, LoadInstance, AcceptLogin, AnswerLogin, Tick

\* MarksTrue is inductive.
LEMMA MarksStep ==
    ASSUME TypeOK, MarksTrue, [Next]_vars
    PROVE  MarksTrue'
  <1>1. ASSUME NEW v \in DOMAIN rows', rows'[v].expired
        PROVE  rows'[v].expiry <= now'
    BY <1>1, MarkStep, StaysOverdue
  <1>2. ASSUME NEW v \in overdue'
        PROVE  rows'[v].expiry <= now'
    <2>1. v \in DOMAIN rows /\ Overdue(rows[v])
      BY <1>2, OverdueStep DEF MarksTrue
    <2>2. QED
      BY <2>1, StaysOverdue
  <1>3. ASSUME NEW r \in Requests, request'[r].pc \in {"url", "mail"}
        PROVE  ~request'[r].row.expired
    <2>1. CASE request'[r] = request[r]
      BY <1>3, <2>1 DEF MarksTrue
    <2>2. ASSUME Create(r)
          PROVE  ~request'[r].row.expired
      BY <1>3, <2>2 DEF Create, TypeOK, IdleRequest
    <2>3. ASSUME SaveUrl(r)
          PROVE  ~request'[r].row.expired
      BY <2>3 DEF SaveUrl, TypeOK, MarksTrue
    <2>4. ASSUME FlagOverdue(r)
          PROVE  request'[r].pc = "flag"
      <3>1. PICK v : request' = [request EXCEPT ![r].todo = @ \ {v}]
        BY <2>4 DEF FlagOverdue
      <3>2. request[r] \in
              [pc: {"flag"}, view: AllViews, loaded: SUBSET Values,
               copy: [Values -> Row \cup {NoRow}], todo: SUBSET Values]
        BY <2>4 DEF FlagOverdue, TypeOK, RequestState, IdleRequest
      <3>3. QED
        BY <3>1, <3>2 DEF TypeOK
    <2>5. ASSUME NEW view \in Views, Load(r, view)
          PROVE  request'[r].pc = "flag"
      BY <2>5 DEF Load, TypeOK
    <2>6. ASSUME EndCall(r) \/ Refuse(r) \/ Allow(r) \/ SaveMailSent(r)
                 \/ Abort(r)
          PROVE  request'[r].pc \in {"idle", "create"}
      BY <2>6 DEF EndCall, Refuse, Allow, SaveMailSent, Abort, TypeOK,
                  IdleRequest
    <2>7. ASSUME NEW q \in Requests, q # r, RequestStep(q)
          PROVE  request'[r] = request[r]
      BY <2>7 DEF RequestStep, Load, FlagOverdue, EndCall, Refuse, Allow,
                  Create, SaveUrl, SaveMailSent, Abort, TypeOK
    <2>8. ASSUME NEW l \in Logins, LoginStep(l)
          PROVE  request' = request
      BY <2>8 DEF LoginStep, LoadInstance, RefuseLogin, AcceptLogin, AnswerLogin
    <2>9. QED
      BY <1>3, <2>1, <2>2, <2>3, <2>4, <2>5, <2>6, <2>7, <2>8
         DEF Next, RequestStep, Tick, vars
  <1>4. QED
    BY <1>1, <1>2, <1>3 DEF MarksTrue, Overdue

\* A login that accepts an instance holds one that is not overdue, so that the
\* row is not overdue either and nobody has marked it.
THEOREM MarkedStaysRefused == Spec => MarkedNeverAccepted
  <1>1. Init => TypeOK /\ MarksTrue
    BY DEF Init, TypeOK, HeldRows, MarksTrue, RequestState, LoginState,
           IdleRequest, IdleLogin, Row
  <1>2. TypeOK /\ MarksTrue /\ [Next]_vars => TypeOK' /\ MarksTrue'
    BY TypeStep, MarksStep
  <1>3. ASSUME TypeOK, MarksTrue, [Next]_vars, NEW l \in Logins,
               login[l].pc = "loaded", login'[l].pc = "accepted"
        PROVE  login[l].value \notin overdue
    <2>1. ASSUME NEW m \in Logins, AcceptLogin(m)
          PROVE  AcceptLogin(l)
      <3>1. m = l
        BY <1>3, <2>1 DEF AcceptLogin, TypeOK
      <3>2. QED
        BY <2>1, <3>1 DEF AcceptLogin
    <2>2. ASSUME NEW m \in Logins,
                 \/ \E v \in Values : LoadInstance(m, v)
                 \/ RefuseLogin(m) \/ AnswerLogin(m)
          PROVE  FALSE
      BY <1>3, <2>2 DEF LoadInstance, RefuseLogin, AnswerLogin, IdleLogin,
                        TypeOK
    <2>3. AcceptLogin(l)
      <3>1. login' # login
        BY <1>3
      <3>2. \E m \in Logins : LoginStep(m)
        BY <1>3, <3>1
           DEF Next, RequestStep, vars, Load, FlagOverdue, EndCall, Refuse,
               Allow, Create, SaveUrl, SaveMailSent, Abort, Tick
      <3>3. QED
        BY <2>1, <2>2, <3>2 DEF LoginStep
    <2>4. ~Overdue(login[l].row) /\ HeldRow(login[l].value, login[l].row)
      BY <1>3, <2>3, HeldTypes DEF AcceptLogin
    <2>5. QED
      BY <1>3, <2>4 DEF MarksTrue, Overdue, HeldRow
  <1>4. TypeOK /\ MarksTrue /\ [Next]_vars
          => [\A l \in Logins :
                login[l].pc = "loaded" /\ login'[l].pc = "accepted"
                  => login[l].value \notin overdue]_vars
    BY <1>3
  <1>5. QED
    BY <1>1, <1>2, <1>4, PTL DEF Spec, MarkedNeverAccepted
-----------------------------------------------------------------------------
(***************************************************************************)
(* The cap.                                                                *)
(***************************************************************************)

\* What is counted is finite.
LEMMA Counts ==
    ASSUME TypeOK
    PROVE  /\ IsFiniteSet(Live) /\ Cardinality(Live) \in Nat
           /\ IsFiniteSet(Contenders) /\ Cardinality(Contenders) \in Nat
           /\ Cardinality(Contenders) <= Cardinality(Requests)
           /\ Cardinality(Requests) \in Nat
           /\ \A r \in Requests : request[r].pc = "flag" => CountLoaded(r) \in Nat
  <1>1. Live \subseteq Values /\ Contenders \subseteq Requests
    BY DEF Live, Contenders, TypeOK
  <1>2. \A r \in Requests : request[r].pc = "flag" =>
           request[r].loaded \subseteq Values
    BY HeldTypes
  <1>3. QED
    BY <1>1, <1>2, FinitenessAssumption, FS_Subset, FS_CardinalityType
       DEF CountLoaded

\* Time and saves make no instance live that was not; only Create does.
LEMMA LiveStep ==
    ASSUME TypeOK, [Next]_vars
    PROVE  \/ Live' \subseteq Live
           \/ \E r \in Requests, v \in Values :
                Create(r) /\ Live' \subseteq Live \cup {v}
  <1>1. now \in Nat /\ now' \in Nat /\ now <= now'
        /\ \A v \in DOMAIN rows : rows[v].expiry \in Nat
    BY ClockStep DEF TypeOK, Row
  <1>2. ASSUME OnlyMarks
        PROVE  Live' \subseteq Live
    BY <1>1, <1>2 DEF OnlyMarks, Live, Overdue
  <1>3. ASSUME NEW r \in Requests, NEW v \in Values, Create(r), Added(v)
        PROVE  Live' \subseteq Live \cup {v}
    BY <1>1, <1>3 DEF Added, Live, Overdue
  <1>4. QED
    BY <1>2, <1>3, TableStep

\* A request that is refused, or has created its instance, counts no more.
LEMMA NoLongerContends ==
    ASSUME TypeOK, NEW r \in Requests,
           EndCall(r) \/ Refuse(r) \/ Create(r) \/ SaveUrl(r)
           \/ SaveMailSent(r) \/ Abort(r)
    PROVE  Contenders' \subseteq Contenders \ {r}
  <1>0. DOMAIN request = Requests
    BY DEF TypeOK
  <1>1. /\ request'[r].pc \notin {"flag", "create"}
        /\ \A q \in Requests \ {r} : request'[q] = request[q]
    <2>1. CASE Create(r)
      BY <1>0, <2>1 DEF Create, IdleRequest
    <2>2. CASE SaveUrl(r)
      BY <1>0, <2>2 DEF SaveUrl, TypeOK, RequestState, IdleRequest
    <2>3. QED
      BY <1>0, <2>1, <2>2 DEF EndCall, Refuse, SaveMailSent, Abort, IdleRequest
  <1>2. QED
    BY <1>1 DEF Contenders, CountLoaded

\* A request that is to be counted was let through, or loads while an instance
\* is missing, or was counted before.
LEMMA ContendersStep ==
    ASSUME TypeOK, MarksTrue, [Next]_vars
    PROVE  \/ Contenders' \subseteq Contenders
           \/ Contenders' \subseteq Requests /\ Cardinality(Live) < MaxInstances
              /\ now' = now /\ rows' = rows
  <1>0. DOMAIN request = Requests
    BY DEF TypeOK
  <1>1. CASE request' = request
    BY <1>1 DEF Contenders, CountLoaded
  <1>2. ASSUME NEW r \in Requests, NEW view \in Views, Load(r, view)
        PROVE  \/ Contenders' \subseteq Contenders
               \/ Contenders' \subseteq Requests /\ Cardinality(Live) < MaxInstances
                  /\ now' = now /\ rows' = rows
    <2>1. Live \subseteq Unmarked /\ Unmarked \subseteq Values
      BY DEF MarksTrue, Live, Unmarked, TypeOK
    <2>2. /\ Cardinality(Live) <= Cardinality(Unmarked)
          /\ Cardinality(Live) \in Nat /\ Cardinality(Unmarked) \in Nat
      BY <2>1, FinitenessAssumption, FS_Subset, FS_CardinalityType
    <2>3. /\ request'[r].pc = "flag" /\ request'[r].loaded = Unmarked
          /\ \A q \in Requests \ {r} : request'[q] = request[q]
          /\ now' = now /\ rows' = rows
      BY <1>0, <1>2 DEF Load
    <2>4. CASE Cardinality(Unmarked) < MaxInstances
      BY <2>2, <2>3, <2>4, ConstantsAssumption DEF Contenders
    <2>5. CASE ~(Cardinality(Unmarked) < MaxInstances)
      BY <2>3, <2>5 DEF Contenders, CountLoaded
    <2>6. QED
      BY <2>4, <2>5
  <1>3. ASSUME NEW r \in Requests, FlagOverdue(r)
        PROVE  Contenders' \subseteq Contenders
    <2>1. PICK v : request' = [request EXCEPT ![r].todo = @ \ {v}]
      BY <1>3 DEF FlagOverdue
    <2>2. request[r] \in
            [pc: {"flag"}, view: AllViews, loaded: SUBSET Values,
             copy: [Values -> Row \cup {NoRow}], todo: SUBSET Values]
      BY <1>3 DEF FlagOverdue, TypeOK, RequestState, IdleRequest
    <2>3. /\ request'[r].loaded = request[r].loaded
          /\ request'[r].pc = request[r].pc
          /\ \A q \in Requests \ {r} : request'[q] = request[q]
      BY <1>0, <2>1, <2>2
    <2>4. QED
      BY <2>3 DEF Contenders, CountLoaded
  <1>4. ASSUME NEW r \in Requests, Allow(r)
        PROVE  Contenders' \subseteq Contenders
    <2>1. /\ r \in Contenders
          /\ \A q \in Requests \ {r} : request'[q] = request[q]
      BY <1>0, <1>4 DEF Allow, LoopDone, Contenders
    <2>2. QED
      BY <2>1 DEF Contenders, CountLoaded
  <1>5. ASSUME NEW r \in Requests,
               EndCall(r) \/ Refuse(r) \/ Create(r) \/ SaveUrl(r)
               \/ SaveMailSent(r) \/ Abort(r)
        PROVE  Contenders' \subseteq Contenders
    BY <1>5, NoLongerContends
  <1>6. QED
    BY <1>1, <1>2, <1>3, <1>4, <1>5
       DEF Next, RequestStep, LoginStep, vars, LoadInstance, RefuseLogin,
           AcceptLogin, AnswerLogin, Tick

\* CapInv is inductive, given TypeOK and MarksTrue.
LEMMA CapStep ==
    ASSUME SecureInv, [Next]_vars
    PROVE  CapInv'
  <1> USE DEF SecureInv
  <1>1. TypeOK'
    BY TypeStep
  <1>2. /\ Cardinality(Live') \in Nat
        /\ Cardinality(Contenders') \in Nat
        /\ Cardinality(Contenders') <= Cardinality(Requests)
    <2>1. Live' \subseteq Values /\ Contenders' \subseteq Requests
      BY <1>1 DEF Live, Contenders, TypeOK
    <2>2. QED
      BY <2>1, FinitenessAssumption, FS_Subset, FS_CardinalityType
  <1>3. CASE Contenders' \subseteq Requests /\ Cardinality(Live) < MaxInstances
             /\ now' = now /\ rows' = rows
    <2>1. Live' = Live
      BY <1>3 DEF Live, Overdue
    <2>2. QED
      BY <1>2, <1>3, <2>1, Counts, ConstantsAssumption DEF CapInv
  <1>4. ASSUME Contenders' \subseteq Contenders, Live' \subseteq Live
        PROVE  CapInv'
    <2>1. /\ Cardinality(Contenders') <= Cardinality(Contenders)
          /\ Cardinality(Live') <= Cardinality(Live)
      BY <1>4, Counts, FS_Subset
    <2>2. QED
      BY <1>2, <1>4, <2>1, Counts, ConstantsAssumption DEF CapInv
  <1>5. ASSUME NEW r \in Requests, NEW v \in Values, Create(r),
               Live' \subseteq Live \cup {v}
        PROVE  CapInv'
    <2>1. r \in Contenders
      BY <1>5 DEF Create, Contenders
    <2>2. Contenders' \subseteq Contenders \ {r}
      BY <1>5, NoLongerContends
    <2>3. Cardinality(Contenders') <= Cardinality(Contenders) - 1
      <3>1. /\ IsFiniteSet(Contenders \ {r})
            /\ Cardinality(Contenders \ {r}) = Cardinality(Contenders) - 1
        BY <2>1, Counts, FS_RemoveElement
      <3>2. QED
        BY <2>2, <3>1, FS_Subset
    <2>4. Cardinality(Live') <= Cardinality(Live) + 1
      <3>1. IsFiniteSet(Live) /\ Cardinality(Live) \in Nat
        BY Counts
      <3>2. /\ IsFiniteSet(Live \cup {v})
            /\ \/ Cardinality(Live \cup {v}) = Cardinality(Live)
               \/ Cardinality(Live \cup {v}) = Cardinality(Live) + 1
        BY <3>1, FS_AddElement
      <3>3. Cardinality(Live') <= Cardinality(Live \cup {v})
        BY <1>5, <3>2, FS_Subset
      <3>4. QED
        BY <1>2, <3>1, <3>2, <3>3
    <2>5. Cardinality(Live) + Cardinality(Contenders)
             < MaxInstances + Cardinality(Requests)
      BY <2>1 DEF CapInv
    <2>6. QED
      BY <1>2, <2>3, <2>4, <2>5, Counts, ConstantsAssumption DEF CapInv
  <1>6. QED
    BY <1>3, <1>4, <1>5, LiveStep, ContendersStep

\* The invariant of the specification.
LEMMA SecureInvCorrect == Spec => []SecureInv
  <1>1. Init => SecureInv
    <2> SUFFICES ASSUME Init PROVE SecureInv
      OBVIOUS
    <2>1. TypeOK /\ MarksTrue
      BY DEF Init, TypeOK, HeldRows, MarksTrue, RequestState, LoginState,
             IdleRequest, IdleLogin, Row
    <2>2. Live = {} /\ Contenders = {}
      BY DEF Init, Live, Contenders, IdleRequest
    <2>3. QED
      BY <2>1, <2>2 DEF SecureInv, CapInv
  <1>2. SecureInv /\ [Next]_vars => SecureInv'
    BY TypeStep, MarksStep, CapStep DEF SecureInv
  <1>3. QED
    BY <1>1, <1>2, PTL DEF Spec

\* However many requests are at work at once, and whatever copies they save,
\* the live instances stay below the maximum plus the number of requests.
THEOREM InstancesCapped == Spec => []LiveCapped
  <1>1. SecureInv => LiveCapped
    <2> SUFFICES ASSUME SecureInv, Live # {}
                 PROVE  Cardinality(Live) + Cardinality(Admitted)
                          < MaxInstances + Cardinality(Requests)
      BY DEF LiveCapped
    <2>1. Admitted \subseteq Contenders
      BY DEF Admitted, Contenders
    <2>2. Cardinality(Admitted) <= Cardinality(Contenders)
          /\ Cardinality(Admitted) \in Nat
      BY <2>1, Counts, FS_Subset, FS_CardinalityType DEF SecureInv
    <2>3. QED
      BY <2>2, Counts, ConstantsAssumption DEF SecureInv, CapInv
  <1>2. QED
    BY <1>1, SecureInvCorrect, PTL
=============================================================================
