------------------------- MODULE PermissionsProofs -------------------------
(***************************************************************************)
(* Proofs about Permissions, for any users, groups, scopes, objects and    *)
(* request slots; and about DataModel, for any data model file.  The file  *)
(* gives each model its minimum levels and names the model of the scopes,  *)
(* which Permissions takes for constants: that a server which started has  *)
(* one entry of permissions per model and one divider is proved here.      *)
(* Queries reads the filters that the file gives the first model: the last *)
(* part proves what a client gets for its query, for any table, any data   *)
(* model file and any query.                                               *)
(***************************************************************************)
EXTENDS Permissions, DataModel, Queries, TLAPS, FiniteSetTheorems

ObjectPcs == {"load", "recheck", "insert", "save", "delete", "lists"}
AccountPcs == {"view", "admin", "remove", "ungroup"}

\* What TypeOK does not say of a slot.
SlotOK(s) ==
    /\ s.pc \in {"recheck", "save", "delete"} => s.copy \in Row
    /\ s.pc = "insert" => s.op = "create"
    /\ s.pc = "save" => s.op = "update"
    /\ s.pc = "view" => s.cleared = {}
    /\ s.pc = "remove" => s.op # "init"

TypeInv == TypeOK /\ \A r \in Requests : SlotOK(request[r])

LEMMA ObjectSlot ==
    ASSUME NEW s \in RequestState, s.pc \in ObjectPcs
    PROVE  s \in ObjectRequest
  BY DEF RequestState, IdleRequest, ObjectRequest, AccountRequest, ObjectPcs

LEMMA AccountSlot ==
    ASSUME NEW s \in RequestState, s.pc \in AccountPcs
    PROVE  s \in AccountRequest
  BY DEF RequestState, IdleRequest, ObjectRequest, AccountRequest, AccountPcs

LEMMA IdleSlot ==
    /\ IdleRequest \in RequestState
    /\ SlotOK(IdleRequest)
    /\ IdleRequest.pc = "idle"
  BY DEF RequestState, IdleRequest, SlotOK

\* A body without the field, and the lists left when one is written.
LEMMA BodyTypes ==
    /\ NoBody \in Body
    /\ \A b \in Body, l \in Lists :
         [b EXCEPT !.lists = Restrict(b.lists, DOMAIN b.lists \ {l})] \in Body
    /\ \A b \in Body : /\ b.public \in BOOLEAN \cup {Keep}
                       /\ DOMAIN b.lists \subseteq Lists
                       /\ \A l \in DOMAIN b.lists : b.lists[l] \in SUBSET Names
  <1>1. NoBody \in Body
    BY DEF NoBody, NoLists, Body
  <1>2. ASSUME NEW b \in Body, NEW l \in Lists
        PROVE  [b EXCEPT !.lists = Restrict(b.lists, DOMAIN b.lists \ {l})] \in Body
    <2>1. PICK L \in SUBSET Lists : b.lists \in [L -> SUBSET Names]
      BY DEF Body
    <2> DEFINE rest == Restrict(b.lists, DOMAIN b.lists \ {l})
    <2>2. rest \in [L \ {l} -> SUBSET Names]
      BY <2>1 DEF Restrict
    <2>3. rest \in UNION {[M -> SUBSET Names] : M \in SUBSET Lists}
      BY <2>2
    <2>4. ASSUME NEW f \in UNION {[M -> SUBSET Names] : M \in SUBSET Lists}
          PROVE  [b EXCEPT !.lists = f] \in Body
      BY DEF Body
    <2> HIDE DEF rest
    <2>5. [b EXCEPT !.lists = rest] \in Body
      BY <2>3, <2>4
    <2> QED BY <2>5 DEF rest
  <1>3. ASSUME NEW b \in Body
        PROVE  /\ b.public \in BOOLEAN \cup {Keep}
               /\ DOMAIN b.lists \subseteq Lists
               /\ \A l \in DOMAIN b.lists : b.lists[l] \in SUBSET Names
    <2>1. PICK L \in SUBSET Lists : b.lists \in [L -> SUBSET Names]
      BY DEF Body
    <2> QED BY <2>1 DEF Body
  <1> QED BY <1>1, <1>2, <1>3

LEMMA WrittenRow ==
    ASSUME NEW row \in Row, NEW b \in Body
    PROVE  /\ Written(row, b) \in Row
           /\ Written(row, b).scope = row.scope
           /\ Written(row, b).owner = row.owner
           /\ b.public = Keep => Written(row, b).public = row.public
           /\ b.public # Keep => Written(row, b).public = b.public
  <1>1. b.public \in BOOLEAN \cup {Keep}
    BY BodyTypes
  <1> QED BY <1>1, Zenon DEF Written, Row

-----------------------------------------------------------------------------
(***************************************************************************)
(* What a step does to its slot.                                           *)
(***************************************************************************)

LEMMA StartObjectStep ==
    ASSUME TypeInv, NEW r \in Requests, StartObject(r)
    PROVE  \E st \in ObjectRequest :
             /\ Spend(r, st) /\ st.pc \in {"insert", "load"}
             /\ st.pc = "insert" => st.op = "create"
             /\ st.pc = "load" => st.object \in spent
             /\ UNCHANGED <<accounts, objects, left, late, hidden>>
  <1>1. PICK u \in Users \cup {NoUser}, o \in Objects, header \in AskedHeaders,
             body \in Body, op \in {"create", "update", "delete"} :
               Start(r, op, u, o, header, body)
    <2>1. AskedBodies \subseteq Body /\ NoBody \in Body
      BY BodyTypes, ConstantsAssumption
    <2> QED BY <2>1 DEF StartObject
  <1> DEFINE rank == IF u = NoUser THEN "anonymous" ELSE level[u]
             pc == IF op = "create" THEN "insert" ELSE "load"
             st == [pc |-> pc, op |-> op, by |-> u, rank |-> rank,
                    header |-> header, object |-> o, body |-> body, copy |-> NoRow]
  <1>2. rank \in UserLevels \cup {"anonymous"}
    BY DEF TypeInv, TypeOK
  <1>3. header \in Scopes \cup {NoScope, WrongScope}
    BY ConstantsAssumption
  <1>4. /\ pc \in {"insert", "load"}
        /\ pc = "insert" => op = "create"
        /\ pc = "load" => o \in spent
    BY <1>1 DEF Start
  <1>5. Spend(r, st) /\ UNCHANGED <<accounts, objects, left, late, hidden>>
    BY <1>1 DEF Start
  <1> HIDE DEF rank, pc
  <1>6. /\ st \in ObjectRequest
        /\ st.pc = pc /\ st.op = op /\ st.object = o
    BY <1>2, <1>3, <1>4 DEF ObjectRequest
  <1> HIDE DEF st
  <1> QED BY <1>4, <1>5, <1>6

LEMMA StartAccountStep ==
    ASSUME TypeInv, NEW r \in Requests, StartAccount(r)
    PROVE  \E st \in AccountRequest :
             /\ Spend(r, st)
             /\ st.pc = "view" /\ st.cleared = {}
             /\ level' \in [Users -> UserLevels]
             /\ UNCHANGED <<scopes, members, objects, left, late, hidden>>
  <1>1. PICK t \in Users :
               \/ \E s \in Scopes : StartLeave(r, t, s)
               \/ \E to \in AskedScopes : StartRescope(r, t, to)
               \/ StartBlock(r, t)
               \/ StartInit(r, t)
    BY DEF StartAccount
  <1>2. UNCHANGED <<scopes, members, objects, left, late, hidden>>
    BY DEF StartAccount
  <1>3. level \in [Users -> UserLevels] /\ scopes[t] \in SUBSET Scopes
    BY DEF TypeInv, TypeOK
  <1>4. PICK op \in {"leave", "rescope", "block", "init"},
             losing \in SUBSET Scopes, to \in SUBSET Scopes :
               /\ Spend(r, AccountState(op, t, losing, to))
               /\ level' \in [Users -> UserLevels]
    <2>1. CASE \E s \in Scopes : StartLeave(r, t, s)
      <3>1. PICK s \in Scopes : StartLeave(r, t, s)
        BY <2>1
      <3> QED BY <3>1, <1>3 DEF StartLeave
    <2>2. CASE \E to \in AskedScopes : StartRescope(r, t, to)
      <3>1. PICK to \in AskedScopes : StartRescope(r, t, to)
        BY <2>2
      <3>2. to \in SUBSET Scopes
        BY ConstantsAssumption
      <3> QED BY <3>1, <3>2, <1>3 DEF StartRescope
    <2>3. CASE StartBlock(r, t)
      BY <2>3, <1>3 DEF StartBlock, UserLevels
    <2>4. CASE StartInit(r, t)
      BY <2>4, <1>3 DEF StartInit
    <2> QED BY <1>1, <2>1, <2>2, <2>3, <2>4
  <1> DEFINE st == AccountState(op, t, losing, to)
  <1>5. st \in AccountRequest /\ st.pc = "view" /\ st.cleared = {}
    BY DEF AccountState, AccountRequest
  <1> HIDE DEF st
  <1>6. Spend(r, st)
    BY <1>4 DEF st
  <1> QED BY <1>2, <1>4, <1>5, <1>6

LEMMA LoadStep ==
    ASSUME TypeInv, NEW r \in Requests, Load(r)
    PROVE  \E st \in ObjectRequest :
             LET q == request[r] IN
             /\ Set(r, st)
             /\ q \in ObjectRequest /\ q.pc = "load"
             /\ st.pc = "recheck" /\ st.op = q.op /\ st.by = q.by
             /\ st.rank = q.rank /\ st.object = q.object /\ st.body = q.body
             /\ rows[q.object] \in Row
             /\ st.copy = Written(rows[q.object], q.body) /\ st.copy \in Row
  <1> DEFINE q == request[r]
             row == Written(rows[q.object], q.body)
             st == [q EXCEPT !.pc = "recheck", !.copy = row]
  <1>1. q \in ObjectRequest /\ q.pc = "load"
    BY ObjectSlot DEF Load, TypeInv, TypeOK, ObjectPcs
  <1>2. rows[q.object] \in Row /\ q.body \in Body
    BY <1>1 DEF Load, GetObject, InQueryset, TypeInv, TypeOK, ObjectRequest
  <1>3. row \in Row
    BY <1>2, WrittenRow
  <1>4. Set(r, st)
    BY DEF Load, Set
  <1> HIDE DEF row
  <1>5. /\ st \in ObjectRequest
        /\ st.pc = "recheck" /\ st.op = q.op /\ st.by = q.by
        /\ st.rank = q.rank /\ st.object = q.object /\ st.body = q.body
        /\ st.copy = row
    BY <1>1, <1>3 DEF ObjectRequest
  <1> HIDE DEF st
  <1> QED BY <1>1, <1>2, <1>3, <1>4, <1>5 DEF row

LEMMA RecheckStep ==
    ASSUME TypeInv, NEW r \in Requests, Recheck(r)
    PROVE  \E st \in ObjectRequest :
             LET q == request[r] IN
             /\ Set(r, st)
             /\ q \in ObjectRequest /\ q.pc = "recheck"
             /\ st.pc = (IF q.op = "update" THEN "save" ELSE "delete")
             /\ st.op = q.op /\ st.by = q.by /\ st.rank = q.rank
             /\ st.object = q.object /\ st.body = q.body
             /\ st.copy = q.copy /\ st.copy \in Row
  <1> DEFINE q == request[r]
             pc == IF q.op = "update" THEN "save" ELSE "delete"
             st == [q EXCEPT !.pc = pc]
  <1>1. q \in ObjectRequest /\ q.pc = "recheck" /\ q.copy \in Row
    BY ObjectSlot DEF Recheck, TypeInv, TypeOK, ObjectPcs, SlotOK
  <1>2. Set(r, st)
    BY DEF Recheck, Set
  <1>3. pc \in {"save", "delete"}
    OBVIOUS
  <1> HIDE DEF pc
  <1>4. /\ st \in ObjectRequest
        /\ st.pc = pc /\ st.op = q.op /\ st.by = q.by /\ st.rank = q.rank
        /\ st.object = q.object /\ st.body = q.body /\ st.copy = q.copy
    BY <1>1, <1>3 DEF ObjectRequest
  <1> HIDE DEF st
  <1> QED BY <1>1, <1>2, <1>4 DEF pc

\* The slot after its row is written.
LEMMA AfterRowSlot ==
    ASSUME TypeInv, NEW r \in Requests, request[r] \in ObjectRequest
    PROVE  /\ AfterRow(r) \in RequestState /\ SlotOK(AfterRow(r))
           /\ \/ AfterRow(r) = IdleRequest
              \/ /\ AfterRow(r) \in ObjectRequest
                 /\ AfterRow(r).pc = "lists"
                 /\ AfterRow(r).op = request[r].op
                 /\ AfterRow(r).by = request[r].by
                 /\ AfterRow(r).rank = request[r].rank
                 /\ AfterRow(r).object = request[r].object
  <1>1. CASE request[r].body.lists = NoLists
    BY <1>1, IdleSlot DEF AfterRow
  <1>2. CASE request[r].body.lists # NoLists
    <2> DEFINE st == [request[r] EXCEPT !.pc = "lists"]
    <2>1. AfterRow(r) = st
      BY <1>2 DEF AfterRow
    <2>2. /\ st \in ObjectRequest /\ st.pc = "lists"
          /\ st.op = request[r].op /\ st.by = request[r].by
          /\ st.rank = request[r].rank /\ st.object = request[r].object
      BY DEF ObjectRequest
    <2> HIDE DEF st
    <2> QED BY <2>1, <2>2 DEF RequestState, SlotOK
  <1> QED BY <1>1, <1>2
LEMMA LosingScopes ==
    ASSUME TypeInv, NEW r \in Requests, request[r] \in AccountRequest
    PROVE  Losing(r) \in SUBSET Scopes
  <1>1. request[r].target \in Users /\ request[r].losing \in SUBSET Scopes
    BY DEF AccountRequest
  <1>2. scopes[request[r].target] \in SUBSET Scopes
    BY <1>1 DEF TypeInv, TypeOK
  <1> QED BY <1>1, <1>2 DEF Losing, Target

LEMMA SkipStep ==
    ASSUME TypeInv, NEW r \in Requests, SkipLists(r)
    PROVE  \E st \in RequestState :
             LET q == request[r] IN
             /\ Set(r, st) /\ SlotOK(st)
             /\ q \in AccountRequest /\ q.pc = "view" /\ q.cleared = {}
             /\ \/ st = IdleRequest
                \/ /\ st \in AccountRequest /\ st.pc = "remove"
                   /\ st.op = q.op /\ st.target = q.target /\ st.cleared = {}
  <1> DEFINE q == request[r]
             st == [q EXCEPT !.pc = "remove"]
  <1>1. q \in AccountRequest /\ q.pc = "view" /\ q.cleared = {}
    BY AccountSlot DEF SkipLists, TypeInv, TypeOK, AccountPcs, SlotOK
  <1>2. CASE q.op = "init"
    BY <1>1, <1>2, IdleSlot DEF SkipLists
  <1>3. CASE q.op # "init"
    <2>1. Set(r, st)
      BY <1>3 DEF SkipLists
    <2>2. /\ st \in AccountRequest /\ st.pc = "remove"
          /\ st.op = q.op /\ st.target = q.target /\ st.cleared = {}
      BY <1>1 DEF AccountRequest
    <2> HIDE DEF st
    <2>3. st \in RequestState /\ SlotOK(st)
      BY <1>3, <2>2 DEF RequestState, SlotOK
    <2> QED BY <1>1, <2>1, <2>2, <2>3
  <1> QED BY <1>2, <1>3

LEMMA ViewStep ==
    ASSUME TypeInv, NEW r \in Requests, ClearViewers(r)
    PROVE  \E st \in AccountRequest :
             LET q == request[r] IN
             /\ Set(r, st)
             /\ q \in AccountRequest /\ q.pc = "view"
             /\ st.pc = "admin" /\ st.op = q.op /\ st.target = q.target
             /\ st.cleared = Losing(r)
  <1> DEFINE q == request[r]
             losing == Losing(r)
             st == [q EXCEPT !.pc = "admin", !.cleared = losing]
  <1>1. q \in AccountRequest /\ q.pc = "view"
    BY AccountSlot DEF ClearViewers, TypeInv, TypeOK, AccountPcs
  <1>2. losing \in SUBSET Scopes
    BY <1>1, LosingScopes
  <1>3. Set(r, st)
    BY DEF ClearViewers, Set
  <1> HIDE DEF losing
  <1>4. /\ st \in AccountRequest /\ st.pc = "admin"
        /\ st.op = q.op /\ st.target = q.target /\ st.cleared = losing
    BY <1>1, <1>2 DEF AccountRequest
  <1> HIDE DEF st
  <1> QED BY <1>1, <1>3, <1>4 DEF losing

LEMMA AdminStep ==
    ASSUME TypeInv, NEW r \in Requests, ClearAdmins(r)
    PROVE  \E st \in RequestState :
             LET q == request[r] IN
             /\ Set(r, st) /\ SlotOK(st)
             /\ q \in AccountRequest /\ q.pc = "admin"
             /\ \/ /\ st = IdleRequest
                   /\ left' = LeftAfter(q.target, q.cleared \cap Losing(r),
                                        scopes[q.target])
                \/ /\ st \in AccountRequest /\ st.pc = "remove"
                   /\ st.op = q.op /\ st.target = q.target
                   /\ st.cleared = q.cleared \cap Losing(r)
                   /\ UNCHANGED left
  <1> DEFINE q == request[r]
             cleared == q.cleared \cap Losing(r)
             st == [q EXCEPT !.pc = "remove", !.cleared = cleared]
  <1>1. q \in AccountRequest /\ q.pc = "admin"
    BY AccountSlot DEF ClearAdmins, TypeInv, TypeOK, AccountPcs
  <1>2. cleared \in SUBSET Scopes
    BY <1>1, LosingScopes
  <1>3. CASE q.op = "init"
    <2>1. Set(r, IdleRequest)
            /\ left' = LeftAfter(q.target, cleared, scopes[q.target])
      BY <1>3 DEF ClearAdmins, Target
    <2> QED BY <1>1, <2>1, IdleSlot
  <1>4. CASE q.op # "init"
    <2>1. Set(r, st) /\ UNCHANGED left
      BY <1>4 DEF ClearAdmins, Set
    <2> HIDE DEF cleared
    <2>2. /\ st \in AccountRequest /\ st.pc = "remove"
          /\ st.op = q.op /\ st.target = q.target /\ st.cleared = cleared
      BY <1>1, <1>2 DEF AccountRequest
    <2> HIDE DEF st
    <2>3. st \in RequestState /\ SlotOK(st)
      BY <1>4, <2>2 DEF RequestState, SlotOK
    <2> QED BY <1>1, <2>1, <2>2, <2>3 DEF cleared
  <1> QED BY <1>3, <1>4

\* The scopes that Remove leaves to the user.
LEMMA RemoveStep ==
    ASSUME TypeInv, NEW r \in Requests, Remove(r)
    PROVE  \E st \in RequestState, held \in SUBSET Scopes :
             LET q == request[r] IN
             /\ Set(r, st) /\ SlotOK(st) /\ st.pc \in {"idle", "ungroup"}
             /\ q \in AccountRequest /\ q.pc = "remove"
             /\ scopes' = [scopes EXCEPT ![q.target] = held]
             /\ left' = LeftAfter(q.target, q.cleared, held)
  <1> DEFINE q == request[r]
             held == CASE q.op = "leave" -> scopes[q.target] \ q.losing
                       [] q.op = "rescope" -> q.to
                       [] q.op = "block" -> {}
             st == [q EXCEPT !.pc = "ungroup"]
  <1>1. q \in AccountRequest /\ q.pc = "remove" /\ q.op # "init"
    BY AccountSlot DEF Remove, TypeInv, TypeOK, AccountPcs, SlotOK
  <1>2. /\ q.op \in {"leave", "rescope", "block"}
        /\ q.to \in SUBSET Scopes /\ q.target \in Users
    BY <1>1 DEF AccountRequest
  <1>3. scopes[q.target] \in SUBSET Scopes
    BY <1>2 DEF TypeInv, TypeOK
  <1>4. held \in SUBSET Scopes
    BY <1>2, <1>3
  <1>5. /\ scopes' = [scopes EXCEPT ![q.target] = held]
        /\ left' = LeftAfter(q.target, q.cleared, held)
        /\ Set(r, IF q.op = "block" THEN st ELSE IdleRequest)
    BY DEF Remove
  <1>6. /\ st \in AccountRequest /\ st.pc = "ungroup"
    BY <1>1 DEF AccountRequest
  <1> HIDE DEF held, st
  <1>7. st \in RequestState /\ SlotOK(st)
    BY <1>6 DEF RequestState, SlotOK
  <1> QED BY <1>1, <1>4, <1>5, <1>6, <1>7, IdleSlot

\* A list loses one user, and no more.
LEMMA ClearStep ==
    ASSUME TypeInv, NEW r \in Requests, request[r] \in AccountRequest,
           NEW l \in UserLists, ClearList(r, l)
    PROVE  LET t == request[r].target IN
           /\ lists' \in [Lists -> [Objects -> SUBSET Names]]
           /\ late' \subseteq late
           /\ \A k \in Lists, o \in Objects : lists'[k][o] \subseteq lists[k][o]
           /\ \A k \in Lists, o \in Objects, u \in Users :
                u \in lists'[k][o] /\ <<k, o, u>> \in late => <<k, o, u>> \in late'
           /\ \A o \in Objects :
                /\ rows[o] # NoRow /\ rows[o].scope \in Losing(r)
                => t \notin lists'[l][o]
  <1> DEFINE t == request[r].target
             cleared == {o \in Objects : /\ rows[o] # NoRow
                                         /\ rows[o].scope \in Losing(r)}
  <1>1. lists \in [Lists -> [Objects -> SUBSET Names]] /\ l \in Lists
    BY DEF TypeInv, TypeOK, UserLists, Lists
  <1>2. lists' = [lists EXCEPT ![l] = [o \in Objects |->
                    IF o \in cleared THEN @[o] \ {t} ELSE @[o]]]
    BY DEF ClearList, Target
  <1>3. late' = late \ {<<l, o, t>> : o \in cleared}
    BY DEF ClearList, Target
  <1> HIDE DEF cleared
  <1>4. \A k \in Lists, o \in Objects :
          lists'[k][o] = IF k = l /\ o \in cleared THEN lists[k][o] \ {t}
                         ELSE lists[k][o]
    BY <1>1, <1>2
  <1>5. lists' \in [Lists -> [Objects -> SUBSET Names]]
    BY <1>1, <1>2
  <1>6. \A k \in Lists, o \in Objects, u \in Users :
          u \in lists'[k][o] /\ <<k, o, u>> \in late => <<k, o, u>> \in late'
    <2> SUFFICES ASSUME NEW k \in Lists, NEW o \in Objects, NEW u \in Users,
                        u \in lists'[k][o], <<k, o, u>> \in late,
                        NEW p \in cleared, <<k, o, u>> = <<l, p, t>>
                 PROVE  FALSE
      BY <1>3
    <2>1. k = l /\ o = p /\ u = t
      OBVIOUS
    <2> QED BY <2>1, <1>4
  <1> QED BY <1>1, <1>3, <1>4, <1>5, <1>6 DEF cleared

\* One list of one object, and what is late of it.
LEMMA ListStep ==
    ASSUME TypeInv, NEW r \in Requests, SetList(r)
    PROVE  \E st \in RequestState, l \in Lists, given \in SUBSET Names :
             LET q == request[r]
                 o == q.object IN
             /\ Set(r, st) /\ SlotOK(st)
             /\ q \in ObjectRequest /\ q.pc = "lists"
             /\ \/ st = IdleRequest
                \/ /\ st \in ObjectRequest /\ st.pc = "lists" /\ st.op = q.op
                   /\ st.by = q.by /\ st.rank = q.rank /\ st.object = o
             /\ rows[o] # NoRow \/ given = {}
             /\ lists' = [lists EXCEPT ![l][o] = given]
             /\ late' \in SUBSET (Lists \X Objects \X Users)
             /\ \A k \in Lists, p \in Objects, u \in Users :
                  k # l \/ p # o => (<<k, p, u>> \in late' <=> <<k, p, u>> \in late)
             /\ \A u \in given \cap Users :
                  u \in Leaving \/ rows[o].scope \notin scopes[u]
                  => <<l, o, u>> \in late'
  <1> DEFINE q == request[r]
             o == q.object
  <1>1. q \in ObjectRequest /\ q.pc = "lists"
    BY ObjectSlot DEF SetList, TypeInv, TypeOK, ObjectPcs
  <1>2. q.body \in Body /\ o \in Objects
    BY <1>1 DEF ObjectRequest
  <1>3. PICK l \in DOMAIN q.body.lists :
         LET given == q.body.lists[l]
             rest == Restrict(q.body.lists, DOMAIN q.body.lists \ {l})
             state == [q EXCEPT !.body.lists = rest] IN
         /\ rows[o] # NoRow \/ given = {}
         /\ lists' = [lists EXCEPT ![l][o] = given]
         /\ late' = {e \in late : e[1] # l \/ e[2] # o}
                      \cup {<<l, o, u>> : u \in
                              {n \in given \cap Users :
                                 \/ n \in Leaving
                                 \/ rows[o].scope \notin scopes[n]}}
         /\ Set(r, IF rest = NoLists THEN IdleRequest ELSE state)
    BY DEF SetList
  <1> DEFINE given == q.body.lists[l]
             rest == Restrict(q.body.lists, DOMAIN q.body.lists \ {l})
             body == [q.body EXCEPT !.lists = rest]
             st == [q EXCEPT !.body = body]
  <1>4. l \in Lists /\ given \in SUBSET Names /\ body \in Body
    BY <1>2, BodyTypes
  <1>5. Set(r, IF rest = NoLists THEN IdleRequest ELSE st)
    BY <1>3
  <1>6. /\ rows[o] # NoRow \/ given = {}
        /\ lists' = [lists EXCEPT ![l][o] = given]
        /\ late' = {e \in late : e[1] # l \/ e[2] # o}
                     \cup {<<l, o, u>> : u \in
                             {n \in given \cap Users :
                                \/ n \in Leaving
                                \/ rows[o].scope \notin scopes[n]}}
    BY <1>3
  <1>7. late \in SUBSET (Lists \X Objects \X Users)
    BY DEF TypeInv, TypeOK
  <1> HIDE DEF given, rest, body
  <1>8. /\ st \in ObjectRequest /\ st.pc = "lists" /\ st.op = q.op
        /\ st.by = q.by /\ st.rank = q.rank /\ st.object = o
    BY <1>1, <1>4 DEF ObjectRequest
  <1> HIDE DEF st
  <1>9. st \in RequestState /\ SlotOK(st)
    BY <1>8 DEF RequestState, SlotOK
  <1> HIDE DEF q, o
  <1>10. /\ late' \in SUBSET (Lists \X Objects \X Users)
         /\ \A k \in Lists, p \in Objects, u \in Users :
              k # l \/ p # o => (<<k, p, u>> \in late' <=> <<k, p, u>> \in late)
         /\ \A u \in given \cap Users :
              u \in Leaving \/ rows[o].scope \notin scopes[u]
              => <<l, o, u>> \in late'
    BY <1>2, <1>4, <1>6, <1>7
  <1>11. PICK s \in RequestState : /\ Set(r, s) /\ SlotOK(s)
                                   /\ s = IdleRequest \/ s = st
    BY <1>5, <1>9, IdleSlot
  <1>12. \/ s = IdleRequest
         \/ /\ s \in ObjectRequest /\ s.pc = "lists" /\ s.op = q.op
            /\ s.by = q.by /\ s.rank = q.rank /\ s.object = o
    BY <1>8, <1>11
  <1> l \in Lists /\ given \in SUBSET Names
    BY <1>4
  <1> WITNESS s \in RequestState, l \in Lists, given \in SUBSET Names
  <1> QED BY <1>1, <1>6, <1>10, <1>11, <1>12 DEF q, o
-----------------------------------------------------------------------------
(***************************************************************************)
(* Type correctness.                                                       *)
(***************************************************************************)

\* The part of TypeOK that is about the tables and the history.
TablesOK ==
    /\ level \in [Users -> UserLevels]
    /\ scopes \in [Users -> SUBSET Scopes]
    /\ members \in [Groups -> SUBSET Users]
    /\ rows \in [Objects -> Row \cup {NoRow}] /\ spent \subseteq Objects
    /\ lists \in [Lists -> [Objects -> SUBSET Names]]
    /\ \A o \in Objects : rows[o] = NoRow => \A l \in Lists : lists[l][o] = {}
    /\ started \in Nat
    /\ left \subseteq Users \X Scopes /\ late \subseteq Lists \X Objects \X Users
    /\ hidden \subseteq Objects

LEMMA Tables == TypeInv => TablesOK
  BY DEF TypeInv, TypeOK, TablesOK

LEMMA SlotsKept ==
    ASSUME TypeInv, NEW r \in Requests, NEW st \in RequestState, SlotOK(st),
           Set(r, st)
    PROVE  /\ request' \in [Requests -> RequestState]
           /\ \A q \in Requests : SlotOK(request'[q])
           /\ request'[r] = st
           /\ \A q \in Requests \ {r} : request'[q] = request[q]
  BY DEF TypeInv, TypeOK, Set

LEMMA LeftTypes ==
    ASSUME TablesOK, NEW u \in Users, NEW cleared \in SUBSET Scopes,
           NEW held \in SUBSET Scopes
    PROVE  /\ LeftAfter(u, cleared, held) \subseteq Users \X Scopes
           /\ \A e \in LeftAfter(u, cleared, held) :
                /\ \/ e \in left
                   \/ e[1] = u /\ e[2] \in cleared
                /\ e[1] = u => e[2] \notin held
  <1>1. ASSUME NEW e \in LeftAfter(u, cleared, held)
        PROVE  /\ e \in left \/ e \in {u} \X cleared
               /\ e[1] = u => e[2] \notin held
    BY <1>1 DEF LeftAfter
  <1>2. left \subseteq Users \X Scopes /\ {u} \X cleared \subseteq Users \X Scopes
    BY DEF TablesOK
  <1>3. \A e \in {u} \X cleared : e[1] = u /\ e[2] \in cleared
    OBVIOUS
  <1> QED BY <1>1, <1>2, <1>3

\* A step that only moves a slot.
LEMMA TypeMove ==
    ASSUME TypeInv, NEW r \in Requests, NEW st \in RequestState, SlotOK(st),
           Set(r, st), TablesOK', entitled' = entitled \cup Changeable'
    PROVE  TypeInv'
  <1>1. entitled' \subseteq Users \X Objects
    BY DEF TypeInv, TypeOK, Changeable
  <1>2. /\ request' \in [Requests -> RequestState]
        /\ \A q \in Requests : SlotOK(request'[q])
    BY SlotsKept
  <1> QED BY <1>1, <1>2 DEF TypeInv, TypeOK, TablesOK

LEMMA ObjectState ==
    ASSUME NEW st \in ObjectRequest \cup AccountRequest
    PROVE  st \in RequestState
  BY DEF RequestState

LEMMA TypeRequest ==
    ASSUME TypeInv, NEW r \in Requests, entitled' = entitled \cup Changeable'
    PROVE  /\ StartObject(r) \/ StartAccount(r) => TypeInv'
           /\ End(r) \/ Load(r) \/ Recheck(r) \/ SkipLists(r) => TypeInv'
  <1> USE Tables
  <1>1. ASSUME StartObject(r) PROVE TypeInv'
    <2>1. PICK st \in ObjectRequest :
            /\ Spend(r, st) /\ st.pc \in {"insert", "load"}
            /\ st.pc = "insert" => st.op = "create"
            /\ UNCHANGED <<accounts, objects, left, late, hidden>>
      BY <1>1, StartObjectStep
    <2>2. TablesOK'
      BY <2>1 DEF TablesOK, accounts, objects, Spend
    <2>3. st \in RequestState /\ SlotOK(st) /\ Set(r, st)
      BY <2>1, ObjectState DEF Spend, SlotOK
    <2> QED BY <2>2, <2>3, TypeMove
  <1>2. ASSUME StartAccount(r) PROVE TypeInv'
    <2>1. PICK st \in AccountRequest :
            /\ Spend(r, st)
            /\ st.pc = "view" /\ st.cleared = {}
            /\ level' \in [Users -> UserLevels]
            /\ UNCHANGED <<scopes, members, objects, left, late, hidden>>
      BY <1>2, StartAccountStep
    <2>2. TablesOK'
      BY <2>1 DEF TablesOK, objects, Spend
    <2>3. st \in RequestState /\ SlotOK(st) /\ Set(r, st)
      BY <2>1, ObjectState DEF Spend, SlotOK
    <2> QED BY <2>2, <2>3, TypeMove
  <1>3. ASSUME End(r) PROVE TypeInv'
    <2>1. TablesOK'
      BY <1>3 DEF End, TablesOK, accounts, objects
    <2> QED BY <1>3, <2>1, IdleSlot, TypeMove DEF End
  <1>4. ASSUME Load(r) PROVE TypeInv'
    <2>1. PICK st \in ObjectRequest :
            Set(r, st) /\ st.pc = "recheck" /\ st.copy \in Row
      BY <1>4, LoadStep
    <2>2. TablesOK'
      BY <1>4 DEF Load, TablesOK, accounts, objects
    <2>3. st \in RequestState /\ SlotOK(st)
      BY <2>1, ObjectState DEF SlotOK
    <2> QED BY <2>1, <2>2, <2>3, TypeMove
  <1>5. ASSUME Recheck(r) PROVE TypeInv'
    <2>1. PICK st \in ObjectRequest :
            /\ Set(r, st) /\ st.pc \in {"save", "delete"} /\ st.copy \in Row
            /\ st.pc = "save" => st.op = "update"
      BY <1>5, RecheckStep
    <2>2. TablesOK'
      BY <1>5 DEF Recheck, TablesOK, accounts, objects
    <2>3. st \in RequestState /\ SlotOK(st)
      BY <2>1, ObjectState DEF SlotOK
    <2> QED BY <2>1, <2>2, <2>3, TypeMove
  <1>6. ASSUME SkipLists(r) PROVE TypeInv'
    <2>1. PICK st \in RequestState : Set(r, st) /\ SlotOK(st)
      BY <1>6, SkipStep
    <2>2. TablesOK'
      BY <1>6 DEF SkipLists, TablesOK, accounts, objects
    <2> QED BY <2>1, <2>2, TypeMove
  <1> QED BY <1>1, <1>2, <1>3, <1>4, <1>5, <1>6

\* The object that a request inserts, saves or deletes.
LEMMA WritingSlot ==
    ASSUME TypeInv, NEW r \in Requests, Insert(r) \/ Save(r) \/ Delete(r)
    PROVE  LET q == request[r] IN
           /\ q \in ObjectRequest /\ q.object \in Objects /\ q.body \in Body
           /\ q.by \in Users \cup {NoUser}
           /\ q.pc \in {"save", "delete"} => q.copy \in Row
  <1>1. request[r] \in ObjectRequest
    BY ObjectSlot DEF Insert, Save, Delete, TypeInv, TypeOK, ObjectPcs
  <1> QED BY <1>1 DEF ObjectRequest, TypeInv, SlotOK

LEMMA InsertedRow ==
    ASSUME TypeInv, NEW r \in Requests, Insert(r)
    PROVE  \E row \in Row :
             /\ rows' = [rows EXCEPT ![request[r].object] = row]
             /\ row.owner = request[r].by
  <1> DEFINE q == request[r]
             scope == IF q.header \in Scopes /\ q.object \notin Undivided
                      THEN q.header ELSE NoScope
             row == [owner |-> q.by, scope |-> scope, public |-> DefaultPublic]
  <1>1. q.body \in Body /\ q.by \in Users \cup {NoUser}
    BY WritingSlot
  <1>2. row \in Row
    BY <1>1, ConstantsAssumption DEF Row
  <1>3. rows' = [rows EXCEPT ![q.object] = Written(row, q.body)]
    BY DEF Insert
  <1>4. row.owner = q.by
    OBVIOUS
  <1> HIDE DEF row
  <1> DEFINE new == Written(row, q.body)
  <1>5. new \in Row /\ new.owner = q.by
    BY <1>1, <1>2, <1>4, WrittenRow
  <1>6. rows' = [rows EXCEPT ![q.object] = new]
    BY <1>3
  <1> HIDE DEF new
  <1> QED BY <1>5, <1>6

LEMMA TypeObject ==
    ASSUME TypeInv, NEW r \in Requests, entitled' = entitled \cup Changeable'
    PROVE  Insert(r) \/ Save(r) \/ Delete(r) \/ SetList(r) => TypeInv'
  <1> USE Tables
  <1>1. ASSUME Insert(r) PROVE TypeInv'
    <2>1. PICK row \in Row : rows' = [rows EXCEPT ![request[r].object] = row]
      BY <1>1, InsertedRow
    <2>2. request[r].object \in Objects /\ request[r] \in ObjectRequest
      BY <1>1, WritingSlot
    <2>3. row # NoRow
      BY ConstantsAssumption
    <2>4. TablesOK'
      BY <1>1, <2>1, <2>2, <2>3 DEF Insert, TablesOK, accounts
    <2>5. PICK st \in RequestState : st = AfterRow(r) /\ SlotOK(st)
      BY <2>2, AfterRowSlot
    <2>6. Set(r, st)
      BY <1>1, <2>5 DEF Insert, Set
    <2> QED BY <2>4, <2>5, <2>6, TypeMove
  <1>2. ASSUME Save(r) PROVE TypeInv'
    <2>1. /\ request[r].object \in Objects /\ request[r] \in ObjectRequest
          /\ request[r].copy \in Row
      BY <1>2, WritingSlot DEF Save
    <2>2. request[r].copy # NoRow
      BY <2>1, ConstantsAssumption
    <2>3. hidden' \subseteq Objects
      BY <1>2, <2>1 DEF Save, TablesOK
    <2>4. TablesOK'
      BY <1>2, <2>1, <2>2, <2>3 DEF Save, TablesOK, accounts
    <2>5. PICK st \in RequestState : st = AfterRow(r) /\ SlotOK(st)
      BY <2>1, AfterRowSlot
    <2>6. Set(r, st)
      BY <1>2, <2>5 DEF Save, Set
    <2> QED BY <2>4, <2>5, <2>6, TypeMove
  <1>3. ASSUME Delete(r) PROVE TypeInv'
    <2>1. request[r].object \in Objects
      BY <1>3, WritingSlot
    <2>2. TablesOK'
      BY <1>3, <2>1 DEF Delete, TablesOK, accounts
    <2> QED BY <1>3, <2>2, IdleSlot, TypeMove DEF Delete
  <1>4. ASSUME SetList(r) PROVE TypeInv'
    <2>1. PICK st \in RequestState, l \in Lists, given \in SUBSET Names :
            /\ Set(r, st) /\ SlotOK(st)
            /\ request[r] \in ObjectRequest
            /\ rows[request[r].object] # NoRow \/ given = {}
            /\ lists' = [lists EXCEPT ![l][request[r].object] = given]
            /\ late' \in SUBSET (Lists \X Objects \X Users)
      BY <1>4, ListStep
    <2>2. request[r].object \in Objects
      BY <2>1 DEF ObjectRequest
    <2>3. TablesOK'
      BY <1>4, <2>1, <2>2 DEF SetList, TablesOK, accounts
    <2> QED BY <2>1, <2>3, TypeMove
  <1> QED BY <1>1, <1>2, <1>3, <1>4

LEMMA TypeAccount ==
    ASSUME TypeInv, NEW r \in Requests, entitled' = entitled \cup Changeable'
    PROVE  ClearViewers(r) \/ ClearAdmins(r) \/ Remove(r) \/ Ungroup(r) => TypeInv'
  <1> USE Tables
  <1>1. ASSUME ClearViewers(r) PROVE TypeInv'
    <2>1. PICK st \in AccountRequest : /\ Set(r, st) /\ st.pc = "admin"
                                       /\ request[r] \in AccountRequest
      BY <1>1, ViewStep
    <2>2. ClearList(r, "can_view_users") /\ "can_view_users" \in UserLists
      BY <1>1 DEF ClearViewers, UserLists
    <2>3. TablesOK'
      BY <1>1, <2>1, <2>2, ClearStep DEF ClearViewers, TablesOK, accounts
    <2>4. st \in RequestState /\ SlotOK(st)
      BY <2>1, ObjectState DEF SlotOK
    <2> QED BY <2>1, <2>3, <2>4, TypeMove
  <1>2. ASSUME ClearAdmins(r) PROVE TypeInv'
    <2>1. PICK st \in RequestState :
            /\ Set(r, st) /\ SlotOK(st)
            /\ request[r] \in AccountRequest
            /\ \/ left' = LeftAfter(request[r].target,
                                    request[r].cleared \cap Losing(r),
                                    scopes[request[r].target])
               \/ UNCHANGED left
      BY <1>2, AdminStep
    <2>2. ClearList(r, "can_admin_users") /\ "can_admin_users" \in UserLists
      BY <1>2 DEF ClearAdmins, UserLists
    <2>3. request[r].target \in Users /\ request[r].cleared \in SUBSET Scopes
      BY <2>1 DEF AccountRequest
    <2>4. left' \subseteq Users \X Scopes
      <3>1. scopes[request[r].target] \in SUBSET Scopes
        BY <2>3 DEF TablesOK
      <3> QED BY <2>1, <2>3, <3>1, LeftTypes DEF TablesOK
    <2>5. TablesOK'
      BY <1>2, <2>1, <2>2, <2>4, ClearStep DEF ClearAdmins, TablesOK, accounts
    <2> QED BY <2>1, <2>5, TypeMove
  <1>3. ASSUME Remove(r) PROVE TypeInv'
    <2>1. PICK st \in RequestState, held \in SUBSET Scopes :
            /\ Set(r, st) /\ SlotOK(st)
            /\ request[r] \in AccountRequest
            /\ scopes' = [scopes EXCEPT ![request[r].target] = held]
            /\ left' = LeftAfter(request[r].target, request[r].cleared, held)
      BY <1>3, RemoveStep
    <2>2. request[r].target \in Users /\ request[r].cleared \in SUBSET Scopes
      BY <2>1 DEF AccountRequest
    <2>3. left' \subseteq Users \X Scopes
      BY <2>1, <2>2, LeftTypes
    <2>4. TablesOK'
      BY <1>3, <2>1, <2>2, <2>3 DEF Remove, TablesOK, objects
    <2> QED BY <2>1, <2>4, TypeMove
  <1>4. ASSUME Ungroup(r) PROVE TypeInv'
    <2>1. TablesOK'
      BY <1>4 DEF Ungroup, TablesOK, objects
    <2> QED BY <1>4, <2>1, IdleSlot, TypeMove DEF Ungroup
  <1> QED BY <1>1, <1>2, <1>3, <1>4

LEMMA TypeInit == Init => TypeInv
  <1> SUFFICES ASSUME Init PROVE TypeInv
    OBVIOUS
  <1>1. /\ level \in [Users -> UserLevels]
        /\ scopes \in [Users -> SUBSET Scopes]
        /\ members \in [Groups -> SUBSET Users]
        /\ rows \in [Objects -> Row \cup {NoRow}] /\ spent \subseteq Objects
        /\ lists \in [Lists -> [Objects -> SUBSET Names]]
        /\ \A o \in Objects : rows[o] = NoRow => \A l \in Lists : lists[l][o] = {}
    BY ConstantsAssumption DEF Init
  <1>2. /\ started \in Nat
        /\ left \subseteq Users \X Scopes /\ late \subseteq Lists \X Objects \X Users
        /\ hidden \subseteq Objects /\ entitled \subseteq Users \X Objects
    BY DEF Init, Changeable
  <1>3. /\ request \in [Requests -> RequestState]
        /\ \A r \in Requests : SlotOK(request[r])
    BY IdleSlot DEF Init
  <1> QED BY <1>1, <1>2, <1>3 DEF TypeInv, TypeOK

LEMMA TypeNext ==
    ASSUME TypeInv, [Next]_vars
    PROVE  TypeInv'
  <1>1. CASE UNCHANGED vars
    BY <1>1 DEF vars, accounts, objects, TypeInv, TypeOK
  <1>2. CASE Next
    <2>1. entitled' = entitled \cup Changeable'
      BY <1>2 DEF Next
    <2>2. CASE \E u \in Users, l \in AskedLevels : SetLevel(u, l)
      <3>1. PICK u \in Users, l \in AskedLevels : SetLevel(u, l)
        BY <2>2
      <3>2. l \in UserLevels
        BY ConstantsAssumption
      <3>3. entitled' \subseteq Users \X Objects
        BY <2>1 DEF TypeInv, TypeOK, Changeable
      <3> QED BY <3>1, <3>2, <3>3 DEF SetLevel, TypeInv, TypeOK, objects
    <2>3. CASE \E r \in Requests :
                 \/ StartObject(r) \/ StartAccount(r) \/ End(r)
                 \/ Load(r) \/ Recheck(r) \/ Insert(r) \/ Save(r) \/ SetList(r)
                 \/ Delete(r) \/ SkipLists(r) \/ ClearViewers(r)
                 \/ ClearAdmins(r) \/ Remove(r) \/ Ungroup(r)
      BY <2>1, <2>3, TypeRequest, TypeObject, TypeAccount
    <2> QED BY <1>2, <2>2, <2>3 DEF Next, Step
  <1> QED BY <1>1, <1>2

LEMMA TypesHold == Spec => []TypeInv
  BY TypeInit, TypeNext, PTL DEF Spec

\* The tables and the requests keep their types, and an object without a row is
\* on no list, for any data and requests (TypeOK).
THEOREM TypeCorrect == Spec => []TypeOK
  <1>1. TypeInv => TypeOK
    BY DEF TypeInv
  <1> QED BY <1>1, TypesHold, PTL
-----------------------------------------------------------------------------
(***************************************************************************)
(* Where the slots and the rows of the next state come from.               *)
(***************************************************************************)

\* The steps of a slot.
SlotStep(r) ==
    \/ StartObject(r) \/ StartAccount(r) \/ End(r)
    \/ Load(r) \/ Recheck(r) \/ Insert(r) \/ Save(r) \/ SetList(r) \/ Delete(r)
    \/ SkipLists(r) \/ ClearViewers(r) \/ ClearAdmins(r) \/ Remove(r) \/ Ungroup(r)

Unmoved ==
    UNCHANGED <<scopes, members, objects, request, left, late, hidden>>

LEMMA Moves ==
    ASSUME [Next]_vars
    PROVE  Unmoved \/ \E r \in Requests : SlotStep(r)
  BY DEF Next, Step, SetLevel, vars, accounts, objects, Unmoved, SlotStep

LEMMA OthersKept ==
    ASSUME TypeInv, NEW r \in Requests, SlotStep(r)
    PROVE  \A q \in Requests \ {r} : request'[q] = request[q]
  <1>1. request \in [Requests -> RequestState]
    BY DEF TypeInv, TypeOK
  <1>2. CASE StartObject(r) \/ StartAccount(r)
    BY <1>1, <1>2, StartObjectStep, StartAccountStep DEF Spend, Set
  <1>3. CASE Load(r) \/ Recheck(r) \/ SetList(r) \/ SkipLists(r)
               \/ ClearViewers(r) \/ ClearAdmins(r) \/ Remove(r)
    <2>1. CASE Load(r) \/ Recheck(r) \/ SetList(r)
      <3>1. PICK st : Set(r, st)
        BY <2>1, LoadStep, RecheckStep, ListStep
      <3> QED BY <1>1, <3>1 DEF Set
    <2>2. CASE SkipLists(r) \/ ClearViewers(r) \/ ClearAdmins(r) \/ Remove(r)
      <3>1. PICK st : Set(r, st)
        BY <2>2, SkipStep, ViewStep, AdminStep, RemoveStep
      <3> QED BY <1>1, <3>1 DEF Set
    <2> QED BY <1>3, <2>1, <2>2
  <1>4. CASE End(r) \/ Insert(r) \/ Save(r) \/ Delete(r) \/ Ungroup(r)
    BY <1>1, <1>4 DEF End, Insert, Save, Delete, Ungroup, Set
  <1> QED BY <1>2, <1>3, <1>4 DEF SlotStep

\* What a step leaves of who asked for what.
Kept(s, st) == st.op = s.op /\ st.by = s.by /\ st.object = s.object

\* How an object request comes to its pc.
LEMMA ObjectHistory ==
    ASSUME TypeInv, [Next]_vars, NEW r \in Requests,
           request'[r].pc \in ObjectPcs \ {"insert"}
    PROVE  \/ request'[r] = request[r]
           \/ request'[r].pc = "load" /\ request'[r].object \in spent
           \/ /\ Load(r) /\ request'[r].pc = "recheck"
              /\ request[r] \in ObjectRequest /\ Kept(request[r], request'[r])
              /\ request'[r].body = request[r].body
              /\ rows[request[r].object] \in Row
              /\ request'[r].copy = Written(rows[request[r].object], request[r].body)
           \/ /\ Recheck(r) /\ request'[r].pc \in {"save", "delete"}
              /\ Kept(request[r], request'[r])
              /\ request'[r].body = request[r].body
              /\ request'[r].copy = request[r].copy
           \/ /\ request'[r].pc = "lists" /\ Kept(request[r], request'[r])
              /\ request[r].pc \in {"insert", "save", "lists"}
  <1> DEFINE P ==
           \/ request'[r] = request[r]
           \/ request'[r].pc = "load" /\ request'[r].object \in spent
           \/ /\ Load(r) /\ request'[r].pc = "recheck"
              /\ request[r] \in ObjectRequest /\ Kept(request[r], request'[r])
              /\ request'[r].body = request[r].body
              /\ rows[request[r].object] \in Row
              /\ request'[r].copy = Written(rows[request[r].object], request[r].body)
           \/ /\ Recheck(r) /\ request'[r].pc \in {"save", "delete"}
              /\ Kept(request[r], request'[r])
              /\ request'[r].body = request[r].body
              /\ request'[r].copy = request[r].copy
           \/ /\ request'[r].pc = "lists" /\ Kept(request[r], request'[r])
              /\ request[r].pc \in {"insert", "save", "lists"}
  <1> SUFFICES P
    OBVIOUS
  <1>1. request \in [Requests -> RequestState]
    BY DEF TypeInv, TypeOK
  <1>2. CASE Unmoved
    BY <1>2 DEF Unmoved
  <1>3. CASE \E q \in Requests \ {r} : SlotStep(q)
    BY <1>3, OthersKept
  <1>4. CASE StartObject(r)
    BY <1>1, <1>4, StartObjectStep DEF Spend, Set, ObjectPcs
  <1>5. CASE StartAccount(r)
    BY <1>1, <1>5, StartAccountStep DEF Spend, Set, ObjectPcs
  <1>6. CASE End(r) \/ Delete(r) \/ Ungroup(r)
    BY <1>1, <1>6, IdleSlot DEF End, Delete, Ungroup, Set, ObjectPcs
  <1>7. CASE Load(r)
    BY <1>1, <1>7, LoadStep DEF Set, Kept
  <1>8. CASE Recheck(r)
    BY <1>1, <1>8, RecheckStep DEF Set, Kept
  <1>9. CASE Insert(r) \/ Save(r)
    <2>1. request[r] \in ObjectRequest
      BY <1>9, WritingSlot
    <2>2. request'[r] = AfterRow(r) /\ request[r].pc \in {"insert", "save"}
      BY <1>1, <1>9 DEF Insert, Save, Set
    <2> QED BY <2>1, <2>2, AfterRowSlot, IdleSlot DEF Kept, ObjectPcs
  <1>10. CASE SetList(r)
    BY <1>1, <1>10, ListStep, IdleSlot DEF Set, Kept, ObjectPcs
  <1>11. CASE SkipLists(r) \/ ClearAdmins(r)
    BY <1>1, <1>11, SkipStep, AdminStep, IdleSlot DEF Set, ObjectPcs
  <1>12. CASE ClearViewers(r)
    BY <1>1, <1>12, ViewStep DEF Set, ObjectPcs
  <1>13. CASE Remove(r)
    BY <1>1, <1>13, RemoveStep DEF Set, ObjectPcs
  <1> QED BY <1>2, <1>3, <1>4, <1>5, <1>6, <1>7, <1>8, <1>9, <1>10, <1>11,
             <1>12, <1>13, Moves DEF SlotStep

\* How the row of an object changes.
LEMMA RowHistory ==
    ASSUME TypeInv, [Next]_vars
    PROVE  /\ spent \subseteq spent'
           /\ \A o \in Objects :
                \/ rows'[o] = rows[o]
                \/ o \notin spent /\ o \in spent'
                \/ \E r \in Requests : /\ Save(r) /\ request[r].object = o
                                       /\ rows'[o] = request[r].copy
                \/ rows'[o] = NoRow
  <1>1. rows \in [Objects -> Row \cup {NoRow}]
    BY DEF TypeInv, TypeOK
  <1>2. CASE Unmoved
    BY <1>2 DEF Unmoved, objects
  <1>3. ASSUME NEW r \in Requests, SlotStep(r)
        PROVE  /\ spent \subseteq spent'
               /\ \A o \in Objects :
                    \/ rows'[o] = rows[o]
                    \/ o \notin spent /\ o \in spent'
                    \/ Save(r) /\ request[r].object = o /\ rows'[o] = request[r].copy
                    \/ rows'[o] = NoRow
    <2>1. CASE UNCHANGED objects
      BY <2>1 DEF objects
    <2>2. CASE Insert(r)
      BY <1>1, <2>2 DEF Insert
    <2>3. CASE Save(r)
      BY <1>1, <2>3 DEF Save
    <2>4. CASE Delete(r)
      BY <1>1, <2>4 DEF Delete
    <2>5. CASE UNCHANGED <<rows, spent>>
      BY <2>5
    <2>6. CASE StartObject(r) \/ StartAccount(r)
      BY <2>1, <2>6, StartObjectStep, StartAccountStep
    <2>7. CASE End(r) \/ Load(r) \/ Recheck(r) \/ SkipLists(r) \/ Remove(r)
                 \/ Ungroup(r)
      BY <2>1, <2>7 DEF End, Load, Recheck, SkipLists, Remove, Ungroup
    <2>8. CASE SetList(r) \/ ClearViewers(r) \/ ClearAdmins(r)
      BY <2>5, <2>8 DEF SetList, ClearViewers, ClearAdmins
    <2> QED BY <1>3, <2>2, <2>3, <2>4, <2>6, <2>7, <2>8 DEF SlotStep
  <1> QED BY <1>2, <1>3, Moves
-----------------------------------------------------------------------------
(***************************************************************************)
(* The right to change an object comes before the change.                  *)
(***************************************************************************)

\* Whoever could change an object is remembered, and a request that passed
\* get_object is one of them.
EntitledInv ==
    /\ Changeable \subseteq entitled
    /\ \A r \in Requests :
         \/ request[r].pc \in {"recheck", "save", "delete"}
         \/ request[r].pc = "lists" /\ request[r].op # "create"
         => <<request[r].by, request[r].object>> \in entitled

LEMMA EntitledNext ==
    ASSUME TypeInv, EntitledInv, [Next]_vars
    PROVE  EntitledInv'
  <1>1. entitled \subseteq entitled'
    BY DEF Next, vars
  <1>2. (Changeable \subseteq entitled)'
    <2>1. CASE Next
      BY <2>1 DEF Next
    <2>2. CASE UNCHANGED vars
      BY <2>2 DEF vars, accounts, objects, Changeable, Standing, MayChange,
                  DividerAllows, Named, EntitledInv
    <2> QED BY <2>1, <2>2
  <1>3. ASSUME NEW r \in Requests,
               \/ request'[r].pc \in {"recheck", "save", "delete"}
               \/ request'[r].pc = "lists" /\ request'[r].op # "create"
        PROVE  <<request'[r].by, request'[r].object>> \in entitled'
    <2>1. CASE request'[r] = request[r]
      BY <1>1, <1>3, <2>1 DEF EntitledInv
    <2>2. CASE Load(r) /\ request[r] \in ObjectRequest
                 /\ Kept(request[r], request'[r])
      <3>1. MayChange(request[r].by, request[r].rank, request[r].object)
              /\ rows[request[r].object] # NoRow /\ request[r].pc = "load"
        BY <2>2 DEF Load, GetObject, InQueryset
      <3>2. request[r].by \in Users /\ request[r].object \in Objects
        BY <2>2, <3>1 DEF MayChange, ObjectRequest
      <3>3. request[r].rank \in Standing(request[r].by)
        BY <3>1 DEF Standing
      <3>4. <<request[r].by, request[r].object>> \in Changeable
        BY <3>1, <3>2, <3>3 DEF Changeable
      <3> QED BY <1>1, <2>2, <3>4 DEF EntitledInv, Kept
    <2>3. CASE Recheck(r) /\ Kept(request[r], request'[r])
      BY <1>1, <2>3 DEF Recheck, Kept, EntitledInv
    <2>4. CASE /\ request'[r].pc = "lists" /\ Kept(request[r], request'[r])
               /\ request[r].pc \in {"insert", "save", "lists"}
      <3>1. request[r].pc # "insert"
        BY <1>3, <2>4 DEF Kept, TypeInv, SlotOK
      <3>2. <<request[r].by, request[r].object>> \in entitled
        BY <1>3, <2>4, <3>1 DEF Kept, EntitledInv
      <3> QED BY <1>1, <2>4, <3>2 DEF Kept
    <2>5. request'[r].pc \in ObjectPcs \ {"insert"} /\ request'[r].pc # "load"
      BY <1>3 DEF ObjectPcs
    <2> QED BY <2>1, <2>2, <2>3, <2>4, <2>5, ObjectHistory
  <1> QED BY <1>2, <1>3 DEF EntitledInv

\* For any data and requests, an object is written, given lists or deleted only
\* by a user who could change it at some time (WritersEntitled).
THEOREM WritersWereEntitled == Spec => WritersEntitled
  <1>1. Init => EntitledInv
    BY IdleSlot DEF Init, EntitledInv
  <1>2. TypeInv /\ EntitledInv /\ [Next]_vars => EntitledInv'
    BY EntitledNext
  <1>3. EntitledInv =>
          \A r \in Requests :
            \/ Save(r) \/ Delete(r)
            \/ SetList(r) /\ request[r].op # "create"
            => <<request[r].by, request[r].object>> \in entitled
    BY DEF EntitledInv, Save, Delete, SetList
  <1> QED BY <1>1, <1>2, <1>3, TypesHold, PTL DEF Spec, WritersEntitled
-----------------------------------------------------------------------------
(***************************************************************************)
(* What was hidden stays hidden.                                           *)
(***************************************************************************)

\* An object has a row only with a uid that is spent, and so is that of every
\* request that will save one.
SpentInv ==
    /\ \A o \in Objects : rows[o] # NoRow => o \in spent
    /\ \A r \in Requests : request[r].pc \in {"load", "recheck", "save", "delete"}
                             => request[r].object \in spent

\* No update will publish a hidden object that is not asked to.
HiddenInv ==
    /\ hidden \subseteq spent
    /\ HiddenStaysHidden
    /\ \A r \in Requests :
         /\ request[r].pc \in {"recheck", "save"}
         /\ request[r].object \in hidden
         /\ request[r].op = "update" /\ request[r].body.public # TRUE
         => ~request[r].copy.public

LEMMA SavedSpent ==
    ASSUME TypeInv, SpentInv, NEW r \in Requests, Save(r)
    PROVE  request[r].object \in spent
  BY DEF Save, SpentInv

LEMMA SpentNext ==
    ASSUME TypeInv, SpentInv, [Next]_vars
    PROVE  SpentInv'
  <1>1. spent \subseteq spent'
    BY RowHistory
  <1>2. ASSUME NEW o \in Objects, rows'[o] # NoRow
        PROVE  o \in spent'
    BY <1>1, <1>2, RowHistory, SavedSpent DEF SpentInv
  <1>3. ASSUME NEW r \in Requests,
               request'[r].pc \in {"load", "recheck", "save", "delete"}
        PROVE  request'[r].object \in spent'
    <2>1. request'[r].pc \in ObjectPcs \ {"insert"} /\ request'[r].pc # "lists"
      BY <1>3 DEF ObjectPcs
    <2>2. CASE request'[r] = request[r] \/ request'[r].object \in spent
      BY <1>1, <1>3, <2>2 DEF SpentInv
    <2>3. CASE (Load(r) \/ Recheck(r)) /\ Kept(request[r], request'[r])
      BY <1>1, <2>3 DEF SpentInv, Load, Recheck, Kept
    <2> QED BY <2>1, <2>2, <2>3, ObjectHistory
  <1> QED BY <1>2, <1>3 DEF SpentInv

LEMMA SpentInit == Init => SpentInv
  BY IdleSlot DEF Init, SpentInv

LEMMA HiddenNext ==
    ASSUME TypeInv, SpentInv, HiddenInv, [Next]_vars
    PROVE  HiddenInv'
  \* An object is hidden by a save that asks for it, while no update holds a
  \* public row.
  <1>1. \A o \in hidden' \ hidden :
          \E r \in Requests : /\ Save(r) /\ request[r].object = o
                              /\ request[r].body.public = FALSE
                              /\ Publishing(o) = {}
    <2>1. CASE \E r \in Requests : Save(r)
      BY <2>1 DEF Save
    <2>2. CASE \E r \in Requests : SlotStep(r) /\ ~Save(r)
      <3>1. UNCHANGED hidden
        BY <2>2, StartObjectStep, StartAccountStep
           DEF SlotStep, End, Load, Recheck, Insert, SetList, Delete, SkipLists,
               ClearViewers, ClearAdmins, Remove, Ungroup
      <3> QED BY <3>1
    <2>3. CASE Unmoved
      BY <2>3 DEF Unmoved
    <2> QED BY <2>1, <2>2, <2>3, Moves
  <1>2. \A o \in hidden' \ hidden : o \in Objects /\ o \in spent
    <2>1. ASSUME NEW r \in Requests, Save(r)
          PROVE  request[r].object \in Objects /\ request[r].object \in spent
      BY <2>1, WritingSlot, SavedSpent
    <2> QED BY <1>1, <2>1
  <1>3. hidden' \subseteq spent'
    BY <1>2, RowHistory DEF HiddenInv
  \* An update that is about to save a hidden object with a public row was asked
  \* to do so.
  <1>4. ASSUME NEW r \in Requests, request[r].pc \in {"recheck", "save"},
               request[r].object \in hidden', request[r].op = "update",
               request[r].body.public # TRUE
        PROVE  ~request[r].copy.public
    <2>1. CASE request[r].object \in hidden
      BY <1>4, <2>1 DEF HiddenInv
    <2>2. CASE request[r].object \notin hidden
      BY <1>1, <1>4, <2>2 DEF Publishing
    <2> QED BY <2>1, <2>2
  <1>5. ASSUME NEW r \in Requests, Save(r), request[r].object \in hidden'
        PROVE  ~request[r].copy.public
    <2>1. request[r].body.public # TRUE
      BY <1>5 DEF Save, HiddenInv
    <2> QED BY <1>4, <1>5, <2>1 DEF Save, TypeInv, SlotOK
  <1>6. ASSUME NEW o \in hidden', rows'[o] # NoRow
        PROVE  ~rows'[o].public
    <2>1. o \in Objects
      BY <1>2, <1>6 DEF TypeInv, TypeOK, HiddenInv
    <2>2. CASE \E r \in Requests : /\ Save(r) /\ request[r].object = o
                                   /\ rows'[o] = request[r].copy
      BY <1>5, <1>6, <2>2
    <2>3. CASE o \in hidden /\ rows'[o] = rows[o]
      BY <1>6, <2>3 DEF HiddenInv, HiddenStaysHidden
    <2>4. o \in spent
      BY <1>2 DEF HiddenInv
    <2>5. CASE o \notin hidden
      <3>1. PICK r \in Requests : Save(r) /\ request[r].object = o
        BY <1>1, <1>6, <2>5
      <3>2. rows'[o] = request[r].copy
        BY <2>1, <3>1 DEF Save, TypeInv, TypeOK
      <3> QED BY <2>2, <3>1, <3>2
    <2> QED BY <1>6, <2>1, <2>2, <2>3, <2>4, <2>5, RowHistory
  <1>7. ASSUME NEW r \in Requests, request'[r].pc \in {"recheck", "save"},
               request'[r].object \in hidden', request'[r].op = "update",
               request'[r].body.public # TRUE
        PROVE  ~request'[r].copy.public
    <2>1. request'[r].pc \in ObjectPcs \ {"insert"}
            /\ request'[r].pc \notin {"lists", "load"}
      BY <1>7 DEF ObjectPcs
    <2>2. CASE request'[r] = request[r]
      BY <1>4, <1>7, <2>2
    <2>3. CASE /\ Load(r) /\ request[r] \in ObjectRequest
               /\ Kept(request[r], request'[r])
               /\ request'[r].body = request[r].body
               /\ rows[request[r].object] \in Row
               /\ request'[r].copy = Written(rows[request[r].object], request[r].body)
      <3>1. request[r].body \in Body /\ request'[r].object = request[r].object
        BY <2>3 DEF ObjectRequest, Kept
      <3>2. UNCHANGED hidden
        BY <2>3 DEF Load
      <3>3. ~rows[request[r].object].public
        BY <1>7, <2>3, <3>1, <3>2, ConstantsAssumption
           DEF HiddenInv, HiddenStaysHidden
      <3>4. request[r].body.public \in {FALSE, Keep}
        BY <1>7, <2>3, <3>1, BodyTypes
      <3>5. CASE request[r].body.public = Keep
        BY <2>3, <3>1, <3>3, <3>5, WrittenRow
      <3>6. CASE request[r].body.public # Keep
        BY <2>3, <3>1, <3>4, <3>6, WrittenRow
      <3> QED BY <3>5, <3>6
    <2>4. CASE /\ Recheck(r) /\ Kept(request[r], request'[r])
               /\ request'[r].body = request[r].body
               /\ request'[r].copy = request[r].copy
      BY <1>4, <1>7, <2>4 DEF Recheck, Kept
    <2> QED BY <2>1, <2>2, <2>3, <2>4, ObjectHistory
  <1> QED BY <1>3, <1>6, <1>7 DEF HiddenInv, HiddenStaysHidden

\* For any data and requests, an object made private while no update holds a
\* public row is private until an update asks for the opposite
\* (HiddenStaysHidden).
THEOREM HiddenObjectsStayHidden == Spec => []HiddenStaysHidden
  <1>1. Init => SpentInv /\ HiddenInv
    BY SpentInit, IdleSlot DEF Init, HiddenInv, HiddenStaysHidden
  <1>2. TypeInv /\ SpentInv /\ HiddenInv /\ [Next]_vars => (SpentInv /\ HiddenInv)'
    BY SpentNext, HiddenNext
  <1>3. HiddenInv => HiddenStaysHidden
    BY DEF HiddenInv
  <1> QED BY <1>1, <1>2, <1>3, TypesHold, PTL DEF Spec
-----------------------------------------------------------------------------
(***************************************************************************)
(* Names that were cleared do not come back.                               *)
(***************************************************************************)

\* Every row of an object, in the table or held by an update, has one scope.
ScopeInv ==
    \A r \in Requests : request[r].pc \in {"recheck", "save"} =>
        /\ rows[request[r].object] # NoRow =>
             request[r].copy.scope = rows[request[r].object].scope
        /\ \A q \in Requests :
             /\ request[q].pc \in {"recheck", "save"}
             /\ request[q].object = request[r].object
             => request[q].copy.scope = request[r].copy.scope

\* List l of no object of scope s given u, but where he is late.
Unlisted(u, s, l) ==
    \A o \in Objects :
        /\ rows[o] # NoRow
        /\ rows[o].scope = s
        /\ u \in lists[l][o]
        => <<l, o, u>> \in late

\* A request that is taking scopes away has cleared the lists that it has been
\* through, and nobody who left a scope has it.
LeaversInv ==
    /\ \A e \in left : /\ e[2] \notin scopes[e[1]]
                       /\ \A l \in UserLists : Unlisted(e[1], e[2], l)
    /\ \A r \in Requests :
         /\ request[r].pc \in {"admin", "remove"} =>
              \A s \in request[r].cleared :
                Unlisted(request[r].target, s, "can_view_users")
         /\ request[r].pc = "remove" =>
              \A s \in request[r].cleared :
                Unlisted(request[r].target, s, "can_admin_users")

LEMMA ScopeNext ==
    ASSUME TypeInv, SpentInv, ScopeInv, [Next]_vars
    PROVE  ScopeInv'
  <1> DEFINE Holding(r) == request[r].pc \in {"recheck", "save"}
             Loaded(r) == /\ Load(r) /\ rows[request[r].object] # NoRow
                          /\ request'[r].object = request[r].object
                          /\ request'[r].copy.scope = rows[request[r].object].scope
                          /\ UNCHANGED rows
             Stayed(r) == /\ Holding(r)
                          /\ request'[r].object = request[r].object
                          /\ request'[r].copy = request[r].copy
  \* A slot that holds a row has just loaded it, or held it before.
  <1>1. ASSUME NEW r \in Requests, Holding(r)'
        PROVE  Loaded(r) \/ Stayed(r)
    <2>1. request'[r].pc \in ObjectPcs \ {"insert"}
            /\ request'[r].pc \notin {"lists", "load"}
      BY <1>1 DEF ObjectPcs
    <2>2. CASE request'[r] = request[r]
      BY <1>1, <2>2
    <2>3. CASE /\ Load(r) /\ request[r] \in ObjectRequest
               /\ Kept(request[r], request'[r])
               /\ rows[request[r].object] \in Row
               /\ request'[r].copy = Written(rows[request[r].object], request[r].body)
      <3>1. request[r].body \in Body
        BY <2>3 DEF ObjectRequest
      <3>2. UNCHANGED rows
        BY <2>3 DEF Load, objects
      <3> QED BY <2>3, <3>1, <3>2, WrittenRow, ConstantsAssumption DEF Kept
    <2>4. CASE /\ Recheck(r) /\ Kept(request[r], request'[r])
               /\ request'[r].copy = request[r].copy
      BY <2>4 DEF Recheck, Kept
    <2> QED BY <2>1, <2>2, <2>3, <2>4, ObjectHistory
  <1>2. \A r \in Requests : Load(r) =>
          \A q \in Requests \ {r} : request'[q] = request[q]
    BY OthersKept DEF SlotStep
  <1>3. ASSUME NEW r \in Requests, Holding(r)',
               rows'[request'[r].object] # NoRow
        PROVE  request'[r].copy.scope = rows'[request'[r].object].scope
    <2>1. CASE Loaded(r)
      BY <2>1
    <2>2. CASE Stayed(r)
      <3> DEFINE o == request[r].object
      <3>1. o \in spent /\ o \in Objects
        BY <2>2, ObjectSlot
        DEF SpentInv, ObjectPcs, TypeInv, TypeOK, ObjectRequest
      <3>2. CASE rows'[o] = rows[o]
        BY <1>3, <2>2, <3>2 DEF ScopeInv
      <3>3. CASE \E q \in Requests : /\ Save(q) /\ request[q].object = o
                                     /\ rows'[o] = request[q].copy
        BY <2>2, <3>3 DEF ScopeInv, Save
      <3> QED BY <1>3, <2>2, <3>1, <3>2, <3>3, RowHistory
    <2> QED BY <1>1, <1>3, <2>1, <2>2
  <1>4. ASSUME NEW r \in Requests, NEW q \in Requests, Holding(r)', Holding(q)',
               request'[q].object = request'[r].object
        PROVE  request'[q].copy.scope = request'[r].copy.scope
    <2>1. CASE Stayed(r) /\ Stayed(q)
      BY <1>4, <2>1 DEF ScopeInv
    <2>2. CASE Loaded(r) /\ Stayed(q)
      BY <1>4, <2>2 DEF ScopeInv
    <2>3. CASE Stayed(r) /\ Loaded(q)
      BY <1>4, <2>3 DEF ScopeInv
    <2>4. CASE Loaded(r) /\ Loaded(q)
      BY <1>4, <2>4
    <2> QED BY <1>1, <1>4, <2>1, <2>2, <2>3, <2>4
  <1> QED BY <1>3, <1>4 DEF ScopeInv

\* A step that writes no list, and whose rows keep their scope.
LEMMA UnlistedKept ==
    ASSUME TypeInv, SpentInv, ScopeInv, NEW r \in Requests, SlotStep(r), ~SetList(r),
           [Next]_vars, NEW u \in Users, NEW s \in Scopes, NEW l \in UserLists,
           Unlisted(u, s, l)
    PROVE  Unlisted(u, s, l)'
  <1> SUFFICES ASSUME NEW o \in Objects, rows'[o] # NoRow, rows'[o].scope = s,
                      u \in lists'[l][o]
               PROVE  <<l, o, u>> \in late'
    BY DEF Unlisted
  <1>1. l \in Lists /\ lists \in [Lists -> [Objects -> SUBSET Names]]
    BY DEF UserLists, Lists, TypeInv, TypeOK
  <1>2. lists'[l][o] \subseteq lists[l][o]
    <2>1. CASE Delete(r)
      BY <1>1, <2>1 DEF Delete
    <2>2. CASE ClearViewers(r) \/ ClearAdmins(r)
      <3>1. PICK k \in UserLists : ClearList(r, k)
        BY <2>2 DEF ClearViewers, ClearAdmins, UserLists
      <3>2. request[r] \in AccountRequest
        BY <2>2, ViewStep, AdminStep
      <3> QED BY <1>1, <3>1, <3>2, ClearStep
    <2>3. CASE ~(Delete(r) \/ ClearViewers(r) \/ ClearAdmins(r))
      <3>1. UNCHANGED lists
        BY <2>3, StartObjectStep, StartAccountStep
           DEF SlotStep, objects, End, Load, Recheck, Insert, Save, SkipLists,
               Remove, Ungroup
      <3> QED BY <3>1
    <2> QED BY <2>1, <2>2, <2>3
  <1>3. rows[o] # NoRow
    BY <1>1, <1>2 DEF TypeInv, TypeOK
  <1>4. rows[o].scope = s
    <2>1. CASE rows'[o] = rows[o]
      BY <2>1
    <2>2. CASE \E q \in Requests : /\ Save(q) /\ request[q].object = o
                                   /\ rows'[o] = request[q].copy
      BY <1>3, <2>2 DEF ScopeInv, Save
    <2>3. o \in spent
      BY <1>3 DEF SpentInv
    <2> QED BY <2>1, <2>2, <2>3, RowHistory
  <1>5. <<l, o, u>> \in late
    BY <1>2, <1>3, <1>4 DEF Unlisted
  <1>6. CASE Delete(r)
    <2>1. /\ rows' = [rows EXCEPT ![request[r].object] = NoRow]
          /\ late' = {e \in late : e[2] # request[r].object}
      BY <1>6 DEF Delete
    <2>2. o # request[r].object
      BY <2>1 DEF TypeInv, TypeOK
    <2> QED BY <1>5, <2>1, <2>2
  <1>7. CASE ClearViewers(r) \/ ClearAdmins(r)
    <2>1. PICK k \in UserLists : ClearList(r, k)
      BY <1>7 DEF ClearViewers, ClearAdmins, UserLists
    <2>2. request[r] \in AccountRequest
      BY <1>7, ViewStep, AdminStep
    <2> QED BY <1>1, <1>5, <2>1, <2>2, ClearStep
  <1>8. CASE ~(Delete(r) \/ ClearViewers(r) \/ ClearAdmins(r))
    <2>1. UNCHANGED late
      BY <1>8, StartObjectStep, StartAccountStep
         DEF SlotStep, End, Load, Recheck, Insert, Save, SkipLists, Remove,
             Ungroup
    <2> QED BY <1>5, <2>1
  <1> QED BY <1>6, <1>7, <1>8

\* A list that is written given as late who does not have the scope, or is
\* losing one.
LEMMA UnlistedWritten ==
    ASSUME TypeInv, NEW r \in Requests, SetList(r), NEW u \in Users,
           NEW s \in Scopes, NEW l \in UserLists, Unlisted(u, s, l),
           u \in Leaving \/ s \notin scopes[u]
    PROVE  Unlisted(u, s, l)'
  <1>1. PICK st \in RequestState, k \in Lists, given \in SUBSET Names :
          LET q == request[r]
              o == q.object IN
          /\ q \in ObjectRequest
          /\ lists' = [lists EXCEPT ![k][o] = given]
          /\ \A m \in Lists, p \in Objects, v \in Users :
               m # k \/ p # o => (<<m, p, v>> \in late' <=> <<m, p, v>> \in late)
          /\ \A v \in given \cap Users :
               v \in Leaving \/ rows[o].scope \notin scopes[v]
               => <<k, o, v>> \in late'
    BY ListStep
  <1>2. UNCHANGED rows
    BY DEF SetList
  <1>3. l \in Lists /\ lists \in [Lists -> [Objects -> SUBSET Names]]
    BY DEF UserLists, Lists, TypeInv, TypeOK
  <1>4. request[r].object \in Objects
    BY <1>1 DEF ObjectRequest
  <1> SUFFICES ASSUME NEW o \in Objects, rows[o] # NoRow, rows[o].scope = s,
                      u \in lists'[l][o]
               PROVE  <<l, o, u>> \in late'
    BY <1>2 DEF Unlisted
  <1>5. CASE l = k /\ o = request[r].object
    <2>1. u \in given
      BY <1>1, <1>3, <1>4, <1>5
    <2> QED BY <1>1, <1>5, <2>1
  <1>6. CASE l # k \/ o # request[r].object
    <2>1. u \in lists[l][o]
      BY <1>1, <1>3, <1>4, <1>6
    <2>2. <<l, o, u>> \in late
      BY <2>1 DEF Unlisted
    <2> QED BY <1>1, <1>3, <1>6, <2>2
  <1> QED BY <1>5, <1>6


\* How an account request comes to its pc.
LEMMA AccountHistory ==
    ASSUME TypeInv, [Next]_vars, NEW r \in Requests,
           request'[r].pc \in {"admin", "remove"}
    PROVE  \/ request'[r] = request[r]
           \/ request'[r].cleared = {}
           \/ /\ ClearViewers(r) /\ request[r] \in AccountRequest
              /\ request'[r].pc = "admin"
              /\ request'[r].target = request[r].target
              /\ request'[r].cleared = Losing(r)
           \/ /\ ClearAdmins(r) /\ request[r] \in AccountRequest
              /\ request'[r].target = request[r].target
              /\ request'[r].cleared = request[r].cleared \cap Losing(r)
  <1> DEFINE P ==
           \/ request'[r] = request[r]
           \/ request'[r].cleared = {}
           \/ /\ ClearViewers(r) /\ request[r] \in AccountRequest
              /\ request'[r].pc = "admin"
              /\ request'[r].target = request[r].target
              /\ request'[r].cleared = Losing(r)
           \/ /\ ClearAdmins(r) /\ request[r] \in AccountRequest
              /\ request'[r].target = request[r].target
              /\ request'[r].cleared = request[r].cleared \cap Losing(r)
  <1> SUFFICES P
    OBVIOUS
  <1>1. request \in [Requests -> RequestState]
    BY DEF TypeInv, TypeOK
  <1>2. CASE Unmoved
    BY <1>2 DEF Unmoved
  <1>3. CASE \E q \in Requests \ {r} : SlotStep(q)
    BY <1>3, OthersKept
  <1>4. CASE StartObject(r) \/ StartAccount(r)
    BY <1>1, <1>4, StartObjectStep, StartAccountStep DEF Spend, Set
  <1>5. CASE End(r) \/ Delete(r) \/ Ungroup(r)
    BY <1>1, <1>5, IdleSlot DEF End, Delete, Ungroup, Set
  <1>6. CASE Load(r)
    BY <1>1, <1>6, LoadStep DEF Set
  <1>7. CASE Recheck(r)
    BY <1>1, <1>7, RecheckStep DEF Set
  <1>8. CASE Insert(r) \/ Save(r)
    <2>1. request[r] \in ObjectRequest
      BY <1>8, WritingSlot
    <2>2. request'[r] = AfterRow(r)
      BY <1>1, <1>8 DEF Insert, Save, Set
    <2> QED BY <2>1, <2>2, AfterRowSlot, IdleSlot
  <1>9. CASE SetList(r)
    BY <1>1, <1>9, ListStep, IdleSlot DEF Set
  <1>10. CASE SkipLists(r)
    BY <1>1, <1>10, SkipStep, IdleSlot DEF Set
  <1>11. CASE ClearViewers(r)
    BY <1>1, <1>11, ViewStep DEF Set
  <1>12. CASE ClearAdmins(r)
    BY <1>1, <1>12, AdminStep, IdleSlot DEF Set
  <1>13. CASE Remove(r)
    BY <1>1, <1>13, RemoveStep DEF Set
  <1> QED BY <1>2, <1>3, <1>4, <1>5, <1>6, <1>7, <1>8, <1>9, <1>10, <1>11,
             <1>12, <1>13, Moves DEF SlotStep

\* Whom left and the requests under way speak of.
LEMMA LeaverTypes ==
    ASSUME TypeInv
    PROVE  /\ \A e \in left : e[1] \in Users /\ e[2] \in Scopes
           /\ \A r \in Requests : request[r].pc \in {"admin", "remove"} =>
                /\ request[r] \in AccountRequest
                /\ request[r].target \in Users /\ request[r].target \in Leaving
                /\ request[r].cleared \subseteq Scopes
  <1>1. \A e \in left : e[1] \in Users /\ e[2] \in Scopes
    BY DEF TypeInv, TypeOK
  <1>2. ASSUME NEW r \in Requests, request[r].pc \in {"admin", "remove"}
        PROVE  /\ request[r] \in AccountRequest
               /\ request[r].target \in Users /\ request[r].target \in Leaving
               /\ request[r].cleared \subseteq Scopes
    <2>1. request[r] \in AccountRequest
      BY <1>2, AccountSlot DEF TypeInv, TypeOK, AccountPcs
    <2> QED BY <1>2, <2>1 DEF AccountRequest, Leaving
  <1> QED BY <1>1, <1>2

\* Any step keeps the lists clear of those who left or are leaving.
LEMMA StaysUnlisted ==
    ASSUME TypeInv, SpentInv, ScopeInv, [Next]_vars, NEW u \in Users,
           NEW s \in Scopes, NEW l \in UserLists, Unlisted(u, s, l),
           u \in Leaving \/ s \notin scopes[u]
    PROVE  Unlisted(u, s, l)'
  <1>1. CASE Unmoved
    BY <1>1 DEF Unmoved, objects, Unlisted
  <1>2. CASE \E r \in Requests : SlotStep(r) /\ ~SetList(r)
    BY <1>2, UnlistedKept
  <1>3. CASE \E r \in Requests : SetList(r)
    BY <1>3, UnlistedWritten
  <1> QED BY <1>1, <1>2, <1>3, Moves

\* A list that was cleared of the scopes lost.
LEMMA ClearedUnlisted ==
    ASSUME TypeInv, NEW r \in Requests, request[r] \in AccountRequest,
           NEW l \in UserLists, ClearList(r, l), UNCHANGED rows,
           NEW s \in Losing(r), NEW t, t = request[r].target
    PROVE  Unlisted(t, s, l)'
  <1>1. \A o \in Objects : rows[o] # NoRow /\ rows[o].scope \in Losing(r)
                             => t \notin lists'[l][o]
    BY ClearStep
  <1> QED BY <1>1 DEF Unlisted


LEMMA LeaversNext ==
    ASSUME TypeInv, SpentInv, ScopeInv, LeaversInv, [Next]_vars
    PROVE  LeaversInv'
  <1> DEFINE Off(u, s) == \A l \in UserLists : Unlisted(u, s, l)
  <1>1. "can_view_users" \in UserLists /\ "can_admin_users" \in UserLists
          /\ UserLists = {"can_view_users", "can_admin_users"}
    BY DEF UserLists
  \* What was clear in the state before.
  <1>2. ASSUME NEW r \in Requests, NEW t, t = request[r].target,
               request[r].pc \in {"admin", "remove"}, NEW s \in request[r].cleared
        PROVE  /\ Unlisted(t, s, "can_view_users")'
               /\ request[r].pc = "remove" => Off(t, s)'
    <2>1. t \in Users /\ t \in Leaving /\ s \in Scopes
      BY <1>2, LeaverTypes
    <2>2. Unlisted(t, s, "can_view_users")
      BY <1>2 DEF LeaversInv
    <2>3. request[r].pc = "remove" => Unlisted(t, s, "can_admin_users")
      BY <1>2 DEF LeaversInv
    <2>4. Unlisted(t, s, "can_view_users")'
      BY <1>1, <2>1, <2>2, StaysUnlisted
    <2>5. request[r].pc = "remove" => Unlisted(t, s, "can_admin_users")'
      BY <1>1, <2>1, <2>3, StaysUnlisted
    <2> QED BY <1>1, <2>4, <2>5
  <1>3. ASSUME NEW e \in left
        PROVE  Off(e[1], e[2])'
    <2>1. e[1] \in Users /\ e[2] \in Scopes /\ e[2] \notin scopes[e[1]]
      BY LeaverTypes DEF LeaversInv
    <2>2. \A l \in UserLists : Unlisted(e[1], e[2], l)
      BY DEF LeaversInv
    <2> QED BY <2>1, <2>2, StaysUnlisted
  \* The lists that ClearAdmins leaves.
  <1>4. ASSUME NEW r \in Requests, ClearAdmins(r), NEW t, t = request[r].target,
               NEW s \in request[r].cleared \cap Losing(r)
        PROVE  Off(t, s)'
    <2>1. request[r] \in AccountRequest /\ request[r].pc = "admin"
      BY <1>4, AdminStep
    <2>2. ClearList(r, "can_admin_users") /\ UNCHANGED rows
      BY <1>4 DEF ClearAdmins
    <2>3. Unlisted(t, s, "can_admin_users")'
      BY <1>1, <1>4, <2>1, <2>2, ClearedUnlisted
    <2>4. Unlisted(t, s, "can_view_users")'
      BY <1>2, <1>4, <2>1
    <2> QED BY <1>1, <2>3, <2>4
  \* The requests of the next state.
  <1>5. ASSUME NEW r \in Requests, request'[r].pc \in {"admin", "remove"},
               NEW s \in request'[r].cleared, NEW t, t = request'[r].target
        PROVE  /\ Unlisted(t, s, "can_view_users")'
               /\ request'[r].pc = "remove" => Unlisted(t, s, "can_admin_users")'
    <2>1. CASE request'[r] = request[r]
      BY <1>1, <1>2, <1>5, <2>1
    <2>2. CASE /\ ClearViewers(r) /\ request[r] \in AccountRequest
               /\ request'[r].pc = "admin"
               /\ request'[r].target = request[r].target
               /\ request'[r].cleared = Losing(r)
      <3>1. ClearList(r, "can_view_users") /\ UNCHANGED rows
        BY <2>2 DEF ClearViewers
      <3> QED BY <1>1, <1>5, <2>2, <3>1, ClearedUnlisted
    <2>3. CASE /\ ClearAdmins(r)
               /\ request'[r].target = request[r].target
               /\ request'[r].cleared = request[r].cleared \cap Losing(r)
      BY <1>1, <1>4, <1>5, <2>3
    <2> QED BY <1>5, <2>1, <2>2, <2>3, AccountHistory
  \* Those who left, in the next state.
  <1>6. ASSUME NEW e \in left'
        PROVE  e[2] \notin scopes'[e[1]] /\ Off(e[1], e[2])'
    <2>1. CASE \E r \in Requests : ClearAdmins(r) /\ e \notin left
      <3>1. PICK r \in Requests : ClearAdmins(r)
        BY <2>1
      <3> DEFINE t == request[r].target
                 cleared == request[r].cleared \cap Losing(r)
      <3>2. request[r] \in AccountRequest /\ UNCHANGED scopes
        BY <3>1, AdminStep DEF ClearAdmins, accounts
      <3>3. left' = LeftAfter(t, cleared, scopes[t])
        BY <2>1, <3>1, AdminStep
      <3>4. t \in Users /\ cleared \in SUBSET Scopes /\ scopes[t] \in SUBSET Scopes
        BY <3>2 DEF AccountRequest, TypeInv, TypeOK
      <3> HIDE DEF cleared
      <3>5. e[1] = t /\ e[2] \in cleared /\ e[2] \notin scopes[t]
        BY <2>1, <3>3, <3>4, LeftTypes, Tables
      <3> QED BY <1>4, <3>1, <3>2, <3>5 DEF cleared
    <2>2. CASE \E r \in Requests : Remove(r)
      <3>1. PICK r \in Requests, held \in SUBSET Scopes :
              /\ Remove(r)
              /\ request[r] \in AccountRequest /\ request[r].pc = "remove"
              /\ scopes' = [scopes EXCEPT ![request[r].target] = held]
              /\ left' = LeftAfter(request[r].target, request[r].cleared, held)
        BY <2>2, RemoveStep
      <3> DEFINE t == request[r].target
                 cleared == request[r].cleared
      <3>2. t \in Users /\ cleared \in SUBSET Scopes
        BY <3>1 DEF AccountRequest
      <3>3. /\ \/ e \in left
               \/ e[1] = t /\ e[2] \in cleared
            /\ e[1] = t => e[2] \notin held
        BY <3>1, <3>2, LeftTypes, Tables
      <3>4. e[2] \notin scopes'[e[1]]
        BY <3>1, <3>2, <3>3 DEF LeaversInv, TypeInv, TypeOK
      <3>5. Off(e[1], e[2])'
        BY <1>2, <1>3, <3>1, <3>3
      <3> QED BY <3>4, <3>5
    <2>3. CASE e \in left /\ ~\E r \in Requests : Remove(r)
      <3>1. UNCHANGED scopes
        BY <2>3, Moves, StartObjectStep, StartAccountStep
           DEF Unmoved, SlotStep, accounts, End, Load, Recheck, Insert, Save,
               SetList, Delete, SkipLists, ClearViewers, ClearAdmins, Ungroup
      <3> QED BY <1>3, <2>3, <3>1 DEF LeaversInv
    <2>4. e \in left \/ \E r \in Requests : ClearAdmins(r) \/ Remove(r)
      BY Moves, StartObjectStep, StartAccountStep
         DEF Unmoved, SlotStep, End, Load, Recheck, Insert, Save,
             SetList, Delete, SkipLists, ClearViewers, Ungroup
    <2> QED BY <2>1, <2>2, <2>3, <2>4
  <1>7. (\A e \in left : /\ e[2] \notin scopes[e[1]]
                         /\ \A l \in UserLists : Unlisted(e[1], e[2], l))'
    BY <1>6
  <1>8. (\A r \in Requests :
           /\ request[r].pc \in {"admin", "remove"} =>
                \A s \in request[r].cleared :
                  Unlisted(request[r].target, s, "can_view_users")
           /\ request[r].pc = "remove" =>
                \A s \in request[r].cleared :
                  Unlisted(request[r].target, s, "can_admin_users"))'
    BY <1>5
  <1> QED BY <1>7, <1>8 DEF LeaversInv

\* For any data and requests, who lost a scope through a request that cleared the
\* lists is on no user list of its objects, but where he was named while he was
\* losing a scope or since (LeaversUnlisted).
THEOREM LeaversStayUnlisted == Spec => []LeaversUnlisted
  <1>1. Init => SpentInv /\ ScopeInv /\ LeaversInv
    BY SpentInit, IdleSlot DEF Init, ScopeInv, LeaversInv
  <1>2. TypeInv /\ SpentInv /\ ScopeInv /\ LeaversInv /\ [Next]_vars
          => (SpentInv /\ ScopeInv /\ LeaversInv)'
    BY SpentNext, ScopeNext, LeaversNext
  <1>3. LeaversInv => LeaversUnlisted
    BY DEF LeaversInv, LeaversUnlisted, Unlisted
  <1> QED BY <1>1, <1>2, <1>3, TypesHold, PTL DEF Spec

-----------------------------------------------------------------------------
(***************************************************************************)
(* The data model file: what the parser and the maker of the models have   *)
(* seen is well formed, what they have refused is not.                     *)
(***************************************************************************)

\* What WellFormed asks of a model, of a field, and of two fields.
HeaderOK(i) ==
    /\ Models[i].complete
    /\ Models[i].name \notin CustomModels \cup Keywords
    /\ Cardinality(Entries(definition.permissions, Models[i])) = 1
QueriesOK(i) == Cardinality(Entries(definition.queries, Models[i])) <= 1

NameOK(p) ==
    /\ FieldAt(p).complete
    /\ FieldAt(p).name \notin Keywords \cup ProtectedNames(Models[p[1]])
TypeOfFieldOK(p) ==
    /\ FieldAt(p).datatype \in DOMAIN DjangoType
    /\ FieldAt(p).datatype = "ip" => GoodAddress(FieldAt(p))
    /\ IsRelation(FieldAt(p)) =>
         Cardinality(RelationsOf(Models[p[1]], FieldAt(p))) = 1
ColumnOK(p) ==
    /\ FieldAt(p).name \notin AttributesOf(Models[p[1]])
    /\ FieldAt(p).datatype = "fk" =>
         OnDelete(Models[p[1]], FieldAt(p)) \in DeleteRules

NameAt(p) == <<Models[p[1]].name, FieldAt(p).name>>
ReverseAt(p) == ReverseOf(Models[p[1]], FieldAt(p))
RelationAt(p) == IsRelation(FieldAt(p))

DividersOK ==
    \A i, j \in LookupsIn(definition) :
        \/ NoName \in {definition.permissions[i].divider,
                       definition.permissions[j].divider}
        \/ definition.permissions[i].divider = definition.permissions[j].divider

LEMMA WellFormedParts ==
    WellFormed <=>
        /\ \A i \in DOMAIN Models : HeaderOK(i) /\ QueriesOK(i)
        /\ \A p \in FieldPlaces : NameOK(p) /\ TypeOfFieldOK(p) /\ ColumnOK(p)
        /\ \A p, q \in FieldPlaces : p # q =>
              /\ NameAt(p) # NameAt(q)
              /\ RelationAt(p) /\ RelationAt(q) => ReverseAt(p) # ReverseAt(q)
        /\ DividersOK
  BY DEF WellFormed, HeaderOK, QueriesOK, NameOK, TypeOfFieldOK, ColumnOK, NameAt,
         ReverseAt, ReverseOf, RelationAt, DividersOK

\* How far the parser and the maker have come.
Done == phase \in {"maker", "built"}
Opened(i) == Done \/ i < at \/ (i = at /\ phase \in {"names", "fields"})
Queried(i) == Done \/ i < at \/ (i = at /\ phase = "fields")
Heard(p) ==
    \/ Done \/ p[1] < at
    \/ p[1] = at /\ (phase = "fields" \/ (phase = "names" /\ p[2] < field))
Parsed(p) ==
    Done \/ p[1] < at \/ (p[1] = at /\ phase = "fields" /\ p[2] < field)
Made(i) == phase = "built" \/ (phase = "maker" /\ i < at)

NamedPlaces == {p \in FieldPlaces : Heard(p)}
ParsedPlaces == {p \in FieldPlaces : Parsed(p)}

\* Where the parser is.
Position ==
    /\ definition \in Definitions
    /\ phase \in {"model", "names", "fields", "maker", "built", "refused"}
    /\ at \in Nat \ {0} /\ field \in Nat \ {0}
    /\ phase \in {"names", "fields"} => at \in DOMAIN Models

\* What it has seen is well formed, and it remembers the names and reverses.
Seen ==
    /\ \A i \in DOMAIN Models : Opened(i) => HeaderOK(i)
    /\ \A i \in DOMAIN Models : Queried(i) => QueriesOK(i)
    /\ \A p \in NamedPlaces : NameOK(p)
    /\ \A p \in ParsedPlaces : TypeOfFieldOK(p)
    /\ \A p \in FieldPlaces : Made(p[1]) => ColumnOK(p)
    /\ \A p, q \in NamedPlaces : p # q => NameAt(p) # NameAt(q)
    /\ \A p, q \in ParsedPlaces :
         p # q /\ RelationAt(p) /\ RelationAt(q) => ReverseAt(p) # ReverseAt(q)
    /\ names = {NameAt(p) : p \in NamedPlaces}
    /\ reverses = {ReverseAt(p) : p \in {q \in ParsedPlaces : RelationAt(q)}}
    /\ Done => DividersOK

ParserInv ==
    /\ Position
    /\ phase = "refused" => ~WellFormed
    /\ phase # "refused" => Seen

LEMMA PlaceIff ==
    ASSUME NEW p
    PROVE  p \in FieldPlaces <=>
             /\ p = <<p[1], p[2]>> /\ p[1] \in DOMAIN Models
             /\ p[2] \in DOMAIN Models[p[1]].fields
  BY DEF FieldPlaces

LEMMA FileLists ==
    ASSUME definition \in Definitions
    PROVE  /\ Len(Models) \in Nat /\ DOMAIN Models = 1 .. Len(Models)
           /\ IsFiniteSet(DOMAIN definition.permissions)
           /\ \A i \in DOMAIN Models :
                /\ Len(Models[i].fields) \in Nat
                /\ DOMAIN Models[i].fields = 1 .. Len(Models[i].fields)
  <1>1. ASSUME NEW s, IsList(s)
        PROVE  Len(s) \in Nat /\ DOMAIN s = 1 .. Len(s)
    BY <1>1 DEF IsList
  <1>2. /\ IsList(Models) /\ IsList(definition.permissions)
        /\ \A i \in DOMAIN Models : IsList(Models[i].fields)
    BY DefinitionsAssumption DEF Models
  <1>3. IsFiniteSet(DOMAIN definition.permissions)
    <2>1. /\ Len(definition.permissions) \in Nat
          /\ DOMAIN definition.permissions = 1 .. Len(definition.permissions)
      BY <1>1, <1>2
    <2>2. ASSUME NEW n \in Nat PROVE IsFiniteSet(1 .. n)
      BY FS_Interval
    <2> QED BY <2>1, <2>2
  <1> QED BY <1>1, <1>2, <1>3

LEMMA AtMostOne ==
    ASSUME NEW S, IsFiniteSet(S)
    PROVE  Cardinality(S) <= 1 <=> \A x, y \in S : x = y
  <1>1. CASE S = {}
    BY <1>1, FS_EmptySet
  <1>2. ASSUME NEW x \in S
        PROVE  Cardinality(S) <= 1 <=> \A y, z \in S : y = z
    <2>1. /\ IsFiniteSet(S \ {x}) /\ Cardinality(S \ {x}) = Cardinality(S) - 1
          /\ Cardinality(S) \in Nat /\ Cardinality(S \ {x}) \in Nat
      BY FS_RemoveElement, FS_CardinalityType
    <2>2. Cardinality(S \ {x}) = 0 <=> S \ {x} = {}
      BY <2>1, FS_EmptySet
    <2>3. S \ {x} = {} <=> \A y, z \in S : y = z
      OBVIOUS
    <2> QED BY <2>1, <2>2, <2>3
  <1> QED BY <1>1, <1>2

LEMMA OneDivider ==
    ASSUME definition \in Definitions
    PROVE  Cardinality(Dividers) <= 1 <=> DividersOK
  <1> DEFINE S == {definition.permissions[i].divider :
                      i \in LookupsIn(definition)}
  <1>1. IsFiniteSet(S)
    <2>1. IsFiniteSet(LookupsIn(definition))
      <3>1. IsFiniteSet(DOMAIN definition.permissions)
        BY FileLists
      <3>2. LookupsIn(definition) \subseteq DOMAIN definition.permissions
        BY DEF LookupsIn, Entries
      <3> QED BY <3>1, <3>2, FS_Subset
    <2> DEFINE f == [i \in LookupsIn(definition) |->
                       definition.permissions[i].divider]
    <2>2. f \in Surjection(LookupsIn(definition), S)
      BY DEF Surjection
    <2> HIDE DEF f, S
    <2> QED BY <2>1, <2>2, FS_Surjection
  <1>2. IsFiniteSet(Dividers)
    <2>1. Dividers \subseteq S
      BY DEF Dividers, DividersIn
    <2> QED BY <1>1, <2>1, FS_Subset
  <1>3. (\A x, y \in Dividers : x = y) <=> DividersOK
    BY DEF Dividers, DividersIn, DividersOK
  <1> QED BY <1>2, <1>3, AtMostOne

\* The file does not change.
LEMMA SameFile ==
    ASSUME definition' = definition
    PROVE  /\ Models' = Models /\ FieldPlaces' = FieldPlaces
           /\ WellFormed' = WellFormed /\ DividersOK' = DividersOK
           /\ \A i : HeaderOK(i)' = HeaderOK(i) /\ QueriesOK(i)' = QueriesOK(i)
           /\ \A p : /\ NameOK(p)' = NameOK(p)
                     /\ TypeOfFieldOK(p)' = TypeOfFieldOK(p)
                     /\ ColumnOK(p)' = ColumnOK(p)
                     /\ NameAt(p)' = NameAt(p)
                     /\ ReverseAt(p)' = ReverseAt(p)
                     /\ RelationAt(p)' = RelationAt(p)
  <1>1. Models' = Models
    BY DEF Models
  <1>2. FieldPlaces' = FieldPlaces
    BY <1>1 DEF FieldPlaces
  <1>3. DividersOK' = DividersOK
    BY DEF DividersOK
  <1>4. ASSUME NEW m, NEW f
        PROVE  /\ RelationsOf(m, f)' = RelationsOf(m, f)
               /\ OnDelete(m, f)' = OnDelete(m, f)
    BY DEF RelationsOf, OnDelete
  <1>5. ASSUME NEW i
        PROVE  HeaderOK(i)' = HeaderOK(i) /\ QueriesOK(i)' = QueriesOK(i)
    BY <1>1 DEF HeaderOK, QueriesOK, Entries
  <1>6. ASSUME NEW p
        PROVE  /\ FieldAt(p)' = FieldAt(p) /\ NameOK(p)' = NameOK(p)
               /\ NameAt(p)' = NameAt(p) /\ RelationAt(p)' = RelationAt(p)
               /\ ReverseAt(p)' = ReverseAt(p)
    BY <1>1 DEF FieldAt, NameOK, NameAt, RelationAt, ReverseAt, ReverseOf,
                ProtectedNames, IsUser, IsRelation
  <1>7. ASSUME NEW p
        PROVE  TypeOfFieldOK(p)' = TypeOfFieldOK(p)
    BY <1>1, <1>6 DEF TypeOfFieldOK, GoodAddress, RelationsOf, IsRelation
  <1>8. ASSUME NEW p
        PROVE  ColumnOK(p)' = ColumnOK(p)
    BY <1>1, <1>4, <1>6 DEF ColumnOK, AttributesOf
  <1>9. WellFormed' = WellFormed
    BY DEF WellFormed, FieldPlaces, Models, Entries, LookupsIn, ProtectedNames,
           IsUser, AttributesOf, GoodAddress, IsRelation, RelationsOf, OnDelete,
           FieldAt
  <1> QED BY <1>1, <1>2, <1>3, <1>5, <1>6, <1>7, <1>8, <1>9

LEMMA Refused ==
    ASSUME Position, definition' = definition, at' = at, field' \in Nat \ {0},
           phase' = "refused", ~WellFormed
    PROVE  ParserInv'
  BY SameFile DEF ParserInv, Position

\* Where the parser stands is a place of the file.
LEMMA Here ==
    ASSUME Position, phase \in {"names", "fields"}, field <= Len(Model.fields)
    PROVE  /\ <<at, field>> \in FieldPlaces
           /\ FieldAt(<<at, field>>) = Field /\ Models[at] = Model
           /\ \A p \in FieldPlaces : p[1] = at /\ p[2] = field => p = <<at, field>>
  <1>1. at \in DOMAIN Models /\ definition \in Definitions /\ field \in Nat \ {0}
    BY DEF Position
  <1>2. field \in DOMAIN Models[at].fields
    BY <1>1, FileLists DEF Model
  <1> QED BY <1>1, <1>2, PlaceIff DEF FieldAt, Field, Model

LEMMA PlaceTypes ==
    ASSUME definition \in Definitions, NEW p \in FieldPlaces
    PROVE  /\ p[1] \in Nat /\ p[1] >= 1 /\ p[1] <= Len(Models)
           /\ p[2] \in Nat /\ p[2] >= 1 /\ p[2] <= Len(Models[p[1]].fields)
           /\ p[1] \in DOMAIN Models
  BY PlaceIff, FileLists

LEMMA CheckModelInv ==
    ASSUME ParserInv, CheckModel
    PROVE  ParserInv'
  <1>1. /\ definition' = definition /\ at' = at /\ field' = 1 /\ phase = "model"
        /\ names' = names /\ reverses' = reverses /\ Position /\ Seen
        /\ at <= Len(Models)
    BY DEF CheckModel, ParserInv
  <1>2. /\ at \in DOMAIN Models /\ at \in Nat
        /\ HeaderOK(at) => phase' = "names"
        /\ ~HeaderOK(at) => phase' = "refused"
    BY <1>1, FileLists DEF CheckModel, Advance, HeaderOK, Model, Position
  <1>3. CASE ~HeaderOK(at)
    <2>1. ~WellFormed
      BY <1>2, <1>3, WellFormedParts
    <2> QED BY <1>1, <1>2, <1>3, <2>1, Refused
  <1>4. CASE HeaderOK(at)
    <2>1. NamedPlaces' = NamedPlaces /\ ParsedPlaces' = ParsedPlaces
      BY <1>1, <1>2, <1>4, SameFile, PlaceTypes
      DEF NamedPlaces, ParsedPlaces, Heard, Parsed, Done, Position
    <2>2. Position'
      BY <1>1, <1>2, <1>4, SameFile DEF Position
    <2>3. \A i \in DOMAIN Models : /\ Opened(i)' => HeaderOK(i)
                                   /\ Queried(i)' => QueriesOK(i)
                                   /\ ~Made(i)'
      <3>1. ASSUME NEW i \in DOMAIN Models, Opened(i)'
            PROVE  HeaderOK(i)
        <4>1. i = at \/ Opened(i)
          BY <1>1, <1>2, <1>4, <3>1 DEF Opened, Done
        <4> QED BY <1>1, <1>4, <4>1 DEF Seen
      <3>2. ASSUME NEW i \in DOMAIN Models
            PROVE  ~Made(i)' /\ (Queried(i)' => QueriesOK(i))
        BY <1>1, <1>2, <1>4 DEF Queried, Made, Done, Seen
      <3> QED BY <3>1, <3>2
    <2>4. Seen'
      BY <1>1, <1>2, <1>4, <2>1, <2>3, SameFile, PlaceTypes
      DEF Seen, Done, Position
    <2> QED BY <1>2, <1>4, <2>2, <2>4 DEF ParserInv
  <1> QED BY <1>3, <1>4

LEMMA CheckNameInv ==
    ASSUME ParserInv, CheckName
    PROVE  ParserInv'
  <1> DEFINE here == <<at, field>>
  <1>1. /\ definition' = definition /\ at' = at /\ field' = field + 1
        /\ phase = "names" /\ field <= Len(Model.fields)
        /\ reverses' = reverses /\ Position /\ Seen
    BY DEF CheckName, ParserInv
  <1>2. /\ here \in FieldPlaces /\ FieldAt(here) = Field /\ Models[at] = Model
        /\ \A p \in FieldPlaces : p[1] = at /\ p[2] = field => p = here
        /\ here[1] = at /\ here[2] = field
        /\ at \in Nat /\ field \in Nat \ {0} /\ at \in DOMAIN Models
    BY <1>1, Here DEF Position
  <1>3. /\ names' = names \cup {NameAt(here)}
        /\ NameOK(here) /\ NameAt(here) \notin names => phase' = "names"
        /\ ~(NameOK(here) /\ NameAt(here) \notin names) => phase' = "refused"
    BY <1>2 DEF CheckName, Advance, NameOK, NameAt
  <1>4. here \notin NamedPlaces
    BY <1>1, <1>2 DEF NamedPlaces, Heard, Done
  <1>5. CASE ~(NameOK(here) /\ NameAt(here) \notin names)
    <2>1. ~WellFormed
      <3>1. CASE ~NameOK(here)
        BY <1>2, <3>1, WellFormedParts
      <3>2. CASE NameAt(here) \in names
        <4>1. PICK q \in NamedPlaces : NameAt(q) = NameAt(here)
          BY <1>1, <3>2 DEF Seen
        <4> QED BY <1>2, <1>4, <4>1, WellFormedParts DEF NamedPlaces
      <3> QED BY <1>5, <3>1, <3>2
    <2> QED BY <1>1, <1>2, <1>3, <1>5, <2>1, Refused
  <1>6. CASE NameOK(here) /\ NameAt(here) \notin names
    <2>1. NamedPlaces' = NamedPlaces \cup {here}
      BY <1>1, <1>2, <1>3, <1>6, SameFile, PlaceTypes
      DEF NamedPlaces, Heard, Done, Position
    <2>2. ParsedPlaces' = ParsedPlaces
      BY <1>1, <1>2, <1>3, <1>6, SameFile, PlaceTypes
      DEF ParsedPlaces, Parsed, Done, Position
    <2>3. Position'
      BY <1>1, <1>2, <1>3, <1>6, SameFile DEF Position
    <2>4. \A i \in DOMAIN Models : /\ Opened(i)' => HeaderOK(i)
                                   /\ Queried(i)' => QueriesOK(i)
                                   /\ ~Made(i)'
      BY <1>1, <1>2, <1>3, <1>6 DEF Opened, Queried, Made, Done, Seen
    <2>5. Seen'
      <3> HIDE DEF here
      <3>1. \A q \in NamedPlaces : NameAt(q) # NameAt(here)
        BY <1>1, <1>6 DEF Seen
      <3>2. \A p, q \in NamedPlaces' : p # q => NameAt(p) # NameAt(q)
        BY <1>1, <2>1, <3>1 DEF Seen
      <3>3. names' = {NameAt(p) : p \in NamedPlaces'}
        BY <1>1, <1>3, <2>1 DEF Seen
      <3> QED BY <1>1, <1>2, <1>3, <1>6, <2>1, <2>2, <2>4, <3>2, <3>3, SameFile,
                 PlaceTypes DEF Seen, Done, Position
    <2> QED BY <1>3, <1>6, <2>3, <2>5 DEF ParserInv
  <1> QED BY <1>5, <1>6

LEMMA ChooseQueriesInv ==
    ASSUME ParserInv, ChooseQueries
    PROVE  ParserInv'
  <1>1. /\ definition' = definition /\ at' = at /\ field' = 1 /\ phase = "names"
        /\ field > Len(Model.fields) /\ names' = names /\ reverses' = reverses
        /\ Position /\ Seen /\ at \in DOMAIN Models /\ at \in Nat
        /\ field \in Nat /\ Models[at] = Model
    BY DEF ChooseQueries, ParserInv, Position, Model
  <1>2. /\ QueriesOK(at) => phase' = "fields"
        /\ ~QueriesOK(at) => phase' = "refused"
    BY <1>1 DEF ChooseQueries, Advance, QueriesOK, Model
  <1>3. CASE ~QueriesOK(at)
    <2>1. ~WellFormed
      BY <1>1, <1>3, WellFormedParts
    <2> QED BY <1>1, <1>2, <1>3, <2>1, Refused
  <1>4. CASE QueriesOK(at)
    <2>1. NamedPlaces' = NamedPlaces /\ ParsedPlaces' = ParsedPlaces
      BY <1>1, <1>2, <1>4, SameFile, PlaceTypes
      DEF NamedPlaces, ParsedPlaces, Heard, Parsed, Done, Position
    <2>2. Position'
      BY <1>1, <1>2, <1>4, SameFile DEF Position
    <2>3. ASSUME NEW i \in DOMAIN Models, Queried(i)'
          PROVE  QueriesOK(i)
      <3>1. i = at \/ Queried(i)
        BY <1>1, <1>2, <1>4, <2>3 DEF Queried, Done
      <3> QED BY <1>1, <1>4, <3>1 DEF Seen
    <2>4. ASSUME NEW i \in DOMAIN Models
          PROVE  ~Made(i)' /\ (Opened(i)' => HeaderOK(i))
      BY <1>1, <1>2, <1>4 DEF Opened, Made, Done, Seen
    <2>5. Seen'
      BY <1>1, <1>2, <1>4, <2>1, <2>3, <2>4, SameFile, PlaceTypes
      DEF Seen, Done, Position
    <2> QED BY <1>2, <1>4, <2>2, <2>5 DEF ParserInv
  <1> QED BY <1>3, <1>4

LEMMA MakeFieldInv ==
    ASSUME ParserInv, MakeField
    PROVE  ParserInv'
  <1> DEFINE here == <<at, field>>
             Fits == /\ TypeOfFieldOK(here)
                     /\ RelationAt(here) => ReverseAt(here) \notin reverses
  <1>1. /\ definition' = definition /\ at' = at /\ field' = field + 1
        /\ phase = "fields" /\ field <= Len(Model.fields)
        /\ names' = names /\ Position /\ Seen
    BY DEF MakeField, ParserInv
  <1>2. /\ here \in FieldPlaces /\ FieldAt(here) = Field /\ Models[at] = Model
        /\ \A p \in FieldPlaces : p[1] = at /\ p[2] = field => p = here
        /\ here[1] = at /\ here[2] = field
        /\ at \in Nat /\ field \in Nat \ {0} /\ at \in DOMAIN Models
    BY <1>1, Here DEF Position
  <1>3. /\ RelationAt(here) => reverses' = reverses \cup {ReverseAt(here)}
        /\ ~RelationAt(here) => reverses' = reverses
        /\ Fits => phase' = "fields"
        /\ ~Fits => phase' = "refused"
    BY <1>2 DEF MakeField, Advance, TypeOfFieldOK, RelationAt, ReverseAt
  <1>4. here \notin ParsedPlaces
    BY <1>1, <1>2 DEF ParsedPlaces, Parsed, Done
  <1>5. CASE ~Fits
    <2>1. ~WellFormed
      <3>1. CASE ~TypeOfFieldOK(here)
        BY <1>2, <3>1, WellFormedParts
      <3>2. CASE RelationAt(here) /\ ReverseAt(here) \in reverses
        <4>1. PICK q \in ParsedPlaces : RelationAt(q) /\ ReverseAt(q) = ReverseAt(here)
          BY <1>1, <3>2 DEF Seen
        <4> QED BY <1>2, <1>4, <3>2, <4>1, WellFormedParts DEF ParsedPlaces
      <3> QED BY <1>5, <3>1, <3>2
    <2> QED BY <1>1, <1>2, <1>3, <1>5, <2>1, Refused
  <1>6. CASE Fits
    <2>1. ParsedPlaces' = ParsedPlaces \cup {here}
      BY <1>1, <1>2, <1>3, <1>6, SameFile, PlaceTypes
      DEF ParsedPlaces, Parsed, Done, Position
    <2>2. NamedPlaces' = NamedPlaces
      BY <1>1, <1>2, <1>3, <1>6, SameFile, PlaceTypes
      DEF NamedPlaces, Heard, Done, Position
    <2>3. Position'
      BY <1>1, <1>2, <1>3, <1>6, SameFile DEF Position
    <2>4. ASSUME NEW i \in DOMAIN Models
          PROVE  /\ Opened(i)' => HeaderOK(i)
                 /\ Queried(i)' => QueriesOK(i)
                 /\ ~Made(i)'
      BY <1>1, <1>2, <1>3, <1>6 DEF Opened, Queried, Made, Done, Seen
    <2>5. Seen'
      <3>1. \A q \in ParsedPlaces :
              RelationAt(q) /\ RelationAt(here) => ReverseAt(q) # ReverseAt(here)
        BY <1>1, <1>6 DEF Seen
      <3>2. /\ TypeOfFieldOK(here)
            /\ reverses' = IF RelationAt(here) THEN reverses \cup {ReverseAt(here)}
                           ELSE reverses
        BY <1>3, <1>6
      <3> HIDE DEF here, Fits
      <3>3. \A p, q \in ParsedPlaces' :
              p # q /\ RelationAt(p) /\ RelationAt(q) => ReverseAt(p) # ReverseAt(q)
        BY <1>1, <2>1, <3>1 DEF Seen
      <3>4. reverses' = {ReverseAt(p) : p \in {q \in ParsedPlaces' : RelationAt(q)}}
        BY <1>1, <3>2, <2>1 DEF Seen
      <3> QED BY <1>1, <1>2, <1>3, <1>6, <2>1, <2>2, <2>4, <3>2, <3>3, <3>4, SameFile,
                 PlaceTypes DEF Seen, Done, Position
    <2> QED BY <1>3, <1>6, <2>3, <2>5 DEF ParserInv
  <1> QED BY <1>5, <1>6

LEMMA FinishModelInv ==
    ASSUME ParserInv, FinishModel
    PROVE  ParserInv'
  <1>1. /\ definition' = definition /\ at' = at + 1 /\ field' = field
        /\ phase = "fields" /\ phase' = "model"
        /\ field > Len(Model.fields) /\ names' = names /\ reverses' = reverses
        /\ Position /\ Seen /\ at \in DOMAIN Models /\ at \in Nat
        /\ field \in Nat \ {0} /\ Models[at] = Model
    BY DEF FinishModel, ParserInv, Position, Model
  <1>2. Position'
    BY <1>1, SameFile DEF Position
  <1>3. NamedPlaces' = NamedPlaces /\ ParsedPlaces' = ParsedPlaces
    BY <1>1, SameFile, PlaceTypes
    DEF NamedPlaces, ParsedPlaces, Heard, Parsed, Done, Position
  <1>4. ASSUME NEW i \in DOMAIN Models
        PROVE  /\ Opened(i)' => Opened(i)
               /\ Queried(i)' => Queried(i)
               /\ ~Made(i)'
    BY <1>1, FileLists DEF Opened, Queried, Made, Done, Position
  <1>5. Seen'
    BY <1>1, <1>3, <1>4, SameFile, PlaceTypes DEF Seen, Done, Position
  <1> QED BY <1>1, <1>2, <1>5 DEF ParserInv

LEMMA GetDividerInv ==
    ASSUME ParserInv, GetDivider
    PROVE  ParserInv'
  <1>1. /\ definition' = definition /\ at' = 1 /\ field' = field
        /\ phase = "model" /\ at > Len(Models)
        /\ names' = names /\ reverses' = reverses
        /\ Position /\ Seen /\ at \in Nat /\ field \in Nat \ {0}
        /\ definition \in Definitions
    BY DEF GetDivider, ParserInv, Position
  <1>2. /\ DividersOK => phase' = "maker"
        /\ ~DividersOK => phase' = "refused"
    BY <1>1, OneDivider DEF GetDivider, Advance
  <1>3. Position'
    BY <1>1, <1>2, SameFile DEF Position
  <1>4. CASE ~DividersOK
    BY <1>1, <1>2, <1>3, <1>4, WellFormedParts, SameFile DEF ParserInv
  <1>5. CASE DividersOK
    <2>1. NamedPlaces' = NamedPlaces /\ ParsedPlaces' = ParsedPlaces
      BY <1>1, <1>2, <1>5, SameFile, PlaceTypes
      DEF NamedPlaces, ParsedPlaces, Heard, Parsed, Done
    <2>2. ASSUME NEW i \in DOMAIN Models
          PROVE  HeaderOK(i) /\ QueriesOK(i) /\ ~Made(i)'
      BY <1>1, <1>2, <1>5, FileLists DEF Opened, Queried, Made, Done, Seen
    <2>3. Seen'
      BY <1>1, <1>2, <1>5, <2>1, <2>2, SameFile, PlaceTypes DEF Seen, Done
    <2> QED BY <1>2, <1>3, <1>5, <2>3 DEF ParserInv
  <1> QED BY <1>4, <1>5

LEMMA MakeModelInv ==
    ASSUME ParserInv, MakeModel
    PROVE  ParserInv'
  <1> DEFINE Fits == \A p \in FieldPlaces : p[1] = at => ColumnOK(p)
  <1>1. /\ definition' = definition /\ at' = at + 1 /\ field' = field
        /\ phase = "maker" /\ at <= Len(Models)
        /\ names' = names /\ reverses' = reverses
        /\ Position /\ Seen /\ at \in Nat \ {0} /\ field \in Nat \ {0}
        /\ definition \in Definitions /\ Models[at] = Model
    BY DEF MakeModel, ParserInv, Position, Model
  <1>2. at \in DOMAIN Models
    BY <1>1, FileLists
  <1>3. (Fits => phase' = "maker") /\ (~Fits => phase' = "refused")
    <2>1. Fits <=> \A f \in FieldsOf(Model) :
                      /\ f.name \notin AttributesOf(Model)
                      /\ f.datatype = "fk" => OnDelete(Model, f) \in DeleteRules
      <3>1. \A p \in FieldPlaces : p[1] = at => FieldAt(p) \in FieldsOf(Model)
        BY <1>1, PlaceIff DEF FieldsOf, FieldAt
      <3>2. \A f \in FieldsOf(Model) :
              \E p \in FieldPlaces : p[1] = at /\ FieldAt(p) = f
        <4>1. ASSUME NEW j \in DOMAIN Model.fields
              PROVE  /\ <<at, j>> \in FieldPlaces
                     /\ FieldAt(<<at, j>>) = Model.fields[j]
          BY <1>1, <1>2, PlaceIff DEF FieldAt
        <4> QED BY <4>1 DEF FieldsOf
      <3> QED BY <1>1, <3>1, <3>2 DEF ColumnOK
    <2> HIDE DEF Fits
    <2> QED BY <2>1 DEF MakeModel, Advance
  <1>4. Position'
    BY <1>1, <1>3, SameFile DEF Position
  <1>5. CASE ~Fits
    BY <1>1, <1>3, <1>4, <1>5, WellFormedParts, SameFile DEF ParserInv
  <1>6. CASE Fits
    <2>1. NamedPlaces' = NamedPlaces /\ ParsedPlaces' = ParsedPlaces
      BY <1>1, <1>3, <1>6, SameFile
      DEF NamedPlaces, ParsedPlaces, Heard, Parsed, Done
    <2>2. ASSUME NEW p \in FieldPlaces, Made(p[1])'
          PROVE  ColumnOK(p)
      BY <1>1, <1>3, <1>6, <2>2, PlaceTypes DEF Made, Seen
    <2>3. ASSUME NEW i \in DOMAIN Models
          PROVE  HeaderOK(i) /\ QueriesOK(i)
      BY <1>1 DEF Opened, Queried, Done, Seen
    <2>4. Seen'
      BY <1>1, <1>3, <1>6, <2>1, <2>2, <2>3, SameFile DEF Seen, Done
    <2> QED BY <1>3, <1>4, <1>6, <2>4 DEF ParserInv
  <1> QED BY <1>5, <1>6

LEMMA FinishInv ==
    ASSUME ParserInv, Finish
    PROVE  ParserInv'
  <1>1. /\ definition' = definition /\ at' = at /\ field' = field
        /\ phase = "maker" /\ phase' = "built" /\ at > Len(Models)
        /\ names' = names /\ reverses' = reverses
        /\ Position /\ Seen /\ at \in Nat \ {0} /\ field \in Nat \ {0}
        /\ definition \in Definitions
    BY DEF Finish, ParserInv, Position
  <1>2. Position'
    BY <1>1, SameFile DEF Position
  <1>3. NamedPlaces' = NamedPlaces /\ ParsedPlaces' = ParsedPlaces
    BY <1>1, SameFile DEF NamedPlaces, ParsedPlaces, Heard, Parsed, Done
  <1>4. \A p \in FieldPlaces : ColumnOK(p)
    BY <1>1, PlaceTypes DEF Made, Seen
  <1>5. \A i \in DOMAIN Models : HeaderOK(i) /\ QueriesOK(i)
    BY <1>1 DEF Opened, Queried, Done, Seen
  <1>6. Seen'
    BY <1>1, <1>3, <1>4, <1>5, SameFile DEF Seen, Done
  <1> QED BY <1>1, <1>2, <1>6 DEF ParserInv

LEMMA ParserInit ==
    ASSUME BootInit
    PROVE  ParserInv
  <1>1. Position /\ phase = "model" /\ at = 1
    BY DEF BootInit, Position
  <1>2. NamedPlaces = {} /\ ParsedPlaces = {}
    BY <1>1, PlaceTypes
    DEF NamedPlaces, ParsedPlaces, Heard, Parsed, Done, Position
  <1>3. \A i \in DOMAIN Models : ~Opened(i) /\ ~Queried(i) /\ ~Made(i)
    BY <1>1, FileLists DEF Opened, Queried, Made, Done, Position
  <1>4. Seen
    BY <1>1, <1>2, <1>3, PlaceTypes DEF Seen, BootInit, Done, Position
  <1> QED BY <1>1, <1>4 DEF ParserInv

LEMMA ParserStep ==
    ASSUME ParserInv, [Boot]_dataModelVars
    PROVE  ParserInv'
  <1>1. CASE UNCHANGED dataModelVars
    <2>1. /\ definition' = definition /\ at' = at /\ field' = field
          /\ phase' = phase /\ names' = names /\ reverses' = reverses
      BY <1>1 DEF dataModelVars
    <2>2. Position' = Position
      BY <2>1, SameFile DEF Position
    <2>3. NamedPlaces' = NamedPlaces /\ ParsedPlaces' = ParsedPlaces
      BY <2>1, SameFile DEF NamedPlaces, ParsedPlaces, Heard, Parsed, Done
    <2>4. \A i : /\ Opened(i)' = Opened(i) /\ Queried(i)' = Queried(i)
                 /\ Made(i)' = Made(i)
      BY <2>1 DEF Opened, Queried, Made, Done
    <2>5. Seen => Seen'
      BY <2>1, <2>3, <2>4, SameFile DEF Seen, Done
    <2> QED BY <2>1, <2>2, <2>5, SameFile DEF ParserInv
  <1> QED
    BY <1>1, CheckModelInv, CheckNameInv, ChooseQueriesInv, MakeFieldInv,
       FinishModelInv, GetDividerInv, MakeModelInv, FinishInv
    DEF Boot

LEMMA ParserAccepts ==
    ASSUME ParserInv
    PROVE  AcceptsWellFormed
  <1>1. ASSUME phase = "built"
        PROVE  WellFormed
    <2>1. Seen /\ Done
      BY <1>1 DEF ParserInv, Done
    <2>2. /\ NamedPlaces = FieldPlaces /\ ParsedPlaces = FieldPlaces
          /\ \A i \in DOMAIN Models : Opened(i) /\ Queried(i)
          /\ \A i : Made(i)
      BY <1>1, <2>1
      DEF NamedPlaces, ParsedPlaces, Heard, Parsed, Opened, Queried, Made
    <2> QED BY <2>1, <2>2, WellFormedParts DEF Seen
  <1> QED BY <1>1 DEF ParserInv, AcceptsWellFormed

\* The parser and the maker of the models let a data model pass exactly if its
\* sections agree with each other, for any file: the one pass of
\* get_meta_models, with the names and reverses that it remembers, and the
\* maker after it refuse what disagrees anywhere in the file, and nothing else.
THEOREM ParserIsExact == BootSpec => []AcceptsWellFormed
  <1>1. BootInit => ParserInv
    BY ParserInit
  <1>2. ParserInv /\ [Boot]_dataModelVars => ParserInv'
    BY ParserStep
  <1>3. ParserInv => AcceptsWellFormed
    BY ParserAccepts
  <1>4. QED
    BY <1>1, <1>2, <1>3, PTL DEF BootSpec

\* The columns of a model.
ColumnsOf(m) ==
    [n \in {f.name : f \in FieldsOf(m)} |->
        Column(CHOOSE f \in FieldsOf(m) : f.name = n)]

\* How many models have their columns, and which.
NumColumns ==
    CASE phase = "built" -> Len(Models)
      [] phase = "maker" -> at - 1
      [] OTHER -> 0

ColumnsInv ==
    phase # "refused" =>
        /\ columns \in Seq({ColumnsOf(Models[i]) : i \in DOMAIN Models})
        /\ Len(columns) = NumColumns
        /\ \A i \in 1 .. NumColumns : columns[i] = ColumnsOf(Models[i])
        /\ phase = "maker" => at <= Len(Models) + 1

LEMMA ColumnsStep ==
    ASSUME ParserInv, ColumnsInv, [Boot]_dataModelVars
    PROVE  ColumnsInv'
  <1>1. CASE columns' = columns /\ definition' = definition
             /\ phase' \in {"model", "names", "fields", "refused"}
             /\ phase \in {"model", "names", "fields"}
    <2>1. NumColumns = 0 /\ NumColumns' = 0
      BY <1>1 DEF NumColumns
    <2>2. Models' = Models /\ \A m : ColumnsOf(m)' = ColumnsOf(m)
      BY <1>1 DEF Models, ColumnsOf
    <2> QED BY <1>1, <2>1, <2>2 DEF ColumnsInv
  <1>2. CASE UNCHANGED dataModelVars
    BY <1>2 DEF ColumnsInv, NumColumns, ColumnsOf, Models, dataModelVars
  <1>3. CASE GetDivider
    <2>1. definition \in Definitions
      BY DEF ParserInv, Position
    <2>2. Len(Models) \in Nat
      BY <2>1, FileLists
    <2> QED BY <1>3, <2>2
            DEF GetDivider, Advance, ColumnsInv, NumColumns, ColumnsOf, Models
  <1>4. CASE MakeModel
    <2> DEFINE S == {ColumnsOf(Models[i]) : i \in DOMAIN Models}
    <2>1. /\ definition \in Definitions /\ definition' = definition
          /\ at \in Nat \ {0} /\ at <= Len(Models) /\ at' = at + 1
          /\ phase = "maker" /\ phase' \in {"maker", "refused"}
          /\ columns' = Append(columns, ColumnsOf(Models[at]))
      BY <1>4 DEF MakeModel, Advance, ParserInv, Position, ColumnsOf, Model
    <2>2. /\ Len(Models) \in Nat /\ at \in DOMAIN Models
          /\ ColumnsOf(Models[at]) \in S /\ Models' = Models
      BY <2>1, FileLists DEF Models
    <2>3. /\ columns \in Seq(S) /\ Len(columns) = at - 1
          /\ \A i \in 1 .. at - 1 : columns[i] = ColumnsOf(Models[i])
      BY <2>1 DEF ColumnsInv, NumColumns
    <2>4. S' = S /\ \A i : ColumnsOf(Models[i])' = ColumnsOf(Models[i])
      BY <2>2 DEF ColumnsOf
    <2> HIDE DEF S
    <2>5. /\ columns' \in Seq(S) /\ Len(columns') = at
          /\ \A i \in 1 .. at : columns'[i] = ColumnsOf(Models[i])
      BY <2>1, <2>2, <2>3
    <2>6. NumColumns' = at \/ phase' = "refused"
      BY <2>1 DEF NumColumns
    <2> QED BY <2>1, <2>2, <2>4, <2>5, <2>6 DEF ColumnsInv, S
  <1>5. CASE Finish
    <2>1. /\ definition \in Definitions /\ definition' = definition
          /\ at \in Nat /\ at > Len(Models) /\ columns' = columns
          /\ phase = "maker" /\ phase' = "built"
      BY <1>5 DEF Finish, ParserInv, Position
    <2>2. Len(Models) \in Nat /\ Models' = Models
      BY <2>1, FileLists DEF Models
    <2>3. NumColumns' = Len(Models) /\ NumColumns = Len(Models)
      BY <2>1, <2>2 DEF NumColumns, ColumnsInv
    <2>4. \A m : ColumnsOf(m)' = ColumnsOf(m)
      BY DEF ColumnsOf
    <2> QED BY <2>1, <2>2, <2>3, <2>4 DEF ColumnsInv
  <1> QED BY <1>1, <1>2, <1>3, <1>4, <1>5
          DEF Boot, CheckModel, CheckName, ChooseQueries, MakeField,
              FinishModel,
              Advance

\* What the maker of the models makes of one field.
LEMMA OneColumn ==
    ASSUME NEW f, f.datatype \in DOMAIN DjangoType,
           f.empty \in {"unset", "yes", "no"},
           f.default \in {"none", "empty", "value"},
           ~Required(f, Column(f))
    PROVE  /\ \/ Column(f).null
              \/ Column(f).default # "none"
              \/ f.datatype \in {"m2m"} \cup EmptyStringDefault
           /\ f.datatype \in {"char", "txt"} /\ f.empty = "no" =>
                Column(f).default = "value"
  <1>1. f.datatype \in {"bool", "txt", "char", "url", "int", "bigint", "uid",
                        "float", "decimal", "json", "file", "image", "datetime",
                        "date", "email", "fk", "m2m", "ip", "point"}
    BY DEF DjangoType
  <1>2. /\ Column(f).blank = Blank(f) /\ Column(f).null = Nullable(f)
        /\ Column(f).default = Default(f)
    BY DEF Column
  <1> QED BY <1>1, <1>2 DEF Required, Blank, Nullable, Default, Null,
                            EmptyStringDefault

LEMMA ColumnsStored ==
    ASSUME ParserInv, ColumnsInv
    PROVE  OmittedFieldsStored
  <1> SUFFICES ASSUME phase = "built", NEW p \in FieldPlaces
               PROVE  LET f == FieldAt(p)
                          c == columns[p[1]][f.name]
                      IN ~Required(f, c) =>
                            /\ \/ c.null
                               \/ c.default # "none"
                               \/ f.datatype \in {"m2m"} \cup EmptyStringDefault
                            /\ f.datatype \in {"char", "txt"} /\ f.empty = "no" =>
                                  c.default = "value"
    BY DEF OmittedFieldsStored
  <1> DEFINE m == Models[p[1]]
             f == FieldAt(p)
             g == CHOOSE h \in FieldsOf(m) : h.name = f.name
  <1>1. WellFormed /\ definition \in Definitions
    BY ParserAccepts DEF AcceptsWellFormed, ParserInv, Position
  <1>2. /\ p = <<p[1], p[2]>> /\ p[1] \in DOMAIN Models /\ p[2] \in DOMAIN m.fields
        /\ f = m.fields[p[2]]
    BY PlaceIff DEF FieldAt
  <1>3. /\ f.datatype \in DOMAIN DjangoType
        /\ f.empty \in {"unset", "yes", "no"}
        /\ f.default \in {"none", "empty", "value"}
    BY <1>1, <1>2, WellFormedParts, DefinitionsAssumption
    DEF TypeOfFieldOK, Models
  <1>4. g = f
    <2>1. f \in FieldsOf(m)
      BY <1>2 DEF FieldsOf
    <2>2. g \in FieldsOf(m) /\ g.name = f.name
      BY <2>1
    <2>3. PICK j \in DOMAIN m.fields : g = m.fields[j]
      BY <2>2 DEF FieldsOf
    <2>4. <<p[1], j>> \in FieldPlaces /\ FieldAt(<<p[1], j>>) = g
      BY <1>2, <2>3, PlaceIff DEF FieldAt
    <2>5. NameAt(<<p[1], j>>) = NameAt(p)
      BY <2>2, <2>4 DEF NameAt
    <2>6. <<p[1], j>> = p
      BY <1>1, <2>4, <2>5, WellFormedParts
    <2> QED BY <1>2, <2>4, <2>6
  <1>5. columns[p[1]][f.name] = Column(f)
    <2>1. /\ p[1] \in 1 .. NumColumns
          /\ columns[p[1]] = ColumnsOf(m)
      BY <1>1, <1>2, FileLists DEF ColumnsInv, NumColumns
    <2>2. f \in FieldsOf(m)
      BY <1>2 DEF FieldsOf
    <2> QED BY <1>4, <2>1, <2>2 DEF ColumnsOf
  <1> QED BY <1>3, <1>5, OneColumn

\* Whatever the data model file, a field that a creation may leave out is one
\* that the table can fill in, although the parser, make_django_model and the
\* serializers decide on one part each.
THEOREM OmittedAreStored == BootSpec => []OmittedFieldsStored
  <1>1. BootInit => ParserInv /\ ColumnsInv
    <2>1. ASSUME BootInit PROVE ColumnsInv
      BY <2>1 DEF BootInit, ColumnsInv, NumColumns
    <2> QED BY <2>1, ParserInit
  <1>2. ParserInv /\ ColumnsInv /\ [Boot]_dataModelVars => (ParserInv /\ ColumnsInv)'
    BY ParserStep, ColumnsStep
  <1>3. ParserInv /\ ColumnsInv => OmittedFieldsStored
    BY ColumnsStored
  <1>4. QED
    BY <1>1, <1>2, <1>3, PTL DEF BootSpec

-----------------------------------------------------------------------------
(***************************************************************************)
(* Queries.  A server that serves a model has its filters, which are       *)
(* fields of the model.                                                    *)
(***************************************************************************)
\* How far the list of filters has grown.
NumFilters ==
    CASE Done -> Len(Models)
      [] phase = "fields" -> at
      [] OTHER -> at - 1

FiltersInv ==
    /\ at <= Len(Models) + 1
    /\ filters \in Seq({FilterFields(Models[i]) : i \in DOMAIN Models})
    /\ Len(filters) <= Len(Models) /\ Len(columns) <= Len(Models)
    /\ phase # "refused" =>
         /\ Len(filters) = NumFilters
         /\ \A i \in 1 .. NumFilters : filters[i] = FilterFields(Models[i])

BootInv == ParserInv /\ ColumnsInv /\ FiltersInv

LEMMA SameFilters ==
    ASSUME definition' = definition
    PROVE  Models' = Models /\ \A m : FilterFields(m)' = FilterFields(m)
  BY DEF Models, FilterFields, Entries

LEMMA FiltersStep ==
    ASSUME BootInv, [Boot]_dataModelVars
    PROVE  FiltersInv'
  <1> DEFINE S == {FilterFields(Models[i]) : i \in DOMAIN Models}
  <1>1. /\ definition \in Definitions /\ Len(Models) \in Nat
        /\ DOMAIN Models = 1 .. Len(Models) /\ at \in Nat \ {0}
        /\ at <= Len(Models) + 1 /\ filters \in Seq(S)
        /\ Len(filters) <= Len(Models) /\ Len(columns) <= Len(Models)
    BY FileLists DEF BootInv, ParserInv, Position, FiltersInv
  <1>2. Models' = Models /\ S' = S
        /\ \A m : FilterFields(m)' = FilterFields(m)
    BY SameFilters DEF Boot, CheckModel, CheckName, ChooseQueries, MakeField,
       FinishModel, GetDivider, MakeModel, Finish, dataModelVars
  <1> HIDE DEF S
  <1>3. CASE /\ at' = at /\ filters' = filters /\ columns' = columns
             /\ \/ phase' = phase
                \/ phase' = "refused"
                \/ phase \in {"model", "names"} /\ phase' \in {"model", "names"}
    <2>1. phase' # "refused" => NumFilters' = NumFilters /\ phase # "refused"
      BY <1>2, <1>3 DEF NumFilters, Done
    <2> QED BY <1>1, <1>2, <1>3, <2>1 DEF BootInv, FiltersInv, S
  <1>4. CASE UNCHANGED dataModelVars
    BY <1>3, <1>4 DEF dataModelVars
  <1>5. CASE CheckModel \/ CheckName \/ MakeField
    BY <1>3, <1>5 DEF CheckModel, CheckName, MakeField, Advance
  <1>6. CASE ChooseQueries
    <2>1. /\ phase = "names" /\ phase' \in {"fields", "refused"} /\ at' = at
          /\ columns' = columns /\ at \in DOMAIN Models
          /\ filters' = Append(filters, FilterFields(Models[at]))
      BY <1>6 DEF ChooseQueries, Advance, BootInv, ParserInv, Position, Model
    <2>2. /\ Len(filters) = at - 1 /\ FilterFields(Models[at]) \in S
          /\ \A i \in 1 .. at - 1 : filters[i] = FilterFields(Models[i])
      BY <2>1 DEF BootInv, FiltersInv, NumFilters, Done, S
    <2>3. /\ filters' \in Seq(S) /\ Len(filters') = at
          /\ \A i \in 1 .. at : filters'[i] = FilterFields(Models[i])
      BY <1>1, <2>1, <2>2
    <2>4. phase' = "fields" => NumFilters' = at
      BY <2>1 DEF NumFilters, Done
    <2> QED BY <1>1, <1>2, <2>1, <2>3, <2>4 DEF FiltersInv, S
  <1>7. CASE FinishModel
    <2>1. /\ phase = "fields" /\ phase' = "model" /\ at' = at + 1
          /\ filters' = filters /\ columns' = columns /\ at \in DOMAIN Models
      BY <1>7 DEF FinishModel, BootInv, ParserInv, Position
    <2>2. NumFilters = at /\ NumFilters' = at
      BY <1>1, <2>1 DEF NumFilters, Done
    <2> QED BY <1>1, <1>2, <2>1, <2>2 DEF BootInv, FiltersInv, S
  <1>8. CASE GetDivider
    <2>1. /\ phase = "model" /\ phase' \in {"maker", "refused"} /\ at' = 1
          /\ filters' = filters /\ columns' = columns /\ at = Len(Models) + 1
      BY <1>1, <1>8 DEF GetDivider, Advance
    <2>2. NumFilters = Len(Models) /\ (phase' = "maker" => NumFilters' = Len(Models))
      BY <1>1, <1>2, <2>1 DEF NumFilters, Done
    <2> QED BY <1>1, <1>2, <2>1, <2>2 DEF BootInv, FiltersInv, S
  <1>9. CASE MakeModel
    <2>1. /\ phase = "maker" /\ phase' \in {"maker", "refused"} /\ at' = at + 1
          /\ filters' = filters /\ at <= Len(Models)
      BY <1>9 DEF MakeModel, Advance
    <2>2. Len(columns') <= Len(Models)
      <3>1. columns \in Seq({ColumnsOf(Models[i]) : i \in DOMAIN Models})
            /\ Len(columns) = at - 1
        BY <2>1 DEF BootInv, ColumnsInv, NumColumns
      <3>2. columns' = Append(columns, ColumnsOf(Models[at]))
        BY <1>9 DEF MakeModel, ColumnsOf, Model
      <3> QED BY <1>1, <2>1, <3>1, <3>2
    <2>3. NumFilters = Len(Models) /\ (phase' = "maker" => NumFilters' = Len(Models))
      BY <1>1, <1>2, <2>1 DEF NumFilters, Done
    <2> QED BY <1>1, <1>2, <2>1, <2>2, <2>3 DEF BootInv, FiltersInv, S
  <1>10. CASE Finish
    <2>1. /\ phase = "maker" /\ phase' = "built" /\ at' = at
          /\ filters' = filters /\ columns' = columns
      BY <1>10 DEF Finish
    <2>2. NumFilters = Len(Models) /\ NumFilters' = Len(Models)
      BY <1>1, <1>2, <2>1 DEF NumFilters, Done
    <2> QED BY <1>1, <1>2, <2>1, <2>2 DEF BootInv, FiltersInv, S
  <1> QED BY <1>4, <1>5, <1>6, <1>7, <1>8, <1>9, <1>10 DEF Boot

LEMMA BootInvInit ==
    ASSUME BootInit
    PROVE  BootInv
  <1>1. ColumnsInv
    BY DEF BootInit, ColumnsInv, NumColumns
  <1>2. FiltersInv
    <2>1. Len(Models) \in Nat
      BY FileLists DEF BootInit
    <2> QED BY <2>1 DEF BootInit, FiltersInv, NumFilters, Done
  <1> QED BY <1>1, <1>2, ParserInit DEF BootInv

LEMMA BootStep ==
    ASSUME BootInv, [Boot]_dataModelVars
    PROVE  BootInv'
  BY FiltersStep, ParserStep, ColumnsStep DEF BootInv

-----------------------------------------------------------------------------
(***************************************************************************)
(* Listings and pages.                                                     *)
(***************************************************************************)
LEMMA MaxOfTwo ==
    ASSUME NEW a \in Int, NEW b \in Int
    PROVE  Max({a, b}) = IF a >= b THEN a ELSE b
  <1> DEFINE m == IF a >= b THEN a ELSE b
  <1>1. m \in {a, b} /\ \A y \in {a, b} : m >= y
    OBVIOUS
  <1>2. \A x \in {a, b} : (\A y \in {a, b} : x >= y) => x = m
    BY <1>1
  <1> QED BY <1>1, <1>2 DEF Max

LEMMA MinOfTwo ==
    ASSUME NEW a \in Int, NEW b \in Int
    PROVE  Min({a, b}) = IF a <= b THEN a ELSE b
  <1> DEFINE m == IF a <= b THEN a ELSE b
  <1>1. m \in {a, b} /\ \A y \in {a, b} : m <= y
    OBVIOUS
  <1>2. \A x \in {a, b} : (\A y \in {a, b} : x <= y) => x = m
    BY <1>1
  <1> QED BY <1>1, <1>2 DEF Min

\* The rows of S after r, and S from its last row to its first.
After(S, r) == {s \in S : s > r}
ListingOf(S) ==
    [k \in 1 .. Cardinality(S) |->
        CHOOSE r \in S : Cardinality(After(S, r)) = k - 1]

LEMMA Ranks ==
    ASSUME NEW S \in SUBSET Nat, IsFiniteSet(S)
    PROVE  /\ Cardinality(S) \in Nat
           /\ \A r \in S : Cardinality(After(S, r)) \in 0 .. Cardinality(S) - 1
           /\ \A r, s \in S :
                Cardinality(After(S, r)) = Cardinality(After(S, s)) => r = s
           /\ \A k \in 1 .. Cardinality(S) :
                \E r \in S : Cardinality(After(S, r)) = k - 1
  <1> DEFINE n == Cardinality(S)
             rank == [r \in S |-> Cardinality(After(S, r))]
  <1>1. n \in Nat
    BY FS_CardinalityType
  <1>2. ASSUME NEW r \in S
        PROVE  /\ IsFiniteSet(After(S, r)) /\ Cardinality(After(S, r)) \in Nat
               /\ Cardinality(After(S, r)) <= n - 1
    <2>1. IsFiniteSet(S \ {r}) /\ Cardinality(S \ {r}) = n - 1
      BY FS_RemoveElement
    <2>2. After(S, r) \in SUBSET (S \ {r})
      BY DEF After
    <2>3. /\ IsFiniteSet(After(S, r))
          /\ Cardinality(After(S, r)) <= Cardinality(S \ {r})
      BY <2>1, <2>2, FS_Subset
    <2> QED BY <2>1, <2>3, FS_CardinalityType
  <1>3. ASSUME NEW r \in S, NEW s \in S, r < s
        PROVE  Cardinality(After(S, s)) < Cardinality(After(S, r))
    <2>1. s \in After(S, r) /\ After(S, s) \in SUBSET (After(S, r) \ {s})
      <3>1. s \in Nat /\ r \in Nat /\ \A t \in S : t \in Nat
        OBVIOUS
      <3>2. \A t \in S : t > s => t > r /\ t # s
        BY <1>3, <3>1
      <3> QED BY <1>3, <3>2 DEF After
    <2>2. /\ IsFiniteSet(After(S, r) \ {s})
          /\ Cardinality(After(S, r) \ {s}) = Cardinality(After(S, r)) - 1
      BY <1>2, <2>1, FS_RemoveElement
    <2>3. Cardinality(After(S, s)) <= Cardinality(After(S, r) \ {s})
      BY <2>1, <2>2, FS_Subset
    <2> QED BY <1>2, <2>2, <2>3
  <1>4. ASSUME NEW r \in S, NEW s \in S,
               Cardinality(After(S, r)) = Cardinality(After(S, s))
        PROVE  r = s
    <2>1. r \in Nat /\ s \in Nat
      OBVIOUS
    <2> QED BY <1>2, <1>3, <1>4, <2>1
  <1>5. rank \in Injection(S, 0 .. n - 1)
    <2>1. rank \in [S -> 0 .. n - 1]
      BY <1>1, <1>2
    <2>2. IsInjective(rank)
      BY <1>4 DEF IsInjective
    <2> QED BY <2>1, <2>2 DEF Injection
  <1>6. IsFiniteSet(0 .. n - 1) /\ Cardinality(0 .. n - 1) = n
    <2>1. n - 1 \in Int /\ 0 \in Int
      BY <1>1
    <2>2. /\ IsFiniteSet(0 .. n - 1)
          /\ Cardinality(0 .. n - 1) = IF 0 > n - 1 THEN 0 ELSE (n - 1) - 0 + 1
      BY <2>1, FS_Interval
    <2> QED BY <1>1, <2>2
  <1>7. rank \in Surjection(S, 0 .. n - 1)
    <2> HIDE DEF rank, n
    <2> QED BY <1>5, <1>6, FS_Injection DEF n
  <1>8. ASSUME NEW k \in 1 .. n
        PROVE  \E r \in S : Cardinality(After(S, r)) = k - 1
    <2>1. k - 1 \in 0 .. n - 1
      BY <1>1
    <2> QED BY <1>7, <2>1 DEF Surjection
  <1> QED BY <1>1, <1>2, <1>4, <1>8

LEMMA ListingFacts ==
    ASSUME NEW S \in SUBSET Nat, IsFiniteSet(S)
    PROVE  /\ Cardinality(S) \in Nat
           /\ ListingOf(S) \in [1 .. Cardinality(S) -> S]
           /\ Len(ListingOf(S)) = Cardinality(S)
           /\ IsInjective(ListingOf(S))
           /\ Range(ListingOf(S)) = S
  <1> DEFINE n == Cardinality(S)
             L == ListingOf(S)
             rank(r) == Cardinality(After(S, r))
  <1>1. n \in Nat
    BY Ranks
  <1>2. ASSUME NEW k \in 1 .. n
        PROVE  L[k] \in S /\ rank(L[k]) = k - 1
    BY <1>2, Ranks DEF ListingOf
  <1>3. L = [k \in 1 .. n |-> L[k]]
    BY DEF ListingOf
  <1>4. L \in [1 .. n -> S] /\ DOMAIN L = 1 .. n
    BY <1>2, <1>3
  <1>5. Len(L) = n
    BY <1>1, <1>4
  <1>6. ASSUME NEW i \in 1 .. n, NEW k \in 1 .. n, L[i] = L[k]
        PROVE  i = k
    BY <1>1, <1>2, <1>6
  <1>7. ASSUME NEW r \in S
        PROVE  \E k \in 1 .. n : L[k] = r
    <2>1. rank(r) \in 0 .. n - 1
      BY Ranks
    <2>2. rank(r) + 1 \in 1 .. n /\ (rank(r) + 1) - 1 = rank(r)
      BY <1>1, <2>1
    <2>3. L[rank(r) + 1] \in S /\ rank(L[rank(r) + 1]) = rank(r)
      BY <1>2, <2>2
    <2>4. \A s \in S : rank(s) = rank(r) => s = r
      BY Ranks
    <2>5. L[rank(r) + 1] = r
      BY <2>3, <2>4
    <2> QED BY <2>2, <2>5
  <1> HIDE DEF L
  <1>8. Range(L) = S
    BY <1>2, <1>4, <1>7 DEF Range
  <1> QED BY <1>1, <1>4, <1>5, <1>6, <1>8 DEF L, IsInjective

\* A queryset that repeats no row lists its rows.
Once == queryset \in [Rows -> 0 .. 2] /\ \A r \in Rows : queryset[r] <= 1
Present == {r \in Rows : queryset[r] > 0}

LEMMA ListedOnce ==
    ASSUME Once
    PROVE  /\ Present \in SUBSET Rows /\ IsFiniteSet(Present)
           /\ Listed = ListingOf(Present)
  <1> DEFINE S == Present
  <1>1. /\ Rows \in SUBSET Nat /\ S \in SUBSET Nat /\ IsFiniteSet(S)
        /\ S \in SUBSET Rows
    BY QueryConstants, FS_Subset DEF Present
  <1>2. ASSUME NEW r \in Rows
        PROVE  /\ r \in S => queryset[r] = 1
               /\ r \notin S => queryset[r] = 0
    BY DEF Once, Present
  <1>3. ASSUME NEW T \in SUBSET Rows
        PROVE  Cardinality(Copies(T)) = Cardinality(T \cap S)
    <2> DEFINE f == [r \in T \cap S |-> <<r, 1>>]
    <2>1. Copies(T) = {<<r, 1>> : r \in T \cap S}
      <3>1. 1 .. 1 = {1} /\ 1 .. 0 = {}
        OBVIOUS
      <3>2. ASSUME NEW r \in T
            PROVE  1 .. queryset[r] = IF r \in S THEN {1} ELSE {}
        BY <1>2, <3>1
      <3>3. ASSUME NEW r \in T
            PROVE  {<<r, n>> : n \in 1 .. queryset[r]}
                     = IF r \in S THEN {<<r, 1>>} ELSE {}
        BY <3>2
      <3>4. \A c : c \in Copies(T)
                    <=> \E r \in T : c \in {<<r, n>> : n \in 1 .. queryset[r]}
        BY DEF Copies
      <3> QED BY <3>3, <3>4
    <2>2. f \in Bijection(T \cap S, Copies(T))
      <3>1. f \in [T \cap S -> Copies(T)]
        BY <2>1
      <3>2. IsInjective(f)
        BY DEF IsInjective
      <3>3. \A c \in Copies(T) : \E r \in T \cap S : f[r] = c
        BY <2>1
      <3> QED BY <3>1, <3>2, <3>3 DEF Bijection, Injection, Surjection
    <2>3. IsFiniteSet(T \cap S)
      BY <1>1, FS_Subset
    <2> HIDE DEF f
    <2> QED BY <2>2, <2>3, FS_Bijection DEF ExistsBijection
  <1>4. Cardinality(Copies(Rows)) = Cardinality(S)
    <2>1. Rows \cap S = S
      BY <1>1
    <2> QED BY <1>3, <2>1
  <1>5. ASSUME NEW r \in Rows
        PROVE  Preceding(r) = Cardinality(After(S, r))
    <2>1. {s \in Rows : s > r} \cap S = After(S, r)
      BY <1>1 DEF After
    <2> QED BY <1>3, <2>1 DEF Preceding
  <1>6. ASSUME NEW k \in 1 .. Cardinality(S)
        PROVE  (CHOOSE r \in Rows :
                  k \in Preceding(r) + 1 .. Preceding(r) + queryset[r])
                 = (CHOOSE r \in S : Cardinality(After(S, r)) = k - 1)
    <2>1. PICK t \in S : Cardinality(After(S, t)) = k - 1
      BY <1>1, Ranks
    <2>2. \A r \in S : Cardinality(After(S, r)) = k - 1 => r = t
      BY <1>1, <2>1, Ranks
    <2>3. Cardinality(S) \in Nat
      BY <1>1, Ranks
    <2>4. ASSUME NEW r \in Rows
          PROVE  k \in Preceding(r) + 1 .. Preceding(r) + queryset[r] <=> r = t
      <3>1. CASE r \in S
        <4>1. Cardinality(After(S, r)) \in Nat
          BY <1>1, <3>1, Ranks
        <4>2. k \in Preceding(r) + 1 .. Preceding(r) + queryset[r]
                <=> Cardinality(After(S, r)) = k - 1
          BY <1>2, <1>5, <2>3, <3>1, <4>1
        <4> QED BY <2>1, <2>2, <3>1, <4>2
      <3>2. CASE r \notin S
        <4>1. After(S, r) \in SUBSET S
          BY DEF After
        <4>2. Cardinality(After(S, r)) \in Nat
          BY <1>1, <4>1, FS_Subset, FS_CardinalityType
        <4> QED BY <1>2, <1>5, <2>1, <2>3, <3>2, <4>2
      <3> QED BY <3>1, <3>2
    <2> QED BY <1>1, <2>1, <2>2, <2>4
  <1> QED BY <1>1, <1>4, <1>6 DEF Listed, ListingOf

\* Division, and how many pages of P rows n rows fill.
LEMMA DivFacts ==
    ASSUME NEW x \in Int, NEW T \in Nat \ {0}
    PROVE  /\ x \div T \in Int /\ T * (x \div T) \in Int
           /\ T * (x \div T) <= x /\ x < T * (x \div T) + T
  OBVIOUS
LEMMA Multiples ==
    ASSUME NEW p \in Int, NEW q \in Int, NEW T \in Nat \ {0}, p < q
    PROVE  T * p + T <= T * q
  OBVIOUS

LEMMA Products ==
    ASSUME NEW P \in Nat, NEW n \in Nat
    PROVE  P * n \in Nat
  OBVIOUS

LEMMA PageCount ==
    ASSUME NEW P \in Nat \ {0}, NEW n \in Nat,
           NEW q, q = IF 1 >= (n + P - 1) \div P THEN 1 ELSE (n + P - 1) \div P
    PROVE  /\ q \in Nat \ {0} /\ n <= P * q
           /\ q <= (IF n >= 1 THEN n ELSE 1)
           /\ P * (q - 1) <= n
  <1> DEFINE d == (n + P - 1) \div P
  <1>1. d \in Int /\ P * d \in Int /\ P * d <= n + P - 1 /\ n + P - 1 < P * d + P
    BY DivFacts
  <1> HIDE DEF d
  <1>2. P * 1 = P /\ P * 0 = 0 /\ P * (d - 1) = P * d - P
    BY <1>1
  <1>3. d >= 0
    <2>1. ASSUME d < 0 PROVE P * d + P <= P * 0
      BY <1>1, <2>1, Multiples
    <2> QED BY <1>1, <1>2, <2>1
  <1>4. d <= n
    <2>1. ASSUME n < d PROVE P * n + P <= P * d
      BY <1>1, <2>1, Multiples
    <2>2. P * n >= n
      OBVIOUS
    <2>3. P * n \in Int
      OBVIOUS
    <2> QED BY <1>1, <2>1, <2>2, <2>3
  <1>5. q = IF 1 >= d THEN 1 ELSE d
    BY DEF d
  <1>6. CASE d >= 1
    <2>1. q = d
      BY <1>1, <1>5, <1>6
    <2> QED BY <1>1, <1>2, <1>4, <1>6, <2>1
  <1>7. CASE d = 0
    <2>1. q = 1 /\ n = 0 
      BY <1>1, <1>2, <1>5, <1>7
    <2> QED BY <1>2, <2>1
  <1> QED BY <1>1, <1>3, <1>6, <1>7

\* The first m elements of a listing.
FirstOf(L, m) == [i \in 1 .. m |-> L[i]]
UpTo(n, m) == IF m <= n THEN m ELSE n

LEMMA FirstFacts ==
    ASSUME NEW S, NEW n \in Nat, NEW L \in [1 .. n -> S], NEW m \in 0 .. n
    PROVE  FirstOf(L, m) \in Seq(S) /\ Len(FirstOf(L, m)) = m
  <1>1. FirstOf(L, m) \in [1 .. m -> S] /\ m \in Nat
    BY DEF FirstOf
  <1> QED BY <1>1

LEMMA FirstDiffer ==
    ASSUME NEW S, NEW n \in Nat, NEW L \in [1 .. n -> S], NEW m \in 0 .. n,
           IsInjective(L)
    PROVE  IsInjective(FirstOf(L, m))
  BY DEF IsInjective, FirstOf

Extended(L, a, b) == FirstOf(L, a) \o SubSeq(L, a + 1, b)

LEMMA NextPage ==
    ASSUME NEW S, NEW n \in Nat, NEW L \in [1 .. n -> S],
           NEW a \in Nat, NEW b \in Nat, a <= b, b <= n
    PROVE  Extended(L, a, b) = FirstOf(L, b)
  <1> DEFINE u == FirstOf(L, a)
             v == SubSeq(L, a + 1, b)
             w == FirstOf(L, b)
  <1>1. u \in [1 .. a -> S] /\ w \in [1 .. b -> S]
    BY DEF FirstOf
  <1>2. /\ \A i \in 1 .. a : u[i] = L[i]
        /\ \A i \in 1 .. b : w[i] = L[i]
    BY DEF FirstOf
  <1>3. /\ v \in Seq(S) /\ Len(v) = b - a
        /\ \A i \in 1 .. b - a : v[i] = L[a + i]
    <2>1. L \in Seq(S) /\ Len(L) = n
      OBVIOUS
    <2> QED BY <2>1
  <1> HIDE DEF u, v, w
  <1>4. u \in Seq(S) /\ Len(u) = a
    BY <1>1
  <1> DEFINE c == u \o v
  <1>5. /\ c \in Seq(S) /\ Len(c) = a + (b - a)
        /\ \A i \in 1 .. a : c[i] = u[i]
        /\ \A i \in 1 .. b - a : c[a + i] = v[i]
    <2>0. u \in Seq(S) /\ v \in Seq(S)
      BY <1>3, <1>4
    <2>1. c \in Seq(S) /\ Len(c) = Len(u) + Len(v)
      BY <2>0
    <2>2. \A i \in 1 .. Len(u) : c[i] = u[i]
      BY <1>3, <1>4
    <2>3. \A i \in 1 .. Len(v) : c[Len(u) + i] = v[i]
      BY <1>3, <1>4
    <2> HIDE DEF c
    <2> QED BY <1>3, <1>4, <2>1, <2>2, <2>3
  <1> HIDE DEF c
  <1>6. ASSUME NEW i \in 1 .. b
        PROVE  c[i] = w[i]
    <2>1. CASE i <= a
      BY <1>2, <1>5, <2>1
    <2>2. CASE i > a
      <3>1. i - a \in 1 .. b - a /\ a + (i - a) = i
        BY <2>2
      <3> QED BY <1>2, <1>3, <1>5, <3>1
    <2> QED BY <2>1, <2>2
  <1>7. c \in [1 .. b -> S]
    <2>1. a + (b - a) = b
      OBVIOUS
    <2> QED BY <1>5, <2>1
  <1>8. c = w
    BY <1>1, <1>6, <1>7
  <1> QED BY <1>8 DEF c, u, v, w, Extended

-----------------------------------------------------------------------------
(***************************************************************************)
(* What the backends leave of the table, as a function of the query alone: *)
(* the rows after the first k - 1 backends.                                *)
(***************************************************************************)
ServedNames == FieldNames \cup DividerFields(definition)
Reduced == WithoutPoints(WithoutJSON(FilterNames))
Base == IF way = "count" THEN Reduced ELSE FilterNames

\* filterset_fields when backend k reads it, after it was base for the first
FieldsAt(base, k) ==
    IF k = 1 THEN base
    ELSE IF k = 2 THEN WithoutJSON(base) ELSE WithoutPoints(WithoutJSON(base))
TakenAt(base, k) == Taken(FieldsAt(base, k), FilterBackends[k])
PassesAt(base, k, r) == Passes(FilterBackends[k], TakenAt(base, k), r)

ByLevel(S) ==
    IF query.level.op = "none" \/ View.name # "User" THEN S
    ELSE {r \in IF S = {} THEN Rows ELSE S : HasLevel(r, query.level)}

BeforeLevel(base, k) ==
    {r \in query.visible : \A j \in 1 .. k - 1 : PassesAt(base, j, r)}
Selected(base, k) ==
    IF k <= 10 THEN BeforeLevel(base, k)
    ELSE {r \in ByLevel(BeforeLevel(base, 10)) :
            \A j \in 11 .. k - 1 : PassesAt(base, j, r)}
Answers == Selected(FilterNames, 18)

NoRaises(base, k) ==
    \A j \in 1 .. k - 1 : \A p \in TakenAt(base, j) :
        Raises(FilterBackends[j], p) = "no"

LEMMA BackendNames ==
    /\ Len(FilterBackends) = 17
    /\ FilterBackends[1] = "json" /\ FilterBackends[2] = "distance"
    /\ FilterBackends[10] = "level" /\ FilterBackends[16] = "links"
    /\ FilterBackends[17] = "exclude"
    /\ \A k \in 1 .. 17 :
         /\ FilterBackends[k] = "json" <=> k = 1
         /\ FilterBackends[k] = "distance" <=> k = 2
         /\ FilterBackends[k] = "level" <=> k = 10
         /\ FilterBackends[k] = "links" <=> k = 16
         /\ FilterBackends[k] = "exclude" <=> k = 17
  BY DEF FilterBackends

LEMMA FilterRowsFacts ==
    ASSUME queryset \in [Rows -> 0 .. 2], NEW b
    PROVE  /\ FilterRows(b) \in [Rows -> 0 .. 2]
           /\ \A r \in Rows :
                FilterRows(b)[r] > 0
                  <=> queryset[r] > 0 /\ Passes(b, Taken(filterset, b), r)
           /\ \A r \in Rows :
                (\A p \in Taken(filterset, b) : Excluded(b, p))
                  => FilterRows(b)[r] <= queryset[r]
  <1> DEFINE taken == Taken(filterset, b)
             joins == {p \in taken : ~Excluded(b, p)}
             Repeated(r) == \E p \in joins : Matches(b, p, r) > 1
  <1>1. FilterRows(b) =
          [r \in Rows |->
             IF queryset[r] = 0 \/ ~Passes(b, taken, r) THEN 0
             ELSE IF Repeated(r) THEN 2 ELSE queryset[r]]
    BY DEF FilterRows
  <1>2. (\A p \in taken : Excluded(b, p)) => \A r \in Rows : ~Repeated(r)
    OBVIOUS
  <1> HIDE DEF taken, Repeated
  <1>3. ASSUME NEW r \in Rows
        PROVE  /\ FilterRows(b)[r] \in 0 .. 2
               /\ FilterRows(b)[r] > 0
                    <=> queryset[r] > 0 /\ Passes(b, taken, r)
               /\ ~Repeated(r) => FilterRows(b)[r] <= queryset[r]
    <2>1. queryset[r] \in 0 .. 2
      OBVIOUS
    <2>2. FilterRows(b)[r] =
             IF queryset[r] = 0 \/ ~Passes(b, taken, r) THEN 0
             ELSE IF Repeated(r) THEN 2 ELSE queryset[r]
      BY <1>1
    <2>3. CASE queryset[r] = 0 \/ ~Passes(b, taken, r)
      BY <2>1, <2>2, <2>3
    <2>4. CASE ~(queryset[r] = 0 \/ ~Passes(b, taken, r)) /\ Repeated(r)
      BY <2>1, <2>2, <2>4
    <2>5. CASE ~(queryset[r] = 0 \/ ~Passes(b, taken, r)) /\ ~Repeated(r)
      BY <2>1, <2>2, <2>5
    <2> QED BY <2>3, <2>4, <2>5
  <1>4. FilterRows(b) \in [Rows -> 0 .. 2]
    BY <1>1, <1>3
  <1> QED BY <1>2, <1>3, <1>4 DEF taken

LEMMA LevelRowsFacts ==
    ASSUME queryset \in [Rows -> 0 .. 2]
    PROVE  /\ LevelRows \in [Rows -> 0 .. 2]
           /\ {r \in Rows : LevelRows[r] > 0} = ByLevel(Present)
  <1> DEFINE all == [r \in Rows |-> 1]
             users == IF \A r \in Rows : queryset[r] = 0 THEN all ELSE queryset
             level_ == query.level
  <1>1. users \in [Rows -> 0 .. 2]
    OBVIOUS
  <1>2. {r \in Rows : users[r] > 0} = IF Present = {} THEN Rows ELSE Present
    BY DEF Present
  <1>3. CASE level_.op = "none" \/ View.name # "User"
    <2>1. LevelRows = queryset /\ ByLevel(Present) = Present
      BY <1>3 DEF LevelRows, ByLevel
    <2> QED BY <2>1 DEF Present
  <1>4. CASE ~(level_.op = "none" \/ View.name # "User")
    <2>1. LevelRows = [r \in Rows |-> IF HasLevel(r, level_) THEN users[r] ELSE 0]
      BY <1>4 DEF LevelRows
    <2>2. ByLevel(Present)
            = {r \in IF Present = {} THEN Rows ELSE Present : HasLevel(r, level_)}
      BY <1>4 DEF ByLevel
    <2> HIDE DEF users, level_
    <2>3. LevelRows \in [Rows -> 0 .. 2]
      BY <1>1, <2>1
    <2>4. ASSUME NEW r \in Rows
          PROVE  LevelRows[r] > 0 <=> HasLevel(r, level_) /\ users[r] > 0
      BY <1>1, <2>1
    <2> QED BY <1>2, <2>2, <2>3, <2>4
  <1> QED BY <1>3, <1>4

LEMMA DistinctFacts ==
    ASSUME NEW f \in [Rows -> 0 .. 2]
    PROVE  /\ Distinct(f) \in [Rows -> 0 .. 2]
           /\ \A r \in Rows : Distinct(f)[r] <= 1 /\ (Distinct(f)[r] > 0 <=> f[r] > 0)
  BY DEF Distinct, Truth

\* Selected in its own terms: one backend more.
LEMMA SelectedNext ==
    ASSUME NEW base, NEW k \in 1 .. 17
    PROVE  /\ k = 10 => Selected(base, k + 1) = ByLevel(Selected(base, k))
           /\ k # 10 => Selected(base, k + 1)
                          = {r \in Selected(base, k) : PassesAt(base, k, r)}
           /\ NoRaises(base, k + 1)
                <=> /\ NoRaises(base, k)
                    /\ \A p \in TakenAt(base, k) : Raises(FilterBackends[k], p) = "no"
  <1>1. \A j : j \in 1 .. (k + 1) - 1 <=> j \in 1 .. k - 1 \/ j = k
    OBVIOUS
  <1>2. k > 10 => \A j : j \in 11 .. (k + 1) - 1 <=> j \in 11 .. k - 1 \/ j = k
    OBVIOUS
  <1>3. ASSUME k < 10
        PROVE  Selected(base, k + 1)
                 = {r \in Selected(base, k) : PassesAt(base, k, r)}
    BY <1>1, <1>3 DEF Selected, BeforeLevel
  <1>4. ASSUME k > 10
        PROVE  Selected(base, k + 1)
                 = {r \in Selected(base, k) : PassesAt(base, k, r)}
    BY <1>2, <1>4 DEF Selected
  <1>5. ASSUME k = 10
        PROVE  Selected(base, k + 1) = ByLevel(Selected(base, k))
    <2>1. 11 .. (k + 1) - 1 = {}
      BY <1>5
    <2> QED BY <1>5, <2>1 DEF Selected
  <1>6. NoRaises(base, k + 1)
          <=> /\ NoRaises(base, k)
              /\ \A p \in TakenAt(base, k) : Raises(FilterBackends[k], p) = "no"
    BY <1>1 DEF NoRaises
  <1> QED BY <1>3, <1>4, <1>5, <1>6

LEMMA FieldsNext ==
    ASSUME NEW base, NEW k \in 1 .. 17
    PROVE  FieldsAfter(FieldsAt(base, k), FilterBackends[k]) = FieldsAt(base, k + 1)
  <1>1. CASE k = 1
    BY <1>1, BackendNames DEF FieldsAfter, FieldsAt
  <1>2. CASE k = 2
    BY <1>2, BackendNames DEF FieldsAfter, FieldsAt
  <1>3. CASE k > 2
    BY <1>3, BackendNames DEF FieldsAfter, FieldsAt
  <1> QED BY <1>1, <1>2, <1>3

\* The selection depends on the query and on the data model alone.
LEMMA SameSelection ==
    ASSUME query' = query, definition' = definition, filters' = filters
    PROVE  /\ View' = View /\ ServedNames' = ServedNames
           /\ FilterNames' = FilterNames /\ Reduced' = Reduced
           /\ \A n : TypeOf(n)' = TypeOf(n)
           /\ \A p : ListRefuses(p)' = ListRefuses(p)
           /\ \A base, k : FieldsAt(base, k)' = FieldsAt(base, k)
           /\ \A base, k : Selected(base, k)' = Selected(base, k)
           /\ \A base, k : NoRaises(base, k)' = NoRaises(base, k)
           /\ PageSize' = PageSize
  <1>1. /\ View' = View /\ ServedNames' = ServedNames /\ FilterNames' = FilterNames
        /\ \A n : TypeOf(n)' = TypeOf(n)
    BY DEF View, Models, FieldNames, ServedNames, FilterNames, TypeOf
  <1>2. Reduced' = Reduced /\ \A base, k : FieldsAt(base, k)' = FieldsAt(base, k)
    BY <1>1 DEF Reduced, FieldsAt, WithoutJSON, WithoutPoints
  <1>3. ASSUME NEW p
        PROVE  ListRefuses(p)' = ListRefuses(p)
    BY <1>1 DEF ListRefuses, FieldNames
  <1>4. ASSUME NEW b, NEW p
        PROVE  /\ \A fields : Takes(fields, b, p)' = Takes(fields, b, p)
               /\ Raises(b, p)' = Raises(b, p)
               /\ \A r : Meets(b, p, r)' = Meets(b, p, r)
    <2>1. TypeOf(p.name)' = TypeOf(p.name)
      BY <1>1
    <2>2. \A fields : Takes(fields, b, p)' = Takes(fields, b, p)
      BY <2>1 DEF Takes
    <2>3. Raises(b, p)' = Raises(b, p)
      BY <2>1 DEF Raises
    <2>4. \A r : Meets(b, p, r)' = Meets(b, p, r)
      BY <2>1 DEF Meets, Matches
    <2> QED BY <2>2, <2>3, <2>4
  <1>5. \A base, k : TakenAt(base, k)' = TakenAt(base, k)
    <2>1. \A fields, b : Taken(fields, b)' = Taken(fields, b)
      BY <1>4 DEF Taken
    <2> QED BY <1>2, <2>1 DEF TakenAt
  <1>6. \A base, k, r : PassesAt(base, k, r)' = PassesAt(base, k, r)
    <2>1. \A b, taken, r : Passes(b, taken, r)' = Passes(b, taken, r)
      BY <1>4 DEF Passes, Excludes
    <2> QED BY <1>5, <2>1 DEF PassesAt
  <1>7. \A base, k : NoRaises(base, k)' = NoRaises(base, k)
    BY <1>4, <1>5 DEF NoRaises
  <1>8. \A base, k : Selected(base, k)' = Selected(base, k)
    <2>1. \A base, k : BeforeLevel(base, k)' = BeforeLevel(base, k)
      BY <1>6 DEF BeforeLevel
    <2>2. \A S : ByLevel(S)' = ByLevel(S)
      BY <1>1 DEF ByLevel
    <2> QED BY <1>6, <2>1, <2>2 DEF Selected
  <1>9. PageSize' = PageSize
    BY DEF PageSize, MaxSize
  <1> QED BY <1>1, <1>2, <1>3, <1>7, <1>8, <1>9

Asked ==
    /\ phase = "built" /\ definition \in Served
    /\ query \in ClientQueries /\ query.model = View.name

LEMMA AskedNames ==
    ASSUME BootInv, phase = "built", definition \in Served
    PROVE  /\ View = definition.models[1] /\ View \in {d.models[1] : d \in Served}
           /\ FilterNames \subseteq ServedNames
  <1>1. /\ Len(Models) \in Nat /\ Len(Models) >= 1 /\ Done
    BY FileLists, ServedAssumption
    DEF BootInv, ParserInv, Position, Models, Done
  <1>2. filters[1] = FilterFields(View)
    BY <1>1 DEF BootInv, FiltersInv, NumFilters, View
  <1>3. View = definition.models[1]
    BY DEF View, Models
  <1>4. FilterFields(View) \subseteq FieldNames
    <2>1. CASE Entries(definition.queries, View) = {}
      BY <1>3, <2>1 DEF FilterFields, FieldNames, NamesIn
    <2>2. CASE Entries(definition.queries, View) # {}
      BY <1>3, <2>2, ServedAssumption DEF FilterFields, FieldNames
    <2> QED BY <2>1, <2>2
  <1>5. "uid" \in FieldNames
    BY DEF FieldNames, NamesIn
  <1> QED BY <1>2, <1>3, <1>4, <1>5 DEF FilterNames, ServedNames

LEMMA PageSizes ==
    ASSUME query.size \in Nat
    PROVE  /\ PageSize \in Nat \ {0} /\ PageSize <= MaxSize
           /\ MaxSize \in Nat \ {0}
  <1> DEFINE m == Min({query.size, MaxSize})
  <1>1. MaxSize \in Nat \ {0}
    BY QueryConstants DEF MaxSize
  <1>2. m = IF query.size <= MaxSize THEN query.size ELSE MaxSize
    BY <1>1, MinOfTwo
  <1> HIDE DEF m
  <1>3. m \in Int /\ m <= MaxSize
    BY <1>1, <1>2
  <1>4. Max({1, m}) = IF 1 >= m THEN 1 ELSE m
    BY <1>3, MaxOfTwo
  <1>5. PageSize = Max({1, m})
    BY DEF PageSize, m
  <1> QED BY <1>1, <1>3, <1>4, <1>5

LEMMA SelectedRows ==
    ASSUME query.visible \subseteq Rows, NEW base, NEW k
    PROVE  /\ Selected(base, k) \in SUBSET Rows
           /\ Selected(base, k) \in SUBSET Nat
           /\ IsFiniteSet(Selected(base, k))
           /\ Cardinality(Selected(base, k)) \in 0 .. Cardinality(Rows)
           /\ Cardinality(Rows) \in Nat
           /\ Selected(base, 1) = query.visible
  <1>1. BeforeLevel(base, k) \in SUBSET Rows /\ BeforeLevel(base, 10) \in SUBSET Rows
    BY DEF BeforeLevel
  <1>2. ByLevel(BeforeLevel(base, 10)) \in SUBSET Rows
    BY <1>1 DEF ByLevel
  <1>3. Selected(base, k) \in SUBSET Rows
    BY <1>1, <1>2 DEF Selected
  <1>4. /\ IsFiniteSet(Selected(base, k))
        /\ Cardinality(Selected(base, k)) <= Cardinality(Rows)
    BY <1>3, QueryConstants, FS_Subset
  <1>5. Cardinality(Selected(base, k)) \in Nat /\ Cardinality(Rows) \in Nat
    BY <1>4, QueryConstants, FS_CardinalityType
  <1>6. Selected(base, 1) = query.visible
    BY DEF Selected, BeforeLevel
  <1>7. Selected(base, k) \in SUBSET Nat
    <2>1. Rows \subseteq Nat
      BY QueryConstants
    <2> QED BY <1>3, <2>1
  <1>8. Cardinality(Selected(base, k)) \in 0 .. Cardinality(Rows)
    BY <1>4, <1>5
  <1> QED BY <1>3, <1>4, <1>5, <1>6, <1>7, <1>8

\* What the statistics count is no less than what the list selects: without
\* the fields that are left out of Reduced, no parameter is taken by the two
\* backends that left them out.
LEMMA SamePasses ==
    ASSUME NEW r
    PROVE  /\ PassesAt(Reduced, 1, r) /\ PassesAt(Reduced, 2, r)
           /\ \A k \in 3 .. 17 : PassesAt(Reduced, k, r) = PassesAt(FilterNames, k, r)
           /\ query.params = {} => \A base : \A k \in 1 .. 17 : PassesAt(base, k, r)
  <1>1. \A b : Passes(b, {}, r)
    BY DEF Passes, Excludes
  <1>2. TakenAt(Reduced, 1) = {}
    BY BackendNames DEF TakenAt, FieldsAt, Taken, Takes, Allowed, TakesKey,
       Reduced, WithoutPoints, WithoutJSON
  <1>3. TakenAt(Reduced, 2) = {}
    BY BackendNames DEF TakenAt, FieldsAt, Taken, Takes, Allowed, TakesDistance,
       Reduced, WithoutPoints, WithoutJSON
  <1>4. ASSUME NEW k \in 3 .. 17
        PROVE  TakenAt(Reduced, k) = TakenAt(FilterNames, k)
    <2>1. WithoutPoints(WithoutJSON(Reduced)) = Reduced
      BY DEF Reduced, WithoutPoints, WithoutJSON
    <2>2. k # 1 /\ k # 2
      OBVIOUS
    <2> QED BY <2>1, <2>2 DEF TakenAt, FieldsAt, Reduced
  <1>5. query.params = {} => \A base, k : TakenAt(base, k) = {}
    BY DEF TakenAt, Taken
  <1> QED BY <1>1, <1>2, <1>3, <1>4, <1>5 DEF PassesAt

LEMMA CountedIsEnough ==
    ASSUME OneByOne(query)
    PROVE  Answers \subseteq Selected(Reduced, 18)
  <1> DEFINE before(base) == BeforeLevel(base, 10)
  <1>1. before(FilterNames) \subseteq before(Reduced)
    <2>1. ASSUME NEW r, NEW j \in 1 .. 10 - 1, PassesAt(FilterNames, j, r)
          PROVE  PassesAt(Reduced, j, r)
      BY <2>1, SamePasses
    <2> QED BY <2>1 DEF BeforeLevel
  <1>2. query.params = {} => before(FilterNames) = before(Reduced)
    BY SamePasses DEF BeforeLevel
  <1>3. ByLevel(before(FilterNames)) \subseteq ByLevel(before(Reduced))
    <2>1. CASE query.level.op = "none" \/ View.name # "User"
      BY <1>1, <2>1 DEF ByLevel
    <2>2. CASE query.level.op # "none"
      BY <1>2, <2>2 DEF OneByOne
    <2> QED BY <2>1, <2>2
  <1>4. \A r : \A j \in 11 .. 18 - 1 :
            PassesAt(FilterNames, j, r) => PassesAt(Reduced, j, r)
    BY SamePasses
  <1> HIDE DEF before
  <1>5. ~(18 <= 10)
    OBVIOUS
  <1> QED BY <1>3, <1>4, <1>5 DEF Answers, Selected, before

-----------------------------------------------------------------------------
(***************************************************************************)
(* The invariant: while a request runs, the queryset is what the backends  *)
(* before the next one select, and what the client has is the beginning of *)
(* the listing of the answers.                                             *)
(***************************************************************************)
Running ==
    /\ filterset = FieldsAt(Base, backend)
    /\ Present = Selected(Base, backend)
    /\ backend > 16 => Once
    /\ NoRaises(Base, backend)

Limit == IF Cardinality(Rows) >= 1 THEN Cardinality(Rows) ELSE 1
NumReceived == IF answer = "done" THEN page ELSE page - 1
NumAnswers == Cardinality(Answers)

ListTypes ==
    /\ query.visible \subseteq Rows /\ query.size \in Nat
    /\ way \in {"list", "stats", "count", "pages"}
    /\ page \in 1 .. Limit /\ announced \in 0 .. Limit
    /\ filterset \subseteq ServedNames
    /\ backend \in 1 .. 18
    /\ queryset \in [Rows -> 0 .. 2]
    /\ answer \in {"none", "running", "done", "refused", "error"}

NotAsked ==
    /\ query = NoQuery /\ way = "list" /\ page = 1
    /\ filterset = {} /\ announced = 0 /\ received = <<>>

\* While the client asks for pages, and when it has the last one
Listing ==
    /\ \A p \in query.params : ~ListRefuses(p)
    /\ OneByOne(query) /\ way = "pages" => NumAnswers <= PageSize * announced
    /\ answer = "done" =>
         /\ OneByOne(query) => NumAnswers <= PageSize * page
         /\ NoRaises(FilterNames, 18)

Received ==
    received = FirstOf(ListingOf(Answers), UpTo(NumAnswers, PageSize * NumReceived))

ListInv ==
    /\ BootInv
    /\ ListTypes
    /\ answer = "none" => NotAsked
    /\ answer # "none" => Asked /\ Received
    /\ answer = "running" => Running
    /\ way \in {"stats", "count"} => page = 1 /\ announced = 0 /\ answer # "done"
    /\ way \in {"list", "pages"} /\ answer \in {"running", "done"} => Listing

LEMMA Limits ==
    /\ Limit \in Nat \ {0} /\ Limit = Max({1, Cardinality(Rows)})
  <1>1. Cardinality(Rows) \in Nat
    BY QueryConstants, FS_CardinalityType
  <1>2. Max({1, Cardinality(Rows)}) = IF 1 >= Cardinality(Rows) THEN 1
                                     ELSE Cardinality(Rows)
    BY <1>1, MaxOfTwo
  <1> QED BY <1>1, <1>2 DEF Limit

LEMMA ListInit ==
    ASSUME QueryInit
    PROVE  ListInv
  <1>1. BootInv
    BY BootInvInit DEF QueryInit
  <1>2. ListTypes
    <2>1. queryset \in [Rows -> 0 .. 2]
      BY DEF QueryInit
    <2>2. page \in 1 .. Limit /\ announced \in 0 .. Limit
      BY Limits DEF QueryInit
    <2>3. query.visible = {} /\ query.size = 1
      BY DEF QueryInit, NoQuery
    <2> QED BY <2>1, <2>2, <2>3 DEF QueryInit, ListTypes
  <1>3. NotAsked
    BY DEF QueryInit, NotAsked
  <1> QED BY <1>1, <1>2, <1>3 DEF ListInv, QueryInit

\* What the proofs use of a query that has been asked
AskedFacts ==
    /\ PageSize \in Nat \ {0} /\ PageSize <= MaxSize
    /\ MaxSize \in Nat \ {0}
    /\ FilterNames \subseteq ServedNames
    /\ Answers \in SUBSET Nat /\ Answers \in SUBSET Rows
    /\ IsFiniteSet(Answers)
    /\ NumAnswers \in 0 .. Cardinality(Rows)
    /\ NumAnswers \in Nat /\ Cardinality(Rows) \in Nat
    /\ ListingOf(Answers) \in [1 .. NumAnswers -> Answers]
    /\ IsInjective(ListingOf(Answers))
    /\ Range(ListingOf(Answers)) = Answers

LEMMA AskedHasFacts == BootInv /\ ListTypes /\ Asked => AskedFacts
  <1> SUFFICES ASSUME BootInv, ListTypes, Asked
               PROVE  AskedFacts
    OBVIOUS
  <1>1. /\ PageSize \in Nat \ {0} /\ PageSize <= MaxSize /\ MaxSize \in Nat \ {0}
    BY PageSizes DEF ListTypes
  <1>2. FilterNames \subseteq ServedNames
    BY AskedNames DEF Asked
  <1>3. /\ Answers \in SUBSET Nat /\ Answers \in SUBSET Rows
        /\ IsFiniteSet(Answers)
        /\ NumAnswers \in 0 .. Cardinality(Rows)
        /\ NumAnswers \in Nat /\ Cardinality(Rows) \in Nat
    BY SelectedRows DEF ListTypes, Answers, NumAnswers
  <1>4. /\ ListingOf(Answers) \in [1 .. NumAnswers -> Answers]
        /\ IsInjective(ListingOf(Answers))
        /\ Range(ListingOf(Answers)) = Answers
    BY <1>3, ListingFacts DEF NumAnswers
  <1> QED BY <1>1, <1>2, <1>3, <1>4 DEF AskedFacts

LEMMA AskedHasFactsNext == (BootInv /\ ListTypes /\ Asked => AskedFacts)'
  BY AskedHasFacts, PTL

\* Before the first backend, all visible rows are selected.
LEMMA NewRun ==
    ASSUME query'.visible \subseteq Rows, filterset' = Base', backend' = 1,
           queryset' = [r \in Rows |-> Truth(r \in query'.visible)]
    PROVE  Running' /\ queryset' \in [Rows -> 0 .. 2] /\ backend' \in 1 .. 18
  <1>1. queryset' \in [Rows -> 0 .. 2]
    BY DEF Truth
  <1>2. \A r \in Rows : queryset'[r] > 0 <=> r \in query'.visible
    BY DEF Truth
  <1>3. Present' = query'.visible
    BY <1>2 DEF Present
  <1>4. Selected(Base, 1)' = query'.visible
    BY DEF Selected, BeforeLevel
  <1>5. NoRaises(Base, 1)'
    BY DEF NoRaises
  <1>6. FieldsAt(Base, 1)' = Base'
    BY DEF FieldsAt
  <1> QED BY <1>1, <1>3, <1>4, <1>5, <1>6 DEF Running

LEMMA NewFields ==
    ASSUME definition' = definition, filters' = filters
    PROVE  /\ ServedNames' = ServedNames /\ FilterNames' = FilterNames
           /\ Reduced' = Reduced /\ View' = View
           /\ \A p : ListRefuses(p)' = ListRefuses(p)
  <1>1. /\ View' = View /\ ServedNames' = ServedNames /\ FilterNames' = FilterNames
        /\ \A n : TypeOf(n)' = TypeOf(n)
    BY DEF View, Models, FieldNames, ServedNames, FilterNames, TypeOf
  <1>2. Reduced' = Reduced
    BY <1>1 DEF Reduced, WithoutJSON, WithoutPoints
  <1>3. ASSUME NEW p
        PROVE  ListRefuses(p)' = ListRefuses(p)
    BY <1>1 DEF ListRefuses, FieldNames
  <1> QED BY <1>1, <1>2, <1>3

LEMMA Upper ==
    ASSUME NEW n \in Nat, NEW P \in Nat \ {0}
    PROVE  P * 0 = 0 /\ UpTo(n, P * 0) = 0
  BY DEF UpTo

LEMMA AskStep ==
    ASSUME ListInv, Ask
    PROVE  ListInv'
  <1>1. /\ phase = "built" /\ definition \in Served /\ answer = "none" /\ BootInv
        /\ NotAsked /\ dataModelVars' = dataModelVars
        /\ definition' = definition /\ filters' = filters
        /\ NewView
    BY DEF Ask, ListInv, ListView, dataModelVars
  <1>2. BootInv'
    BY <1>1, BootStep DEF ListInv
  <1>3. /\ query' \in ClientQueries /\ query'.model = View.name
        /\ query'.visible \subseteq Rows /\ query'.size \in Nat
        /\ way' \in {"list", "stats"}
    BY ClientQueriesAssumption DEF Ask
  <1>4. Asked'
    BY <1>1, <1>3, NewFields DEF Asked, dataModelVars
  <1>5. Base' = FilterNames'
    BY <1>3 DEF Base
  <1>6. Running' /\ queryset' \in [Rows -> 0 .. 2] /\ backend' \in 1 .. 18
    BY <1>1, <1>3, <1>5, NewRun, NewFields DEF NewView
  <1>7. answer' \in {"running", "refused"} /\ page' = 1 /\ announced' = 0
        /\ received' = <<>>
    BY <1>1 DEF Ask, ListView, NotAsked
  <1>8. ListTypes'
    <2>1. filterset' \subseteq ServedNames'
      BY <1>1, NewFields, AskedNames DEF NewView
    <2>2. page' \in 1 .. Limit' /\ announced' \in 0 .. Limit'
      BY <1>7, Limits DEF Limit
    <2> QED BY <1>3, <1>6, <1>7, <2>1, <2>2 DEF ListTypes
  <1>9. Received'
    <2>1. PageSize' \in Nat \ {0} /\ NumAnswers' \in Nat
      BY <1>2, <1>4, <1>8, AskedHasFactsNext DEF AskedFacts
    <2>2. NumReceived' = 0
      BY <1>7 DEF NumReceived
    <2>3. UpTo(NumAnswers', PageSize' * 0) = 0
      BY <2>1, Upper
    <2>4. FirstOf(ListingOf(Answers)', 0) = <<>>
      BY DEF FirstOf
    <2> QED BY <1>7, <2>2, <2>3, <2>4 DEF Received
  <1>10. way' = "list" /\ answer' = "running" => Listing'
    <2>1. ASSUME way' = "list", answer' = "running", NEW p \in query'.params
          PROVE  ~ListRefuses(p)'
      BY <1>1, <2>1, NewFields DEF Ask, ListView
    <2> QED BY <2>1 DEF Listing
  <1> QED BY <1>2, <1>3, <1>4, <1>6, <1>7, <1>8, <1>9, <1>10 DEF ListInv

LEMMA RaisesTypes ==
    \A b, p : Raises(b, p) \in {"no", "refused", "error"}
  BY DEF Raises

\* What one query and one data model determine
LEMMA SameQuery ==
    ASSUME BootInv, UNCHANGED <<query, dataModelVars>>
    PROVE  /\ BootInv' /\ Asked' = Asked
           /\ ServedNames' = ServedNames /\ FilterNames' = FilterNames
           /\ Reduced' = Reduced
           /\ \A p : ListRefuses(p)' = ListRefuses(p)
           /\ \A base, k : FieldsAt(base, k)' = FieldsAt(base, k)
           /\ \A base, k : Selected(base, k)' = Selected(base, k)
           /\ \A base, k : NoRaises(base, k)' = NoRaises(base, k)
           /\ Answers' = Answers /\ NumAnswers' = NumAnswers
           /\ ListingOf(Answers)' = ListingOf(Answers)
           /\ PageSize' = PageSize /\ Limit' = Limit
           /\ OneByOne(query)' = OneByOne(query)
  <1>1. query' = query /\ definition' = definition /\ filters' = filters
        /\ phase' = phase
    BY DEF dataModelVars
  <1>2. BootInv'
    BY BootStep
  <1>3. /\ View' = View /\ ServedNames' = ServedNames
        /\ FilterNames' = FilterNames /\ Reduced' = Reduced
        /\ \A n : TypeOf(n)' = TypeOf(n)
        /\ \A p : ListRefuses(p)' = ListRefuses(p)
        /\ \A base, k : FieldsAt(base, k)' = FieldsAt(base, k)
        /\ \A base, k : Selected(base, k)' = Selected(base, k)
        /\ \A base, k : NoRaises(base, k)' = NoRaises(base, k)
        /\ PageSize' = PageSize
    BY <1>1, SameSelection
  <1>4. Answers' = Answers
    BY <1>3 DEF Answers
  <1>5. ListingOf(Answers)' = ListingOf(Answers) /\ NumAnswers' = NumAnswers
    BY <1>4 DEF ListingOf, After, NumAnswers
  <1>6. Asked' = Asked
    BY <1>1, <1>3 DEF Asked
  <1>7. OneByOne(query)' = OneByOne(query)
    BY <1>1, <1>3 DEF OneByOne
  <1> QED BY <1>2, <1>3, <1>4, <1>5, <1>6, <1>7 DEF Limit

\* The next backend selects from the rows that the backends before it selected.
LEMMA RunOn ==
    ASSUME Running, backend \in 1 .. 17, queryset \in [Rows -> 0 .. 2],
           query.visible \subseteq Rows,
           \A p \in Taken(filterset, FilterBackends[backend]) :
              Raises(FilterBackends[backend], p) = "no",
           NEW q, q = CASE FilterBackends[backend] = "level" -> LevelRows
                        [] FilterBackends[backend] = "links" ->
                             Distinct(FilterRows(FilterBackends[backend]))
                        [] OTHER -> FilterRows(FilterBackends[backend])
    PROVE  /\ q \in [Rows -> 0 .. 2]
           /\ {r \in Rows : q[r] > 0} = Selected(Base, backend + 1)
           /\ backend + 1 > 16 => \A r \in Rows : q[r] <= 1
           /\ NoRaises(Base, backend + 1)
           /\ FieldsAfter(filterset, FilterBackends[backend])
                = FieldsAt(Base, backend + 1)
  <1> DEFINE b == FilterBackends[backend]
  <1>1. /\ filterset = FieldsAt(Base, backend)
        /\ Present = Selected(Base, backend)
        /\ NoRaises(Base, backend)
    BY DEF Running
  <1>2. Taken(filterset, b) = TakenAt(Base, backend)
    BY <1>1 DEF TakenAt
  <1>3. /\ NoRaises(Base, backend + 1)
        /\ FieldsAfter(filterset, b) = FieldsAt(Base, backend + 1)
    BY <1>1, <1>2, SelectedNext, FieldsNext
  <1>4. CASE backend = 10
    <2>1. q = LevelRows
      BY <1>4, BackendNames
    <2>2. q \in [Rows -> 0 .. 2] /\ {r \in Rows : q[r] > 0} = ByLevel(Present)
      BY <2>1, LevelRowsFacts
    <2>3. Selected(Base, backend + 1) = ByLevel(Selected(Base, backend))
      BY <1>4, SelectedNext
    <2> QED BY <1>1, <1>3, <1>4, <2>2, <2>3
  <1>5. CASE backend # 10
    <2>1. /\ FilterRows(b) \in [Rows -> 0 .. 2]
          /\ \A r \in Rows :
               FilterRows(b)[r] > 0
                 <=> queryset[r] > 0 /\ PassesAt(Base, backend, r)
      BY <1>2, FilterRowsFacts DEF PassesAt
    <2>2. Selected(Base, backend + 1)
            = {r \in Selected(Base, backend) : PassesAt(Base, backend, r)}
      BY <1>5, SelectedNext
    <2>3. {r \in Rows : FilterRows(b)[r] > 0} = Selected(Base, backend + 1)
      BY <1>1, <2>1, <2>2 DEF Present
    <2>4. CASE backend = 16
      <3>1. q = Distinct(FilterRows(b))
        BY <2>4, BackendNames
      <3>2. /\ q \in [Rows -> 0 .. 2]
            /\ \A r \in Rows : q[r] <= 1 /\ (q[r] > 0 <=> FilterRows(b)[r] > 0)
        BY <2>1, <3>1, DistinctFacts
      <3> QED BY <1>3, <2>3, <3>2
    <2>5. CASE backend # 16
      <3>1. q = FilterRows(b)
        BY <1>5, <2>5, BackendNames
      <3>2. ASSUME backend = 17
            PROVE  \A r \in Rows : q[r] <= 1
        <4>1. b = "exclude"
          BY <3>2, BackendNames
        <4>2. \A p \in Taken(filterset, b) : Excluded(b, p)
          BY <4>1 DEF Taken, Takes, TakesNegated, Excluded
        <4>3. \A r \in Rows : queryset[r] <= 1
          BY <3>2 DEF Running, Once
        <4>4. \A r \in Rows : FilterRows(b)[r] <= queryset[r]
          BY <4>2, FilterRowsFacts
        <4>5. \A r \in Rows : queryset[r] \in 0 .. 2 /\ FilterRows(b)[r] \in 0 .. 2
          BY <2>1
        <4> QED BY <3>1, <4>3, <4>4, <4>5
      <3>3. backend + 1 > 16 => backend = 17
        BY <2>5
      <3> QED BY <1>3, <2>1, <2>3, <3>1, <3>2, <3>3
    <2> QED BY <2>4, <2>5
  <1> QED BY <1>4, <1>5

LEMMA FilterStep ==
    ASSUME ListInv, Filter
    PROVE  ListInv'
  <1> DEFINE b == FilterBackends[backend]
             raised == {Raises(b, p) : p \in Taken(filterset, b)} \ {"no"}
  <1>1. /\ answer = "running" /\ backend \in 1 .. 17 /\ backend' = backend + 1
        /\ backend' \in 1 .. 18
        /\ UNCHANGED <<query, way, page, announced, received, dataModelVars>>
    BY BackendNames DEF Filter, ListInv, ListTypes
  <1>2. /\ BootInv' /\ Asked' = Asked
        /\ ServedNames' = ServedNames /\ FilterNames' = FilterNames
        /\ Reduced' = Reduced
        /\ \A p : ListRefuses(p)' = ListRefuses(p)
        /\ \A base, k : FieldsAt(base, k)' = FieldsAt(base, k)
        /\ \A base, k : Selected(base, k)' = Selected(base, k)
        /\ \A base, k : NoRaises(base, k)' = NoRaises(base, k)
        /\ Answers' = Answers /\ NumAnswers' = NumAnswers
        /\ ListingOf(Answers)' = ListingOf(Answers)
        /\ PageSize' = PageSize /\ Limit' = Limit
        /\ OneByOne(query)' = OneByOne(query)
    BY <1>1, SameQuery DEF ListInv
  <1>3. Base' = Base
    BY <1>1, <1>2 DEF Base
  <1>4. Asked /\ Received /\ Running
    BY <1>1 DEF ListInv
  <1>5. FilterNames \subseteq ServedNames
    BY <1>4, AskedNames DEF ListInv, Asked
  <1>6. ASSUME answer' # "done"
        PROVE  Received'
    <2>1. NumReceived' = NumReceived
      BY <1>1, <1>6 DEF NumReceived
    <2> QED BY <1>1, <1>2, <1>4, <2>1 DEF Received
  <1>7. CASE raised # {}
    <2>1. answer' \in {"refused", "error"} /\ queryset' = queryset
          /\ filterset' = filterset
      BY <1>7, RaisesTypes DEF Filter
    <2> QED BY <1>1, <1>2, <1>4, <1>6, <2>1 DEF ListInv, ListTypes
  <1>8. CASE raised = {}
    <2>1. /\ answer' = answer
          /\ queryset' = CASE b = "level" -> LevelRows
                           [] b = "links" -> Distinct(FilterRows(b))
                           [] OTHER -> FilterRows(b)
          /\ filterset' = FieldsAfter(filterset, b)
      BY <1>8 DEF Filter
    <2>2. \A p \in Taken(filterset, b) : Raises(b, p) = "no"
      BY <1>8
    <2>3. /\ queryset' \in [Rows -> 0 .. 2]
          /\ {r \in Rows : queryset'[r] > 0} = Selected(Base, backend + 1)
          /\ backend + 1 > 16 => \A r \in Rows : queryset'[r] <= 1
          /\ NoRaises(Base, backend + 1)
          /\ filterset' = FieldsAt(Base, backend + 1)
      BY <1>1, <1>4, <2>1, <2>2, RunOn DEF ListInv, ListTypes
    <2>4. Running'
      BY <1>1, <1>2, <1>3, <2>3 DEF Running, Present, Once
    <2>5. filterset' \subseteq ServedNames'
      <3>1. Base \subseteq ServedNames
        BY <1>5 DEF Base, Reduced, WithoutPoints, WithoutJSON
      <3>2. \A k : FieldsAt(Base, k) \subseteq Base
        BY DEF FieldsAt, WithoutPoints, WithoutJSON
      <3> QED BY <1>2, <2>3, <3>1, <3>2
    <2>6. ListTypes'
      BY <1>1, <1>2, <2>1, <2>3, <2>5 DEF ListInv, ListTypes
    <2>7. way' \in {"list", "pages"} => Listing'
      BY <1>1, <1>2, <2>1 DEF ListInv, Listing
    <2> QED BY <1>1, <1>2, <1>4, <1>6, <2>1, <2>4, <2>6, <2>7 DEF ListInv
  <1> QED BY <1>7, <1>8

LEMMA FilterAgainStep ==
    ASSUME ListInv, FilterAgain
    PROVE  ListInv'
  <1>1. /\ answer = "running" /\ backend > 17 /\ way = "stats"
        /\ way' = "count" /\ backend' = 1
        /\ queryset' = [r \in Rows |-> Truth(r \in query.visible)]
        /\ UNCHANGED <<query, page, filterset, announced, received, answer,
                       dataModelVars>>
    BY BackendNames DEF FilterAgain, Filtered
  <1>2. /\ Asked /\ Received /\ Running /\ ListTypes /\ backend = 18
        /\ page = 1 /\ announced = 0
    BY <1>1 DEF ListInv, ListTypes
  <1>3. /\ BootInv' /\ Asked' = Asked
        /\ ServedNames' = ServedNames /\ FilterNames' = FilterNames
        /\ Reduced' = Reduced
        /\ Answers' = Answers /\ NumAnswers' = NumAnswers
        /\ ListingOf(Answers)' = ListingOf(Answers)
        /\ PageSize' = PageSize /\ Limit' = Limit
    BY <1>1, SameQuery DEF ListInv
  <1>4. filterset' = Base'
    <2>1. filterset = FieldsAt(FilterNames, 18)
      BY <1>1, <1>2 DEF Running, Base
    <2> QED BY <1>1, <1>3, <2>1 DEF FieldsAt, Base, Reduced
  <1>5. Running' /\ queryset' \in [Rows -> 0 .. 2] /\ backend' \in 1 .. 18
    BY <1>1, <1>2, <1>4, NewRun DEF ListTypes
  <1>6. ListTypes'
    BY <1>1, <1>2, <1>3, <1>5 DEF ListTypes
  <1>7. Received'
    BY <1>1, <1>2, <1>3 DEF Received, NumReceived
  <1> QED BY <1>1, <1>2, <1>3, <1>5, <1>6, <1>7 DEF ListInv

\* The pages of a queryset that the backends have filtered
LEMMA Pages ==
    ASSUME ListInv, Filtered
    PROVE  /\ Base = Reduced \/ Base = FilterNames
           /\ Listed = ListingOf(Selected(Base, 18))
           /\ Cardinality(Selected(Base, 18)) \in 0 .. Cardinality(Rows)
           /\ Len(Listed) = Cardinality(Selected(Base, 18))
           /\ NumPages \in 1 .. Limit
           /\ Len(Listed) <= PageSize * NumPages
           /\ PageSize * (NumPages - 1) <= Len(Listed)
           /\ NoRaises(Base, 18)
  <1> DEFINE n == Cardinality(Selected(Base, 18))
             d == (n + PageSize - 1) \div PageSize
  <1>1. /\ Running /\ ListTypes /\ Asked /\ BootInv /\ backend = 18
    BY BackendNames DEF Filtered, ListInv, ListTypes
  <1>2. AskedFacts
    BY <1>1, AskedHasFacts
  <1>3. Once /\ Present = Selected(Base, 18) /\ NoRaises(Base, 18)
    BY <1>1 DEF Running
  <1>4. Listed = ListingOf(Selected(Base, 18))
    BY <1>3, ListedOnce
  <1>5. /\ Selected(Base, 18) \in SUBSET Nat /\ IsFiniteSet(Selected(Base, 18))
        /\ n \in 0 .. Cardinality(Rows) /\ Cardinality(Rows) \in Nat
    BY <1>1, SelectedRows DEF ListTypes
  <1>6. Len(Listed) = n
    BY <1>4, <1>5, ListingFacts
  <1> HIDE DEF n
  <1>7. PageSize \in Nat \ {0} /\ n \in Nat
    BY <1>2, <1>5 DEF AskedFacts
  <1>8. d \in Int
    BY <1>7, DivFacts
  <1>9. NumPages = IF 1 >= d THEN 1 ELSE d
    <2>1. NumPages = Max({1, d})
      BY <1>6 DEF NumPages
    <2> HIDE DEF d
    <2> QED BY <1>8, <2>1, MaxOfTwo
  <1>10. /\ NumPages \in Nat \ {0} /\ n <= PageSize * NumPages
         /\ NumPages <= (IF n >= 1 THEN n ELSE 1)
         /\ PageSize * (NumPages - 1) <= n
    BY <1>7, <1>9, PageCount
  <1>11. NumPages \in 1 .. Limit
    BY <1>5, <1>10 DEF Limit
  <1> QED BY <1>3, <1>4, <1>5, <1>6, <1>10, <1>11 DEF n, Base

LEMMA AnnounceStep ==
    ASSUME ListInv, Announce
    PROVE  ListInv'
  <1>1. /\ answer = "running" /\ backend > 17 /\ way = "count" /\ Filtered
        /\ UNCHANGED <<query, page, received, dataModelVars>>
    BY BackendNames DEF Announce, Filtered
  <1>2. /\ Asked /\ Received /\ Running /\ ListTypes /\ backend = 18
        /\ page = 1 /\ announced = 0 /\ Base = Reduced
    BY <1>1 DEF ListInv, ListTypes, Base
  <1>3. /\ BootInv' /\ Asked' = Asked
        /\ ServedNames' = ServedNames /\ FilterNames' = FilterNames
        /\ \A p : ListRefuses(p)' = ListRefuses(p)
        /\ Answers' = Answers /\ NumAnswers' = NumAnswers
        /\ ListingOf(Answers)' = ListingOf(Answers)
        /\ PageSize' = PageSize /\ Limit' = Limit
        /\ OneByOne(query)' = OneByOne(query)
    BY <1>1, SameQuery DEF ListInv
  <1>4. ASSUME answer' # "done"
        PROVE  Received'
    BY <1>1, <1>2, <1>3, <1>4 DEF Received, NumReceived
  <1>5. CASE ~WellAsked
    <2>1. /\ answer' = "error" /\ announced' = announced /\ way' = way
          /\ filterset' = filterset /\ backend' = backend
          /\ queryset' = queryset
      BY <1>5 DEF Announce
    <2>2. ListTypes'
      BY <1>1, <1>2, <1>3, <2>1 DEF ListTypes
    <2> QED BY <1>1, <1>2, <1>3, <1>4, <2>1, <2>2 DEF ListInv
  <1>6. CASE WellAsked
    <2>1. /\ announced' = NumPages /\ way' = "pages" /\ NewView
          /\ answer' = IF \E p \in query'.params : ListRefuses(p)
                       THEN "refused" ELSE "running"
      BY <1>6 DEF Announce, ListView
    <2>2. /\ filterset' = FilterNames /\ backend' = 1
          /\ queryset' = [r \in Rows |-> Truth(r \in query'.visible)]
          /\ query'.visible \subseteq Rows
      BY <1>1, <1>2, <2>1 DEF NewView, ListTypes
    <2>3. Base' = FilterNames'
      BY <2>1 DEF Base
    <2>4. Running' /\ queryset' \in [Rows -> 0 .. 2] /\ backend' \in 1 .. 18
      BY <1>3, <2>2, <2>3, NewRun
    <2>5. filterset' \subseteq ServedNames'
      BY <1>2, <1>3, <2>2, AskedNames DEF ListInv, Asked
    <2>6. announced' \in 0 .. Limit'
      <3>1. NumPages \in 1 .. Limit
        BY <1>1, Pages
      <3> QED BY <1>3, <2>1, <3>1, Limits
    <2>7. answer' \in {"refused", "running"}
      BY <2>1
    <2>8. ListTypes'
      BY <1>1, <1>2, <1>3, <2>1, <2>2, <2>4, <2>5, <2>6, <2>7 DEF ListTypes
    <2>9. ASSUME OneByOne(query)
          PROVE  NumAnswers <= PageSize * announced'
      <3>1. Cardinality(Selected(Reduced, 18)) <= PageSize * announced'
        BY <1>1, <1>2, <2>1, Pages
      <3>2. /\ IsFiniteSet(Selected(Reduced, 18))
            /\ Cardinality(Selected(Reduced, 18)) \in Nat
        BY <1>2, SelectedRows, FS_CardinalityType DEF ListTypes
      <3>3. NumAnswers <= Cardinality(Selected(Reduced, 18))
        BY <2>9, <3>2, CountedIsEnough, FS_Subset DEF NumAnswers
      <3>4. NumAnswers \in Nat /\ PageSize \in Nat /\ announced' \in Nat
        BY <1>2, <1>3, <2>6, AskedHasFacts, Limits DEF ListInv, AskedFacts
      <3>5. PageSize * announced' \in Nat
        BY <3>4, Products
      <3> DEFINE a == PageSize * announced'
                 c == Cardinality(Selected(Reduced, 18))
      <3>6. NumAnswers <= c /\ c <= a /\ NumAnswers \in Nat /\ c \in Nat /\ a \in Nat
        BY <3>1, <3>2, <3>3, <3>4, <3>5
      <3> HIDE DEF a, c
      <3>7. NumAnswers <= a
        BY <3>6
      <3> QED BY <3>7 DEF a
    <2>10. answer' = "running" => Listing'
      BY <1>1, <1>3, <2>1, <2>9 DEF Listing
    <2> QED BY <1>1, <1>2, <1>3, <1>4, <2>1, <2>4, <2>7, <2>8, <2>10 DEF ListInv
  <1> QED BY <1>5, <1>6

\* What the client has after one page more
LEMMA OneMore ==
    ASSUME NEW S, NEW n \in Nat, NEW L \in [1 .. n -> S],
           NEW a \in Nat, NEW b \in Nat, a <= b, a <= n
    PROVE  FirstOf(L, UpTo(n, b))
             = FirstOf(L, UpTo(n, a)) \o SubSeq(L, a + 1, Min({b, n}))
  <1> DEFINE d == UpTo(n, b)
  <1>1. UpTo(n, a) = a
    BY DEF UpTo
  <1>2. Min({b, n}) = d
    BY MinOfTwo DEF UpTo
  <1>3. d \in Nat /\ a <= d /\ d <= n
    BY DEF UpTo
  <1> HIDE DEF d
  <1>4. Extended(L, a, d) = FirstOf(L, d)
    BY <1>3, NextPage
  <1> QED BY <1>1, <1>2, <1>4 DEF d, Extended

LEMMA NoMore ==
    ASSUME NEW n \in Nat, NEW a \in Nat, NEW b \in Nat, a <= b, n <= a
    PROVE  UpTo(n, b) = UpTo(n, a)
  BY DEF UpTo

\* Pages until the last one begin within the rows, and no page after it does.
LEMMA PageBounds ==
    ASSUME NEW P \in Nat \ {0}, NEW n \in Nat, NEW q \in Nat \ {0},
           n <= P * q, P * (q - 1) <= n, NEW m \in Nat \ {0}
    PROVE  /\ P * (m - 1) \in Nat /\ P * m \in Nat /\ P * (m - 1) <= P * m
           /\ m * P = P * m /\ (m - 1) * P = P * (m - 1)
           /\ m <= q => P * (m - 1) <= n
           /\ m > q => n <= P * (m - 1)
           /\ m >= q => n <= P * m
  <1> DEFINE a == P * (m - 1)
             b == P * m
             c == P * (q - 1)
             e == P * q
  <1>1. a \in Nat /\ b \in Nat /\ c \in Nat /\ e \in Nat
    BY Products
  <1>2. b = a + P /\ m * P = b /\ (m - 1) * P = a
    OBVIOUS
  <1>3. m - 1 < q - 1 => a <= c
    <2>1. m - 1 < q - 1 => P * (m - 1) + P <= P * (q - 1)
      BY Multiples
    <2> QED BY <1>1, <2>1
  <1>4. q < m => e <= a
    <2>1. q < m - 1 => P * q + P <= P * (m - 1)
      BY Multiples
    <2>2. q = m - 1 => e = a
      OBVIOUS
    <2> HIDE DEF a, e
    <2>3. q < m => q < m - 1 \/ q = m - 1
      OBVIOUS
    <2> QED BY <1>1, <2>1, <2>2, <2>3 DEF a, e
  <1>5. m - 1 = q - 1 => a = c /\ b = e
    OBVIOUS
  <1>6. m - 1 < q - 1 \/ m - 1 = q - 1 \/ q < m
    OBVIOUS
  <1>7. n <= e /\ c <= n
    OBVIOUS
  <1> HIDE DEF a, b, c, e
  <1> USE <1>1, <1>7
  <1>8. a <= b /\ (m <= q => a <= n)
    BY <1>2, <1>3, <1>5, <1>6
  <1>9. (m > q => n <= a) /\ (m >= q => n <= b)
    BY <1>2, <1>4, <1>5, <1>6, <1>8
  <1> QED BY <1>1, <1>2, <1>8, <1>9 DEF a, b

LEMMA PaginateStep ==
    ASSUME ListInv, Paginate
    PROVE  ListInv'
  <1> DEFINE L == ListingOf(Answers)
             n == NumAnswers
             P == PageSize
             a == P * (page - 1)
             b == P * page
  <1>1. /\ answer = "running" /\ backend > 17 /\ way \in {"list", "pages"}
        /\ Filtered
        /\ UNCHANGED <<query, way, announced, dataModelVars>>
    BY BackendNames DEF Paginate, Filtered
  <1>2. /\ Asked /\ Received /\ Running /\ ListTypes /\ backend = 18
        /\ Base = FilterNames /\ Listing /\ page \in 1 .. Limit
        /\ announced \in 0 .. Limit
    BY <1>1 DEF ListInv, ListTypes, Base
  <1>3. /\ BootInv' /\ Asked' = Asked
        /\ ServedNames' = ServedNames /\ FilterNames' = FilterNames
        /\ \A p : ListRefuses(p)' = ListRefuses(p)
        /\ \A base, k : NoRaises(base, k)' = NoRaises(base, k)
        /\ Answers' = Answers /\ NumAnswers' = NumAnswers
        /\ ListingOf(Answers)' = ListingOf(Answers)
        /\ PageSize' = PageSize /\ Limit' = Limit
        /\ OneByOne(query)' = OneByOne(query)
    BY <1>1, SameQuery DEF ListInv
  <1>4. /\ P \in Nat \ {0} /\ n \in Nat /\ L \in [1 .. n -> Answers]
        /\ Limit \in Nat \ {0} /\ page \in Nat \ {0}
    BY <1>2, AskedHasFacts, Limits DEF ListInv, AskedFacts
  <1>5. received = FirstOf(L, UpTo(n, a))
    BY <1>1, <1>2 DEF Received, NumReceived
  <1>6. /\ Listed = L /\ Len(Listed) = n /\ NumPages \in 1 .. Limit
        /\ n <= P * NumPages /\ P * (NumPages - 1) <= n
        /\ NoRaises(FilterNames, 18)
    BY <1>1, <1>2, Pages DEF Answers, NumAnswers
  <1>7. NumPages \in Nat \ {0}
    BY <1>4, <1>6
  <1>8. /\ a \in Nat /\ b \in Nat /\ a <= b
        /\ page * P = b /\ (page - 1) * P = a
        /\ page <= NumPages => a <= n
        /\ page > NumPages => n <= a
        /\ page >= NumPages => n <= b
    BY <1>4, <1>6, <1>7, PageBounds
  <1>9. CASE ~WellAsked
    <2>1. /\ answer' = "refused" /\ page' = page /\ filterset' = filterset
          /\ backend' = backend /\ queryset' = queryset
          /\ received' = received
      BY <1>9 DEF Paginate
    <2>2. ListTypes'
      BY <1>1, <1>2, <1>3, <2>1 DEF ListTypes
    <2>3. Received'
      BY <1>1, <1>2, <1>3, <2>1 DEF Received, NumReceived
    <2> QED BY <1>1, <1>2, <1>3, <2>1, <2>2, <2>3 DEF ListInv
  <1>10. CASE WellAsked
    <2> DEFINE last == IF way = "list" THEN NumPages ELSE announced
    <2>1. received' = IF page <= NumPages THEN received \o PageOf(page)
                      ELSE received
      BY <1>10 DEF Paginate
    <2>2. PageOf(page) = SubSeq(L, a + 1, Min({b, n}))
      BY <1>6, <1>8 DEF PageOf
    <2>3. received' = FirstOf(L, UpTo(n, b))
      <3>1. CASE page <= NumPages
        <4>1. received' = received \o SubSeq(L, a + 1, Min({b, n}))
          BY <2>1, <2>2, <3>1
        <4>2. a <= n
          BY <1>8, <3>1
        <4> HIDE DEF a, b, L, n
        <4>3. FirstOf(L, UpTo(n, b))
                = FirstOf(L, UpTo(n, a)) \o SubSeq(L, a + 1, Min({b, n}))
          <5>1. L \in [1 .. n -> Answers] /\ n \in Nat
            BY <1>4
          <5>2. a \in Nat /\ b \in Nat /\ a <= b
            BY <1>8
          <5> QED BY <4>2, <5>1, <5>2, OneMore
        <4> QED BY <1>5, <4>1, <4>3
      <3>2. CASE page > NumPages
        <4>1. received' = received
          BY <1>4, <1>7, <2>1, <3>2
        <4>2. n <= a
          BY <1>8, <3>2
        <4> HIDE DEF a, b, L, n
        <4>3. FirstOf(L, UpTo(n, b)) = FirstOf(L, UpTo(n, a))
          <5>1. n \in Nat /\ a \in Nat /\ b \in Nat /\ a <= b
            BY <1>4, <1>8
          <5> QED BY <4>2, <5>1, NoMore
        <4> QED BY <1>5, <4>1, <4>3
      <3> QED BY <1>4, <1>7, <3>1, <3>2
    <2>4. last \in Nat /\ last <= Limit
      BY <1>2, <1>4, <1>6
    <2>5. CASE page < last
      <3>1. /\ page' = page + 1 /\ NewView
            /\ answer' = IF \E p \in query'.params : ListRefuses(p)
                         THEN "refused" ELSE "running"
        BY <1>10, <2>5 DEF Paginate, ListView
      <3>2. /\ filterset' = FilterNames /\ backend' = 1
            /\ queryset' = [r \in Rows |-> Truth(r \in query'.visible)]
            /\ query'.visible \subseteq Rows
        BY <1>1, <1>2, <3>1 DEF NewView, ListTypes
      <3>3. Base' = FilterNames'
        BY <1>1 DEF Base
      <3>4. Running' /\ queryset' \in [Rows -> 0 .. 2] /\ backend' \in 1 .. 18
        BY <1>3, <3>2, <3>3, NewRun
      <3>5. filterset' \subseteq ServedNames'
        BY <1>2, <1>3, <3>2, AskedNames DEF ListInv, Asked
      <3>6. page' \in 1 .. Limit'
        BY <1>3, <1>4, <2>4, <2>5, <3>1
      <3>7. answer' \in {"refused", "running"}
        BY <3>1
      <3>8. ListTypes'
        BY <1>1, <1>2, <1>3, <3>4, <3>5, <3>6, <3>7 DEF ListTypes
      <3>9. Received'
        <4>1. NumReceived' = page
          BY <1>4, <3>1, <3>7 DEF NumReceived
        <4> QED BY <1>3, <2>3, <4>1 DEF Received
      <3>10. Listing'
        BY <1>1, <1>2, <1>3, <3>7 DEF Listing
      <3> QED BY <1>1, <1>2, <1>3, <3>4, <3>7, <3>8, <3>9, <3>10 DEF ListInv
    <2>6. CASE ~(page < last)
      <3>1. /\ answer' = "done" /\ page' = page /\ filterset' = filterset
            /\ backend' = backend /\ queryset' = queryset
        BY <1>10, <2>6 DEF Paginate
      <3>2. ListTypes'
        BY <1>1, <1>2, <1>3, <3>1 DEF ListTypes
      <3>3. Received'
        BY <1>3, <2>3, <3>1 DEF Received, NumReceived
      <3>4. ASSUME OneByOne(query)
            PROVE  n <= P * page
        <4>1. CASE way = "list"
          <5>1. page >= NumPages
            BY <1>4, <1>7, <2>6, <4>1
          <5> QED BY <1>8, <5>1
        <4>2. CASE way = "pages"
          <5>1. n <= P * announced /\ announced <= page /\ announced \in Nat
            BY <1>2, <1>4, <2>6, <3>4, <4>2 DEF Listing
          <5>2. announced < page => P * announced + P <= P * page
            BY <1>4, <5>1, Multiples
          <5>3. P * announced \in Nat
            BY <1>4, <5>1, Products
          <5> DEFINE c == P * announced
          <5>4. announced = page => c = b
            OBVIOUS
          <5>5. /\ announced < page => c + P <= b
                /\ n <= c /\ c \in Nat
            BY <5>1, <5>2, <5>3
          <5> HIDE DEF c, b
          <5>6. n <= b
            BY <1>4, <1>8, <5>1, <5>4, <5>5
          <5> QED BY <5>6 DEF b
        <4> QED BY <1>1, <4>1, <4>2
      <3>5. Listing'
        BY <1>1, <1>2, <1>3, <1>6, <3>1, <3>4 DEF Listing
      <3> QED BY <1>1, <1>2, <1>3, <3>1, <3>2, <3>3, <3>5 DEF ListInv
    <2> QED BY <2>5, <2>6
  <1> QED BY <1>9, <1>10

LEMMA BootedStep ==
    ASSUME ListInv, [Boot]_dataModelVars, UNCHANGED queryVars
    PROVE  ListInv'
  <1>1. CASE UNCHANGED dataModelVars
    <2>1. /\ BootInv' /\ Asked' = Asked
          /\ ServedNames' = ServedNames /\ FilterNames' = FilterNames
          /\ Reduced' = Reduced
          /\ \A p : ListRefuses(p)' = ListRefuses(p)
          /\ \A base, k : FieldsAt(base, k)' = FieldsAt(base, k)
          /\ \A base, k : Selected(base, k)' = Selected(base, k)
          /\ \A base, k : NoRaises(base, k)' = NoRaises(base, k)
          /\ Answers' = Answers /\ NumAnswers' = NumAnswers
          /\ ListingOf(Answers)' = ListingOf(Answers)
          /\ PageSize' = PageSize /\ Limit' = Limit
          /\ OneByOne(query)' = OneByOne(query)
      BY <1>1, SameQuery DEF ListInv, queryVars
    <2>2. Base' = Base
      BY <2>1 DEF Base, queryVars
    <2>3. Running' = Running
      BY <2>1, <2>2 DEF Running, Present, Once, queryVars
    <2>4. Received' = Received
      BY <2>1 DEF Received, NumReceived, queryVars
    <2>5. Listing' = Listing
      BY <2>1 DEF Listing, queryVars
    <2> QED BY <1>1, <2>1, <2>3, <2>4, <2>5 DEF ListInv, ListTypes, NotAsked,
                                               queryVars
  <1>2. CASE Boot
    <2>1. phase # "built"
      BY <1>2 DEF Boot, CheckModel, CheckName, ChooseQueries, MakeField,
         FinishModel, GetDivider, MakeModel, Finish
    <2>2. answer = "none" /\ NotAsked
      BY <2>1 DEF ListInv, Asked
    <2>3. BootInv'
      BY BootStep DEF ListInv
    <2> QED BY <2>2, <2>3 DEF ListInv, ListTypes, NotAsked, queryVars, Limit
  <1> QED BY <1>1, <1>2

LEMMA QueryStep ==
    ASSUME ListInv, [QueryNext]_queryAllVars
    PROVE  ListInv'
  <1>1. CASE Boot /\ UNCHANGED queryVars
    BY <1>1, BootedStep
  <1>2. CASE Ask
    BY <1>2, AskStep
  <1>3. CASE Filter
    BY <1>3, FilterStep
  <1>4. CASE FilterAgain
    BY <1>4, FilterAgainStep
  <1>5. CASE Announce
    BY <1>5, AnnounceStep
  <1>6. CASE Paginate
    BY <1>6, PaginateStep
  <1>7. CASE UNCHANGED queryAllVars
    BY <1>7, BootedStep DEF queryAllVars
  <1> QED BY <1>1, <1>2, <1>3, <1>4, <1>5, <1>6, <1>7 DEF QueryNext

\* Whichever pages a client has fetched, they are the beginning of the listing
\* of the answers, and the backends that have run so far have selected the rows
\* that the query alone determines: the inductive invariant.
THEOREM ListInvariant == QuerySpec => []ListInv
  BY ListInit, QueryStep, PTL DEF QuerySpec

\* Every variable keeps its type: at most as many pages are asked for, and
\* announced, as there are rows, and filterset_fields are fields of the model or
\* the field of its divider.
THEOREM QueryTypeCorrect == QuerySpec => []QueryTypeOK
  <1>1. ASSUME ListInv
        PROVE  QueryTypeOK
    <2>1. /\ Limit = Max({1, Cardinality(Rows)}) /\ Len(FilterBackends) = 17
          /\ Len(FilterBackends) + 1 = 18
      BY Limits, BackendNames
    <2>2. /\ phase \in {"model", "names", "fields", "maker", "built", "refused"}
          /\ at \in 1 .. Len(Models) + 1 /\ field \in Nat
          /\ Len(filters) <= Len(Models) /\ Len(columns) <= Len(Models)
      BY <1>1, FileLists DEF ListInv, BootInv, FiltersInv, ParserInv, Position
    <2>3. received \in Seq(Rows)
      <3>1. CASE answer = "none"
        BY <1>1, <3>1 DEF ListInv, NotAsked
      <3>2. CASE answer # "none"
        <4> DEFINE m == UpTo(NumAnswers, PageSize * NumReceived)
        <4>1. AskedFacts /\ Received /\ page \in 1 .. Limit
          BY <1>1, <3>2, AskedHasFacts DEF ListInv, ListTypes
        <4>2. NumReceived \in Nat
          BY <4>1, Limits DEF NumReceived
        <4>3. PageSize * NumReceived \in Nat
          BY <4>1, <4>2, Products DEF AskedFacts
        <4>4. m \in 0 .. NumAnswers
          BY <4>1, <4>3 DEF AskedFacts, UpTo
        <4> HIDE DEF m
        <4>5. FirstOf(ListingOf(Answers), m) \in Seq(Answers)
          BY <4>1, <4>4, FirstFacts DEF AskedFacts
        <4>6. received \in Seq(Answers) /\ Answers \subseteq Rows
          BY <4>1, <4>5 DEF Received, m, AskedFacts
        <4> QED BY <4>6
      <3> QED BY <3>1, <3>2
    <2> QED BY <1>1, <2>1, <2>2, <2>3 DEF ListInv, ListTypes, QueryTypeOK,
                                         ServedNames
  <1> QED BY <1>1, ListInvariant, PTL

\* The rows that a client has, page after page, are a beginning of one listing
\* of distinct rows, and no longer than so many pages of the maximal size.
THEOREM NoRowIsTwice == QuerySpec => []NoRowTwice
  <1>1. ASSUME ListInv
        PROVE  NoRowTwice
    <2> SUFFICES ASSUME answer = "done"
                 PROVE  IsInjective(received) /\ Len(received) <= page * MaxSize
      BY DEF NoRowTwice
    <2> DEFINE m == UpTo(NumAnswers, PageSize * page)
    <2>1. AskedFacts /\ Received /\ page \in Nat \ {0}
      BY <1>1, AskedHasFacts, Limits DEF ListInv, ListTypes
    <2>2. PageSize * page \in Nat
      BY <2>1, Products DEF AskedFacts
    <2>3. m \in 0 .. NumAnswers /\ m <= PageSize * page
      BY <2>1, <2>2 DEF AskedFacts, UpTo
    <2>4. PageSize * page <= page * MaxSize
      <3>1. PageSize \in Nat /\ MaxSize \in Nat /\ PageSize <= MaxSize
        BY <2>1 DEF AskedFacts
      <3>2. \A x, y \in Nat : \A k \in Nat : x <= y => x * k <= k * y
        OBVIOUS
      <3> QED BY <2>1, <3>1, <3>2
    <2>5. received = FirstOf(ListingOf(Answers), m)
      BY <2>1 DEF Received, NumReceived
    <2>6. page * MaxSize \in Nat
      BY <2>1, Products DEF AskedFacts
    <2> HIDE DEF m
    <2>7. Len(received) = m /\ IsInjective(received)
      <3> DEFINE L == ListingOf(Answers)
                 n == NumAnswers
      <3>1. /\ n \in Nat /\ L \in [1 .. n -> Answers] /\ IsInjective(L)
            /\ received = FirstOf(L, m)
        BY <2>1, <2>5 DEF AskedFacts
      <3>2. m \in 0 .. n
        BY <2>3
      <3> HIDE DEF L, n
      <3>3. Len(FirstOf(L, m)) = m
        BY <3>1, <3>2, FirstFacts
      <3>4. IsInjective(FirstOf(L, m))
        BY <3>1, <3>2, FirstDiffer
      <3> QED BY <3>1, <3>3, <3>4
    <2> QED BY <2>1, <2>2, <2>3, <2>4, <2>6, <2>7 DEF AskedFacts
  <1> QED BY <1>1, ListInvariant, PTL

-----------------------------------------------------------------------------
(***************************************************************************)
(* The answers mean the query.  First the level, which stands between the  *)
(* backends, and the exclusions, which are conjoined.                      *)
(***************************************************************************)
LEMMA LevelsMeant ==
    ASSUME Asked, query.level.op # "none", View.name = "User", NEW r \in Rows
    PROVE  HasLevel(r, query.level) <=> LevelMeans(r)
  <1> DEFINE l == query.level
  <1>1. l.op \in {"level", "atleast"} /\ l.neg \in BOOLEAN
    BY ClientQueriesAssumption DEF Asked
  <1>2. Level[r] \in 0 .. 4
    BY LevelAssumption
  <1> HIDE DEF l
  <1>3. CASE l.op = "level"
    <2>1. LevelMeans(r) <=> l.of \in 0 .. 4 /\ l.neg # (Level[r] = l.of)
      BY <1>3 DEF LevelMeans, l
    <2>2. HasLevel(r, l) <=> l.of \in 0 .. 4 /\ (Level[r] = l.of) # l.neg
      BY <1>3 DEF HasLevel
    <2> QED BY <2>1, <2>2 DEF l
  <1>4. CASE l.op = "atleast"
    <2>1. LevelMeans(r) <=> l.of \in 1 .. 4 /\ l.neg # (Level[r] \in l.of .. 4)
      BY <1>4 DEF LevelMeans, l
    <2>2. HasLevel(r, l) <=> l.of \in 1 .. 4 /\ (Level[r] >= l.of) # l.neg
      BY <1>4 DEF HasLevel
    <2>3. l.of \in 1 .. 4 => (Level[r] >= l.of <=> Level[r] \in l.of .. 4)
      BY <1>2
    <2> QED BY <2>1, <2>2, <2>3 DEF l
  <1> QED BY <1>1, <1>3, <1>4

LEMMA AnswersPass ==
    ASSUME Asked, OneByOne(query), query.visible \subseteq Rows, NEW r
    PROVE  r \in Answers
             <=> /\ r \in query.visible /\ LevelMeans(r)
                 /\ \A k \in 1 .. 17 : PassesAt(FilterNames, k, r)
  <1>1. PassesAt(FilterNames, 10, r)
    BY BackendNames DEF PassesAt, TakenAt, Taken, Takes, Passes, Excludes
  <1>2. /\ 18 - 1 = 17 /\ 10 - 1 = 9 /\ ~(18 <= 10)
        /\ \A k : k \in 1 .. 17 <=> k \in 1 .. 9 \/ k = 10 \/ k \in 11 .. 17
    OBVIOUS
  <1>3. r \in Answers <=> /\ r \in ByLevel(BeforeLevel(FilterNames, 10))
                          /\ \A k \in 11 .. 17 : PassesAt(FilterNames, k, r)
    BY <1>2 DEF Answers, Selected
  <1>4. BeforeLevel(FilterNames, 10)
          = {s \in query.visible : \A k \in 1 .. 9 : PassesAt(FilterNames, k, s)}
    BY <1>2 DEF BeforeLevel
  <1>5. CASE query.level.op = "none" \/ View.name # "User"
    <2>1. ByLevel(BeforeLevel(FilterNames, 10)) = BeforeLevel(FilterNames, 10)
      BY <1>5 DEF ByLevel
    <2>2. LevelMeans(r)
      BY <1>5 DEF LevelMeans
    <2> QED BY <1>1, <1>2, <1>3, <1>4, <2>1, <2>2
  <1>6. CASE query.level.op # "none" /\ View.name = "User"
    <2>1. query.params = {} /\ query.visible # {}
      BY <1>6 DEF OneByOne
    <2>2. \A s : \A k \in 1 .. 17 : PassesAt(FilterNames, k, s)
      BY <2>1, SamePasses
    <2>3. BeforeLevel(FilterNames, 10) = query.visible
      BY <1>2, <1>4, <2>2
    <2>4. ByLevel(query.visible)
            = {s \in query.visible : HasLevel(s, query.level)}
      BY <1>6, <2>1 DEF ByLevel
    <2>5. r \in query.visible => (HasLevel(r, query.level) <=> LevelMeans(r))
      BY <1>6, LevelsMeant
    <2> QED BY <1>2, <1>3, <2>2, <2>3, <2>4, <2>5
  <1> QED BY <1>5, <1>6

\* What one parameter asks of a row, when a backend takes it
Serves(b, p, r) == IF Excluded(b, p) THEN ~Meets(b, p, r) ELSE Meets(b, p, r)

LEMMA OneExclusion ==
    ASSUME OneByOne(query), NEW fields, NEW b, b # "exclude",
           NEW p \in Taken(fields, b), NEW s \in Taken(fields, b),
           Excluded(b, p), Excluded(b, s)
    PROVE  p = s
  <1>1. Takes(fields, b, p) /\ Takes(fields, b, s)
        /\ p \in query.params /\ s \in query.params
    BY DEF Taken
  <1>2. (p.neg \/ p.op = "isempty") /\ (s.neg \/ s.op = "isempty")
    BY <1>1 DEF Excluded, Takes, TakesIsEmpty
  <1>3. CASE b = "json"
    <2>1. \A t : Takes(fields, b, t) =>
            TypeOf(t.name) = "JSONField" /\ t.op # "exact"
      BY <1>3 DEF Takes, TakesKey
    <2> QED BY <1>1, <1>2, <2>1 DEF OneByOne
  <1>4. CASE b # "json"
    <2>1. ASSUME NEW t, Takes(fields, b, t), Excluded(b, t)
          PROVE  t.op = CASE b = "distance" -> "d_range"
                          [] b \in {"in", "links"} -> "in"
                          [] OTHER -> b
      BY <1>4, <2>1 DEF Takes, Excluded, TakesDistance, TakesIn, TakesIsEmpty,
         TakesContains, TakesIContains, TakesRange, TakesComparison,
         TakesIsNull, TakesUid, TakesLinks, TakesExact
    <2>2. b # "exact"
      BY <1>1 DEF Takes, TakesExact, Excluded
    <2>3. p.op = s.op /\ p.op # "exact"
      BY <1>1, <2>1, <2>2
    <2> QED BY <1>1, <1>2, <2>3 DEF OneByOne
  <1> QED BY <1>3, <1>4

LEMMA PassesEach ==
    ASSUME OneByOne(query), NEW fields, NEW b, NEW r
    PROVE  Passes(b, Taken(fields, b), r)
             <=> \A p \in Taken(fields, b) : Serves(b, p, r)
  <1> DEFINE taken == Taken(fields, b)
             excluding == {p \in taken : Excluded(b, p)}
  <1>1. ~Excludes(b, excluding, r) <=> \A p \in excluding : ~Meets(b, p, r)
    <2>1. CASE b = "exclude"
      BY <2>1 DEF Excludes
    <2>2. CASE b # "exclude"
      <3>1. \A p, s \in excluding : p = s
        BY <2>2, OneExclusion
      <3> QED BY <2>2, <3>1 DEF Excludes
    <2> QED BY <2>1, <2>2
  <1>2. Passes(b, taken, r)
          <=> /\ ~Excludes(b, excluding, r)
              /\ \A p \in taken \ excluding : Meets(b, p, r)
    BY DEF Passes
  <1>3. \A p \in taken : p \in excluding <=> Excluded(b, p)
    OBVIOUS
  <1> HIDE DEF taken
  <1> QED BY <1>1, <1>2, <1>3 DEF Serves, taken

\* The backends by their names, and filterset_fields when each one reads it
Backends ==
    {"json", "distance", "search", "ordering", "in", "isempty", "contains",
     "icontains", "range", "level", "comparison", "exact", "isnull", "uid",
     "links", "exclude"}
FieldsFor(b) ==
    IF b = "json" THEN FilterNames
    ELSE IF b = "distance" THEN WithoutJSON(FilterNames) ELSE Reduced

Serving(p, r) == \A b \in Backends : Takes(FieldsFor(b), b, p) => Serves(b, p, r)
RaisesNowhere(p) ==
    \A b \in Backends : Takes(FieldsFor(b), b, p) => Raises(b, p) = "no"

LEMMA BackendFields ==
    /\ \A k \in 1 .. 17 : /\ FilterBackends[k] \in Backends
                          /\ FieldsAt(FilterNames, k) = FieldsFor(FilterBackends[k])
    /\ \A b \in Backends : \E k \in 1 .. 17 : FilterBackends[k] = b
  <1>1. ASSUME NEW k \in 1 .. 17
        PROVE  FilterBackends[k] \in Backends
    BY DEF FilterBackends, Backends
  <1>2. ASSUME NEW k \in 1 .. 17
        PROVE  FieldsAt(FilterNames, k) = FieldsFor(FilterBackends[k])
    BY BackendNames DEF FieldsAt, FieldsFor, Reduced
  <1>3. /\ FilterBackends[1] = "json" /\ FilterBackends[2] = "distance"
        /\ FilterBackends[3] = "search" /\ FilterBackends[4] = "ordering"
        /\ FilterBackends[5] = "in" /\ FilterBackends[6] = "isempty"
        /\ FilterBackends[7] = "contains" /\ FilterBackends[8] = "icontains"
        /\ FilterBackends[9] = "range" /\ FilterBackends[10] = "level"
        /\ FilterBackends[11] = "comparison" /\ FilterBackends[12] = "exact"
        /\ FilterBackends[14] = "isnull" /\ FilterBackends[15] = "uid"
        /\ FilterBackends[16] = "links" /\ FilterBackends[17] = "exclude"
    BY DEF FilterBackends
  <1>4. ASSUME NEW b \in Backends
        PROVE  \E k \in 1 .. 17 : FilterBackends[k] = b
    BY <1>3 DEF Backends
  <1> QED BY <1>1, <1>2, <1>4

LEMMA PassesServe ==
    ASSUME OneByOne(query), NEW r
    PROVE  /\ (\A k \in 1 .. 17 : PassesAt(FilterNames, k, r))
                <=> \A p \in query.params : Serving(p, r)
           /\ NoRaises(FilterNames, 18) => \A p \in query.params : RaisesNowhere(p)
  <1>1. ASSUME NEW k \in 1 .. 17
        PROVE  /\ TakenAt(FilterNames, k)
                    = {p \in query.params :
                          Takes(FieldsFor(FilterBackends[k]), FilterBackends[k], p)}
               /\ PassesAt(FilterNames, k, r)
                    <=> \A p \in TakenAt(FilterNames, k) :
                            Serves(FilterBackends[k], p, r)
    BY BackendFields, PassesEach DEF TakenAt, Taken, PassesAt
  <1>2. (\A k \in 1 .. 17 : PassesAt(FilterNames, k, r))
          <=> \A p \in query.params : \A k \in 1 .. 17 :
                  Takes(FieldsFor(FilterBackends[k]), FilterBackends[k], p)
                    => Serves(FilterBackends[k], p, r)
    BY <1>1
  <1>3. ASSUME NEW p
        PROVE  Serving(p, r)
                 <=> \A k \in 1 .. 17 :
                        Takes(FieldsFor(FilterBackends[k]), FilterBackends[k], p)
                          => Serves(FilterBackends[k], p, r)
    BY BackendFields DEF Serving
  <1>4. NoRaises(FilterNames, 18)
          => \A p \in query.params : \A k \in 1 .. 17 :
                Takes(FieldsFor(FilterBackends[k]), FilterBackends[k], p)
                  => Raises(FilterBackends[k], p) = "no"
    <2>1. 18 - 1 = 17
      OBVIOUS
    <2> QED BY <1>1, <2>1 DEF NoRaises
  <1> QED BY <1>2, <1>3, <1>4, BackendFields DEF RaisesNowhere

\* Which backends take a parameter
Filterable(p) == p.name \in FilterNames
Plain(p) ==
    Filterable(p) /\ TypeOf(p.name) # "JSONField" /\ TypeOf(p.name) # "PointField"

LEMMA Takers ==
    ASSUME NEW p, NEW T, T = TypeOf(p.name)
    PROVE  /\ Takes(FieldsFor("json"), "json", p)
                <=> Filterable(p) /\ T = "JSONField" /\ p.op \notin {"exact", "uid"}
           /\ Takes(FieldsFor("distance"), "distance", p)
                <=> Filterable(p) /\ T = "PointField" /\ TakesDistance(p, T)
           /\ \A b \in {"search", "ordering", "level"} : ~Takes(FieldsFor(b), b, p)
           /\ Takes(FieldsFor("in"), "in", p) <=> Plain(p) /\ p.op = "in"
           /\ Takes(FieldsFor("links"), "links", p)
                <=> Filterable(p) /\ T = "ManyToManyField" /\ p.op = "in"
           /\ Takes(FieldsFor("isempty"), "isempty", p)
                <=> Filterable(p) /\ TakesIsEmpty(p, T)
           /\ Takes(FieldsFor("contains"), "contains", p)
                <=> Filterable(p) /\ T \in Texts /\ p.op = "contains"
           /\ Takes(FieldsFor("icontains"), "icontains", p)
                <=> Filterable(p) /\ T \in Texts /\ p.op = "icontains"
           /\ Takes(FieldsFor("range"), "range", p)
                <=> (Filterable(p) \/ p.name \in Dates) /\ TakesRange(p, T)
           /\ Takes(FieldsFor("comparison"), "comparison", p)
                <=> (Filterable(p) \/ p.name \in Dates) /\ TakesComparison(p, T)
           /\ Takes(FieldsFor("isnull"), "isnull", p) <=> Filterable(p) /\ TakesIsNull(p, T)
           /\ Takes(FieldsFor("uid"), "uid", p)
                <=> Filterable(p) /\ T = "ForeignKey" /\ p.op = "uid"
           /\ Takes(FieldsFor("exact"), "exact", p) <=> Plain(p) /\ TakesExact(p)
           /\ Takes(FieldsFor("exclude"), "exclude", p) <=> Plain(p) /\ TakesNegated(p)
  <1>1. /\ p.name \in FieldsFor("json") <=> Filterable(p)
        /\ p.name \in FieldsFor("distance") <=> Filterable(p) /\ T # "JSONField"
        /\ \A b : b # "json" /\ b # "distance" =>
             (p.name \in FieldsFor(b) <=> Plain(p))
    BY DEF FieldsFor, Reduced, WithoutJSON, WithoutPoints, Filterable, Plain
  <1>2. p.name \in FieldsFor("json") <=> p.name \in Allowed(FieldsFor("json"), "json")
    BY DEF Allowed
  <1>3. ASSUME NEW b, b \notin {"json", "distance", "range", "comparison"}
        PROVE  p.name \in Allowed(FieldsFor(b), b) <=> Plain(p)
    BY <1>1, <1>3 DEF Allowed
  <1>4. ASSUME NEW b, b \in {"range", "comparison"}
        PROVE  p.name \in Allowed(FieldsFor(b), b) <=> Plain(p) \/ p.name \in Dates
    BY <1>1, <1>4 DEF Allowed
  <1>5. p.name \in Allowed(FieldsFor("distance"), "distance")
          <=> Filterable(p) /\ T # "JSONField"
    BY <1>1 DEF Allowed
  <1>6. /\ Takes(FieldsFor("json"), "json", p)
             <=> Filterable(p) /\ T = "JSONField" /\ p.op \notin {"exact", "uid"}
        /\ Takes(FieldsFor("distance"), "distance", p)
             <=> Filterable(p) /\ T = "PointField" /\ TakesDistance(p, T)
    BY <1>1, <1>2, <1>5 DEF Takes, TakesKey, TakesDistance
  <1>7. \A b \in {"search", "ordering", "level"} : ~Takes(FieldsFor(b), b, p)
    BY DEF Takes
  <1>8. /\ Takes(FieldsFor("in"), "in", p) <=> Plain(p) /\ p.op = "in"
        /\ Takes(FieldsFor("links"), "links", p)
             <=> Filterable(p) /\ T = "ManyToManyField" /\ p.op = "in"
    BY <1>3 DEF Takes, TakesIn, TakesLinks, Plain
  <1>9. /\ Takes(FieldsFor("isempty"), "isempty", p)
             <=> Filterable(p) /\ TakesIsEmpty(p, T)
        /\ Takes(FieldsFor("contains"), "contains", p)
             <=> Filterable(p) /\ T \in Texts /\ p.op = "contains"
        /\ Takes(FieldsFor("icontains"), "icontains", p)
             <=> Filterable(p) /\ T \in Texts /\ p.op = "icontains"
    BY <1>3 DEF Takes, TakesIsEmpty, TakesContains, TakesIContains, Texts, Plain
  <1>10. /\ Takes(FieldsFor("range"), "range", p)
              <=> (Filterable(p) \/ p.name \in Dates) /\ TakesRange(p, T)
         /\ Takes(FieldsFor("comparison"), "comparison", p)
              <=> (Filterable(p) \/ p.name \in Dates) /\ TakesComparison(p, T)
    BY <1>4 DEF Takes, TakesRange, TakesComparison, Rangeable, Plain
  <1>11. /\ Takes(FieldsFor("isnull"), "isnull", p) <=> Filterable(p) /\ TakesIsNull(p, T)
         /\ Takes(FieldsFor("uid"), "uid", p)
              <=> Filterable(p) /\ T = "ForeignKey" /\ p.op = "uid"
    BY <1>3 DEF Takes, TakesIsNull, TakesUid, Links, Plain
  <1>12. /\ Takes(FieldsFor("exact"), "exact", p) <=> Plain(p) /\ TakesExact(p)
         /\ Takes(FieldsFor("exclude"), "exclude", p) <=> Plain(p) /\ TakesNegated(p)
    BY <1>3 DEF Takes
  <1> QED BY <1>6, <1>7, <1>8, <1>9, <1>10, <1>11, <1>12

\* What the period of an instant is, as an interval
LEMMA Quotient ==
    ASSUME NEW x \in Int, NEW q \in Int, NEW T \in Nat \ {0},
           T * q <= x, x < T * q + T
    PROVE  x \div T = q
  <1> DEFINE d == x \div T
             a == T * d
             b == T * q
  <1>1. d \in Int /\ a \in Int /\ a <= x /\ x < a + T
    BY DivFacts
  <1>2. b \in Int
    OBVIOUS
  <1>3. d < q => a + T <= b
    <2> HIDE DEF d
    <2> QED BY <1>1, Multiples
  <1>4. q < d => b + T <= a
    <2> HIDE DEF d
    <2> QED BY <1>1, Multiples
  <1>5. b <= x /\ x < b + T
    OBVIOUS
  <1> HIDE DEF a, b, d
  <1> QED BY <1>1, <1>2, <1>3, <1>4, <1>5 DEF d

LEMMA Periods ==
    ASSUME NEW a \in Int, NEW T \in Nat \ {0}, NEW c \in Int,
           NEW period, period = {t \in a - T .. a + T : t \div T = a \div T}
    PROVE  /\ StartOf(a, T) \in Int /\ EndOf(a, T) \in Int
           /\ (\E t \in period : t <= c) <=> c >= StartOf(a, T)
           /\ (\E t \in period : c <= t) <=> c <= EndOf(a, T)
  <1> DEFINE q == a \div T
             s == T * q
  <1>1. q \in Int /\ s \in Int /\ s <= a /\ a < s + T
    BY DivFacts
  <1>2. StartOf(a, T) = s /\ EndOf(a, T) = s + T - 1
    BY DEF StartOf, EndOf
  <1>3. ASSUME NEW t \in Int
        PROVE  t \div T = q <=> s <= t /\ t <= s + T - 1
    <2>1. T * (t \div T) <= t /\ t < T * (t \div T) + T
      BY DivFacts
    <2>2. t \div T = q => s <= t /\ t < s + T
      BY <2>1
    <2>3. s <= t /\ t < s + T => t \div T = q
      <3> HIDE DEF q
      <3> QED BY <1>1, Quotient
    <2> HIDE DEF s, q
    <2> QED BY <1>1, <2>2, <2>3
  <1>4. \A t : t \in period <=> t \in Int /\ a - T <= t /\ t <= a + T /\ t \div T = q
    OBVIOUS
  <1> HIDE DEF q, s
  <1>5. \A t : t \in period <=> t \in Int /\ s <= t /\ t <= s + T - 1
    BY <1>1, <1>3, <1>4
  <1>6. s \in period /\ s + T - 1 \in period
    BY <1>1, <1>5
  <1>7. (\E t \in period : t <= c) <=> c >= s
    BY <1>1, <1>5, <1>6
  <1>8. (\E t \in period : c <= t) <=> c <= s + T - 1
    BY <1>1, <1>5, <1>6
  <1> QED BY <1>1, <1>2, <1>7, <1>8

\* Conversions are the ends of periods: a date is the start of its day.
LEMMA Conversions ==
    ASSUME NEW v, IsInstant(v), NEW T \in Rangeable, NEW c \in Int,
           T = "DateField" => c = DayLen * (c \div DayLen)
    PROVE  /\ Convert(v, T, FALSE) \in Int /\ Convert(v, T, TRUE) \in Int
           /\ (\E t \in Period(v, T) : t <= c) <=> c >= Convert(v, T, FALSE)
           /\ (\E t \in Period(v, T) : c <= t) <=> c <= Convert(v, T, TRUE)
           /\ T = "DateField" => Convert(v, T, TRUE) = Convert(v, T, FALSE)
  <1> DEFINE a == v.at
             len == CASE T = "DateField" -> DayLen
                      [] T = "DateTimeField" /\ v.grain = "day" -> DayLen
                      [] T = "DateTimeField" /\ v.grain = "second" -> SecondLen
                      [] OTHER -> 1
             period == {t \in a - len .. a + len : t \div len = a \div len}
  <1>1. a \in Int /\ v.grain \in {"tick", "second", "day"}
    BY DEF IsInstant
  <1>2. len \in Nat \ {0} /\ DayLen \in Nat \ {0} /\ SecondLen \in Nat \ {0}
    BY QueryConstants
  <1>3. Period(v, T) = period
    BY DEF Period
  <1>4. /\ StartOf(a, len) \in Int /\ EndOf(a, len) \in Int
        /\ (\E t \in period : t <= c) <=> c >= StartOf(a, len)
        /\ (\E t \in period : c <= t) <=> c <= EndOf(a, len)
    <2> HIDE DEF a, len
    <2> QED BY <1>1, <1>2, Periods
  <1>5. CASE T = "DateField"
    <2>1. len = DayLen /\ Convert(v, T, TRUE) = StartOf(a, DayLen)
          /\ Convert(v, T, FALSE) = StartOf(a, DayLen)
      BY <1>5 DEF Convert
    <2>2. c <= EndOf(a, DayLen) <=> c <= StartOf(a, DayLen)
      <3> DEFINE q == a \div DayLen
                 p == c \div DayLen
                 s == DayLen * q
                 d == DayLen * p
      <3>1. q \in Int /\ p \in Int /\ s \in Int /\ d \in Int /\ c = d
        BY <1>1, <1>2, <1>5, DivFacts
      <3>2. q < p => s + DayLen <= d
        <4> HIDE DEF p, q
        <4> QED BY <1>2, <3>1, Multiples
      <3>3. p < q => d + DayLen <= s
        <4> HIDE DEF p, q
        <4> QED BY <1>2, <3>1, Multiples
      <3>4. p = q => d = s
        OBVIOUS
      <3>5. StartOf(a, DayLen) = s /\ EndOf(a, DayLen) = s + DayLen - 1
        BY DEF StartOf, EndOf
      <3> HIDE DEF a, p, q, s, d
      <3> QED BY <1>2, <3>1, <3>2, <3>3, <3>4, <3>5
    <2> HIDE DEF a, len, period
    <2> QED BY <1>3, <1>4, <2>1, <2>2
  <1>6. CASE T = "DateTimeField" /\ v.grain # "tick"
    <2>1. Convert(v, T, TRUE) = EndOf(a, len) /\ Convert(v, T, FALSE) = StartOf(a, len)
      BY <1>1, <1>6 DEF Convert
    <2> HIDE DEF a, len, period
    <2> QED BY <1>3, <1>4, <1>6, <2>1
  <1>7. CASE T # "DateField" /\ ~(T = "DateTimeField" /\ v.grain # "tick")
    <2>1. len = 1 /\ Convert(v, T, TRUE) = a /\ Convert(v, T, FALSE) = a
      BY <1>7 DEF Convert
    <2>2. StartOf(a, 1) = a /\ EndOf(a, 1) = a
      BY <1>1 DEF StartOf, EndOf
    <2> HIDE DEF a, len, period
    <2> QED BY <1>1, <1>3, <1>4, <1>7, <2>1, <2>2
  <1> QED BY <1>5, <1>6, <1>7

\* What is known of a parameter of the query and of the cell that it is about
ParameterFacts(p, c) ==
    /\ p.op \in Operators /\ p.neg \in BOOLEAN
    /\ p.name \in FilterNames \/ p.name \in Dates
    /\ GoodValue(p, TypeOf(p.name))
    /\ TypeOf(p.name) \in Rangeable => c = None \/ c \in Int
    /\ TypeOf(p.name) = "DateField" /\ c # None => c = DayLen * (c \div DayLen)
    /\ TypeOf(p.name) = "ManyToManyField" => IsFiniteSet(c)
    /\ TypeOf(p.name) = "PointField" => c = None \/ c \in Int

LEMMA ParameterHasFacts ==
    ASSUME BootInv, Asked, NEW p \in query.params, ~ListRefuses(p), NEW r \in Rows
    PROVE  ParameterFacts(p, Cell[r][p.name])
  <1>1. View = definition.models[1] /\ definition \in Served
    BY AskedNames DEF Asked
  <1>2. query \in ClientQueries /\ query.model = definition.models[1].name
    BY <1>1 DEF Asked
  <1>3. /\ p.op \in Operators /\ p.neg \in BOOLEAN
        /\ p.name \in NamesIn(definition) \cup DividerFields(definition) \cup Dates
        /\ GoodValue(p, TypeIn(definition, p.name))
    BY <1>1, <1>2, ClientQueriesAssumption
  <1>4. p.name \in FilterNames \/ p.name \in Dates
    BY <1>3 DEF ListRefuses, FieldNames, FilterNames
  <1> DEFINE c == Cell[r][p.name]
             T == TypeIn(definition, p.name)
  <1>5. /\ T \in Rangeable => c \in Int \cup {None}
        /\ T = "DateField" /\ c # None => c = DayLen * (c \div DayLen)
        /\ T = "ManyToManyField" => IsFiniteSet(c)
        /\ T = "PointField" => c \in Int \cup {None}
    BY <1>1, <1>3, CellAssumption
  <1>6. T = TypeOf(p.name)
    BY DEF TypeOf
  <1> HIDE DEF c, T
  <1>7. /\ TypeOf(p.name) \in Rangeable => c = None \/ c \in Int
        /\ TypeOf(p.name) = "DateField" /\ c # None => c = DayLen * (c \div DayLen)
        /\ TypeOf(p.name) = "ManyToManyField" => IsFiniteSet(c)
        /\ TypeOf(p.name) = "PointField" => c = None \/ c \in Int
    BY <1>5, <1>6
  <1>8. GoodValue(p, TypeOf(p.name))
    BY <1>3, <1>6 DEF T
  <1> QED BY <1>3, <1>4, <1>7, <1>8 DEF ParameterFacts, c

\* The types of the dates
LEMMA DatesAreNoJSON ==
    ASSUME NEW n \in Dates
    PROVE  TypeOf(n) # "JSONField"
  BY DEF TypeOf, TypeIn, Dates

LEMMA ServingBy ==
    ASSUME NEW p, NEW r, NEW T, T = TypeOf(p.name)
    PROVE  Serving(p, r) <=>
             /\ Filterable(p) /\ T = "JSONField" /\ p.op \notin {"exact", "uid"} => Serves("json", p, r)
             /\ Filterable(p) /\ T = "PointField" /\ TakesDistance(p, T)
                  => Serves("distance", p, r)
             /\ Plain(p) /\ p.op = "in"
                  => Serves("in", p, r)
             /\ Filterable(p) /\ T = "ManyToManyField" /\ p.op = "in" => Serves("links", p, r)
             /\ Filterable(p) /\ TakesIsEmpty(p, T) => Serves("isempty", p, r)
             /\ Filterable(p) /\ T \in Texts /\ p.op = "contains" => Serves("contains", p, r)
             /\ Filterable(p) /\ T \in Texts /\ p.op = "icontains"
                  => Serves("icontains", p, r)
             /\ (Filterable(p) \/ p.name \in Dates) /\ TakesRange(p, T)
                  => Serves("range", p, r)
             /\ (Filterable(p) \/ p.name \in Dates) /\ TakesComparison(p, T)
                  => Serves("comparison", p, r)
             /\ Filterable(p) /\ TakesIsNull(p, T) => Serves("isnull", p, r)
             /\ Filterable(p) /\ T = "ForeignKey" /\ p.op = "uid" => Serves("uid", p, r)
             /\ Plain(p) /\ TakesExact(p)
                  => Serves("exact", p, r)
             /\ Plain(p) /\ TakesNegated(p)
                  => Serves("exclude", p, r)
  <1> DEFINE Asks(b) == Takes(FieldsFor(b), b, p) => Serves(b, p, r)
  <1>1. Serving(p, r) <=> \A b \in Backends : Asks(b)
    BY DEF Serving
  <1>2. /\ Takes(FieldsFor("json"), "json", p)
             <=> Filterable(p) /\ T = "JSONField" /\ p.op \notin {"exact", "uid"}
        /\ Takes(FieldsFor("distance"), "distance", p)
             <=> Filterable(p) /\ T = "PointField" /\ TakesDistance(p, T)
        /\ \A b \in {"search", "ordering", "level"} : ~Takes(FieldsFor(b), b, p)
        /\ Takes(FieldsFor("in"), "in", p) <=> Plain(p) /\ p.op = "in"
        /\ Takes(FieldsFor("links"), "links", p)
             <=> Filterable(p) /\ T = "ManyToManyField" /\ p.op = "in"
        /\ Takes(FieldsFor("isempty"), "isempty", p) <=> Filterable(p) /\ TakesIsEmpty(p, T)
        /\ Takes(FieldsFor("contains"), "contains", p)
             <=> Filterable(p) /\ T \in Texts /\ p.op = "contains"
        /\ Takes(FieldsFor("icontains"), "icontains", p)
             <=> Filterable(p) /\ T \in Texts /\ p.op = "icontains"
        /\ Takes(FieldsFor("range"), "range", p)
             <=> (Filterable(p) \/ p.name \in Dates) /\ TakesRange(p, T)
        /\ Takes(FieldsFor("comparison"), "comparison", p)
             <=> (Filterable(p) \/ p.name \in Dates) /\ TakesComparison(p, T)
        /\ Takes(FieldsFor("isnull"), "isnull", p) <=> Filterable(p) /\ TakesIsNull(p, T)
        /\ Takes(FieldsFor("uid"), "uid", p)
             <=> Filterable(p) /\ T = "ForeignKey" /\ p.op = "uid"
        /\ Takes(FieldsFor("exact"), "exact", p) <=> Plain(p) /\ TakesExact(p)
        /\ Takes(FieldsFor("exclude"), "exclude", p) <=> Plain(p) /\ TakesNegated(p)
    BY Takers
  <1>3. Asks("search") /\ Asks("ordering") /\ Asks("level")
    BY <1>2
  <1> HIDE DEF Asks
  <1>4. (\A b \in Backends : Asks(b))
          <=> /\ Asks("json") /\ Asks("distance") /\ Asks("in") /\ Asks("isempty")
              /\ Asks("contains") /\ Asks("icontains") /\ Asks("range")
              /\ Asks("comparison") /\ Asks("exact") /\ Asks("isnull")
              /\ Asks("uid") /\ Asks("links") /\ Asks("exclude")
    BY <1>3 DEF Backends
  <1> QED BY <1>1, <1>2, <1>4 DEF Asks

\* What a parameter means, and how a backend serves it, with its negation
Negated(p, holds) == IF p.neg THEN ~holds ELSE holds

LEMMA MeansNegated ==
    ASSUME NEW p, NEW r, p.neg \in BOOLEAN, Holds(p, Cell[r][p.name]) \in BOOLEAN
    PROVE  Means(p, r)
             <=> (Understood(p) => Negated(p, Holds(p, Cell[r][p.name])))
  BY DEF Means, Negated

LEMMA ServesNegated ==
    ASSUME NEW p, NEW r, NEW b, b # "isempty"
    PROVE  Serves(b, p, r) <=> Negated(p, Meets(b, p, r))
  BY DEF Serves, Excluded, Negated

\* Operator by operator: the backends that take a parameter serve what it means.
LEMMA JSONMeant ==
    ASSUME NEW p, NEW r, ParameterFacts(p, Cell[r][p.name]),
           TypeOf(p.name) = "JSONField"
    PROVE  Serving(p, r) <=> Means(p, r)
  <1> DEFINE c == Cell[r][p.name]
             T == TypeOf(p.name)
  <1>1. p.neg \in BOOLEAN /\ Filterable(p)
    BY DatesAreNoJSON DEF ParameterFacts, Filterable
  <1>2. Serving(p, r) <=> (p.op \notin {"exact", "uid"} => Serves("json", p, r))
    BY <1>1, ServingBy DEF TakesDistance, TakesIsEmpty, TakesRange,
       TakesComparison, TakesIsNull, Plain, Texts, Links, Rangeable
  <1>3. Meets("json", p, r) <=> p.value.pair \in c
    BY DEF Meets, Matches, Truth
  <1>4. Understood(p) <=> p.op \notin {"exact", "uid"}
    BY <1>1 DEF Understood, Documented, Filterable
  <1>5. Holds(p, c) \in BOOLEAN /\ (Holds(p, c) <=> p.value.pair \in c)
    BY DEF Holds
  <1>6. Means(p, r) <=> (Understood(p) => Negated(p, Holds(p, c)))
    BY <1>1, <1>5, MeansNegated
  <1>7. Serves("json", p, r) <=> Negated(p, Meets("json", p, r))
    BY ServesNegated
  <1> QED BY <1>2, <1>3, <1>4, <1>5, <1>6, <1>7 DEF Negated

LEMMA KeyMeant ==
    ASSUME NEW p, NEW r, TypeOf(p.name) # "JSONField", p.op = "key"
    PROVE  Serving(p, r) <=> Means(p, r)
  <1>1. Serving(p, r)
    BY ServingBy DEF TakesDistance, TakesIsEmpty, TakesRange, TakesComparison,
       TakesIsNull, TakesExact, TakesNegated, DistanceOrders, Orders
  <1>2. ~Understood(p)
    BY DEF Understood, Documented
  <1> QED BY <1>1, <1>2 DEF Means

LEMMA NearMeant ==
    ASSUME NEW p, NEW r, ParameterFacts(p, Cell[r][p.name]),
           TypeOf(p.name) # "JSONField", p.op \in DistanceOrders
    PROVE  Serving(p, r) <=> Means(p, r)
  <1> DEFINE c == Cell[r][p.name]
             T == TypeOf(p.name)
  <1>1. p.neg \in BOOLEAN
    BY DEF ParameterFacts
  <1>2. Serving(p, r)
          <=> (Filterable(p) /\ T = "PointField" /\ ~p.neg => Serves("distance", p, r))
    BY ServingBy DEF TakesDistance, TakesIsEmpty, TakesRange, TakesComparison,
       TakesIsNull, TakesExact, TakesNegated, DistanceOrders, Orders
  <1>3. Meets("distance", p, r) <=> c # None /\ AtDistance(p.op, c, p.value)
    BY DEF Meets, Matches, Truth
  <1>4. Understood(p) <=> T = "PointField" /\ Filterable(p) /\ ~p.neg
    BY DEF Understood, Documented, DocumentedNegated, Filterable, DistanceOrders
  <1>5. /\ Holds(p, c) \in BOOLEAN
        /\ Holds(p, c) <=> c # None /\ AtDistance(p.op, c, p.value)
    <2>1. Holds(p, c) = (c # None /\ AtDistance(p.op, c, p.value))
      BY DEF Holds, DistanceOrders
    <2>2. AtDistance(p.op, c, p.value) \in BOOLEAN
      <3>1. CASE p.op = "d_gte"
        BY <3>1 DEF AtDistance
      <3>2. CASE p.op = "d_lte"
        BY <3>2 DEF AtDistance
      <3>3. CASE p.op = "d_gt"
        BY <3>3 DEF AtDistance
      <3>4. CASE p.op = "d_lt"
        BY <3>4 DEF AtDistance
      <3> QED BY <3>1, <3>2, <3>3, <3>4 DEF DistanceOrders
    <2> QED BY <2>1, <2>2
  <1>6. Means(p, r) <=> (Understood(p) => Negated(p, Holds(p, c)))
    BY <1>1, <1>5, MeansNegated
  <1>7. Serves("distance", p, r) <=> Negated(p, Meets("distance", p, r))
    BY ServesNegated
  <1> QED BY <1>2, <1>3, <1>4, <1>5, <1>6, <1>7 DEF Negated

LEMMA BetweenMeant ==
    ASSUME NEW p, NEW r, ParameterFacts(p, Cell[r][p.name]),
           TypeOf(p.name) # "JSONField", p.op = "d_range"
    PROVE  Serving(p, r) <=> Means(p, r)
  <1> DEFINE c == Cell[r][p.name]
             T == TypeOf(p.name)
             v == p.value
  <1>1. p.neg \in BOOLEAN
    BY DEF ParameterFacts
  <1>2. Serving(p, r) <=> (Filterable(p) /\ T = "PointField" => Serves("distance", p, r))
    BY ServingBy DEF TakesDistance, TakesIsEmpty, TakesRange, TakesComparison,
       TakesIsNull, TakesExact, TakesNegated, DistanceOrders, Orders
  <1>3. T = "PointField" =>
          (Meets("distance", p, r)
             <=> /\ c # None
                 /\ (v.at <= c /\ c <= v.to) \/ (v.to <= c /\ c <= v.at))
    <2> SUFFICES ASSUME T = "PointField"
                 PROVE  Meets("distance", p, r)
                          <=> /\ c # None
                              /\ \/ v.at <= c /\ c <= v.to
                                 \/ v.to <= c /\ c <= v.at
      OBVIOUS
    <2>1. (c = None \/ c \in Int) /\ v.at \in Int /\ v.to \in Int
      BY DEF ParameterFacts, GoodValue
    <2>2. Meets("distance", p, r) <=> c # None /\ AtDistance(p.op, c, v)
      BY DEF Meets, Matches, Truth
    <2>3. AtDistance(p.op, c, v) <=> c \in Min({v.at, v.to}) .. Max({v.at, v.to})
      BY DEF AtDistance
    <2> HIDE DEF c, v
    <2>4. c # None =>
            (c \in Min({v.at, v.to}) .. Max({v.at, v.to})
               <=> (v.at <= c /\ c <= v.to) \/ (v.to <= c /\ c <= v.at))
      <3>1. /\ Min({v.at, v.to}) = IF v.at <= v.to THEN v.at ELSE v.to
            /\ Max({v.at, v.to}) = IF v.at >= v.to THEN v.at ELSE v.to
        BY <2>1, MinOfTwo, MaxOfTwo
      <3> QED BY <2>1, <3>1
    <2> QED BY <2>2, <2>3, <2>4
  <1>4. Understood(p) <=> T = "PointField" /\ Filterable(p)
    BY DEF Understood, Documented, DocumentedNegated, Filterable
  <1>5. /\ Holds(p, c) \in BOOLEAN
        /\ Holds(p, c)
             <=> /\ c # None
                 /\ (v.at <= c /\ c <= v.to) \/ (v.to <= c /\ c <= v.at)
    BY DEF Holds
  <1>6. Means(p, r) <=> (Understood(p) => Negated(p, Holds(p, c)))
    BY <1>1, <1>5, MeansNegated
  <1>7. Serves("distance", p, r) <=> Negated(p, Meets("distance", p, r))
    BY ServesNegated
  <1> QED BY <1>2, <1>3, <1>4, <1>5, <1>6, <1>7 DEF Negated

LEMMA InMeant ==
    ASSUME NEW p, NEW r, ParameterFacts(p, Cell[r][p.name]),
           TypeOf(p.name) # "JSONField", p.op = "in"
    PROVE  Serving(p, r) <=> Means(p, r)
  <1> DEFINE c == Cell[r][p.name]
             T == TypeOf(p.name)
             has == IF T = "ManyToManyField" THEN c \cap p.value.set # {}
                    ELSE c \in p.value.set
  <1>1. p.neg \in BOOLEAN
    BY DEF ParameterFacts
  <1>2. Serving(p, r)
          <=> /\ Plain(p) => Serves("in", p, r)
              /\ Filterable(p) /\ T = "ManyToManyField" => Serves("links", p, r)
    BY ServingBy DEF TakesDistance, TakesIsEmpty, TakesRange, TakesComparison,
       TakesIsNull, TakesExact, TakesNegated, DistanceOrders, Orders
  <1>3. ASSUME NEW b \in {"in", "links"}
        PROVE  Meets(b, p, r) <=> has
    <2>1. Matches(b, p, r)
            = IF T = "ManyToManyField" THEN Cardinality(c \cap p.value.set)
              ELSE Truth(c \in p.value.set)
      BY DEF Matches
    <2>2. CASE T = "ManyToManyField"
      <3>1. IsFiniteSet(c \cap p.value.set)
        <4>1. IsFiniteSet(c)
          BY <2>2 DEF ParameterFacts
        <4> QED BY <4>1, FS_Subset
      <3>2. Cardinality(c \cap p.value.set) > 0 <=> c \cap p.value.set # {}
        BY <3>1, FS_EmptySet, FS_CardinalityType
      <3> QED BY <2>1, <2>2, <3>2 DEF Meets
    <2>3. CASE T # "ManyToManyField"
      BY <2>1, <2>3 DEF Meets, Truth
    <2> QED BY <2>2, <2>3
  <1>4. Understood(p) <=> Plain(p)
    BY DEF Understood, Documented, DocumentedNegated, Filterable, Plain
  <1>5. Holds(p, c) \in BOOLEAN /\ (Holds(p, c) <=> has)
    <2>1. CASE T = "ManyToManyField"
      <3>1. /\ Holds(p, c) \in BOOLEAN
            /\ Holds(p, c) <=> c \cap p.value.set # {}
        BY <2>1 DEF Holds
      <3> QED BY <2>1, <3>1
    <2>2. CASE T # "ManyToManyField"
      <3>1. Holds(p, c) \in BOOLEAN /\ (Holds(p, c) <=> c \in p.value.set)
        BY <2>2 DEF Holds
      <3> QED BY <2>2, <3>1
    <2> QED BY <2>1, <2>2
  <1>6. Means(p, r) <=> (Understood(p) => Negated(p, Holds(p, c)))
    BY <1>1, <1>5, MeansNegated
  <1>7. \A b \in {"in", "links"} : Serves(b, p, r) <=> Negated(p, Meets(b, p, r))
    BY ServesNegated
  <1>8. Filterable(p) /\ T = "ManyToManyField" => Plain(p)
    BY DEF Plain
  <1> HIDE DEF has
  <1> QED BY <1>2, <1>3, <1>4, <1>5, <1>6, <1>7, <1>8 DEF Negated

LEMMA ContainsMeant ==
    ASSUME NEW p, NEW r, ParameterFacts(p, Cell[r][p.name]),
           TypeOf(p.name) # "JSONField", p.op = "contains"
    PROVE  Serving(p, r) <=> Means(p, r)
  <1> DEFINE c == Cell[r][p.name]
             T == TypeOf(p.name)
  <1>1. p.neg \in BOOLEAN
    BY DEF ParameterFacts
  <1>2. Serving(p, r) <=> (Filterable(p) /\ T \in Texts => Serves("contains", p, r))
    BY ServingBy DEF TakesDistance, TakesIsEmpty, TakesRange, TakesComparison,
       TakesIsNull, TakesExact, TakesNegated, DistanceOrders, Orders
  <1>3. Meets("contains", p, r) <=> c # None /\ p.value.text \subseteq c
    BY DEF Meets, Matches, Truth
  <1>4. Understood(p) <=> T \in Texts /\ Filterable(p)
    BY DEF Understood, Documented, DocumentedNegated, Filterable
  <1>5. Holds(p, c) \in BOOLEAN /\ (Holds(p, c) <=> c # None /\ p.value.text \subseteq c)
    BY DEF Holds
  <1>6. Means(p, r) <=> (Understood(p) => Negated(p, Holds(p, c)))
    BY <1>1, <1>5, MeansNegated
  <1>7. Serves("contains", p, r) <=> Negated(p, Meets("contains", p, r))
    BY ServesNegated
  <1> QED BY <1>2, <1>3, <1>4, <1>5, <1>6, <1>7 DEF Negated

LEMMA IContainsMeant ==
    ASSUME NEW p, NEW r, ParameterFacts(p, Cell[r][p.name]),
           TypeOf(p.name) # "JSONField", p.op = "icontains"
    PROVE  Serving(p, r) <=> Means(p, r)
  <1> DEFINE c == Cell[r][p.name]
             T == TypeOf(p.name)
             v == p.value
  <1>1. p.neg \in BOOLEAN
    BY DEF ParameterFacts
  <1>2. Serving(p, r) <=> (Filterable(p) /\ T \in Texts => Serves("icontains", p, r))
    BY ServingBy DEF TakesDistance, TakesIsEmpty, TakesRange, TakesComparison,
       TakesIsNull, TakesExact, TakesNegated, DistanceOrders, Orders
  <1>3. Meets("icontains", p, r) <=> c # None /\ Fold(v.text) \subseteq Fold(c)
    BY DEF Meets, Matches, Truth
  <1>4. Understood(p) <=> T \in Texts /\ Filterable(p)
    BY DEF Understood, Documented, DocumentedNegated, Filterable
  <1>5. /\ Holds(p, c) \in BOOLEAN
        /\ Holds(p, c)
             <=> c # None /\ \A l \in v.text : \E k \in c : k[1] = l[1]
    BY DEF Holds
  <1>6. Means(p, r) <=> (Understood(p) => Negated(p, Holds(p, c)))
    BY <1>1, <1>5, MeansNegated
  <1>7. Serves("icontains", p, r) <=> Negated(p, Meets("icontains", p, r))
    BY ServesNegated
  <1>8. Fold(v.text) \subseteq Fold(c) <=> \A l \in v.text : \E k \in c : k[1] = l[1]
    <2> HIDE DEF c, v
    <2> QED BY DEF Fold
  <1> QED BY <1>2, <1>3, <1>4, <1>5, <1>6, <1>7, <1>8 DEF Negated

LEMMA IsEmptyMeant ==
    ASSUME NEW p, NEW r, ParameterFacts(p, Cell[r][p.name]),
           TypeOf(p.name) # "JSONField", p.op = "isempty"
    PROVE  Serving(p, r) <=> Means(p, r)
  <1> DEFINE c == Cell[r][p.name]
             T == TypeOf(p.name)
             of == p.value.of
  <1>1. p.neg \in BOOLEAN
    BY DEF ParameterFacts
  <1>2. Serving(p, r)
          <=> (Filterable(p) /\ T \in Texts /\ ~p.neg /\ of \in {"true", "false"}
                 => Serves("isempty", p, r))
    BY ServingBy DEF TakesDistance, TakesIsEmpty, TakesRange, TakesComparison,
       TakesIsNull, TakesExact, TakesNegated, DistanceOrders, Orders
  <1>3. Meets("isempty", p, r) <=> c = {}
    BY DEF Meets, Matches, Truth
  <1>4. Understood(p)
          <=> Filterable(p) /\ T \in Texts /\ ~p.neg /\ of \in {"true", "false"}
    BY DEF Understood, Documented, DocumentedNegated, Filterable
  <1>5. Holds(p, c) \in BOOLEAN /\ (Holds(p, c) <=> ((c = {}) <=> of = "true"))
    BY DEF Holds
  <1>6. Means(p, r) <=> (Understood(p) => Negated(p, Holds(p, c)))
    BY <1>1, <1>5, MeansNegated
  <1>7. ~p.neg => (Serves("isempty", p, r)
                     <=> IF of = "false" THEN ~Meets("isempty", p, r)
                         ELSE Meets("isempty", p, r))
    BY DEF Serves, Excluded
  <1> QED BY <1>2, <1>3, <1>4, <1>5, <1>6, <1>7 DEF Negated

LEMMA IsNullMeant ==
    ASSUME NEW p, NEW r, ParameterFacts(p, Cell[r][p.name]),
           TypeOf(p.name) # "JSONField", p.op = "isnull"
    PROVE  Serving(p, r) <=> Means(p, r)
  <1> DEFINE c == Cell[r][p.name]
             T == TypeOf(p.name)
             of == p.value.of
  <1>1. p.neg \in BOOLEAN
    BY DEF ParameterFacts
  <1>2. Serving(p, r)
          <=> (Filterable(p) /\ T \in Links /\ ~p.neg /\ of \in {"true", "false"}
                 => Serves("isnull", p, r))
    BY ServingBy DEF TakesDistance, TakesIsEmpty, TakesRange, TakesComparison,
       TakesIsNull, TakesExact, TakesNegated, DistanceOrders, Orders
  <1>3. Understood(p)
          <=> Filterable(p) /\ T \in Links /\ ~p.neg /\ of \in {"true", "false"}
    BY DEF Understood, Documented, DocumentedNegated, Filterable
  <1>4. Holds(p, c) \in BOOLEAN
    BY DEF Holds
  <1>5. T \in Links => (Meets("isnull", p, r) <=> Holds(p, c))
    <2>1. CASE T = "ForeignKey"
      <3>1. Meets("isnull", p, r) <=> ((c = None) <=> of = "true")
        BY <2>1 DEF Meets, Matches, Truth
      <3>2. Holds(p, c) <=> ((c = None) <=> of = "true")
        BY <2>1 DEF Holds
      <3> QED BY <3>1, <3>2
    <2>2. CASE T = "ManyToManyField"
      <3>1. Matches("isnull", p, r)
              = IF of = "true" THEN Truth(c = {}) ELSE Cardinality(c)
        BY <2>2 DEF Matches
      <3>2. Cardinality(c) > 0 <=> c # {}
        <4>1. IsFiniteSet(c)
          BY <2>2 DEF ParameterFacts
        <4> QED BY <4>1, FS_EmptySet, FS_CardinalityType
      <3>3. Meets("isnull", p, r) <=> IF of = "true" THEN c = {} ELSE c # {}
        BY <3>1, <3>2 DEF Meets, Truth
      <3>4. Holds(p, c) <=> ((c = {}) <=> of = "true")
        BY <2>2 DEF Holds
      <3> QED BY <3>3, <3>4
    <2> QED BY <2>1, <2>2 DEF Links
  <1>6. Means(p, r) <=> (Understood(p) => Negated(p, Holds(p, c)))
    BY <1>1, <1>4, MeansNegated
  <1>7. Serves("isnull", p, r) <=> Negated(p, Meets("isnull", p, r))
    BY ServesNegated
  <1> QED BY <1>2, <1>3, <1>4, <1>5, <1>6, <1>7 DEF Negated

LEMMA UidMeant ==
    ASSUME NEW p, NEW r, ParameterFacts(p, Cell[r][p.name]),
           TypeOf(p.name) # "JSONField", p.op = "uid"
    PROVE  Serving(p, r) <=> Means(p, r)
  <1> DEFINE c == Cell[r][p.name]
             T == TypeOf(p.name)
  <1>1. p.neg \in BOOLEAN
    BY DEF ParameterFacts
  <1>2. Serving(p, r) <=> (Filterable(p) /\ T = "ForeignKey" => Serves("uid", p, r))
    BY ServingBy DEF TakesDistance, TakesIsEmpty, TakesRange, TakesComparison,
       TakesIsNull, TakesExact, TakesNegated, DistanceOrders, Orders
  <1>3. Meets("uid", p, r) <=> c = p.value.is
    BY DEF Meets, Matches, Truth
  <1>4. Understood(p) <=> T = "ForeignKey" /\ Filterable(p)
    BY DEF Understood, Documented, DocumentedNegated, Filterable
  <1>5. Holds(p, c) \in BOOLEAN /\ (Holds(p, c) <=> c = p.value.is)
    BY DEF Holds
  <1>6. Means(p, r) <=> (Understood(p) => Negated(p, Holds(p, c)))
    BY <1>1, <1>5, MeansNegated
  <1>7. Serves("uid", p, r) <=> Negated(p, Meets("uid", p, r))
    BY ServesNegated
  <1> QED BY <1>2, <1>3, <1>4, <1>5, <1>6, <1>7 DEF Negated

LEMMA ExactMeant ==
    ASSUME NEW p, NEW r, ParameterFacts(p, Cell[r][p.name]),
           TypeOf(p.name) # "JSONField", p.op = "exact"
    PROVE  Serving(p, r) <=> Means(p, r)
  <1> DEFINE c == Cell[r][p.name]
             T == TypeOf(p.name)
             empty == p.value.of = "empty"
             has == IF T = "ManyToManyField" THEN p.value.is \in c
                    ELSE c = p.value.is
  <1>1. p.neg \in BOOLEAN
    BY DEF ParameterFacts
  <1>2. Serving(p, r)
          <=> /\ Plain(p) /\ ~p.neg /\ ~empty => Serves("exact", p, r)
              /\ Plain(p) /\ p.neg => Serves("exclude", p, r)
    BY ServingBy DEF TakesDistance, TakesIsEmpty, TakesRange, TakesComparison,
       TakesIsNull, TakesExact, TakesNegated, DistanceOrders, Orders
  <1>3. ASSUME NEW b \in {"exact", "exclude"}
        PROVE  Meets(b, p, r) <=> empty \/ has
    <2>1. Matches(b, p, r) = Truth(\/ p.value.of = "empty"
                                   \/ IF T = "ManyToManyField"
                                      THEN p.value.is \in c ELSE c = p.value.is)
      BY DEF Matches
    <2> QED BY <2>1 DEF Meets, Truth
  <1>4. Understood(p) <=> Plain(p)
    BY DEF Understood, Documented, DocumentedNegated, Filterable, Plain
  <1>5. Holds(p, c) \in BOOLEAN /\ (Holds(p, c) <=> empty \/ has)
    BY DEF Holds
  <1>6. Means(p, r) <=> (Understood(p) => Negated(p, Holds(p, c)))
    BY <1>1, <1>5, MeansNegated
  <1>7. \A b \in {"exact", "exclude"} :
            Serves(b, p, r) <=> Negated(p, Meets(b, p, r))
    BY ServesNegated
  <1> HIDE DEF has, empty
  <1> QED BY <1>1, <1>2, <1>3, <1>4, <1>5, <1>6, <1>7 DEF Negated

\* A value since and until the instants of another
Since(p, w, c) == c # None /\ \E t \in Period(w, TypeOf(p.name)) : t <= c
Until(p, w, c) == c # None /\ \E t \in Period(w, TypeOf(p.name)) : c <= t

LEMMA SinceUntil ==
    ASSUME NEW p, NEW c, ParameterFacts(p, c), NEW w, IsInstant(w),
           TypeOf(p.name) \in Rangeable
    PROVE  /\ Since(p, w, c)
                <=> c # None /\ c >= Convert(w, TypeOf(p.name), FALSE)
           /\ Until(p, w, c)
                <=> c # None /\ c <= Convert(w, TypeOf(p.name), TRUE)
           /\ c # None => /\ c \in Int
                          /\ Convert(w, TypeOf(p.name), FALSE) \in Int
                          /\ Convert(w, TypeOf(p.name), TRUE) \in Int
  <1> DEFINE T == TypeOf(p.name)
  <1>1. CASE c = None
    BY <1>1 DEF Since, Until
  <1>2. CASE c # None
    <2>1. c \in Int /\ (T = "DateField" => c = DayLen * (c \div DayLen))
      BY <1>2 DEF ParameterFacts
    <2> HIDE DEF T
    <2>2. /\ Convert(w, T, FALSE) \in Int /\ Convert(w, T, TRUE) \in Int
          /\ (\E t \in Period(w, T) : t <= c) <=> c >= Convert(w, T, FALSE)
          /\ (\E t \in Period(w, T) : c <= t) <=> c <= Convert(w, T, TRUE)
      BY <2>1, Conversions DEF T
    <2> QED BY <1>2, <2>1, <2>2 DEF Since, Until, T
  <1> QED BY <1>1, <1>2

LEMMA OrderMeant ==
    ASSUME NEW p, NEW r, ParameterFacts(p, Cell[r][p.name]), RaisesNowhere(p),
           TypeOf(p.name) # "JSONField", p.op \in Orders
    PROVE  Serving(p, r) <=> Means(p, r)
  <1> DEFINE c == Cell[r][p.name]
             T == TypeOf(p.name)
             v == p.value
  <1>1. p.neg \in BOOLEAN /\ (Filterable(p) \/ p.name \in Dates)
    BY DEF ParameterFacts, Filterable
  <1>2. Serving(p, r)
          <=> (~p.neg /\ T \in Rangeable => Serves("comparison", p, r))
    BY <1>1, ServingBy DEF TakesDistance, TakesIsEmpty, TakesRange,
       TakesComparison, TakesIsNull, TakesExact, TakesNegated, DistanceOrders,
       Orders
  <1>3. Understood(p) <=> ~p.neg /\ T \in Rangeable
    <2>1. Documented(p.op, T) <=> T \in Rangeable
      BY DEF Documented, Orders
    <2> QED BY <1>1, <2>1 DEF Understood, DocumentedNegated, Orders
  <1>4. ASSUME ~p.neg, T \in Rangeable
        PROVE  IsInstant(v)
    <2>1. Takes(FieldsFor("comparison"), "comparison", p)
      BY <1>1, <1>4, Takers DEF TakesComparison
    <2>2. Raises("comparison", p) = "no"
      BY <2>1 DEF RaisesNowhere, Backends
    <2>3. v.of # "malformed" /\ v.of # "blank"
      BY <2>2 DEF Raises
    <2> QED BY <2>3 DEF ParameterFacts, GoodValue
  <1>5. Meets("comparison", p, r)
          <=> /\ c # None
              /\ Compare(p.op, c, Convert(v, T, p.op \in {"gt", "lte"}))
    BY DEF Meets, Matches, Truth
  <1>6. /\ p.op = "gte" => (Holds(p, c) <=> Since(p, v, c))
        /\ p.op = "lte" => (Holds(p, c) <=> Until(p, v, c))
        /\ p.op = "gt" => (Holds(p, c) <=> c # None /\ ~Until(p, v, c))
        /\ p.op = "lt" => (Holds(p, c) <=> c # None /\ ~Since(p, v, c))
    BY DEF Holds, Since, Until
  <1>7. Holds(p, c) \in BOOLEAN
    BY DEF Holds, Orders
  <1>8. ASSUME ~p.neg, T \in Rangeable
        PROVE  Meets("comparison", p, r) <=> Holds(p, c)
    <2>1. /\ Since(p, v, c) <=> c # None /\ c >= Convert(v, T, FALSE)
          /\ Until(p, v, c) <=> c # None /\ c <= Convert(v, T, TRUE)
          /\ c # None => /\ c \in Int /\ Convert(v, T, FALSE) \in Int
                         /\ Convert(v, T, TRUE) \in Int
      BY <1>4, <1>8, SinceUntil
    <2> HIDE DEF c, v, T
    <2>2. CASE p.op = "gte"
      <3>1. (p.op \in {"gt", "lte"}) = FALSE
        BY <2>2
      <3>2. Convert(v, T, p.op \in {"gt", "lte"}) = Convert(v, T, FALSE)
        BY <3>1
      <3>3. \A x : Compare(p.op, c, x) <=> c >= x
        BY <2>2 DEF Compare
      <3>4. Meets("comparison", p, r) <=> c # None /\ c >= Convert(v, T, FALSE)
        BY <1>5, <3>2, <3>3
      <3> QED BY <1>6, <2>1, <2>2, <3>4
    <2>3. CASE p.op = "lte"
      <3>1. (p.op \in {"gt", "lte"}) = TRUE
        BY <2>3
      <3>2. Convert(v, T, p.op \in {"gt", "lte"}) = Convert(v, T, TRUE)
        BY <3>1
      <3>3. \A x : Compare(p.op, c, x) <=> c <= x
        BY <2>3 DEF Compare
      <3>4. Meets("comparison", p, r) <=> c # None /\ c <= Convert(v, T, TRUE)
        BY <1>5, <3>2, <3>3
      <3> QED BY <1>6, <2>1, <2>3, <3>4
    <2>4. CASE p.op = "gt"
      <3>1. (p.op \in {"gt", "lte"}) = TRUE
        BY <2>4
      <3>2. Convert(v, T, p.op \in {"gt", "lte"}) = Convert(v, T, TRUE)
        BY <3>1
      <3>3. \A x : Compare(p.op, c, x) <=> c > x
        BY <2>4 DEF Compare
      <3>4. Meets("comparison", p, r) <=> c # None /\ c > Convert(v, T, TRUE)
        BY <1>5, <3>2, <3>3
      <3>5. c # None => (c > Convert(v, T, TRUE)
                          <=> ~(c <= Convert(v, T, TRUE)))
        <4> DEFINE x == Convert(v, T, TRUE)
        <4>1. c # None => c \in Int /\ x \in Int
          BY <2>1
        <4> HIDE DEF x
        <4>2. c # None => (c > x <=> ~(c <= x))
          BY <4>1
        <4> QED BY <4>2 DEF x
      <3>6. Until(p, v, c) <=> c # None /\ c <= Convert(v, T, TRUE)
        BY <2>1
      <3>7. Holds(p, c) <=> c # None /\ ~Until(p, v, c)
        BY <1>6, <2>4
      <3> QED BY <3>4, <3>5, <3>6, <3>7
    <2>5. CASE p.op = "lt"
      <3>1. (p.op \in {"gt", "lte"}) = FALSE
        BY <2>5
      <3>2. Convert(v, T, p.op \in {"gt", "lte"}) = Convert(v, T, FALSE)
        BY <3>1
      <3>3. \A x : Compare(p.op, c, x) <=> c < x
        BY <2>5 DEF Compare
      <3>4. Meets("comparison", p, r) <=> c # None /\ c < Convert(v, T, FALSE)
        BY <1>5, <3>2, <3>3
      <3>5. c # None => (c < Convert(v, T, FALSE)
                          <=> ~(c >= Convert(v, T, FALSE)))
        <4> DEFINE x == Convert(v, T, FALSE)
        <4>1. c # None => c \in Int /\ x \in Int
          BY <2>1
        <4> HIDE DEF x
        <4>2. c # None => (c < x <=> ~(c >= x))
          BY <4>1
        <4> QED BY <4>2 DEF x
      <3>6. Since(p, v, c) <=> c # None /\ c >= Convert(v, T, FALSE)
        BY <2>1
      <3>7. Holds(p, c) <=> c # None /\ ~Since(p, v, c)
        BY <1>6, <2>5
      <3> QED BY <3>4, <3>5, <3>6, <3>7
    <2> QED BY <2>2, <2>3, <2>4, <2>5 DEF Orders
  <1>9. Means(p, r) <=> (Understood(p) => Negated(p, Holds(p, c)))
    BY <1>1, <1>7, MeansNegated
  <1>10. Serves("comparison", p, r) <=> Negated(p, Meets("comparison", p, r))
    BY ServesNegated
  <1> QED BY <1>2, <1>3, <1>8, <1>9, <1>10 DEF Negated

LEMMA RangeMeant ==
    ASSUME NEW p, NEW r, ParameterFacts(p, Cell[r][p.name]), RaisesNowhere(p),
           TypeOf(p.name) # "JSONField", p.op = "range", ~NegatedRange(p)
    PROVE  Serving(p, r) <=> Means(p, r)
  <1> DEFINE c == Cell[r][p.name]
             T == TypeOf(p.name)
             v == p.value
  <1>1. p.neg \in BOOLEAN /\ (Filterable(p) \/ p.name \in Dates)
    BY DEF ParameterFacts, Filterable
  <1>2. Serving(p, r)
          <=> (~p.neg /\ T \in Rangeable /\ v.of # "open" => Serves("range", p, r))
    BY <1>1, ServingBy DEF TakesDistance, TakesIsEmpty, TakesRange,
       TakesComparison, TakesIsNull, TakesExact, TakesNegated, DistanceOrders,
       Orders
  <1>3. Understood(p) <=> ~p.neg /\ T \in Rangeable /\ v.of # "open"
    <2>1. Documented(p.op, T) <=> T \in Rangeable
      BY DEF Documented
    <2> QED BY <1>1, <2>1 DEF Understood, DocumentedNegated, NegatedRange
  <1>4. ASSUME ~p.neg, T \in Rangeable, v.of # "open"
        PROVE  /\ v.of \in {"from", "until", "between"}
               /\ v.of \in {"from", "between"} => IsInstant(v.from)
               /\ v.of \in {"until", "between"} => IsInstant(v.until)
    <2>1. Takes(FieldsFor("range"), "range", p)
      BY <1>1, <1>4, Takers DEF TakesRange
    <2>2. Raises("range", p) = "no"
      BY <2>1 DEF RaisesNowhere, Backends
    <2>3. v.of # "malformed" /\ v.of # "single"
      BY <2>2 DEF Raises
    <2> QED BY <1>4, <2>3 DEF ParameterFacts, GoodValue
  <1>5. Meets("range", p, r) <=> c # None /\ InRange(c, v, T)
    BY DEF Meets, Matches, Truth
  <1>6. /\ Holds(p, c) \in BOOLEAN
        /\ Holds(p, c)
             <=> /\ v.of \in {"from", "between"} => Since(p, v.from, c)
                 /\ v.of \in {"until", "between"} => Until(p, v.until, c)
    BY DEF Holds, Since, Until
  <1>7. InRange(c, v, T)
          <=> /\ v.of \in {"from", "between"} => c >= Convert(v.from, T, FALSE)
              /\ v.of \in {"until", "between"} => c <= Convert(v.until, T, TRUE)
    BY DEF InRange
  <1>8. ASSUME ~p.neg, T \in Rangeable, v.of # "open"
        PROVE  Meets("range", p, r) <=> Holds(p, c)
    <2>1. v.of \in {"from", "between"} =>
            (Since(p, v.from, c) <=> c # None /\ c >= Convert(v.from, T, FALSE))
      BY <1>4, <1>8, SinceUntil
    <2>2. v.of \in {"until", "between"} =>
            (Until(p, v.until, c) <=> c # None /\ c <= Convert(v.until, T, TRUE))
      BY <1>4, <1>8, SinceUntil
    <2>3. v.of \in {"from", "until", "between"}
      BY <1>4, <1>8
    <2> HIDE DEF c, v, T
    <2> QED BY <1>5, <1>6, <1>7, <2>1, <2>2, <2>3
  <1>9. Means(p, r) <=> (Understood(p) => Negated(p, Holds(p, c)))
    BY <1>1, <1>6, MeansNegated
  <1>10. Serves("range", p, r) <=> Negated(p, Meets("range", p, r))
    BY ServesNegated
  <1> QED BY <1>2, <1>3, <1>8, <1>9, <1>10 DEF Negated

LEMMA ServedAsMeant ==
    ASSUME NEW p, NEW r, ParameterFacts(p, Cell[r][p.name]), RaisesNowhere(p),
           ~NegatedRange(p)
    PROVE  Serving(p, r) <=> Means(p, r)
  <1>1. \/ p.op \in Orders \/ p.op \in DistanceOrders
        \/ p.op \in {"exact", "in", "key", "contains", "icontains", "isempty",
                     "range", "uid", "isnull", "d_range"}
    BY DEF ParameterFacts, Operators
  <1>2. CASE p.op = "key" /\ TypeOf(p.name) # "JSONField"
    BY <1>2, KeyMeant
  <1> QED BY <1>1, <1>2, OrderMeant, NearMeant, ExactMeant, InMeant, JSONMeant,
             ContainsMeant, IContainsMeant, IsEmptyMeant, RangeMeant, UidMeant,
             IsNullMeant, BetweenMeant

\* Following the pages, a client receives the visible rows that satisfy each
\* parameter of its query and its level, and no other row, for any data model,
\* cells and requests without a negated range: every backend serves what each
\* parameter that it takes means, and what no backend takes means nothing.
THEOREM AnswersAreMeant == QuerySpec => []AnswersMeanTheQuery
  <1>1. ASSUME ListInv
        PROVE  AnswersMeanTheQuery
    <2> SUFFICES ASSUME answer = "done", OneByOne(query),
                        ~\E p \in query.params : NegatedRange(p)
                 PROVE  Range(received)
                          = {r \in query.visible :
                               /\ LevelMeans(r)
                               /\ \A p \in query.params : Means(p, r)}
      BY DEF AnswersMeanTheQuery
    <2>1. /\ BootInv /\ ListTypes /\ Asked /\ Received /\ Listing
          /\ query.visible \subseteq Rows /\ page \in 1 .. Limit
      BY <1>1 DEF ListInv, ListTypes
    <2>2. AskedFacts
      BY <2>1, AskedHasFacts
    <2>3. Range(received) = Answers
      <3> DEFINE L == ListingOf(Answers)
                 n == NumAnswers
                 b == PageSize * page
      <3>1. n \in Nat /\ L \in [1 .. n -> Answers] /\ Range(L) = Answers
        BY <2>2 DEF AskedFacts
      <3>2. b \in Nat /\ n <= b
        <4>1. PageSize \in Nat /\ page \in Nat
          BY <2>1, <2>2, Limits DEF AskedFacts
        <4> QED BY <2>1, <4>1, Products DEF Listing
      <3>3. received = FirstOf(L, UpTo(n, b))
        BY <2>1 DEF Received, NumReceived
      <3> HIDE DEF L, n, b
      <3>4. UpTo(n, b) = n
        BY <3>1, <3>2 DEF UpTo
      <3>5. FirstOf(L, n) = L
        BY <3>1 DEF FirstOf
      <3> QED BY <3>1, <3>3, <3>4, <3>5
    <2>4. ASSUME NEW r, NEW p \in query.params, r \in query.visible
          PROVE  Serving(p, r) <=> Means(p, r)
      <3>1. RaisesNowhere(p) /\ ~ListRefuses(p) /\ r \in Rows
        BY <2>1, <2>4, PassesServe DEF Listing
      <3>2. ParameterFacts(p, Cell[r][p.name])
        BY <2>1, <3>1, ParameterHasFacts
      <3> QED BY <3>1, <3>2, ServedAsMeant
    <2>5. ASSUME NEW r
          PROVE  r \in Answers
                   <=> /\ r \in query.visible /\ LevelMeans(r)
                       /\ \A p \in query.params : Means(p, r)
      <3>1. r \in Answers
              <=> /\ r \in query.visible /\ LevelMeans(r)
                  /\ \A k \in 1 .. 17 : PassesAt(FilterNames, k, r)
        BY <2>1, AnswersPass
      <3>2. (\A k \in 1 .. 17 : PassesAt(FilterNames, k, r))
              <=> \A p \in query.params : Serving(p, r)
        BY PassesServe
      <3> QED BY <2>4, <3>1, <3>2
    <2> QED BY <2>3, <2>5
  <1> QED BY <1>1, ListInvariant, PTL
=============================================================================
