------------------------- MODULE UserAccountsProofs -------------------------
(***************************************************************************)
(* Proofs about UserAccounts, for any users, scopes, request slots and     *)
(* initial levels.  Two lemmas say what a step that starts a request and   *)
(* a step that reads do to its slot; the invariants then need one step per *)
(* kind of action.                                                         *)
(***************************************************************************)
EXTENDS UserAccounts, TLAPS

Pcs == {"check", "load", "recheck", "save", "unscope", "ungroup", "assign",
        "remove"}

\* The slots that are not idle.
Slot == [pc: Pcs, op: Ops, by: Users, rank: Levels, target: Users,
         copy: Levels, saves: 0..2, newLevel: Levels \cup {KeepLevel},
         giving: BOOLEAN, newScopes: SUBSET Scopes]

\* The conjunct of TypeOK about one slot.
SlotOK(s) ==
    /\ s.pc \in {"check", "recheck"} => s.op = "update"
    /\ s.pc \in {"check", "load", "recheck", "save"} => s.saves > 0
    /\ s.pc \in {"save", "unscope", "ungroup"} =>
         /\ s.op = "block" => s.copy = "blocked"
         /\ s.op = "unblock" => s.copy = "simpleuser"

LEMMA SlotTypes ==
    ASSUME TypeOK, NEW r \in Requests, request[r].pc # "idle"
    PROVE  request[r] \in Slot /\ SlotOK(request[r])
  BY DEF TypeOK, RequestState, IdleRequest, Slot, Pcs, SlotOK

\* What a starting request records: a level that its user has now.
LEMMA StartStep ==
    ASSUME TypeOK, NEW r \in Requests, Starting(r)
    PROVE  \E s \in Slot :
             /\ Start(r, s)
             /\ SlotOK(s)
             /\ s.pc \in {"check", "load", "save"}
             /\ s.op = "update" => s.pc = "check" /\ s.rank \in Staff
             /\ s.pc = "save" => s.copy = level[s.target]
             /\ s.giving => s.pc = "check"
  <1> USE DEF Slot, SlotOK, Pcs, Ops
  <1>1. PICK u \in Users, t \in Users :
          \/ \E l \in AskedLevels \cup {KeepLevel} :
               \/ \E s \in AskedScopes : StartUpdate(r, u, t, l, TRUE, s)
               \/ StartUpdate(r, u, t, l, FALSE, {})
          \/ StartBlock(r, u, t)
          \/ \E s \in Scopes : StartLeave(r, u, t, s)
          \/ StartSelf(r, u)
          \/ StartPassword(r, u, t)
          \/ StartReset(r, t)
          \/ StartUnblock(r, u, t)
    BY DEF Starting
  <1>2. level[u] \in Levels /\ level[t] \in Levels
    BY DEF TypeOK
  <1>3. CASE \E l \in AskedLevels \cup {KeepLevel} :
               \/ \E s \in AskedScopes : StartUpdate(r, u, t, l, TRUE, s)
               \/ StartUpdate(r, u, t, l, FALSE, {})
    <2>1. PICK l \in AskedLevels \cup {KeepLevel}, g \in BOOLEAN,
               s \in SUBSET Scopes : StartUpdate(r, u, t, l, g, s)
      BY <1>3, ConstantsAssumption
    <2>2. l \in Levels \cup {KeepLevel}
      BY ConstantsAssumption
    <2> DEFINE base == As("update", "check", u, t)
               st == [base EXCEPT !.newLevel = l, !.giving = g, !.newScopes = s]
    <2>3. Start(r, st) /\ level[u] \in Staff
      BY <2>1 DEF StartUpdate
    <2>4. base \in Slot /\ base.pc = "check" /\ base.op = "update"
            /\ base.rank = level[u] /\ base.saves = 1
      BY <1>2 DEF As
    <2> HIDE DEF base
    <2>5. st \in Slot
      BY <2>2, <2>4
    <2>6. st.pc = "check" /\ st.op = "update" /\ st.rank = level[u]
            /\ st.saves = 1
      BY <2>4
    <2> HIDE DEF st
    <2> QED BY <2>3, <2>5, <2>6
  <1>4. CASE StartBlock(r, u, t)
    <2> DEFINE st == As("block", "load", u, t)
    <2>1. Start(r, st)
      BY <1>4 DEF StartBlock
    <2>2. st \in Slot /\ st.pc = "load" /\ st.op = "block" /\ ~st.giving
            /\ st.saves = 1
      BY <1>2 DEF As
    <2> HIDE DEF st
    <2> QED BY <2>1, <2>2
  <1>5. CASE \E s \in Scopes : StartLeave(r, u, t, s)
    <2>1. PICK s \in Scopes : StartLeave(r, u, t, s)
      BY <1>5
    <2> DEFINE base == As("leave", "load", u, t)
               st == [base EXCEPT !.newScopes = {s}]
    <2>2. Start(r, st)
      BY <2>1 DEF StartLeave
    <2>3. {s} \in SUBSET Scopes
      OBVIOUS
    <2>4. base \in Slot /\ base.pc = "load" /\ base.op = "leave"
            /\ ~base.giving /\ base.saves = 1
      BY <1>2 DEF As
    <2> HIDE DEF base
    <2>5. st \in Slot /\ st.pc = "load" /\ st.op = "leave" /\ ~st.giving
            /\ st.saves = 1
      BY <2>3, <2>4
    <2> HIDE DEF st
    <2> QED BY <2>2, <2>5
  <1>6. CASE StartSelf(r, u)
    <2>1. PICK n \in {1, 2} : Start(r, [As("self", "save", u, u) EXCEPT !.saves = n])
      BY <1>6 DEF StartSelf
    <2> DEFINE base == As("self", "save", u, u)
               st == [base EXCEPT !.saves = n]
    <2>2. Start(r, st)
      BY <2>1
    <2>3. n \in 0..2 /\ n > 0
      OBVIOUS
    <2>4. base \in Slot /\ base.pc = "save" /\ base.op = "self"
            /\ ~base.giving /\ base.copy = level[u] /\ base.target = u
      BY <1>2 DEF As
    <2> HIDE DEF base
    <2>5. st \in Slot /\ st.pc = "save" /\ st.op = "self" /\ ~st.giving
            /\ st.saves = n /\ st.copy = level[u] /\ st.target = u
      BY <2>3, <2>4
    <2> HIDE DEF st
    <2> QED BY <2>2, <2>3, <2>5
  <1>7. CASE StartPassword(r, u, t)
    <2> DEFINE st == As("password", "load", u, t)
    <2>1. Start(r, st)
      BY <1>7 DEF StartPassword
    <2>2. st \in Slot /\ st.pc = "load" /\ st.op = "password" /\ ~st.giving
            /\ st.saves = 1
      BY <1>2 DEF As
    <2> HIDE DEF st
    <2> QED BY <2>1, <2>2
  <1>8. CASE StartReset(r, t)
    <2> DEFINE st == As("reset", "save", t, t)
    <2>1. Start(r, st)
      BY <1>8 DEF StartReset
    <2>2. st \in Slot /\ st.pc = "save" /\ st.op = "reset" /\ ~st.giving
            /\ st.saves = 1 /\ st.copy = level[t] /\ st.target = t
      BY <1>2 DEF As
    <2> HIDE DEF st
    <2> QED BY <2>1, <2>2
  <1>9. CASE StartUnblock(r, u, t)
    <2> DEFINE st == As("unblock", "load", u, t)
    <2>1. Start(r, st)
      BY <1>9 DEF StartUnblock
    <2>2. st \in Slot /\ st.pc = "load" /\ st.op = "unblock" /\ ~st.giving
            /\ st.saves = 1
      BY <1>2 DEF As
    <2> HIDE DEF st
    <2> QED BY <2>1, <2>2
  <1> QED BY <1>1, <1>3, <1>4, <1>5, <1>6, <1>7, <1>8, <1>9

\* A reading step keeps who asks for what; the copy it takes has the level of
\* the target, or the one asked for; the scopes to assign are checked.
LEMMA ReadStep ==
    ASSUME TypeOK, NEW r \in Requests, Reading(r)
    PROVE  \E s \in Slot :
             /\ request' = [request EXCEPT ![r] = s]
             /\ request[r].pc # "idle"
             /\ SlotOK(s)
             /\ s.pc \in {"load", "recheck", "save", "remove"}
             /\ s.op = request[r].op /\ s.rank = request[r].rank
             /\ s.target = Target(r) /\ s.giving = request[r].giving
             /\ s.pc = "load" \/ s.copy = "blocked" \/ s.copy = "simpleuser"
                  \/ s.copy = level[Target(r)]
                  \/ /\ s.op = "update" /\ s.newLevel = s.copy
                     /\ s.copy \notin ForbiddenTo(s.rank)
                  \/ /\ request[r].pc = "recheck"
                     /\ s.copy = request[r].copy /\ s.newLevel = request[r].newLevel
             /\ \/ request[r].pc # "check" /\ s.newScopes = request[r].newScopes
                \/ s.giving /\ s.rank \notin Admins =>
                     s.newScopes \subseteq
                        scopes[Target(r)] \cup scopes[request[r].by]
  <1>1. request[r].pc # "idle" /\ request[r] \in Slot /\ SlotOK(request[r])
    <2>1. request[r].pc # "idle"
      BY DEF Reading, Check, Load, Recheck
    <2> QED BY <2>1, SlotTypes
  <1>2. Target(r) \in Users /\ level[Target(r)] \in Levels
          /\ scopes[Target(r)] \in SUBSET Scopes
    BY <1>1 DEF Slot, Target, TypeOK
  <1>3. CASE Check(r)
    <2> DEFINE st == [request[r] EXCEPT !.pc = "load",
                                        !.newScopes = ScopesToAssign(r)]
    <2>1. request' = [request EXCEPT ![r] = st]
      BY <1>1, <1>3 DEF Check, TypeOK, Slot
    <2>2. ScopesToAssign(r) \in SUBSET Scopes
      BY <1>1, <1>2 DEF ScopesToAssign, Slot
    <2>3. st \in Slot /\ st.pc = "load"
      BY <1>1, <2>2 DEF Slot, Pcs
    <2>4. request[r].giving /\ request[r].rank \notin Admins =>
            ScopesToAssign(r) \subseteq scopes[Target(r)] \cup scopes[request[r].by]
      BY <1>3 DEF Check, MayAssign, ScopesToAssign
    <2> HIDE DEF st
    <2>5. st.op = request[r].op /\ st.rank = request[r].rank
            /\ st.target = Target(r) /\ st.giving = request[r].giving
            /\ st.newScopes = ScopesToAssign(r)
            /\ st.saves = request[r].saves
      BY <1>1 DEF st, Target, Slot
    <2>6. SlotOK(st) /\ request[r].pc # "idle"
      BY <1>1, <1>3, <2>3, <2>5 DEF SlotOK, Check
    <2> QED BY <2>1, <2>3, <2>4, <2>5, <2>6
  <1>4. CASE Load(r)
    <2>1. request[r].pc = "load"
      BY <1>4 DEF Load
    <2>2. CASE LoadUpdate(r)
      <3> DEFINE l == request[r].newLevel
                 st == [request[r] EXCEPT
                          !.pc = "recheck",
                          !.copy = IF l = KeepLevel THEN level[Target(r)] ELSE l,
                          !.saves = IF l = KeepLevel THEN 1 ELSE 2]
      <3>1. request' = [request EXCEPT ![r] = st] /\ request[r].op = "update"
              /\ l \notin ForbiddenTo(request[r].rank)
        BY <1>1, <2>2 DEF LoadUpdate, TypeOK, Slot
      <3> DEFINE c == IF l = KeepLevel THEN level[Target(r)] ELSE l
                 n == IF l = KeepLevel THEN 1 ELSE 2
      <3>a. c \in Levels /\ n \in 0..2 /\ n > 0
        BY <1>1, <1>2 DEF Slot
      <3>b. st = [request[r] EXCEPT !.pc = "recheck", !.copy = c, !.saves = n]
        OBVIOUS
      <3> HIDE DEF c, n, st
      <3>2. /\ st \in Slot /\ st.pc = "recheck" /\ st.saves = n
            /\ st.op = request[r].op /\ st.rank = request[r].rank
            /\ st.target = Target(r) /\ st.giving = request[r].giving
            /\ st.newScopes = request[r].newScopes /\ st.newLevel = l
            /\ st.copy = c
        BY <1>1, <3>a, <3>b DEF Slot, Pcs, Target
      <3>3. c = level[Target(r)] \/ c = l
        BY DEF c
      <3> QED BY <1>1, <2>1, <3>1, <3>a, <3>2, <3>3 DEF SlotOK
    <2>3. CASE LoadDelete(r)
      <3> DEFINE st == [request[r] EXCEPT
                          !.pc = IF request[r].op = "block" THEN "save"
                                                            ELSE "remove",
                          !.copy = "blocked"]
      <3>1. request' = [request EXCEPT ![r] = st]
              /\ request[r].op \in {"block", "leave"}
        BY <1>1, <2>3 DEF LoadDelete, TypeOK, Slot
      <3>2. st \in Slot /\ st.pc \in {"save", "remove"} /\ st.copy = "blocked"
        BY <1>1 DEF Slot, Pcs, Levels
      <3>3. st.op = request[r].op /\ st.rank = request[r].rank
              /\ st.target = Target(r) /\ st.giving = request[r].giving
              /\ st.newScopes = request[r].newScopes
              /\ st.saves = request[r].saves
        BY <1>1 DEF Target, Slot
      <3> HIDE DEF st
      <3> QED BY <1>1, <2>1, <3>1, <3>2, <3>3 DEF SlotOK
    <2>4. CASE LoadPassword(r)
      <3> DEFINE st == [request[r] EXCEPT !.pc = "save",
                                          !.copy = level[Target(r)]]
      <3>1. request' = [request EXCEPT ![r] = st] /\ request[r].op = "password"
        BY <1>1, <2>4 DEF LoadPassword, TypeOK, Slot
      <3>2. /\ st \in Slot /\ st.pc = "save" /\ st.copy = level[Target(r)]
            /\ st.op = request[r].op /\ st.rank = request[r].rank
            /\ st.target = Target(r) /\ st.giving = request[r].giving
            /\ st.newScopes = request[r].newScopes
            /\ st.saves = request[r].saves
        BY <1>1, <1>2 DEF Target, Slot, Pcs
      <3> HIDE DEF st
      <3> QED BY <1>1, <2>1, <3>1, <3>2 DEF SlotOK
    <2>5. CASE LoadUnblock(r)
      <3> DEFINE st == [request[r] EXCEPT !.pc = "save", !.copy = "simpleuser"]
      <3>1. request' = [request EXCEPT ![r] = st] /\ request[r].op = "unblock"
        BY <1>1, <2>5 DEF LoadUnblock, TypeOK, Slot
      <3>2. /\ st \in Slot /\ st.pc = "save" /\ st.copy = "simpleuser"
            /\ st.op = request[r].op /\ st.rank = request[r].rank
            /\ st.target = Target(r) /\ st.giving = request[r].giving
            /\ st.newScopes = request[r].newScopes
            /\ st.saves = request[r].saves
        BY <1>1 DEF Target, Slot, Pcs, Levels
      <3> HIDE DEF st
      <3> QED BY <1>1, <2>1, <3>1, <3>2 DEF SlotOK
    <2> QED BY <1>4, <2>2, <2>3, <2>4, <2>5 DEF Load
  <1>5. CASE Recheck(r)
    <2> DEFINE st == [request[r] EXCEPT !.pc = "save"]
    <2>1. request' = [request EXCEPT ![r] = st] /\ request[r].pc = "recheck"
      BY <1>1, <1>5 DEF Recheck, TypeOK, Slot
    <2>2. /\ st \in Slot /\ st.pc = "save" /\ st.copy = request[r].copy
          /\ st.op = request[r].op /\ st.rank = request[r].rank
          /\ st.target = Target(r) /\ st.giving = request[r].giving
          /\ st.newScopes = request[r].newScopes
          /\ st.newLevel = request[r].newLevel
          /\ st.saves = request[r].saves
      BY <1>1 DEF Target, Slot, Pcs
    <2> HIDE DEF st
    <2> QED BY <1>1, <2>1, <2>2 DEF SlotOK
  <1> QED BY <1>3, <1>4, <1>5 DEF Reading

\* A slot after a save keeps what it asks for.
LEMMA AfterSaveStep ==
    ASSUME NEW s \in Slot,
           s.op = "block" => s.copy = "blocked",
           s.op = "unblock" => s.copy = "simpleuser"
    PROVE  \/ AfterSave(s) = IdleRequest
           \/ /\ AfterSave(s) \in Slot /\ SlotOK(AfterSave(s))
              /\ AfterSave(s).pc \in {"save", "assign"}
              /\ AfterSave(s).pc = "assign" => s.giving
              /\ AfterSave(s).op = s.op /\ AfterSave(s).rank = s.rank
              /\ AfterSave(s).target = s.target /\ AfterSave(s).copy = s.copy
              /\ AfterSave(s).newLevel = s.newLevel
              /\ AfterSave(s).giving = s.giving
              /\ AfterSave(s).newScopes = s.newScopes
  <1>1. CASE s.saves > 0
    BY <1>1 DEF AfterSave, Slot, SlotOK, Pcs
  <1>2. CASE ~(s.saves > 0) /\ s.giving
    BY <1>2 DEF AfterSave, Slot, SlotOK, Pcs
  <1>3. CASE ~(s.saves > 0) /\ ~s.giving
    BY <1>3 DEF AfterSave
  <1> QED BY <1>1, <1>2, <1>3

\* A writing step, or the end of the request, empties the slot or moves it on.
LEMMA WriteStep ==
    ASSUME TypeOK, NEW r \in Requests, Writing(r) \/ End(r)
    PROVE  /\ request[r].pc # "idle"
           /\ \/ request' = [request EXCEPT ![r] = IdleRequest]
              \/ \E s \in Slot :
                   /\ request' = [request EXCEPT ![r] = s]
                   /\ SlotOK(s)
                   /\ s.pc \in {"save", "unscope", "ungroup", "assign"}
                   /\ s.pc = "assign" => s.giving
                   /\ s.op = request[r].op /\ s.rank = request[r].rank
                   /\ s.target = Target(r) /\ s.copy = request[r].copy
                   /\ s.newLevel = request[r].newLevel
                   /\ s.giving = request[r].giving
                   /\ s.newScopes = request[r].newScopes
                   /\ request[r].pc \in {"save", "unscope", "ungroup"}
  <1>1. request[r].pc # "idle" /\ request[r] \in Slot /\ SlotOK(request[r])
    <2>1. request[r].pc # "idle"
      BY DEF Writing, Save, Unscope, Ungroup, Assign, Remove, End
    <2> QED BY <2>1, SlotTypes
  <1>2. CASE Save(r)
    <2> DEFINE n == request[r].saves - 1
               state == [request[r] EXCEPT !.saves = n]
    <2>1. request[r].pc = "save" /\ n \in 0..2
      BY <1>1, <1>2 DEF Save, Slot, SlotOK
    <2> HIDE DEF n
    <2>2. /\ state \in Slot /\ state.pc = "save"
          /\ state.op = request[r].op /\ state.rank = request[r].rank
          /\ state.target = Target(r) /\ state.copy = request[r].copy
          /\ state.newLevel = request[r].newLevel
          /\ state.giving = request[r].giving
          /\ state.newScopes = request[r].newScopes
      BY <1>1, <2>1 DEF Slot, Target
    <2>3. /\ state.op = "block" => state.copy = "blocked"
          /\ state.op = "unblock" => state.copy = "simpleuser"
      BY <1>1, <2>1, <2>2 DEF SlotOK
    <2>4. \/ Set(r, [state EXCEPT !.pc = "unscope"])
          \/ Set(r, AfterSave(state))
      BY <1>2 DEF Save, n
    <2> HIDE DEF state
    <2>5. CASE Set(r, AfterSave(state))
      <3> DEFINE st == AfterSave(state)
      <3>1. \/ st = IdleRequest
           \/ /\ st \in Slot /\ SlotOK(st)
              /\ st.pc \in {"save", "assign"}
              /\ st.pc = "assign" => request[r].giving
              /\ st.op = request[r].op /\ st.rank = request[r].rank
              /\ st.target = Target(r) /\ st.copy = request[r].copy
              /\ st.newLevel = request[r].newLevel
              /\ st.giving = request[r].giving
              /\ st.newScopes = request[r].newScopes
        BY <2>2, <2>3, AfterSaveStep
      <3>2. request' = [request EXCEPT ![r] = st]
        BY <2>5 DEF Set
      <3> HIDE DEF st
      <3> QED BY <1>1, <2>1, <3>1, <3>2
    <2>6. CASE Set(r, [state EXCEPT !.pc = "unscope"])
      <3> DEFINE st == [state EXCEPT !.pc = "unscope"]
      <3>1. /\ st \in Slot /\ st.pc = "unscope"
            /\ st.op = request[r].op /\ st.rank = request[r].rank
            /\ st.target = Target(r) /\ st.copy = request[r].copy
            /\ st.newLevel = request[r].newLevel
            /\ st.giving = request[r].giving
            /\ st.newScopes = request[r].newScopes
        BY <2>2 DEF Slot, Pcs
      <3>2. request' = [request EXCEPT ![r] = st]
        BY <2>6 DEF Set
      <3> HIDE DEF st
      <3>3. SlotOK(st)
        BY <1>1, <2>1, <3>1 DEF SlotOK
      <3> QED BY <1>1, <2>1, <3>1, <3>2, <3>3
    <2> QED BY <2>4, <2>5, <2>6
  <1>3. CASE Unscope(r)
    <2> DEFINE st == [request[r] EXCEPT !.pc = "ungroup"]
    <2>1. request' = [request EXCEPT ![r] = st] /\ request[r].pc = "unscope"
      BY <1>1, <1>3 DEF Unscope, TypeOK, Slot
    <2>2. /\ st \in Slot /\ st.pc = "ungroup"
          /\ st.op = request[r].op /\ st.rank = request[r].rank
          /\ st.target = Target(r) /\ st.copy = request[r].copy
          /\ st.newLevel = request[r].newLevel
          /\ st.giving = request[r].giving
          /\ st.newScopes = request[r].newScopes
      BY <1>1 DEF Slot, Pcs, Target
    <2> HIDE DEF st
    <2>3. SlotOK(st)
      BY <1>1, <2>1, <2>2 DEF SlotOK
    <2> QED BY <1>1, <2>1, <2>2, <2>3
  <1>4. CASE Ungroup(r)
    <2>1. Set(r, AfterSave(request[r])) /\ request[r].pc = "ungroup"
      BY <1>4 DEF Ungroup
    <2>2. /\ request[r].op = "block" => request[r].copy = "blocked"
          /\ request[r].op = "unblock" => request[r].copy = "simpleuser"
      BY <1>1, <2>1 DEF SlotOK
    <2> DEFINE st == AfterSave(request[r])
    <2>3. \/ st = IdleRequest
         \/ /\ st \in Slot /\ SlotOK(st)
            /\ st.pc \in {"save", "assign"}
            /\ st.pc = "assign" => request[r].giving
            /\ st.op = request[r].op /\ st.rank = request[r].rank
            /\ st.target = Target(r) /\ st.copy = request[r].copy
            /\ st.newLevel = request[r].newLevel
            /\ st.giving = request[r].giving
            /\ st.newScopes = request[r].newScopes
      BY <1>1, <2>2, AfterSaveStep DEF Target
    <2>4. request' = [request EXCEPT ![r] = st]
      BY <2>1 DEF Set
    <2> HIDE DEF st
    <2> QED BY <1>1, <2>1, <2>3, <2>4
  <1>5. CASE Assign(r) \/ Remove(r) \/ End(r)
    BY <1>1, <1>5 DEF Assign, Remove, End, Set
  <1> QED BY <1>2, <1>3, <1>4, <1>5 DEF Writing

-----------------------------------------------------------------------------
(***************************************************************************)
(* Type correctness.                                                       *)
(***************************************************************************)
LEMMA SlotUpdate ==
    ASSUME TypeOK, NEW r \in Requests,
           \/ request' = request
           \/ request' = [request EXCEPT ![r] = IdleRequest]
           \/ \E s \in Slot : SlotOK(s) /\ request' = [request EXCEPT ![r] = s]
    PROVE  /\ request' \in [Requests -> RequestState]
           /\ \A q \in Requests : request'[q].pc = "idle" \/ SlotOK(request'[q])
  <1>1. Slot \subseteq RequestState
    BY DEF Slot, RequestState, Pcs
  <1>2. \A q \in Requests : request[q].pc = "idle" \/ SlotOK(request[q])
    BY SlotTypes
  <1>3. IdleRequest \in RequestState /\ IdleRequest.pc = "idle"
    BY DEF RequestState, IdleRequest
  <1>4. request \in [Requests -> RequestState]
    BY DEF TypeOK
  <1> QED BY <1>1, <1>2, <1>3, <1>4

LEMMA TypeStep ==
    ASSUME TypeOK, [Next]_vars
    PROVE  TypeOK'
  <1> USE DEF TypeOK
  <1>1. ASSUME NEW r \in Requests, Starting(r)
        PROVE  TypeOK'
    <2>1. PICK s \in Slot : Start(r, s) /\ SlotOK(s)
      BY <1>1, StartStep
    <2>2. /\ request' = [request EXCEPT ![r] = s] /\ started' \in Nat
          /\ UNCHANGED <<level, scopes, grouped, history>>
      BY <2>1 DEF Start, Set
    <2> QED BY <2>1, <2>2, SlotUpdate DEF SlotOK, history
  <1>2. ASSUME NEW r \in Requests, Reading(r)
        PROVE  TypeOK'
    <2>1. PICK s \in Slot : SlotOK(s) /\ request' = [request EXCEPT ![r] = s]
      BY <1>2, ReadStep
    <2>2. UNCHANGED <<level, scopes, grouped, started, history>>
      BY <1>2 DEF Reading
    <2> QED BY <2>1, <2>2, SlotUpdate DEF SlotOK, history
  <1>3. ASSUME NEW r \in Requests, Writing(r) \/ End(r)
        PROVE  TypeOK'
    <2>1. request[r].pc # "idle" /\ request[r] \in Slot
      BY <1>3, WriteStep, SlotTypes
    <2>2. /\ Target(r) \in Users /\ request[r].copy \in Levels
          /\ request[r].newScopes \in SUBSET Scopes
          /\ request[r].newLevel # KeepLevel => request[r].newLevel \in Levels
      BY <2>1 DEF Slot, Target
    <2>3. /\ request' \in [Requests -> RequestState]
          /\ \A q \in Requests : request'[q].pc = "idle" \/ SlotOK(request'[q])
      BY <1>3, WriteStep, SlotUpdate
    <2>4. /\ level' \in [Users -> Levels] /\ scopes' \in [Users -> SUBSET Scopes]
          /\ grouped' \subseteq Users /\ disturbed' \subseteq Users
          /\ started' \in Nat /\ appointed' \subseteq Users \X Levels
          /\ introduced' \subseteq Scopes
      <3>1. CASE Save(r)
        <4>1. level' = [level EXCEPT ![Target(r)] = request[r].copy]
          BY <2>1, <3>1 DEF Save, Slot
        <4>2. disturbed' \subseteq Users /\ appointed' \subseteq Users \X Levels
          BY <2>1, <2>2, <3>1 DEF Save, Slot
        <4> QED BY <2>2, <3>1, <4>1, <4>2 DEF Save
      <3>2. CASE Unscope(r)
        BY <2>2, <3>2 DEF Unscope, history
      <3>3. CASE Ungroup(r)
        BY <2>2, <3>3 DEF Ungroup, history
      <3>4. CASE Assign(r)
        BY <2>2, <3>4 DEF Assign
      <3>5. CASE Remove(r)
        BY <2>2, <3>5 DEF Remove, history
      <3>6. CASE End(r)
        BY <2>2, <3>6 DEF End
      <3> QED BY <1>3, <3>1, <3>2, <3>3, <3>4, <3>5, <3>6 DEF Writing
    <2> QED BY <2>3, <2>4 DEF SlotOK
  <1>4. ASSUME NEW u \in Users, JoinGroup(u)
        PROVE  TypeOK'
    BY <1>4 DEF JoinGroup
  <1>5. CASE UNCHANGED vars
    BY <1>5 DEF vars, history
  <1> QED BY <1>1, <1>2, <1>3, <1>4, <1>5 DEF Next

\* Every variable keeps its type, and a row about to be written has the level
\* that its operation is for (block_user, unblock_users).
THEOREM TypeCorrect == Spec => []TypeOK
  <1>1. Init => TypeOK
    BY ConstantsAssumption DEF Init, TypeOK, RequestState, IdleRequest
  <1> QED BY <1>1, TypeStep, PTL DEF Spec

-----------------------------------------------------------------------------
(***************************************************************************)
(* Appointments.                                                           *)
(***************************************************************************)

\* The conjunct of AppointInv about one slot, where a is appointed.
SlotAppointed(s, a) ==
    /\ s.op = "update" => s.rank \in Staff
    /\ s.copy \in Admins /\ s.pc \notin {"check", "load"} =>
         \/ <<s.target, s.copy>> \in a
         \/ s.rank = "superuser" /\ s.newLevel = s.copy

\* Staff below the superuser may set no level among the admins.
LEMMA ForbiddenLevels ==
    ASSUME NEW rank \in Staff, NEW l \in Admins, l \notin ForbiddenTo(rank)
    PROVE  rank = "superuser"
  BY DEF Staff, Admins, ForbiddenTo

LEMMA AppointStep ==
    ASSUME TypeOK, AppointInv, [Next]_vars
    PROVE  AppointInv'
  <1>1. \A q \in Requests :
          request[q].pc # "idle" => SlotAppointed(request[q], appointed)
    BY DEF AppointInv, SlotAppointed, Target
  <1>2. /\ \A u \in Users : level[u] \in Admins => <<u, level[u]>> \in appointed
        /\ level \in [Users -> Levels] /\ request \in [Requests -> RequestState]
    BY DEF AppointInv, OnlySuperusersAppoint, TypeOK
  <1>3. SUFFICES
          /\ \A u \in Users : level'[u] \in Admins => <<u, level'[u]>> \in appointed'
          /\ \A q \in Requests :
                request'[q].pc # "idle" => SlotAppointed(request'[q], appointed')
    BY DEF AppointInv, SlotAppointed, Target, OnlySuperusersAppoint
  <1>4. ASSUME NEW r \in Requests, Starting(r)
        PROVE  /\ level' = level /\ appointed' = appointed
               /\ \E s \in Slot : /\ request' = [request EXCEPT ![r] = s]
                                  /\ SlotAppointed(s, appointed)
    <2>1. PICK s \in Slot :
            /\ Start(r, s)
            /\ s.pc \in {"check", "load", "save"}
            /\ s.op = "update" => s.pc = "check" /\ s.rank \in Staff
            /\ s.pc = "save" => s.copy = level[s.target]
      BY <1>4, StartStep
    <2>2. s.target \in Users
      BY DEF Slot
    <2>3. SlotAppointed(s, appointed)
      BY <1>2, <2>1, <2>2 DEF SlotAppointed
    <2> QED BY <2>1, <2>3 DEF Start, Set, history
  <1>5. ASSUME NEW r \in Requests, Reading(r)
        PROVE  /\ level' = level /\ appointed' = appointed
               /\ \E s \in Slot : /\ request' = [request EXCEPT ![r] = s]
                                  /\ SlotAppointed(s, appointed)
    <2>1. PICK s \in Slot :
             /\ request' = [request EXCEPT ![r] = s]
             /\ request[r].pc # "idle"
             /\ s.op = request[r].op /\ s.rank = request[r].rank
             /\ s.target = Target(r)
             /\ s.pc = "load" \/ s.copy = "blocked" \/ s.copy = "simpleuser"
                  \/ s.copy = level[Target(r)]
                  \/ /\ s.op = "update" /\ s.newLevel = s.copy
                     /\ s.copy \notin ForbiddenTo(s.rank)
                  \/ /\ request[r].pc = "recheck"
                     /\ s.copy = request[r].copy
                     /\ s.newLevel = request[r].newLevel
      BY <1>5, ReadStep
    <2>2. SlotAppointed(request[r], appointed)
      BY <1>1, <2>1
    <2>3. s.op = "update" => s.rank \in Staff
      BY <2>1, <2>2 DEF SlotAppointed
    <2>4. ASSUME s.copy \in Admins, s.pc # "load"
          PROVE  \/ <<s.target, s.copy>> \in appointed
                 \/ s.rank = "superuser" /\ s.newLevel = s.copy
      <3>1. CASE s.copy = level[Target(r)]
        BY <1>2, <2>1, <2>4, <3>1 DEF Slot
      <3>2. CASE /\ s.op = "update" /\ s.newLevel = s.copy
                 /\ s.copy \notin ForbiddenTo(s.rank)
        BY <2>3, <2>4, <3>2, ForbiddenLevels
      <3>3. CASE /\ request[r].pc = "recheck" /\ s.copy = request[r].copy
                 /\ s.newLevel = request[r].newLevel
        BY <2>1, <2>2, <2>4, <3>3 DEF SlotAppointed, Target
      <3> QED BY <2>1, <2>4, <3>1, <3>2, <3>3 DEF Admins
    <2>5. SlotAppointed(s, appointed)
      BY <2>3, <2>4 DEF SlotAppointed
    <2> QED BY <1>5, <2>1, <2>5 DEF Reading, history
  <1>6. ASSUME NEW r \in Requests, Writing(r) \/ End(r)
        PROVE  /\ appointed \subseteq appointed'
               /\ \/ level' = level
                  \/ /\ Target(r) \in Users
                     /\ level' = [level EXCEPT ![Target(r)] = request[r].copy]
                     /\ request[r].copy \in Admins =>
                          <<Target(r), request[r].copy>> \in appointed'
               /\ \/ request' = [request EXCEPT ![r] = IdleRequest]
                  \/ \E s \in Slot : /\ request' = [request EXCEPT ![r] = s]
                                     /\ SlotAppointed(s, appointed)
    <2>1. request[r].pc # "idle" /\ request[r] \in Slot
      BY <1>6, WriteStep, SlotTypes
    <2>2. SlotAppointed(request[r], appointed)
      BY <1>1, <2>1
    <2>3. \/ request' = [request EXCEPT ![r] = IdleRequest]
          \/ \E s \in Slot : /\ request' = [request EXCEPT ![r] = s]
                             /\ SlotAppointed(s, appointed)
      <3>1. CASE request' = [request EXCEPT ![r] = IdleRequest]
        BY <3>1
      <3>2. ASSUME NEW s \in Slot,
                   /\ request' = [request EXCEPT ![r] = s]
                   /\ s.op = request[r].op /\ s.rank = request[r].rank
                   /\ s.target = Target(r) /\ s.copy = request[r].copy
                   /\ s.newLevel = request[r].newLevel
                   /\ request[r].pc \in {"save", "unscope", "ungroup"}
            PROVE  SlotAppointed(s, appointed)
        BY <2>2, <3>2 DEF SlotAppointed, Target
      <3> QED BY <1>6, <3>1, <3>2, WriteStep
    <2>4. CASE Save(r)
      <3>1. level' = [level EXCEPT ![Target(r)] = request[r].copy]
        BY <2>1, <2>4 DEF Save, Slot
      <3>2. appointed' = IF request[r].rank = "superuser"
                              /\ request[r].newLevel # KeepLevel
                         THEN appointed \cup {<<Target(r), request[r].newLevel>>}
                         ELSE appointed
        BY <2>1, <2>4 DEF Save, Slot
      <3>3. Target(r) \in Users /\ request[r].copy # KeepLevel
        BY <2>1, ConstantsAssumption DEF Slot, Target
      <3>4. request[r].copy \in Admins =>
              <<Target(r), request[r].copy>> \in appointed'
        BY <2>2, <2>4, <3>2, <3>3 DEF SlotAppointed, Save, Target
      <3> QED BY <2>3, <3>1, <3>2, <3>3, <3>4
    <2>5. CASE ~Save(r)
      BY <1>6, <2>3, <2>5
         DEF Writing, Unscope, Ungroup, Assign, Remove, End, history
    <2> QED BY <2>4, <2>5
  <1>7. CASE \E u \in Users : JoinGroup(u)
    BY <1>1, <1>2, <1>7 DEF JoinGroup
  <1>8. CASE UNCHANGED vars
    BY <1>1, <1>2, <1>8 DEF vars, history
  <1>9. \A q \in Requests :
          request[q].pc # "idle" /\ appointed \subseteq appointed'
            => SlotAppointed(request[q], appointed')
    BY <1>1 DEF SlotAppointed
  <1>10. \A s \in Slot : SlotAppointed(s, appointed) /\ appointed \subseteq appointed'
            => SlotAppointed(s, appointed')
    BY DEF SlotAppointed
  <1>11. CASE \E r \in Requests : Starting(r) \/ Reading(r)
    BY <1>2, <1>4, <1>5, <1>9, <1>10, <1>11
  <1>12. CASE \E r \in Requests : Writing(r) \/ End(r)
    <2>1. PICK r \in Requests : Writing(r) \/ End(r)
      BY <1>12
    <2>2. \A u \in Users : level'[u] \in Admins => <<u, level'[u]>> \in appointed'
      BY <1>2, <1>6, <2>1
    <2>3. \A q \in Requests :
            request'[q].pc # "idle" => SlotAppointed(request'[q], appointed')
      <3>1. appointed \subseteq appointed'
        BY <1>6, <2>1
      <3>2. CASE request' = [request EXCEPT ![r] = IdleRequest]
        BY <1>2, <1>9, <3>1, <3>2 DEF IdleRequest
      <3>3. ASSUME NEW s \in Slot, request' = [request EXCEPT ![r] = s],
                   SlotAppointed(s, appointed)
            PROVE  \A q \in Requests : request'[q].pc # "idle" =>
                      SlotAppointed(request'[q], appointed')
        BY <1>2, <1>9, <1>10, <3>1, <3>3
      <3> QED BY <1>6, <2>1, <3>2, <3>3
    <2> QED BY <2>2, <2>3
  <1> QED BY <1>7, <1>8, <1>11, <1>12 DEF Next

\* No update, self-update or stale row makes a user an admin or a superuser,
\* unless a request authenticated as a superuser once gave that level
\* (validate_level and the row that user.save() writes).
THEOREM AppointmentsAreSuperusers == Spec => []OnlySuperusersAppoint
  <1>1. Init => AppointInv
    <2>1. Init => \A u \in Users : <<u, level[u]>> \in appointed
      BY DEF Init
    <2>2. Init => \A r \in Requests : request[r].pc = "idle"
      BY DEF Init, IdleRequest
    <2> QED BY <2>1, <2>2 DEF AppointInv, OnlySuperusersAppoint
  <1>2. AppointInv => OnlySuperusersAppoint
    BY DEF AppointInv
  <1> QED BY <1>1, <1>2, AppointStep, TypeCorrect, PTL DEF Spec

-----------------------------------------------------------------------------
(***************************************************************************)
(* The spread of scopes.                                                   *)
(***************************************************************************)

\* The conjunct of SpreadInv about one slot, where i is introduced.
SlotChecked(s, i) ==
    /\ s.pc = "assign" => s.giving
    /\ s.pc \notin {"idle", "check"} /\ s.giving /\ s.rank \notin Admins =>
         s.newScopes \subseteq i

LEMMA SpreadStep ==
    ASSUME TypeOK, SpreadInv, [Next]_vars
    PROVE  SpreadInv'
  <1>1. \A q \in Requests :
          request[q].pc # "idle" => SlotChecked(request[q], introduced)
    BY DEF SpreadInv, SlotChecked
  <1>2. /\ \A u \in Users : scopes[u] \subseteq introduced
        /\ scopes \in [Users -> SUBSET Scopes]
        /\ request \in [Requests -> RequestState]
    BY DEF SpreadInv, ScopesSpread, TypeOK
  <1>3. SUFFICES
          /\ \A u \in Users : scopes'[u] \subseteq introduced'
          /\ \A q \in Requests :
                request'[q].pc # "idle" => SlotChecked(request'[q], introduced')
    BY DEF SpreadInv, SlotChecked, ScopesSpread
  <1>4. ASSUME NEW r \in Requests, Starting(r)
        PROVE  /\ scopes' = scopes /\ introduced' = introduced
               /\ \E s \in Slot : /\ request' = [request EXCEPT ![r] = s]
                                  /\ SlotChecked(s, introduced)
    <2>1. PICK s \in Slot : /\ Start(r, s)
                            /\ s.pc \in {"check", "load", "save"}
                            /\ s.giving => s.pc = "check"
      BY <1>4, StartStep
    <2>2. s.giving \in BOOLEAN
      BY DEF Slot
    <2>3. SlotChecked(s, introduced)
      BY <2>1, <2>2 DEF SlotChecked
    <2>4. Start(r, s)
      BY <2>1
    <2> QED BY <2>3, <2>4 DEF Start, Set, history
  <1>5. ASSUME NEW r \in Requests, Reading(r)
        PROVE  /\ scopes' = scopes /\ introduced' = introduced
               /\ \E s \in Slot : /\ request' = [request EXCEPT ![r] = s]
                                  /\ SlotChecked(s, introduced)
    <2>1. PICK s \in Slot :
             /\ request' = [request EXCEPT ![r] = s]
             /\ request[r].pc # "idle"
             /\ s.pc \in {"load", "recheck", "save", "remove"}
             /\ s.rank = request[r].rank /\ s.giving = request[r].giving
             /\ \/ request[r].pc # "check" /\ s.newScopes = request[r].newScopes
                \/ s.giving /\ s.rank \notin Admins =>
                     s.newScopes \subseteq
                        scopes[Target(r)] \cup scopes[request[r].by]
      BY <1>5, ReadStep
    <2>2. SlotChecked(request[r], introduced)
      BY <1>1, <2>1
    <2>3. Target(r) \in Users /\ request[r].by \in Users
      BY <2>1, SlotTypes DEF Slot, Target
    <2>4. SlotChecked(s, introduced)
      BY <1>2, <2>1, <2>2, <2>3 DEF SlotChecked
    <2> QED BY <1>5, <2>1, <2>4 DEF Reading, history
  <1>6. ASSUME NEW r \in Requests, Writing(r) \/ End(r)
        PROVE  /\ introduced \subseteq introduced'
               /\ \A u \in Users : scopes'[u] \subseteq introduced'
               /\ \/ request' = [request EXCEPT ![r] = IdleRequest]
                  \/ \E s \in Slot : /\ request' = [request EXCEPT ![r] = s]
                                     /\ SlotChecked(s, introduced)
    <2>1. request[r].pc # "idle" /\ request[r] \in Slot
      BY <1>6, WriteStep, SlotTypes
    <2>2. SlotChecked(request[r], introduced)
      BY <1>1, <2>1
    <2>3. \/ request' = [request EXCEPT ![r] = IdleRequest]
          \/ \E s \in Slot : /\ request' = [request EXCEPT ![r] = s]
                             /\ SlotChecked(s, introduced)
      <3>1. CASE request' = [request EXCEPT ![r] = IdleRequest]
        BY <3>1
      <3>2. ASSUME NEW s \in Slot,
                   /\ request' = [request EXCEPT ![r] = s]
                   /\ s.pc = "assign" => s.giving
                   /\ s.rank = request[r].rank
                   /\ s.giving = request[r].giving
                   /\ s.newScopes = request[r].newScopes
                   /\ request[r].pc \in {"save", "unscope", "ungroup"}
            PROVE  SlotChecked(s, introduced)
        BY <2>2, <3>2 DEF SlotChecked
      <3> QED BY <1>6, <3>1, <3>2, WriteStep
    <2>4. CASE Assign(r)
      <3>1. /\ request[r].pc = "assign"
            /\ scopes' = [scopes EXCEPT ![Target(r)] = request[r].newScopes]
            /\ introduced' = IF request[r].rank \in Admins
                             THEN introduced \cup request[r].newScopes
                             ELSE introduced
        BY <2>4 DEF Assign
      <3>2. request[r].newScopes \subseteq introduced'
        BY <2>2, <3>1 DEF SlotChecked
      <3> QED BY <1>2, <2>3, <3>1, <3>2
    <2>5. CASE Unscope(r) \/ Remove(r)
      BY <1>2, <2>3, <2>5 DEF Unscope, Remove, history
    <2>6. CASE Save(r) \/ Ungroup(r) \/ End(r)
      BY <1>2, <2>3, <2>6 DEF Save, Ungroup, End, history
    <2> QED BY <1>6, <2>4, <2>5, <2>6 DEF Writing
  <1>7. CASE \E u \in Users : JoinGroup(u)
    BY <1>1, <1>2, <1>7 DEF JoinGroup
  <1>8. CASE UNCHANGED vars
    BY <1>1, <1>2, <1>8 DEF vars, history
  <1>9. \A s : SlotChecked(s, introduced) /\ introduced \subseteq introduced'
          => SlotChecked(s, introduced')
    BY DEF SlotChecked
  <1>10. CASE \E r \in Requests : Starting(r) \/ Reading(r)
    BY <1>1, <1>2, <1>4, <1>5, <1>10
  <1>11. CASE \E r \in Requests : Writing(r) \/ End(r)
    <2>1. PICK r \in Requests : Writing(r) \/ End(r)
      BY <1>11
    <2>2. /\ introduced \subseteq introduced'
          /\ \A u \in Users : scopes'[u] \subseteq introduced'
      BY <1>6, <2>1
    <2>3. CASE request' = [request EXCEPT ![r] = IdleRequest]
      BY <1>1, <1>2, <1>9, <2>2, <2>3 DEF IdleRequest
    <2>4. ASSUME NEW s \in Slot, request' = [request EXCEPT ![r] = s],
                 SlotChecked(s, introduced)
          PROVE  \A q \in Requests : request'[q].pc # "idle" =>
                    SlotChecked(request'[q], introduced')
      BY <1>1, <1>2, <1>9, <2>2, <2>4
    <2> QED BY <1>6, <2>1, <2>2, <2>3, <2>4
  <1> QED BY <1>7, <1>8, <1>10, <1>11 DEF Next

\* Managers pass scopes on and bring none in, although the check of
\* handle_divider_update and the assignment of serializer.save() are apart.
THEOREM ScopesOnlySpread == Spec => []ScopesSpread
  <1>1. Init => SpreadInv
    <2>1. Init => ScopesSpread
      BY DEF Init, ScopesSpread
    <2>2. Init => \A r \in Requests : request[r].pc = "idle"
      BY DEF Init, IdleRequest
    <2> QED BY <2>1, <2>2 DEF SpreadInv
  <1>2. SpreadInv => ScopesSpread
    BY DEF SpreadInv
  <1> QED BY <1>1, <1>2, SpreadStep, TypeCorrect, PTL DEF Spec

-----------------------------------------------------------------------------
(***************************************************************************)
(* Blocking.                                                               *)
(***************************************************************************)

\* What a step may do to the user it is about leaves the others as they were.
LEMMA OthersStripped ==
    ASSUME TypeOK, StripInv, NEW r \in Requests, NEW u \in Users,
           request[r].pc \in {"unscope", "ungroup"} => Target(r) # u,
           \A q \in Requests : q # r => request'[q] = request[q],
           u \notin disturbed,
           level'[u] = "blocked", level'[u] = level[u],
           scopes'[u] \subseteq scopes[u], u \in grouped' => u \in grouped
    PROVE  /\ \/ scopes'[u] = {}
              \/ \E q \in Requests : request'[q].pc = "unscope" /\ Target(q)' = u
           /\ u \notin grouped' \/ Cleaning(u)' # {}
  <1>1. /\ \/ scopes[u] = {}
           \/ \E q \in Requests : request[q].pc = "unscope" /\ Target(q) = u
        /\ u \notin grouped \/ Cleaning(u) # {}
    BY DEF StripInv
  <1>2. ASSUME NEW q \in Requests, request[q].pc \in {"unscope", "ungroup"},
               Target(q) = u
        PROVE  request'[q] = request[q] /\ Target(q)' = u
    BY <1>2 DEF Target
  <1> QED BY <1>1, <1>2 DEF Cleaning

LEMMA StripStep ==
    ASSUME TypeOK, StripInv, [Next]_vars
    PROVE  StripInv'
  <1>1. SUFFICES ASSUME NEW u \in Users, u \notin disturbed', level'[u] = "blocked"
        PROVE  /\ \/ scopes'[u] = {}
                  \/ \E q \in Requests :
                        request'[q].pc = "unscope" /\ Target(q)' = u
               /\ u \notin grouped' \/ Cleaning(u)' # {}
    BY DEF StripInv
  <1>2. /\ level \in [Users -> Levels] /\ scopes \in [Users -> SUBSET Scopes]
        /\ request \in [Requests -> RequestState]
    BY DEF TypeOK
  <1> DEFINE Goal ==
        /\ \/ scopes'[u] = {}
           \/ \E q \in Requests : request'[q].pc = "unscope" /\ Target(q)' = u
        /\ u \notin grouped' \/ Cleaning(u)' # {}
  <1>3. ASSUME NEW r \in Requests, Starting(r) \/ Reading(r)
        PROVE  Goal
    <2>1. /\ UNCHANGED <<level, scopes, grouped, disturbed>>
          /\ request[r].pc \notin {"unscope", "ungroup"}
          /\ \E s \in Slot : request' = [request EXCEPT ![r] = s]
      <3>1. CASE Starting(r)
        BY <3>1, StartStep DEF Start, Set, history
      <3>2. CASE Reading(r)
        BY <3>2, ReadStep DEF Reading, Check, Load, Recheck, history
      <3> QED BY <1>3, <3>1, <3>2
    <2>2. \A q \in Requests : q # r => request'[q] = request[q]
      BY <1>2, <2>1
    <2> QED BY <1>1, <2>1, <2>2, OthersStripped
  <1>4. ASSUME NEW r \in Requests, Writing(r) \/ End(r)
        PROVE  Goal
    <2>1. /\ request[r].pc # "idle" /\ request[r] \in Slot
          /\ \A q \in Requests : q # r => request'[q] = request[q]
      BY <1>2, <1>4, WriteStep, SlotTypes
    <2>2. Target(r) \in Users
      BY <2>1 DEF Slot, Target
    <2>3. CASE u # Target(r)
      <3>1. /\ u \notin disturbed /\ level'[u] = level[u]
            /\ scopes'[u] = scopes[u]
            /\ u \in grouped' => u \in grouped
        <4>1. CASE Save(r)
          BY <1>1, <1>2, <2>2, <2>3, <4>1 DEF Save
        <4>2. CASE Unscope(r)
          BY <1>1, <1>2, <2>2, <2>3, <4>2 DEF Unscope, history
        <4>3. CASE Ungroup(r)
          BY <1>1, <1>2, <2>2, <2>3, <4>3 DEF Ungroup, history
        <4>4. CASE Assign(r)
          BY <1>1, <1>2, <2>2, <2>3, <4>4 DEF Assign
        <4>5. CASE Remove(r)
          BY <1>1, <1>2, <2>2, <2>3, <4>5 DEF Remove, history
        <4>6. CASE End(r)
          BY <1>1, <1>2, <2>2, <2>3, <4>6 DEF End
        <4> QED BY <1>4, <4>1, <4>2, <4>3, <4>4, <4>5, <4>6 DEF Writing
      <3> QED BY <1>1, <2>1, <2>3, <3>1, OthersStripped
    <2>4. CASE u = Target(r)
      <3>1. CASE Save(r)
        <4>1. level' = [level EXCEPT ![u] = request[r].copy]
          BY <2>1, <2>4, <3>1 DEF Save, Slot
        <4>2. request[r].copy = "blocked"
          BY <1>1, <1>2, <4>1
        <4> DEFINE st == [request[r] EXCEPT !.saves = @ - 1, !.pc = "unscope"]
        <4>3. request' = [request EXCEPT ![r] = st]
          BY <2>1, <3>1, <4>2 DEF Save, Set, Slot
        <4>4. st.pc = "unscope" /\ st.target = u
          BY <2>1, <2>4 DEF Slot, Target
        <4> HIDE DEF st
        <4>5. request'[r].pc = "unscope" /\ Target(r)' = u
          BY <1>2, <4>3, <4>4 DEF Target
        <4> QED BY <4>5 DEF Cleaning
      <3>2. CASE Unscope(r)
        <4>1. scopes'[u] = {}
          BY <1>2, <2>4, <3>2 DEF Unscope
        <4> DEFINE st == [request[r] EXCEPT !.pc = "ungroup"]
        <4>2. request' = [request EXCEPT ![r] = st]
          BY <1>2, <2>1, <3>2 DEF Unscope, Slot
        <4>3. st.pc = "ungroup" /\ st.target = u
          BY <2>1, <2>4 DEF Slot, Target
        <4> HIDE DEF st
        <4>4. request'[r].pc = "ungroup" /\ Target(r)' = u
          BY <1>2, <4>2, <4>3 DEF Target
        <4> QED BY <4>1, <4>4 DEF Cleaning
      <3>3. CASE Ungroup(r)
        <4>1. /\ u \notin grouped' /\ u \notin disturbed
              /\ level[u] = "blocked" /\ scopes' = scopes
              /\ request[r].pc = "ungroup"
          BY <1>1, <2>4, <3>3 DEF Ungroup, history
        <4>2. \/ scopes[u] = {}
              \/ \E q \in Requests : request[q].pc = "unscope" /\ Target(q) = u
          BY <4>1 DEF StripInv
        <4>3. \A q \in Requests : request[q].pc = "unscope" =>
                  request'[q] = request[q] /\ Target(q)' = Target(q)
          BY <2>1, <4>1 DEF Target
        <4> QED BY <4>1, <4>2, <4>3
      <3>4. CASE Assign(r)
        BY <1>1, <2>4, <3>4 DEF Assign, Active
      <3>5. CASE Remove(r)
        <4>1. /\ u \notin disturbed /\ level[u] = "blocked"
              /\ scopes'[u] \subseteq scopes[u] /\ grouped' = grouped
              /\ request[r].pc = "remove"
          BY <1>1, <1>2, <2>4, <3>5 DEF Remove, history
        <4>2. /\ \/ scopes[u] = {}
                 \/ \E q \in Requests : request[q].pc = "unscope" /\ Target(q) = u
              /\ u \notin grouped \/ Cleaning(u) # {}
          BY <4>1 DEF StripInv
        <4>3. \A q \in Requests : request[q].pc \in {"unscope", "ungroup"} =>
                  request'[q] = request[q] /\ Target(q)' = Target(q)
          BY <2>1, <4>1 DEF Target
        <4> QED BY <4>1, <4>2, <4>3 DEF Cleaning
      <3>6. CASE End(r)
        <4>1. /\ u \notin disturbed /\ level[u] = "blocked"
              /\ scopes' = scopes /\ grouped' = grouped
              /\ request[r].pc \notin {"unscope", "ungroup"}
          BY <1>1, <2>4, <3>6 DEF End
        <4>2. /\ \/ scopes[u] = {}
                 \/ \E q \in Requests : request[q].pc = "unscope" /\ Target(q) = u
              /\ u \notin grouped \/ Cleaning(u) # {}
          BY <4>1 DEF StripInv
        <4>3. \A q \in Requests : request[q].pc \in {"unscope", "ungroup"} =>
                  request'[q] = request[q] /\ Target(q)' = Target(q)
          BY <2>1, <4>1 DEF Target
        <4> QED BY <4>1, <4>2, <4>3 DEF Cleaning
      <3> QED BY <1>4, <3>1, <3>2, <3>3, <3>4, <3>5, <3>6 DEF Writing
    <2> QED BY <2>3, <2>4
  <1>5. ASSUME NEW v \in Users, JoinGroup(v)
        PROVE  Goal
    <2>1. /\ u \notin disturbed /\ level[u] = "blocked" /\ scopes' = scopes
          /\ u \in grouped' => u \in grouped
          /\ request' = request
      BY <1>1, <1>5 DEF JoinGroup, Active
    <2> QED BY <2>1 DEF StripInv, Cleaning, Target
  <1>6. CASE UNCHANGED vars
    <2>1. /\ u \notin disturbed /\ level[u] = "blocked" /\ scopes' = scopes
          /\ grouped' = grouped /\ request' = request
      BY <1>1, <1>6 DEF vars, history
    <2> QED BY <2>1 DEF StripInv, Cleaning, Target
  <1>7. CASE Next
    <2>1. CASE \E r \in Requests : Starting(r) \/ Reading(r)
      BY <1>3, <2>1
    <2>2. CASE \E r \in Requests : Writing(r) \/ End(r)
      BY <1>4, <2>2
    <2> QED BY <1>5, <1>7, <2>1, <2>2 DEF Next
  <1> QED BY <1>6, <1>7

\* on_post_save strips every user that is blocked, whichever request blocks and
\* whatever the others write, but for an assignment that comes afterwards.
THEOREM BlockingStrips == Spec => []BlockedStripped
  <1>1. Init => StripInv
    BY ConstantsAssumption DEF Init, StripInv
  <1>2. StripInv => BlockedStripped
    BY DEF StripInv, BlockedStripped, Cleaning
  <1> QED BY <1>1, <1>2, StripStep, TypeCorrect, PTL DEF Spec
=============================================================================
