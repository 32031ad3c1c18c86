--------------------------- MODULE PasswordsProofs ---------------------------
(***************************************************************************)
(* Proofs about Passwords, for any number of tokens, process keys and      *)
(* requests that run at the same time, and any durations.                  *)
(***************************************************************************)
EXTENDS Passwords, FiniteSetTheorems, TLAPS

-----------------------------------------------------------------------------
(***************************************************************************)
(* What a request holds.                                                   *)
(***************************************************************************)

\* Its fields, where it will use them.
GoodSlot(q) ==
    /\ q \in SlotState
    /\ q.flow \in {"own", "profile", "command"} \/ q.pc = "password" => q.row \in Row
    /\ q.flow = "process" => q.key \in ProcessKeys
    /\ q.flow = "token" \/ q.pc \in {"mail", "format"} => q.key \in Tokens
    /\ q.flow = "register" \/ q.pc \in {"confirmation", "link"} =>
           q.key \in Tokens \cup {NoKey}
    /\ q.pc \in {"link", "sent", "click"} => q.mine \in Confirmation
    /\ q.flow \in {"token", "own", "other"} => q.password \in Secrets

SlotsOK == slot \in [Slots -> SlotState] /\ \A s \in Slots : GoodSlot(slot[s])

\* A request that works on the confirmation finds one.
OnConfirmation(q) == q.pc \in {"link", "sent"} \/ q.flow = "confirm"
ConfirmationKept ==
    linked \/ clicked \/ (\E s \in Slots : OnConfirmation(slot[s]))
        => confirmation \in Confirmation

ClockOK ==
    /\ now \in Nat /\ requests \in Nat
    /\ allowReuse \in BOOLEAN /\ mustConfirm \in BOOLEAN
UserOK == user \in Row \cup {NoRow} /\ chosen \in Passwords /\ covered \in BOOLEAN
ConfirmationOK ==
    /\ confirmation \in Confirmation \cup {NoRow}
    /\ linked \in BOOLEAN /\ clicked \in BOOLEAN /\ failed \in BOOLEAN
TokensOK ==
    /\ tokens \in [Tokens -> {"none", "live", "deleted"}]
    /\ expiry \in [Tokens -> Nat] /\ told \subseteq Tokens
    /\ uses \in [Tokens -> Nat] /\ crossed \in [Tokens -> Nat]
ProcessOK ==
    /\ processUser \in BOOLEAN /\ processTokens \subseteq ProcessKeys
    /\ processCrossed \in Nat

DataOK == ClockOK /\ UserOK /\ ConfirmationOK /\ TokensOK /\ ProcessOK

Base == SlotsOK /\ ConfirmationKept /\ DataOK

LEMMA BaseType == Base => TypeOK
  BY DEF Base, SlotsOK, DataOK, ClockOK, UserOK, ConfirmationOK, TokensOK,
      ProcessOK, TypeOK

LEMMA IdleGood == GoodSlot(Idle) /\ ~OnConfirmation(Idle)
  BY DEF GoodSlot, SlotState, Idle, OnConfirmation

LEMMA IdleFields == /\ Idle.flow = "idle" /\ Idle.pc = "idle" /\ Idle.row = NoRow
                    /\ Idle.key = NoKey
  BY DEF Idle

\* A request that is not idle has all the fields of one.
LEMMA Busy ==
    ASSUME SlotsOK, NEW s \in Slots, slot[s].flow \in Flows \/ slot[s].pc \in Pcs
    PROVE  /\ slot[s].flow \in Flows /\ slot[s].pc \in Pcs
           /\ slot[s].row \in Row \cup {NoRow}
           /\ slot[s].key \in Tokens \cup ProcessKeys \cup {NoKey}
           /\ slot[s].password \in Passwords
           /\ slot[s].mine \in Confirmation \cup {NoRow}
           /\ slot[s] = [flow |-> slot[s].flow, pc |-> slot[s].pc,
                         row |-> slot[s].row, key |-> slot[s].key,
                         password |-> slot[s].password, mine |-> slot[s].mine]
  <1>1. Idle.flow \notin Flows /\ Idle.pc \notin Pcs
    BY DEF Idle, Flows, Pcs
  <1>2. slot[s] \in [flow: Flows, pc: Pcs, row: Row \cup {NoRow},
                     key: Tokens \cup ProcessKeys \cup {NoKey},
                     password: Passwords, mine: Confirmation \cup {NoRow}]
    BY <1>1 DEF SlotsOK, SlotState
  <1>3. QED
    BY <1>2

LEMMA SlotReplaced ==
    ASSUME SlotsOK, NEW s \in Slots, NEW q, GoodSlot(q),
           slot' = [slot EXCEPT ![s] = q]
    PROVE  SlotsOK' /\ slot'[s] = q /\ \A t \in Slots \ {s} : slot'[t] = slot[t]
  BY DEF SlotsOK, GoodSlot

\* One request goes on, and a confirmation stays.
LEMMA ConfirmationStep ==
    ASSUME SlotsOK, ConfirmationKept, NEW s \in Slots, NEW q, GoodSlot(q),
           slot' = [slot EXCEPT ![s] = q],
           confirmation' = confirmation \/ confirmation' \in Confirmation,
           linked' \/ clicked' \/ OnConfirmation(q) =>
               \/ linked \/ clicked \/ OnConfirmation(slot[s])
               \/ confirmation' \in Confirmation
    PROVE  ConfirmationKept'
  <1>1. ASSUME NEW t \in Slots, t # s
        PROVE  slot'[t] = slot[t]
    BY <1>1, SlotReplaced
  <1>2. slot'[s] = q
    BY SlotReplaced
  <1>3. QED
    BY <1>1, <1>2 DEF ConfirmationKept, OnConfirmation

\* The slot of a request that goes on.
Fields(f, p, r, k, w, m) ==
    [flow |-> f, pc |-> p, row |-> r, key |-> k, password |-> w, mine |-> m]

LEMMA GoesSlot ==
    ASSUME SlotsOK, NEW s \in Slots, NEW pc, NEW row, NEW k, NEW mine,
           Goes(s, pc, row, k, mine)
    PROVE  slot' = [slot EXCEPT ![s] =
               Fields(slot[s].flow, pc, row, k, slot[s].password, mine)]
  BY DEF Goes, SlotsOK, Fields

\* Where a request may go without anything new in hand.
Plain == Pcs \ {"password", "mail", "format", "link", "click", "confirmation"}

LEMMA GotoKeeps ==
    ASSUME Base, NEW s \in Slots, slot[s].flow \in Flows \/ slot[s].pc \in Pcs,
           NEW pc \in Plain, pc = "sent" => slot[s].pc = "link",
           Goto(s, pc), confirmation' = confirmation, clicked' = clicked,
           linked' = linked \/ slot[s].pc = "link"
    PROVE  SlotsOK' /\ ConfirmationKept'
  <1>1. PICK q : q = Fields(slot[s].flow, pc, slot[s].row, slot[s].key,
                            slot[s].password, slot[s].mine)
    OBVIOUS
  <1>2. slot' = [slot EXCEPT ![s] = q]
    BY <1>1, GoesSlot DEF Base, Goto
  <1>3. q \in SlotState
    BY <1>1, Busy DEF SlotState, Base, Fields, Plain
  <1>4. GoodSlot(slot[s])
    BY DEF Base, SlotsOK
  <1>5. GoodSlot(q)
    BY <1>1, <1>3, <1>4 DEF GoodSlot, Plain, Fields
  <1>6. OnConfirmation(q) \/ slot[s].pc = "link" => OnConfirmation(slot[s])
    BY <1>1 DEF OnConfirmation, Plain, Fields
  <1>7. SlotsOK'
    BY <1>2, <1>5, SlotReplaced DEF Base
  <1>8. linked' \/ clicked' \/ OnConfirmation(q)
           => linked \/ clicked \/ OnConfirmation(slot[s])
    BY <1>6 DEF OnConfirmation
  <1>9. ConfirmationKept'
    BY <1>2, <1>5, <1>8, ConfirmationStep DEF Base
  <1>10. QED
    BY <1>7, <1>9

LEMMA LoadKeeps ==
    ASSUME Base, NEW s \in Slots, slot[s].flow \in Flows \/ slot[s].pc \in Pcs,
           NEW pc \in Pcs, pc \in Plain \ {"sent"} \/ pc = "password"
                           \/ (pc = "confirmation" /\ slot[s].flow = "register"),
           NEW row \in Row \cup {NoRow}, Load(s, pc, row),
           pc = "password" \/ slot[s].flow \in {"own", "profile", "command"}
               => row \in Row,
           UNCHANGED <<confirmation, linked, clicked>>
    PROVE  SlotsOK' /\ ConfirmationKept'
  <1>1. PICK q : q = Fields(slot[s].flow, pc, row, slot[s].key,
                            slot[s].password, slot[s].mine)
    OBVIOUS
  <1>2. slot' = [slot EXCEPT ![s] = q]
    BY <1>1, GoesSlot DEF Base, Load
  <1>3. q \in SlotState
    BY <1>1, Busy DEF SlotState, Base, Fields
  <1>4. GoodSlot(slot[s])
    BY DEF Base, SlotsOK
  <1>5. GoodSlot(q)
    BY <1>1, <1>3, <1>4 DEF GoodSlot, Plain, Fields
  <1>6. OnConfirmation(q) => OnConfirmation(slot[s])
    BY <1>1 DEF OnConfirmation, Plain, Fields
  <1>7. SlotsOK'
    BY <1>2, <1>5, SlotReplaced DEF Base
  <1>8. ConfirmationKept'
    BY <1>2, <1>5, <1>6, ConfirmationStep DEF Base
  <1>9. QED
    BY <1>7, <1>8

LEMMA EndKeeps ==
    ASSUME Base, NEW s \in Slots, End(s),
           confirmation' = confirmation \/ confirmation' \in Confirmation,
           linked' = linked,
           clicked' = clicked \/ confirmation' \in Confirmation
    PROVE  SlotsOK' /\ ConfirmationKept'
  <1>1. PICK q : q = Idle
    OBVIOUS
  <1>2. GoodSlot(q) /\ ~OnConfirmation(q) /\ slot' = [slot EXCEPT ![s] = q]
    BY <1>1, IdleGood DEF End
  <1>3. SlotsOK'
    BY <1>2, SlotReplaced DEF Base
  <1>4. linked' \/ clicked' \/ OnConfirmation(q) =>
            linked \/ clicked \/ confirmation' \in Confirmation
    BY <1>2
  <1>5. ConfirmationKept'
    BY <1>2, <1>4, ConfirmationStep DEF Base
  <1>6. QED
    BY <1>3, <1>5

LEMMA StartKeeps ==
    ASSUME Base, NEW s \in Slots, NEW flow \in Flows, NEW pc \in Pcs,
           NEW row \in Row \cup {NoRow}, NEW password \in Passwords,
           NEW k \in Tokens \cup ProcessKeys \cup {NoKey},
           Start(s, flow, pc, row, k, password),
           pc \in Plain \ {"sent"} \/ (pc = "confirmation" /\ k = NoKey),
           flow \in {"own", "profile", "command"} => row \in Row,
           flow = "process" => k \in ProcessKeys,
           flow = "token" => k \in Tokens,
           flow = "register" => k = NoKey,
           flow \in {"token", "own", "other"} => password \in Secrets,
           flow = "confirm" => linked,
           UNCHANGED <<confirmation, linked, clicked>>
    PROVE  SlotsOK' /\ ConfirmationKept'
  <1>1. PICK q : q = [flow |-> flow, pc |-> pc, row |-> row, key |-> k,
                      password |-> password, mine |-> NoRow]
    OBVIOUS
  <1>2. slot' = [slot EXCEPT ![s] = q]
    BY <1>1 DEF Start
  <1>3. q \in SlotState
    BY <1>1 DEF SlotState
  <1>4. GoodSlot(q)
    BY <1>1, <1>3 DEF GoodSlot, Plain
  <1>5. OnConfirmation(q) => linked
    BY <1>1 DEF OnConfirmation, Plain
  <1>6. QED
    BY <1>2, <1>4, <1>5, SlotReplaced, ConfirmationStep DEF Base

\* The tables.
LEMMA CreateKeeps ==
    ASSUME TokensOK, NEW t \in Tokens, NEW life \in Nat, now \in Nat,
           CreateToken(t, life)
    PROVE  /\ tokens' \in [Tokens -> {"none", "live", "deleted"}]
           /\ expiry' \in [Tokens -> Nat]
  BY DEF CreateToken, TokensOK

LEMMA StoreKeeps ==
    ASSUME UserOK, NEW s \in Slots, NEW row \in Row, StoreUser(s, row)
    PROVE  user' \in Row /\ covered' \in BOOLEAN
  BY DEF StoreUser, UserOK

LEMMA RowMade ==
    ASSUME NEW password \in Passwords, NEW at \in Nat
    PROVE  [password |-> password, modified |-> at] \in Row
  BY DEF Row

-----------------------------------------------------------------------------
(***************************************************************************)
(* Every step keeps the types and what the requests hold.                  *)
(***************************************************************************)

LEMMA BaseStep ==
    ASSUME Base, [Next]_vars
    PROVE  Base'
  <1> USE DEF clock, rows, processes, mails, changes
  <1>1. ASSUME NEW s \in Slots, NEW p \in Secrets \cup {Generated}, StartRegister(s, p)
        PROVE  Base'
    <2>1. SlotsOK' /\ ConfirmationKept'
      BY <1>1, StartKeeps, ConstantsAssumption
      DEF StartRegister, Flows, Pcs, Plain, Passwords
    <2>2. QED
      BY <1>1, <2>1
      DEF StartRegister, Start, Base, DataOK, ClockOK, UserOK, ConfirmationOK,
          TokensOK, ProcessOK
  <1>2. ASSUME NEW s \in Slots, RegisterGet(s)
        PROVE  Base'
    <2>1. {"create"} \subseteq Plain \ {"sent"}
          /\ (slot[s].flow \in Flows \/ slot[s].pc \in Pcs)
      BY <1>2 DEF RegisterGet, At, Flows, Pcs, Plain
    <2>2. SlotsOK' /\ ConfirmationKept'
      BY <1>2, <2>1, GotoKeeps, EndKeeps DEF RegisterGet
    <2>3. QED
      BY <1>2, <2>2
      DEF RegisterGet, Base, DataOK, ClockOK, UserOK, ConfirmationOK, TokensOK,
          ProcessOK
  <1>3. ASSUME NEW s \in Slots, RegisterCreate(s)
        PROVE  Base'
    <2>1. PICK row \in Row : row = [password |-> Unset, modified |-> now]
      BY RowMade DEF Base, DataOK, ClockOK, Passwords
    <2>2. SlotsOK' /\ ConfirmationKept'
      <3>1. slot[s].flow \in Flows /\ "password" \in Pcs
        BY <1>3 DEF RegisterCreate, At, Flows, Pcs
      <3>2. End(s) \/ Load(s, "password", row)
        BY <1>3, <2>1 DEF RegisterCreate
      <3>3. QED
        BY <1>3, <3>1, <3>2, LoadKeeps, EndKeeps DEF RegisterCreate
    <2>3. UserOK'
      BY <1>3, <2>1 DEF RegisterCreate, Base, DataOK, UserOK
    <2>4. QED
      BY <1>3, <2>2, <2>3
      DEF RegisterCreate, Base, DataOK, ClockOK, ConfirmationOK, TokensOK,
          ProcessOK
  <1>4. ASSUME NEW s \in Slots, RegisterPassword(s)
        PROVE  Base'
    <2>1. PICK row \in Row : row = [password |-> slot[s].password,
                                    modified |-> slot[s].row.modified]
      <3>1. slot[s].row \in Row /\ slot[s].password \in Passwords
        BY <1>4, Busy DEF RegisterPassword, At, Base, SlotsOK, GoodSlot, Flows
      <3>2. slot[s].row.modified \in Nat
        BY <3>1 DEF Row
      <3>3. QED
        BY <3>1, <3>2, RowMade
    <2>2. SlotsOK' /\ ConfirmationKept'
      <3>1. /\ slot[s].flow = "register" /\ slot[s].flow \in Flows
            /\ {"token", "confirmation"} \subseteq Pcs /\ "token" \in Plain
        BY <1>4 DEF RegisterPassword, At, Flows, Pcs, Plain
      <3>2. \/ End(s) \/ Load(s, "token", row) \/ Load(s, "confirmation", row)
        BY <1>4, <2>1 DEF RegisterPassword
      <3>3. QED
        BY <1>4, <3>1, <3>2, LoadKeeps, EndKeeps DEF RegisterPassword
    <2>3. UserOK'
      <3>1. user' \in Row /\ covered' \in BOOLEAN
        BY <1>4, <2>1, StoreKeeps DEF RegisterPassword, Base, DataOK
      <3>2. chosen' \in Passwords
        BY <1>4, Busy DEF RegisterPassword, At, Base, Flows
      <3>3. QED
        BY <3>1, <3>2 DEF UserOK
    <2>4. TokensOK'
      BY <1>4 DEF RegisterPassword, Base, DataOK, TokensOK
    <2>5. QED
      BY <1>4, <2>2, <2>3, <2>4
      DEF RegisterPassword, Base, DataOK, ClockOK, ConfirmationOK, ProcessOK
  <1>5. ASSUME NEW s \in Slots, NEW t \in Tokens, RegisterToken(s, t)
        PROVE  Base'
    <2>1. PICK pc \in {"confirmation", "mail"} :
            Hold(s, pc, t)
      BY <1>5 DEF RegisterToken
    <2>2. SlotsOK' /\ ConfirmationKept'
      <3>1. PICK q : q = Fields(slot[s].flow, pc, slot[s].row, t,
                                slot[s].password, slot[s].mine)
        OBVIOUS
      <3>2. slot[s].flow = "register" /\ slot[s].flow \in Flows
        BY <1>5 DEF RegisterToken, At, Flows
      <3>3. slot' = [slot EXCEPT ![s] = q]
        BY <2>1, <3>1, GoesSlot DEF Base, Hold
      <3>4. q \in SlotState
        BY <3>1, <3>2, Busy DEF SlotState, Base, Fields, Pcs
      <3>5. GoodSlot(q) /\ ~OnConfirmation(q)
        BY <3>1, <3>2, <3>4 DEF GoodSlot, OnConfirmation, Fields
      <3>6. UNCHANGED <<confirmation, linked, clicked>>
        BY <1>5 DEF RegisterToken
      <3>7. QED
        BY <3>3, <3>5, <3>6, SlotReplaced, ConfirmationStep DEF Base
    <2>3. TokensOK'
      BY <1>5, CreateKeeps, ConstantsAssumption
      DEF RegisterToken, Base, DataOK, ClockOK, TokensOK
    <2>4. QED
      BY <1>5, <2>2, <2>3
      DEF RegisterToken, Base, DataOK, ClockOK, UserOK, ConfirmationOK,
          ProcessOK
  <1>6. ASSUME NEW s \in Slots, RegisterMail(s)
        PROVE  Base'
    <2>2. SlotsOK' /\ ConfirmationKept'
      BY <1>6, EndKeeps DEF RegisterMail
    <2>3. TokensOK'
      <3>1. slot[s].key \in Tokens
        BY <1>6 DEF RegisterMail, At, Base, SlotsOK, GoodSlot
      <3>2. QED
        BY <1>6, <3>1 DEF RegisterMail, Base, DataOK, TokensOK
    <2>4. QED
      BY <1>6, <2>2, <2>3
      DEF RegisterMail, Base, DataOK, ClockOK, UserOK, ConfirmationOK, ProcessOK
  <1>7. ASSUME NEW s \in Slots, StartAdmin(s)
        PROVE  Base'
    <2>1. SlotsOK' /\ ConfirmationKept'
      BY <1>7, StartKeeps, ConstantsAssumption
      DEF StartAdmin, Flows, Pcs, Plain, Passwords
    <2>2. QED
      BY <1>7, <2>1
      DEF StartAdmin, Start, Base, DataOK, ClockOK, UserOK, ConfirmationOK,
          TokensOK, ProcessOK
  <1>8. ASSUME NEW s \in Slots, GetConfirmation(s)
        PROVE  Base'
    <2>1. PICK mine \in Confirmation :
            mine = IF confirmation = NoRow
                     THEN [confirmed |-> FALSE, sent |-> FALSE] ELSE confirmation
      BY DEF Base, DataOK, ConfirmationOK, Confirmation
    <2>2. SlotsOK' /\ ConfirmationKept'
      <3>1. PICK q : q = Fields(slot[s].flow, "link", slot[s].row, slot[s].key,
                                slot[s].password, mine)
        OBVIOUS
      <3>2. slot[s].pc = "confirmation" /\ slot[s].pc \in Pcs
        BY <1>8 DEF GetConfirmation, Pcs
      <3>3. confirmation' = mine /\ UNCHANGED <<linked, clicked>>
        BY <1>8, <2>1 DEF GetConfirmation
      <3>4. End(s) \/ Keep(s, "link", mine)
        BY <1>8, <2>1 DEF GetConfirmation
      <3>5. ASSUME Keep(s, "link", mine)
            PROVE  SlotsOK' /\ ConfirmationKept'
        <4>1. slot' = [slot EXCEPT ![s] = q]
          BY <3>1, <3>5, GoesSlot DEF Base, Keep
        <4>2. q \in SlotState
          BY <3>1, <3>2, Busy DEF SlotState, Base, Fields, Pcs
        <4>3. GoodSlot(slot[s])
          BY DEF Base, SlotsOK
        <4>4. GoodSlot(q)
          BY <3>1, <3>2, <4>2, <4>3 DEF GoodSlot, Fields
        <4>5. SlotsOK'
          BY <4>1, <4>4, SlotReplaced DEF Base
        <4>6. ConfirmationKept'
          BY <3>3, <4>1, <4>4, ConfirmationStep DEF Base
        <4>7. QED
          BY <4>5, <4>6
      <3>6. QED
        BY <3>3, <3>4, <3>5, EndKeeps
    <2>3. ConfirmationOK'
      <3>1. confirmation' \in Confirmation
        BY <1>8, <2>1 DEF GetConfirmation
      <3>2. failed' \in BOOLEAN
        BY <1>8 DEF GetConfirmation
      <3>3. QED
        BY <1>8, <3>1, <3>2 DEF GetConfirmation, Base, DataOK, ConfirmationOK
    <2>4. QED
      BY <1>8, <2>2, <2>3
      DEF GetConfirmation, Base, DataOK, ClockOK, UserOK, TokensOK, ProcessOK
  <1>9. ASSUME NEW s \in Slots, SendLink(s)
        PROVE  Base'
    <2>1. slot[s].pc = "link" /\ slot[s].pc \in Pcs /\ "sent" \in Plain
      BY <1>9 DEF SendLink, Pcs, Plain
    <2>2. SlotsOK' /\ ConfirmationKept'
      BY <1>9, <2>1, GotoKeeps DEF SendLink
    <2>3. slot[s].key \in Tokens \cup {NoKey}
      BY <2>1 DEF Base, SlotsOK, GoodSlot
    <2>4. TokensOK'
      BY <1>9, <2>3 DEF SendLink, Base, DataOK, TokensOK
    <2>5. ConfirmationOK'
      BY <1>9 DEF SendLink, Base, DataOK, ConfirmationOK
    <2>6. QED
      BY <1>9, <2>3, <2>4, <2>5, <2>2
      DEF SendLink, Base, DataOK, ClockOK, UserOK, ProcessOK
  <1>10. ASSUME NEW s \in Slots, SaveSent(s)
        PROVE  Base'
    <2>1. slot[s].mine \in Confirmation
      BY <1>10 DEF SaveSent, Base, SlotsOK, GoodSlot
    <2>2. confirmation' \in Confirmation
      BY <1>10, <2>1 DEF SaveSent, Confirmation
    <2>3. SlotsOK' /\ ConfirmationKept'
      BY <1>10, <2>2, EndKeeps DEF SaveSent
    <2>4. ConfirmationOK'
      BY <1>10, <2>2 DEF SaveSent, Base, DataOK, ConfirmationOK
    <2>5. QED
      BY <1>10, <2>3, <2>4
      DEF SaveSent, Base, DataOK, ClockOK, UserOK, TokensOK, ProcessOK
  <1>11. ASSUME NEW s \in Slots, StartConfirm(s)
        PROVE  Base'
    <2>1. SlotsOK' /\ ConfirmationKept'
      BY <1>11, StartKeeps, ConstantsAssumption
      DEF StartConfirm, Flows, Pcs, Plain, Passwords
    <2>2. QED
      BY <1>11, <2>1
      DEF StartConfirm, Start, Base, DataOK, ClockOK, UserOK, ConfirmationOK,
          TokensOK, ProcessOK
  <1>12. ASSUME NEW s \in Slots, LoadConfirmation(s)
        PROVE  Base'
    <2>1. slot[s].flow = "confirm" /\ slot[s].flow \in Flows
      BY <1>12 DEF LoadConfirmation, At, Flows
    <2>2. confirmation \in Confirmation
      BY <2>1 DEF Base, ConfirmationKept, OnConfirmation
    <2>3. SlotsOK' /\ ConfirmationKept'
      <3>1. PICK q : q = Fields(slot[s].flow, "click", slot[s].row, slot[s].key,
                                slot[s].password, confirmation)
        OBVIOUS
      <3>4. slot' = [slot EXCEPT ![s] = q]
        BY <1>12, <3>1, GoesSlot DEF LoadConfirmation, Base, Keep
      <3>5. q \in SlotState
        BY <2>1, <2>2, <3>1, Busy DEF SlotState, Base, Fields, Pcs
      <3>6. GoodSlot(slot[s])
        BY DEF Base, SlotsOK
      <3>7. GoodSlot(q)
        BY <2>1, <2>2, <3>1, <3>5, <3>6 DEF GoodSlot, Fields
      <3>8. UNCHANGED <<confirmation, linked, clicked>>
        BY <1>12 DEF LoadConfirmation
      <3>9. QED
        BY <2>2, <3>4, <3>7, <3>8, SlotReplaced, ConfirmationStep DEF Base
    <2>4. QED
      BY <1>12, <2>3
      DEF LoadConfirmation, Base, DataOK, ClockOK, UserOK, ConfirmationOK,
          TokensOK, ProcessOK
  <1>13. ASSUME NEW s \in Slots, Confirm(s)
        PROVE  Base'
    <2>1. slot[s].mine \in Confirmation
      BY <1>13 DEF Confirm, At, Base, SlotsOK, GoodSlot
    <2>2. confirmation' \in Confirmation
      BY <1>13, <2>1 DEF Confirm, Confirmation
    <2>3. SlotsOK' /\ ConfirmationKept'
      BY <1>13, <2>2, EndKeeps DEF Confirm
    <2>4. clicked' \in BOOLEAN
      BY <1>13 DEF Confirm
    <2>5. ConfirmationOK'
      BY <1>13, <2>2, <2>4 DEF Confirm, Base, DataOK, ConfirmationOK
    <2>6. QED
      BY <1>13, <2>4, <2>5, <2>3
      DEF Confirm, Base, DataOK, ClockOK, UserOK, TokensOK, ProcessOK
  <1>14. ASSUME NEW s \in Slots, StartReset(s)
        PROVE  Base'
    <2>1. SlotsOK' /\ ConfirmationKept'
      BY <1>14, StartKeeps, ConstantsAssumption
      DEF StartReset, Flows, Pcs, Plain, Passwords
    <2>2. QED
      BY <1>14, <2>1
      DEF StartReset, Start, Base, DataOK, ClockOK, UserOK, ConfirmationOK,
          TokensOK, ProcessOK
  <1>15. ASSUME NEW s \in Slots, NEW t \in Tokens, ResetToken(s, t)
        PROVE  Base'
    <2>1. slot[s].flow = "reset" /\ slot[s].flow \in Flows
      BY <1>15 DEF ResetToken, At, Flows
    <2>2. SlotsOK' /\ ConfirmationKept'
      <3>1. PICK q : q = Fields(slot[s].flow, "format", slot[s].row, t,
                                slot[s].password, slot[s].mine)
        OBVIOUS
      <3>3. slot' = [slot EXCEPT ![s] = q]
        BY <1>15, <3>1, GoesSlot DEF ResetToken, Base, Hold
      <3>4. q \in SlotState
        BY <2>1, <3>1, Busy DEF SlotState, Base, Fields, Pcs
      <3>5. GoodSlot(q) /\ ~OnConfirmation(q)
        BY <2>1, <3>1, <3>4 DEF GoodSlot, OnConfirmation, Fields
      <3>6. UNCHANGED <<confirmation, linked, clicked>>
        BY <1>15 DEF ResetToken
      <3>7. QED
        BY <3>3, <3>5, <3>6, SlotReplaced, ConfirmationStep DEF Base
    <2>3. TokensOK'
      BY <1>15, CreateKeeps, ConstantsAssumption
      DEF ResetToken, Base, DataOK, ClockOK, TokensOK
    <2>4. QED
      BY <1>15, <2>2, <2>3
      DEF ResetToken, Base, DataOK, ClockOK, UserOK, ConfirmationOK, ProcessOK
  <1>16. ASSUME NEW s \in Slots, RefuseFormat(s)
        PROVE  Base'
    <2>2. SlotsOK' /\ ConfirmationKept'
      BY <1>16, EndKeeps DEF RefuseFormat
    <2>3. QED
      BY <1>16, <2>2
      DEF RefuseFormat, Base, DataOK, ClockOK, UserOK, ConfirmationOK,
          TokensOK, ProcessOK
  <1>17. ASSUME NEW s \in Slots, MailReset(s)
        PROVE  Base'
    <2>2. SlotsOK' /\ ConfirmationKept'
      BY <1>17, EndKeeps DEF MailReset
    <2>3. TokensOK'
      <3>1. slot[s].key \in Tokens
        BY <1>17 DEF MailReset, At, Base, SlotsOK, GoodSlot
      <3>2. QED
        BY <1>17, <3>1 DEF MailReset, Base, DataOK, TokensOK
    <2>4. QED
      BY <1>17, <2>2, <2>3
      DEF MailReset, Base, DataOK, ClockOK, UserOK, ConfirmationOK, ProcessOK
  <1>18. ASSUME NEW s \in Slots, NEW t \in Tokens, NEW p \in Secrets, StartChange(s, t, p)
        PROVE  Base'
    <2>1. SlotsOK' /\ ConfirmationKept'
      BY <1>18, StartKeeps, ConstantsAssumption
      DEF StartChange, Flows, Pcs, Plain, Passwords
    <2>2. QED
      BY <1>18, <2>1
      DEF StartChange, Start, Base, DataOK, ClockOK, UserOK, ConfirmationOK,
          TokensOK, ProcessOK
  <1>19. ASSUME NEW s \in Slots, NEW p \in Secrets, StartOwn(s, p)
        PROVE  Base'
    <2>1. SlotsOK' /\ ConfirmationKept'
      BY <1>19, StartKeeps, ConstantsAssumption
      DEF StartOwn, Flows, Pcs, Plain, Passwords, Base, DataOK, UserOK
    <2>2. QED
      BY <1>19, <2>1
      DEF StartOwn, Start, Base, DataOK, ClockOK, UserOK, ConfirmationOK,
          TokensOK, ProcessOK
  <1>20. ASSUME NEW s \in Slots, NEW p \in Secrets, StartOther(s, p)
        PROVE  Base'
    <2>1. SlotsOK' /\ ConfirmationKept'
      BY <1>20, StartKeeps, ConstantsAssumption
      DEF StartOther, Flows, Pcs, Plain, Passwords
    <2>2. QED
      BY <1>20, <2>1
      DEF StartOther, Start, Base, DataOK, ClockOK, UserOK, ConfirmationOK,
          TokensOK, ProcessOK
  <1>21. ASSUME NEW s \in Slots, LoadTarget(s)
        PROVE  Base'
    <2>1. /\ slot[s].flow \in Flows /\ {"exists", "save"} \subseteq Pcs
          /\ {"exists", "save"} \subseteq Plain \ {"sent"}
          /\ slot[s].flow \in {"token", "own", "other"}
      BY <1>21 DEF LoadTarget, Flows, Pcs, Plain
    <2>2. PICK row \in Row \cup {NoRow} :
            /\ row = IF slot[s].flow = "own" THEN slot[s].row ELSE user
            /\ slot[s].flow = "own" => row \in Row
      BY DEF Base, SlotsOK, GoodSlot, DataOK, UserOK
    <2>3. \/ End(s) \/ Load(s, "save", row)
          \/ Load(s, "exists", row) /\ slot[s].flow = "token"
      BY <1>21, <2>2 DEF LoadTarget
    <2>4. SlotsOK' /\ ConfirmationKept'
      BY <1>21, <2>1, <2>2, <2>3, LoadKeeps, EndKeeps DEF LoadTarget
    <2>5. QED
      BY <1>21, <2>4
      DEF LoadTarget, Base, DataOK, ClockOK, UserOK, ConfirmationOK, TokensOK,
          ProcessOK
  <1>22. ASSUME NEW s \in Slots, TokenExists(s)
        PROVE  Base'
    <2>1. {"fetch"} \subseteq Plain \ {"sent"}
          /\ (slot[s].flow \in Flows \/ slot[s].pc \in Pcs)
      BY <1>22 DEF TokenExists, At, Flows, Pcs, Plain
    <2>2. SlotsOK' /\ ConfirmationKept'
      BY <1>22, <2>1, GotoKeeps, EndKeeps DEF TokenExists
    <2>3. QED
      BY <1>22, <2>2
      DEF TokenExists, Base, DataOK, ClockOK, UserOK, ConfirmationOK, TokensOK,
          ProcessOK
  <1>23. ASSUME NEW s \in Slots, FetchToken(s)
        PROVE  Base'
    <2>1. {"save"} \subseteq Plain \ {"sent"}
          /\ (slot[s].flow \in Flows \/ slot[s].pc \in Pcs)
      BY <1>23 DEF FetchToken, At, Flows, Pcs, Plain
    <2>2. SlotsOK' /\ ConfirmationKept'
      BY <1>23, <2>1, GotoKeeps, EndKeeps DEF FetchToken
    <2>3. TokensOK'
      <3>1. slot[s].key \in Tokens
        BY <1>23 DEF FetchToken, At, Base, SlotsOK, GoodSlot
      <3>2. tokens' \in [Tokens -> {"none", "live", "deleted"}]
        BY <1>23 DEF FetchToken, Base, DataOK, TokensOK
      <3>3. crossed[slot[s].key] + 1 \in Nat
        BY <3>1 DEF Base, DataOK, TokensOK
      <3>4. crossed' \in [Tokens -> Nat]
        BY <1>23, <3>1, <3>3 DEF FetchToken, Base, DataOK, TokensOK
      <3>5. QED
        BY <1>23, <3>2, <3>4 DEF FetchToken, Base, DataOK, TokensOK
    <2>4. UserOK'
      BY <1>23 DEF FetchToken, Base, DataOK, UserOK
    <2>5. QED
      BY <1>23, <2>2, <2>3, <2>4
      DEF FetchToken, Base, DataOK, ClockOK, ConfirmationOK, ProcessOK
  <1>24. ASSUME NEW s \in Slots, SaveChange(s)
        PROVE  Base'
    <2>1. /\ slot[s].flow \in Flows /\ "delete" \in Plain \ {"sent"}
          /\ slot[s].password \in Passwords
      BY <1>24, Busy DEF SaveChange, Flows, Pcs, Plain, Base
    <2>2. PICK row \in Row : row = [password |-> slot[s].password, modified |-> now]
      BY <2>1, RowMade DEF Base, DataOK, ClockOK
    <2>3. SlotsOK' /\ ConfirmationKept'
      BY <1>24, <2>1, GotoKeeps, EndKeeps DEF SaveChange
    <2>4. UserOK'
      <3>1. user' \in Row /\ covered' \in BOOLEAN
        BY <1>24, <2>2, StoreKeeps DEF SaveChange, Base, DataOK
      <3>2. QED
        BY <1>24, <2>1, <3>1 DEF SaveChange, UserOK
    <2>5. TokensOK'
      <3>1. uses' \in [Tokens -> Nat]
        <4>1. ASSUME slot[s].flow = "token"
              PROVE  slot[s].key \in Tokens /\ uses[slot[s].key] + 1 \in Nat
          BY <4>1 DEF Base, SlotsOK, GoodSlot, DataOK, TokensOK
        <4>2. QED
          BY <1>24, <4>1 DEF SaveChange, Base, DataOK, TokensOK
      <3>2. QED
        BY <1>24, <3>1 DEF SaveChange, Base, DataOK, TokensOK
    <2>6. QED
      BY <1>24, <2>3, <2>4, <2>5
      DEF SaveChange, Base, DataOK, ClockOK, ConfirmationOK, ProcessOK
  <1>25. ASSUME NEW s \in Slots, DeleteToken(s)
        PROVE  Base'
    <2>2. SlotsOK' /\ ConfirmationKept'
      BY <1>25, EndKeeps DEF DeleteToken
    <2>3. TokensOK'
      BY <1>25 DEF DeleteToken, Base, DataOK, TokensOK
    <2>4. QED
      BY <1>25, <2>2, <2>3
      DEF DeleteToken, Base, DataOK, ClockOK, UserOK, ConfirmationOK, ProcessOK
  <1>26. ASSUME NEW s \in Slots, StartLogin(s)
        PROVE  Base'
    <2>1. PICK row \in Row : row = user
      BY <1>26 DEF StartLogin, Base, DataOK, UserOK
    <2>2. /\ Start(s, "login", "expired", row, NoKey, Unset)
          /\ UNCHANGED <<confirmation, linked, clicked>>
      BY <1>26, <2>1 DEF StartLogin
    <2>3. /\ "login" \in Flows /\ "expired" \in Pcs \cap (Plain \ {"sent"})
          /\ Unset \in Passwords
      BY DEF Flows, Pcs, Plain, Passwords
    <2>4. SlotsOK' /\ ConfirmationKept'
      BY <2>2, <2>3, StartKeeps
    <2>5. QED
      BY <1>26, <2>4
      DEF StartLogin, Start, Base, DataOK, ClockOK, UserOK, ConfirmationOK,
          TokensOK, ProcessOK
  <1>27. ASSUME NEW s \in Slots, NEW t \in Tokens, AnswerExpired(s, t)
        PROVE  Base'
    <2>2. SlotsOK' /\ ConfirmationKept'
      BY <1>27, EndKeeps DEF AnswerExpired
    <2>3. TokensOK'
      BY <1>27, CreateKeeps, ConstantsAssumption
      DEF AnswerExpired, Base, DataOK, ClockOK, TokensOK
    <2>4. QED
      BY <1>27, <2>2, <2>3
      DEF AnswerExpired, Base, DataOK, ClockOK, UserOK, ConfirmationOK,
          ProcessOK
  <1>28. ASSUME NEW s \in Slots, NEW flow \in {"profile", "command"}, StartSave(s, flow)
        PROVE  Base'
    <2>1. PICK row \in Row : row = user
      BY <1>28 DEF StartSave, Base, DataOK, UserOK
    <2>2. PICK w \in Passwords : w = IF flow = "command" THEN Mailed ELSE Unset
      BY DEF Passwords
    <2>3. /\ Start(s, flow, "save", row, NoKey, w)
          /\ UNCHANGED <<confirmation, linked, clicked>>
      BY <1>28, <2>1, <2>2 DEF StartSave
    <2>4. flow \in Flows /\ "save" \in Pcs \cap (Plain \ {"sent"})
      BY DEF Flows, Pcs, Plain
    <2>5. SlotsOK' /\ ConfirmationKept'
      BY <2>3, <2>4, StartKeeps
    <2>6. QED
      BY <1>28, <2>5
      DEF StartSave, Start, Base, DataOK, ClockOK, UserOK, ConfirmationOK,
          TokensOK, ProcessOK
  <1>29. ASSUME NEW s \in Slots, SaveProfile(s)
        PROVE  Base'
    <2>2. SlotsOK' /\ ConfirmationKept'
      BY <1>29, EndKeeps DEF SaveProfile
    <2>3. UserOK'
      <3>1. slot[s].row \in Row
        BY <1>29 DEF SaveProfile, At, Base, SlotsOK, GoodSlot
      <3>2. user' \in Row /\ covered' \in BOOLEAN
        BY <1>29, <3>1, StoreKeeps DEF SaveProfile, Base, DataOK
      <3>3. QED
        BY <1>29, <3>2 DEF SaveProfile, Base, DataOK, UserOK
    <2>4. TokensOK'
      BY <1>29 DEF SaveProfile, Base, DataOK, TokensOK
    <2>5. QED
      BY <1>29, <2>2, <2>3, <2>4
      DEF SaveProfile, Base, DataOK, ClockOK, ConfirmationOK, ProcessOK
  <1>30. ASSUME NEW s \in Slots, SaveCommand(s)
        PROVE  Base'
    <2>2. SlotsOK' /\ ConfirmationKept'
      BY <1>30, EndKeeps DEF SaveCommand
    <2>3. UserOK'
      <3>1. slot[s].row \in Row
        BY <1>30 DEF SaveCommand, At, Base, SlotsOK, GoodSlot
      <3>2. slot[s].row.modified \in Nat /\ Mailed \in Passwords
        BY <3>1 DEF Row, Passwords
      <3>3. PICK row \in Row : row = [password |-> Mailed,
                                      modified |-> slot[s].row.modified]
        BY <3>2, RowMade
      <3>4. user' \in Row /\ covered' \in BOOLEAN
        BY <1>30, <3>3, StoreKeeps DEF SaveCommand, Base, DataOK
      <3>5. QED
        BY <1>30, <3>2, <3>4 DEF SaveCommand, UserOK
    <2>4. TokensOK'
      BY <1>30 DEF SaveCommand, Base, DataOK, TokensOK
    <2>5. QED
      BY <1>30, <2>2, <2>3, <2>4
      DEF SaveCommand, Base, DataOK, ClockOK, ConfirmationOK, ProcessOK
  <1>31. ASSUME NEW s \in Slots, NEW k \in ProcessKeys, StartProcess(s, k)
        PROVE  Base'
    <2>1. SlotsOK' /\ ConfirmationKept'
      BY <1>31, StartKeeps, ConstantsAssumption
      DEF StartProcess, Flows, Pcs, Plain, Passwords
    <2>2. QED
      BY <1>31, <2>1
      DEF StartProcess, Start, Base, DataOK, ClockOK, UserOK, ConfirmationOK,
          TokensOK, ProcessOK
  <1>32. ASSUME NEW s \in Slots, FindProcessToken(s)
        PROVE  Base'
    <2>1. {"user"} \subseteq Plain \ {"sent"}
          /\ (slot[s].flow \in Flows \/ slot[s].pc \in Pcs)
      BY <1>32 DEF FindProcessToken, At, Flows, Pcs, Plain
    <2>2. SlotsOK' /\ ConfirmationKept'
      BY <1>32, <2>1, GotoKeeps, EndKeeps DEF FindProcessToken
    <2>3. QED
      BY <1>32, <2>2
      DEF FindProcessToken, Base, DataOK, ClockOK, UserOK, ConfirmationOK,
          TokensOK, ProcessOK
  <1>33. ASSUME NEW s \in Slots, GetProcessUser(s)
        PROVE  Base'
    <2>1. {"check", "create"} \subseteq Plain \ {"sent"}
          /\ (slot[s].flow \in Flows \/ slot[s].pc \in Pcs)
      BY <1>33 DEF GetProcessUser, At, Flows, Pcs, Plain
    <2>2. SlotsOK' /\ ConfirmationKept'
      BY <1>33, <2>1, GotoKeeps DEF GetProcessUser, Passed
    <2>3. ProcessOK'
      BY <1>33 DEF GetProcessUser, Passed, Base, DataOK, ProcessOK
    <2>4. QED
      BY <1>33, <2>2, <2>3
      DEF GetProcessUser, Base, DataOK, ClockOK, UserOK, ConfirmationOK,
          TokensOK
  <1>34. ASSUME NEW s \in Slots, CheckProcessTokens(s)
        PROVE  Base'
    <2>1. {"create"} \subseteq Plain \ {"sent"}
          /\ (slot[s].flow \in Flows \/ slot[s].pc \in Pcs)
      BY <1>34 DEF CheckProcessTokens, At, Flows, Pcs, Plain
    <2>2. SlotsOK' /\ ConfirmationKept'
      BY <1>34, <2>1, GotoKeeps, EndKeeps DEF CheckProcessTokens, Passed
    <2>3. ProcessOK'
      BY <1>34 DEF CheckProcessTokens, Passed, Base, DataOK, ProcessOK
    <2>4. QED
      BY <1>34, <2>2, <2>3
      DEF CheckProcessTokens, Base, DataOK, ClockOK, UserOK, ConfirmationOK,
          TokensOK
  <1>35. ASSUME NEW s \in Slots, CreateProcessToken(s)
        PROVE  Base'
    <2>2. SlotsOK' /\ ConfirmationKept'
      BY <1>35, EndKeeps DEF CreateProcessToken
    <2>3. ProcessOK'
      BY <1>35
      DEF CreateProcessToken, At, Base, DataOK, ProcessOK, SlotsOK, GoodSlot
    <2>4. QED
      BY <1>35, <2>2, <2>3
      DEF CreateProcessToken, Base, DataOK, ClockOK, UserOK, ConfirmationOK,
          TokensOK
  <1>36. ASSUME NEW s \in Slots, Abort(s)
        PROVE  Base'
    <2>2. SlotsOK' /\ ConfirmationKept'
      BY <1>36, EndKeeps DEF Abort
    <2>3. ConfirmationOK'
      <3>1. failed' \in BOOLEAN
        BY <1>36 DEF Abort
      <3>2. QED
        BY <1>36, <3>1 DEF Abort, Base, DataOK, ConfirmationOK
    <2>4. ClockOK'
      BY <1>36 DEF Abort, Base, DataOK, ClockOK
    <2>5. UserOK'
      BY <1>36 DEF Abort, Base, DataOK, UserOK
    <2>6. TokensOK'
      <3>1. crossed' \in [Tokens -> Nat]
        <4>1. ASSUME At(s, "token", "delete")
              PROVE  slot[s].key \in Tokens /\ crossed[slot[s].key] + 1 \in Nat
          BY <4>1 DEF At, Base, SlotsOK, GoodSlot, DataOK, TokensOK
        <4>2. QED
          BY <1>36, <4>1 DEF Abort, Base, DataOK, TokensOK
      <3>2. QED
        BY <1>36, <3>1 DEF Abort, Base, DataOK, TokensOK
    <2>7. QED
      BY <1>36, <2>2, <2>3, <2>4, <2>5, <2>6 DEF Abort, Base, DataOK, ProcessOK
  <1>37. ASSUME Tick
        PROVE  Base'
    <2>1. SlotsOK' /\ ConfirmationKept'
      BY <1>37 DEF Tick, Base, SlotsOK, ConfirmationKept
    <2>2. QED
      BY <1>37, <2>1
      DEF Tick, Base, DataOK, ClockOK, UserOK, ConfirmationOK, TokensOK,
          ProcessOK
  <1>38. ASSUME UNCHANGED vars
        PROVE  Base'
    <2>1. /\ UNCHANGED <<now, requests, allowReuse, mustConfirm, user, chosen>>
          /\ UNCHANGED <<covered, confirmation, linked, clicked, failed>>
          /\ UNCHANGED <<tokens, expiry, told, uses, crossed, slot>>
          /\ UNCHANGED <<processUser, processTokens, processCrossed>>
      BY <1>38 DEF vars
    <2>2. SlotsOK' /\ ConfirmationKept'
      BY <2>1 DEF Base, SlotsOK, ConfirmationKept
    <2>3. QED
      BY <2>1, <2>2
      DEF Base, DataOK, ClockOK, UserOK, ConfirmationOK, TokensOK, ProcessOK
  <1>39. QED
    BY <1>1, <1>2, <1>3, <1>4, <1>5, <1>6, <1>7, <1>8, <1>9, <1>10,
       <1>11, <1>12, <1>13, <1>14, <1>15, <1>16, <1>17, <1>18, <1>19,
       <1>20, <1>21, <1>22, <1>23, <1>24, <1>25, <1>26, <1>27, <1>28,
       <1>29, <1>30, <1>31, <1>32, <1>33, <1>34, <1>35, <1>36, <1>37,
       <1>38
    DEF Next, Begin, RegisterStep, ChangeStep, ProcessStep

LEMMA BaseInit == Init => Base
  <1>1. ASSUME Init
        PROVE  SlotsOK /\ \A s \in Slots : ~OnConfirmation(slot[s])
    <2>1. PICK q : q = Idle
      OBVIOUS
    <2>2. GoodSlot(q) /\ ~OnConfirmation(q)
      BY <2>1, IdleGood
    <2>3. slot = [s \in Slots |-> q] /\ q \in SlotState
      BY <1>1, <2>1, <2>2 DEF Init, GoodSlot
    <2>4. QED
      BY <2>2, <2>3 DEF SlotsOK
  <1>2. Init => ConfirmationKept
    BY <1>1 DEF Init, ConfirmationKept
  <1>3. Init => ClockOK
    BY DEF Init, ClockOK
  <1>4. Init => UserOK
    BY DEF Init, UserOK, Passwords
  <1>5. Init => ConfirmationOK
    BY DEF Init, ConfirmationOK
  <1>6. Init => TokensOK
    <2>1. Init => tokens \in [Tokens -> {"none", "live", "deleted"}]
      BY DEF Init
    <2>2. Init => expiry \in [Tokens -> Nat] /\ told \subseteq Tokens
      BY DEF Init
    <2>3. Init => uses \in [Tokens -> Nat]
      BY DEF Init
    <2>4. Init => crossed \in [Tokens -> Nat]
      BY DEF Init
    <2>5. QED
      BY <2>1, <2>2, <2>3, <2>4 DEF TokensOK
  <1>7. Init => ProcessOK
    <2>1. Init => processUser \in BOOLEAN
      BY DEF Init
    <2>2. Init => processTokens \subseteq ProcessKeys /\ processCrossed \in Nat
      BY DEF Init
    <2>3. QED
      BY <2>1, <2>2 DEF ProcessOK
  <1>8. QED
    BY <1>1, <1>2, <1>3, <1>4, <1>5, <1>6, <1>7 DEF Base, DataOK

LEMMA BaseHolds == Spec => []Base
  <1>1. Base /\ [Next]_vars => Base'
    BY BaseStep
  <1>2. QED
    BY BaseInit, <1>1, PTL DEF Spec

\* The user, the confirmation, the tokens and the requests keep their types, and
\* a request that writes a row or a confirmation holds one that existed.
THEOREM TypeCorrect == Spec => []TypeOK
  BY BaseHolds, BaseType, PTL

-----------------------------------------------------------------------------
(***************************************************************************)
(* ChangeHolds: each save of a password notes it as the chosen one, and a  *)
(* save of a profile that covers nothing writes the row as it is.          *)
(***************************************************************************)

ChangeInv == ChangeHolds /\ (user = NoRow => chosen = Unset)

LEMMA NoChangeLost ==
    ASSUME Base, ChangeInv, [Next]_vars
    PROVE  ChangeInv'
  <1> USE DEF clock, rows, processes, mails, changes
  <1>1. ASSUME UNCHANGED <<user, chosen, covered>>
        PROVE  ChangeInv'
    BY <1>1 DEF ChangeInv, ChangeHolds
  <1>2. ASSUME NEW s \in Slots, NEW row, StoreUser(s, row), row.password = chosen',
               row \in Row
        PROVE  ChangeInv'
    BY <1>2, NoRowAssumption DEF StoreUser, ChangeInv, ChangeHolds
  <1>3. ASSUME NEW s \in Slots, RegisterStep(s)
        PROVE  ChangeInv'
    <2>1. ASSUME RegisterCreate(s)
          PROVE  ChangeInv'
      <3>1. PICK row \in Row : row = [password |-> Unset, modified |-> now]
        BY RowMade DEF Base, DataOK, ClockOK, Passwords
      <3>2. user' = user \/ (user = NoRow /\ user' = row)
        BY <2>1, <3>1 DEF RegisterCreate
      <3>3. row # NoRow /\ row.password = Unset
        BY <3>1, NoRowAssumption
      <3>4. UNCHANGED <<chosen, covered>>
        BY <2>1 DEF RegisterCreate
      <3>5. QED
        BY <1>1, <3>2, <3>3, <3>4 DEF ChangeInv, ChangeHolds
    <2>2. ASSUME RegisterPassword(s)
          PROVE  ChangeInv'
      <3>1. slot[s].row \in Row /\ slot[s].password \in Passwords
        BY <2>2, Busy DEF RegisterPassword, At, Base, SlotsOK, GoodSlot, Flows
      <3>2. slot[s].row.modified \in Nat
        BY <3>1 DEF Row
      <3>3. PICK row \in Row : row = [password |-> slot[s].password,
                                      modified |-> slot[s].row.modified]
        BY <3>1, <3>2, RowMade
      <3>4. StoreUser(s, row) /\ row.password = chosen'
        BY <2>2, <3>3 DEF RegisterPassword
      <3>5. QED
        BY <1>2, <3>4
    <2>3. QED
      BY <1>1, <1>3, <2>1, <2>2
      DEF RegisterStep, RegisterGet, RegisterToken, RegisterMail, SaveSent,
          GetConfirmation, SendLink, LoadConfirmation, Confirm
  <1>4. ASSUME NEW s \in Slots, ChangeStep(s)
        PROVE  ChangeInv'
    <2>1. ASSUME SaveChange(s)
          PROVE  ChangeInv'
      <3>1. slot[s].password \in Passwords
        BY <2>1, Busy DEF SaveChange, Flows, Base
      <3>2. PICK row \in Row : row = [password |-> slot[s].password, modified |-> now]
        BY <3>1, RowMade DEF Base, DataOK, ClockOK
      <3>3. StoreUser(s, row) /\ row.password = chosen'
        BY <2>1, <3>2 DEF SaveChange
      <3>4. QED
        BY <1>2, <3>3
    <2>2. ASSUME SaveProfile(s)
          PROVE  ChangeInv'
      <3>1. slot[s].row \in Row
        BY <2>2 DEF SaveProfile, At, Base, SlotsOK, GoodSlot
      <3>2. user' = slot[s].row /\ (covered \/ user # slot[s].row => covered')
        BY <2>2 DEF SaveProfile, StoreUser
      <3>3. chosen' = chosen
        BY <2>2 DEF SaveProfile
      <3>4. QED
        BY <3>1, <3>2, <3>3, NoRowAssumption DEF ChangeInv, ChangeHolds
    <2>3. ASSUME SaveCommand(s)
          PROVE  ChangeInv'
      <3>1. slot[s].row \in Row
        BY <2>3 DEF SaveCommand, At, Base, SlotsOK, GoodSlot
      <3>2. slot[s].row.modified \in Nat /\ Mailed \in Passwords
        BY <3>1 DEF Row, Passwords
      <3>3. PICK row \in Row : row = [password |-> Mailed,
                                      modified |-> slot[s].row.modified]
        BY <3>2, RowMade
      <3>4. StoreUser(s, row) /\ row.password = chosen'
        BY <2>3, <3>3 DEF SaveCommand
      <3>5. QED
        BY <1>2, <3>4
    <2>4. QED
      BY <1>1, <1>4, <2>1, <2>2, <2>3
      DEF ChangeStep, ResetToken, AnswerExpired, RefuseFormat, MailReset,
          LoadTarget, TokenExists, FetchToken, DeleteToken
  <1>5. ASSUME NEW s \in Slots, Begin(s)
        PROVE  ChangeInv'
    BY <1>1, <1>5
    DEF Begin, StartRegister, StartAdmin, StartConfirm, StartReset, StartLogin,
        StartOwn, StartOther, StartChange, StartSave, StartProcess
  <1>6. ASSUME NEW s \in Slots, ProcessStep(s) \/ Abort(s)
        PROVE  ChangeInv'
    BY <1>1, <1>6
    DEF ProcessStep, FindProcessToken, GetProcessUser, CheckProcessTokens,
        CreateProcessToken, Abort
  <1>7. QED
    BY <1>1, <1>3, <1>4, <1>5, <1>6 DEF Next, Tick, vars

\* The account has the password that was set last, unless a request has saved
\* a row that it had loaded before another save.
THEOREM LastChangeHolds == Spec => []ChangeHolds
  <1>1. Init => ChangeInv
    BY DEF Init, ChangeInv, ChangeHolds
  <1>2. Base /\ ChangeInv /\ [Next]_vars => ChangeInv'
    BY NoChangeLost
  <1>3. ChangeInv => ChangeHolds
    BY DEF ChangeInv
  <1>4. QED
    BY <1>1, <1>2, <1>3, BaseHolds, PTL DEF Spec

-----------------------------------------------------------------------------
(***************************************************************************)
(* Steps of one request that do not take it where it is counted.           *)
(***************************************************************************)

\* Request s ends, goes on or begins, and is not in places of flow after it.
Avoids(s, flow, places) ==
    \/ End(s)
    \/ \E pc, row, k, mine : /\ Goes(s, pc, row, k, mine)
                             /\ slot[s].flow # flow \/ pc \notin places
    \/ \E f, pc, row, k, w : /\ Start(s, f, pc, row, k, w)
                             /\ f # flow \/ pc \notin places

LEMMA AvoidsSlot ==
    ASSUME SlotsOK, NEW s \in Slots, NEW flow, NEW places, flow # "idle",
           Avoids(s, flow, places)
    PROVE  /\ \A t \in Slots : t # s => slot'[t] = slot[t]
           /\ slot'[s].flow # flow \/ slot'[s].pc \notin places
  <1>1. ASSUME End(s)
        PROVE  /\ \A t \in Slots : t # s => slot'[t] = slot[t]
               /\ slot'[s].flow # flow \/ slot'[s].pc \notin places
    BY <1>1, IdleFields DEF End, SlotsOK
  <1>2. ASSUME NEW pc, NEW row, NEW k, NEW mine, Goes(s, pc, row, k, mine),
               slot[s].flow # flow \/ pc \notin places
        PROVE  /\ \A t \in Slots : t # s => slot'[t] = slot[t]
               /\ slot'[s].flow # flow \/ slot'[s].pc \notin places
    BY <1>2, GoesSlot DEF Fields, SlotsOK
  <1>3. ASSUME NEW f, NEW pc, NEW row, NEW k, NEW w, Start(s, f, pc, row, k, w),
               f # flow \/ pc \notin places
        PROVE  /\ \A t \in Slots : t # s => slot'[t] = slot[t]
               /\ slot'[s].flow # flow \/ slot'[s].pc \notin places
    BY <1>3 DEF Start, SlotsOK
  <1>4. QED
    BY <1>1, <1>2, <1>3 DEF Avoids

-----------------------------------------------------------------------------
(***************************************************************************)
(* TokenChangesOnce: the requests that have fetched a token and have not   *)
(* saved are counted with the changes that it has made.                    *)
(***************************************************************************)

Saving(k) == {s \in Slots : /\ slot[s].flow = "token" /\ slot[s].pc = "save"
                            /\ slot[s].key = k}

\* Between its fetch and its delete.
Fetched(s) == slot[s].flow = "token" /\ slot[s].pc \in {"save", "delete"}

UsesCounted == \A k \in Tokens : uses[k] + Cardinality(Saving(k)) <= 1 + crossed[k]

\* A token that is there and that no request holds can make one more change.
UsesLeft ==
    \A k \in Tokens :
        tokens[k] # "deleted" /\ (\A s \in Slots : ~Holds(s, k))
            => uses[k] <= crossed[k]

TokenInv == UsesCounted /\ UsesLeft

LEMMA SavingFinite ==
    ASSUME NEW k
    PROVE  IsFiniteSet(Saving(k)) /\ Cardinality(Saving(k)) \in Nat
  BY ConstantsAssumption, FS_Subset, FS_CardinalityType DEF Saving

LEMMA QuietToken ==
    ASSUME Base, TokenInv, NEW s \in Slots, Avoids(s, "token", {"save", "delete"}),
           ~Fetched(s), UNCHANGED <<uses, crossed>>,
           \A k \in Tokens : tokens'[k] # "deleted" => tokens[k] # "deleted"
    PROVE  TokenInv'
  <1>1. /\ \A t \in Slots : t # s => slot'[t] = slot[t]
        /\ slot'[s].flow # "token" \/ slot'[s].pc \notin {"save", "delete"}
    BY AvoidsSlot DEF Base
  <1>2. ASSUME NEW k \in Tokens
        PROVE  Saving(k)' = Saving(k)
    BY <1>1 DEF Saving, Fetched
  <1>3. ASSUME NEW k \in Tokens
        PROVE  (\A t \in Slots : ~Holds(t, k)) <=> (\A t \in Slots : ~Holds(t, k))'
    BY <1>1 DEF Holds, Fetched
  <1>4. UsesCounted'
    BY <1>2 DEF TokenInv, UsesCounted
  <1>5. UsesLeft'
    BY <1>3 DEF TokenInv, UsesLeft
  <1>6. QED
    BY <1>4, <1>5 DEF TokenInv

\* One token is concerned, and its requests are those of the step.
LEMMA OneToken ==
    ASSUME Base, TokenInv, NEW s \in Slots, NEW k \in Tokens,
           slot[s].key = k, slot[s].flow = "token",
           \A t \in Slots : t # s => slot'[t] = slot[t],
           slot'[s].flow # "token" \/ slot'[s].key = k,
           \A j \in Tokens : j # k => /\ uses'[j] = uses[j]
                                      /\ crossed'[j] = crossed[j]
                                      /\ tokens'[j] = tokens[j],
           uses'[k] + Cardinality(Saving(k)') <= 1 + crossed'[k],
           tokens'[k] # "deleted" /\ (\A t \in Slots : ~Holds(t, k)')
               => uses'[k] <= crossed'[k]
    PROVE  TokenInv'
  <1>1. ASSUME NEW j \in Tokens, j # k
        PROVE  /\ Saving(j)' = Saving(j)
               /\ \A t \in Slots : Holds(t, j)' <=> Holds(t, j)
    BY <1>1 DEF Saving, Holds
  <1>2. UsesCounted'
    <2>1. ASSUME NEW j \in Tokens
          PROVE  (uses[j] + Cardinality(Saving(j)) <= 1 + crossed[j])'
      BY <1>1 DEF TokenInv, UsesCounted
    <2>2. QED
      BY <2>1 DEF UsesCounted
  <1>3. UsesLeft'
    <2>1. ASSUME NEW j \in Tokens, tokens'[j] # "deleted",
                 \A t \in Slots : ~Holds(t, j)'
          PROVE  uses'[j] <= crossed'[j]
      <3>1. ASSUME j # k
            PROVE  uses'[j] <= crossed'[j]
        <4>1. \A t \in Slots : ~Holds(t, j)
          BY <1>1, <2>1, <3>1
        <4>2. QED
          BY <2>1, <3>1, <4>1 DEF TokenInv, UsesLeft
      <3>2. QED
        BY <2>1, <3>1
    <2>2. QED
      BY <2>1 DEF UsesLeft
  <1>4. QED
    BY <1>2, <1>3 DEF TokenInv

LEMMA FetchKeeps ==
    ASSUME Base, TokenInv, NEW s \in Slots, FetchToken(s)
    PROVE  TokenInv'
  <1>1. PICK k \in Tokens : k = slot[s].key
    BY DEF FetchToken, At, Base, SlotsOK, GoodSlot
  <1>2. At(s, "token", "fetch") /\ uses' = uses
    BY DEF FetchToken
  <1>3. now \in Nat /\ expiry[k] \in Nat
    BY DEF Base, DataOK, ClockOK, TokensOK
  <1>4. ASSUME End(s), crossed' = crossed
        PROVE  TokenInv'
    <2>1. \A j \in Tokens : tokens'[j] # "deleted" => tokens[j] # "deleted"
      BY <1>1 DEF FetchToken, Base, DataOK, TokensOK
    <2>2. Avoids(s, "token", {"save", "delete"}) /\ ~Fetched(s)
      BY <1>2, <1>4 DEF Avoids, Fetched, At
    <2>3. QED
      BY <1>2, <1>4, <2>1, <2>2, QuietToken
  <1>5. ASSUME Goto(s, "save"), tokens[k] = "live", now < expiry[k],
               crossed' = IF \E t \in Others(s) : Holds(t, k)
                            THEN [crossed EXCEPT ![k] = @ + 1] ELSE crossed
        PROVE  TokenInv'
    <2>1. PICK q : q = Fields(slot[s].flow, "save", slot[s].row, slot[s].key,
                              slot[s].password, slot[s].mine)
      OBVIOUS
    <2>2. slot' = [slot EXCEPT ![s] = q]
      BY <1>5, <2>1, GoesSlot DEF Base, Goto
    <2>3. /\ \A t \in Slots : t # s => slot'[t] = slot[t]
          /\ slot'[s].flow = "token" /\ slot'[s].pc = "save" /\ slot'[s].key = k
      BY <1>1, <1>2, <2>1, <2>2 DEF Base, SlotsOK, Fields, At
    <2>4. s \notin Saving(k) /\ ~Holds(s, k)
      BY <1>2 DEF Saving, Holds, At
    <2>5. Saving(k)' = Saving(k) \cup {s}
      BY <2>3 DEF Saving
    <2>6. Cardinality(Saving(k)') = Cardinality(Saving(k)) + 1
      BY <2>4, <2>5, SavingFinite, FS_AddElement
    <2>7. uses[k] + Cardinality(Saving(k)) <= 1 + crossed[k]
      BY DEF TokenInv, UsesCounted
    <2>8. /\ uses[k] \in Nat /\ crossed[k] \in Nat
          /\ Cardinality(Saving(k)) \in Nat
      BY SavingFinite DEF Base, DataOK, TokensOK
    <2>9. uses'[k] + Cardinality(Saving(k)') <= 1 + crossed'[k]
      <3>1. ASSUME \E t \in Others(s) : Holds(t, k)
            PROVE  crossed'[k] = crossed[k] + 1
        BY <1>5, <3>1 DEF Base, DataOK, TokensOK
      <3>2. ASSUME ~\E t \in Others(s) : Holds(t, k)
            PROVE  crossed'[k] = crossed[k] /\ uses[k] <= crossed[k]
                   /\ Cardinality(Saving(k)) = 0
        <4>1. \A t \in Slots : ~Holds(t, k)
          BY <2>4, <3>2 DEF Others
        <4>2. Saving(k) = {}
          BY <4>1 DEF Saving, Holds
        <4>3. QED
          BY <1>5, <3>2, <4>1, <4>2, FS_EmptySet DEF TokenInv, UsesLeft
      <3>3. QED
        BY <1>2, <2>6, <2>7, <2>8, <3>1, <3>2
    <2>10. Holds(s, k)'
      BY <2>3 DEF Holds
    <2>11. tokens' = tokens
      BY <1>1, <1>5, <1>3 DEF FetchToken
    <2>12. \A j \in Tokens : j # k => crossed'[j] = crossed[j]
      BY <1>5 DEF Base, DataOK, TokensOK
    <2>13. QED
      BY <1>1, <1>2, <2>3, <2>9, <2>10, <2>11, <2>12, OneToken DEF At
  <1>6. \/ End(s) /\ crossed' = crossed
        \/ /\ Goto(s, "save") /\ tokens[k] = "live" /\ ~(now >= expiry[k])
           /\ crossed' = IF \E t \in Others(s) : Holds(t, k)
                           THEN [crossed EXCEPT ![k] = @ + 1] ELSE crossed
    BY <1>1 DEF FetchToken
  <1>7. QED
    BY <1>4, <1>5, <1>6, <1>3

LEMMA SaveKeepsToken ==
    ASSUME Base, TokenInv, NEW s \in Slots, SaveChange(s)
    PROVE  TokenInv'
  <1> USE DEF mails
  <1>1. ASSUME slot[s].flow # "token"
        PROVE  TokenInv'
    <2>1. End(s) /\ UNCHANGED <<uses, crossed, tokens>>
      BY <1>1 DEF SaveChange
    <2>2. Avoids(s, "token", {"save", "delete"}) /\ ~Fetched(s)
      BY <1>1, <2>1 DEF Avoids, Fetched
    <2>3. QED
      BY <2>1, <2>2, QuietToken
  <1>2. ASSUME slot[s].flow = "token"
        PROVE  TokenInv'
    <2>1. PICK k \in Tokens : k = slot[s].key
      BY <1>2 DEF Base, SlotsOK, GoodSlot
    <2>2. PICK q : q = Fields(slot[s].flow, "delete", slot[s].row, slot[s].key,
                              slot[s].password, slot[s].mine)
      OBVIOUS
    <2>3. slot' = [slot EXCEPT ![s] = q]
      BY <1>2, <2>2, GoesSlot DEF Base, SaveChange, Goto
    <2>4. /\ \A t \in Slots : t # s => slot'[t] = slot[t]
          /\ slot'[s].flow = "token" /\ slot'[s].pc = "delete" /\ slot'[s].key = k
      BY <1>2, <2>1, <2>2, <2>3 DEF Base, SlotsOK, Fields
    <2>5. s \in Saving(k) /\ Saving(k)' = Saving(k) \ {s}
      BY <1>2, <2>1, <2>4 DEF Saving, SaveChange
    <2>6. Cardinality(Saving(k)') = Cardinality(Saving(k)) - 1
      BY <2>5, SavingFinite, FS_RemoveElement
    <2>7. UNCHANGED <<crossed, tokens>> /\ uses' = [uses EXCEPT ![k] = @ + 1]
      BY <1>2, <2>1 DEF SaveChange
    <2>8. /\ uses[k] \in Nat /\ crossed[k] \in Nat
          /\ Cardinality(Saving(k)) \in Nat
          /\ uses[k] + Cardinality(Saving(k)) <= 1 + crossed[k]
      BY SavingFinite DEF Base, DataOK, TokensOK, TokenInv, UsesCounted
    <2>9. uses'[k] = uses[k] + 1 /\ \A j \in Tokens : j # k => uses'[j] = uses[j]
      BY <2>7 DEF Base, DataOK, TokensOK
    <2>10. uses'[k] + Cardinality(Saving(k)') <= 1 + crossed'[k]
      BY <2>6, <2>7, <2>8, <2>9
    <2>11. Holds(s, k)'
      BY <2>4 DEF Holds
    <2>12. QED
      BY <1>2, <2>1, <2>4, <2>7, <2>9, <2>10, <2>11, OneToken
  <1>3. QED
    BY <1>1, <1>2

LEMMA DeleteKeepsToken ==
    ASSUME Base, TokenInv, NEW s \in Slots, DeleteToken(s)
    PROVE  TokenInv'
  <1>1. PICK k \in Tokens : k = slot[s].key
    BY DEF DeleteToken, At, Base, SlotsOK, GoodSlot
  <1>2. At(s, "token", "delete") /\ UNCHANGED <<uses, crossed>>
    BY DEF DeleteToken, changes
  <1>3. \A t \in Slots : t # s => slot'[t] = slot[t]
    BY DEF DeleteToken, End, Base, SlotsOK
  <1>4. slot'[s].flow = "idle"
    BY IdleFields DEF DeleteToken, End, Base, SlotsOK
  <1>5. Saving(k)' = Saving(k)
    BY <1>2, <1>3, <1>4 DEF Saving, At
  <1>6. tokens'[k] = "deleted" /\ \A j \in Tokens : j # k => tokens'[j] = tokens[j]
    BY <1>1 DEF DeleteToken, Base, DataOK, TokensOK
  <1>7. uses'[k] + Cardinality(Saving(k)') <= 1 + crossed'[k]
    BY <1>2, <1>5 DEF TokenInv, UsesCounted
  <1>8. QED
    BY <1>1, <1>2, <1>3, <1>4, <1>6, <1>7, OneToken DEF At

LEMMA AbortKeepsToken ==
    ASSUME Base, TokenInv, NEW s \in Slots, Abort(s)
    PROVE  TokenInv'
  <1>1. UNCHANGED <<uses, tokens>> /\ End(s)
    BY DEF Abort, rows
  <1>2. ASSUME ~Fetched(s)
        PROVE  TokenInv'
    <2>1. crossed' = crossed /\ Avoids(s, "token", {"save", "delete"})
      BY <1>1, <1>2 DEF Abort, Fetched, At, Avoids
    <2>2. QED
      BY <1>1, <1>2, <2>1, QuietToken
  <1>3. ASSUME Fetched(s)
        PROVE  TokenInv'
    <2>1. PICK k \in Tokens : k = slot[s].key
      BY <1>3 DEF Fetched, Base, SlotsOK, GoodSlot
    <2>2. \A t \in Slots : t # s => slot'[t] = slot[t]
      BY <1>1 DEF End, Base, SlotsOK
    <2>3. slot'[s].flow = "idle"
      BY <1>1, IdleFields DEF End, Base, SlotsOK
    <2>4. Saving(k)' = Saving(k) \ {s}
      BY <2>2, <2>3 DEF Saving
    <2>5. /\ uses[k] \in Nat /\ crossed[k] \in Nat
          /\ Cardinality(Saving(k)) \in Nat
          /\ uses[k] + Cardinality(Saving(k)) <= 1 + crossed[k]
      BY SavingFinite DEF Base, DataOK, TokensOK, TokenInv, UsesCounted
    <2>6. ASSUME slot[s].pc = "delete"
          PROVE  /\ Cardinality(Saving(k)') = Cardinality(Saving(k))
                 /\ crossed'[k] = crossed[k] + 1
                 /\ \A j \in Tokens : j # k => crossed'[j] = crossed[j]
      <3>1. Saving(k)' = Saving(k)
        BY <2>4, <2>6 DEF Saving
      <3>2. crossed' = [crossed EXCEPT ![k] = @ + 1]
        BY <1>3, <2>1, <2>6 DEF Abort, At, Fetched
      <3>3. QED
        BY <3>1, <3>2 DEF Base, DataOK, TokensOK
    <2>7. ASSUME slot[s].pc = "save"
          PROVE  /\ Cardinality(Saving(k)') = Cardinality(Saving(k)) - 1
                 /\ crossed' = crossed
      <3>1. s \in Saving(k)
        BY <1>3, <2>1, <2>7 DEF Saving, Fetched
      <3>2. QED
        BY <2>4, <2>7, <3>1, SavingFinite, FS_RemoveElement DEF Abort, At
    <2>8. slot[s].pc = "delete" \/ slot[s].pc = "save"
      BY <1>3 DEF Fetched
    <2>9. uses'[k] + Cardinality(Saving(k)') <= 1 + crossed'[k]
      BY <1>1, <2>5, <2>6, <2>7, <2>8
    <2>10. ASSUME \A t \in Slots : ~Holds(t, k)'
           PROVE  uses'[k] <= crossed'[k]
      <3>1. Saving(k)' = {}
        BY <2>10 DEF Saving, Holds
      <3>2. Cardinality(Saving(k)') = 0
        BY <3>1, FS_EmptySet
      <3>3. QED
        BY <1>1, <2>5, <2>6, <2>7, <2>8, <3>2
    <2>11. \A j \in Tokens : j # k => crossed'[j] = crossed[j]
      BY <2>6, <2>7, <2>8
    <2>12. QED
      BY <1>1, <1>3, <2>1, <2>2, <2>3, <2>9, <2>10, <2>11, OneToken DEF Fetched
  <1>4. QED
    BY <1>2, <1>3

LEMMA TokenStep ==
    ASSUME Base, TokenInv, [Next]_vars
    PROVE  TokenInv'
  <1> USE DEF clock, rows, processes, mails, changes
  <1>1. ASSUME UNCHANGED <<slot, uses, crossed, tokens>>
        PROVE  TokenInv'
    BY <1>1 DEF TokenInv, UsesCounted, UsesLeft, Saving, Holds
  <1>2. ASSUME NEW s \in Slots, Avoids(s, "token", {"save", "delete"}), ~Fetched(s),
               UNCHANGED <<uses, crossed, tokens>>
        PROVE  TokenInv'
    BY <1>2, QuietToken
  <1>3. ASSUME NEW s \in Slots, NEW t \in Tokens, NEW life, CreateToken(t, life),
               Avoids(s, "token", {"save", "delete"}), ~Fetched(s),
               UNCHANGED <<uses, crossed>>
        PROVE  TokenInv'
    <2>1. \A k \in Tokens : tokens'[k] # "deleted" => tokens[k] # "deleted"
      BY <1>3 DEF CreateToken, Base, DataOK, TokensOK
    <2>2. QED
      BY <1>3, <2>1, QuietToken
  <1>4. ASSUME NEW s \in Slots, RegisterStep(s)
        PROVE  TokenInv'
    <2>1. ASSUME NEW t \in Tokens, RegisterToken(s, t)
          PROVE  TokenInv'
      BY <1>3, <2>1 DEF RegisterToken, Avoids, Fetched, At, Hold
    <2>2. ASSUME RegisterGet(s) \/ RegisterCreate(s) \/ RegisterPassword(s)
          PROVE  TokenInv'
      BY <1>2, <2>2
      DEF RegisterGet, RegisterCreate, RegisterPassword, Avoids, Fetched, At,
          Goto, Load
    <2>3. ASSUME RegisterMail(s) \/ SaveSent(s) \/ LoadConfirmation(s) \/ Confirm(s)
          PROVE  TokenInv'
      BY <1>2, <2>3
      DEF RegisterMail, SaveSent, LoadConfirmation, Confirm, Avoids, Fetched,
          At,
          Keep
    <2>4. ASSUME GetConfirmation(s) \/ SendLink(s)
          PROVE  TokenInv'
      BY <1>2, <2>4 DEF GetConfirmation, SendLink, Avoids, Fetched, Goto, Keep
    <2>5. QED
      BY <1>4, <2>1, <2>2, <2>3, <2>4 DEF RegisterStep
  <1>5. ASSUME NEW s \in Slots, ChangeStep(s)
        PROVE  TokenInv'
    <2>1. ASSUME NEW t \in Tokens, ResetToken(s, t) \/ AnswerExpired(s, t)
          PROVE  TokenInv'
      BY <1>3, <2>1 DEF ResetToken, AnswerExpired, Avoids, Fetched, At, Hold
    <2>2. ASSUME RefuseFormat(s) \/ MailReset(s) \/ LoadTarget(s) \/ TokenExists(s)
          PROVE  TokenInv'
      BY <1>2, <2>2
      DEF RefuseFormat, MailReset, LoadTarget, TokenExists, Avoids, Fetched, At,
          Goto, Load
    <2>3. ASSUME SaveProfile(s) \/ SaveCommand(s)
          PROVE  TokenInv'
      BY <1>2, <2>3 DEF SaveProfile, SaveCommand, Avoids, Fetched, At
    <2>4. QED
      BY <1>5, <2>1, <2>2, <2>3, FetchKeeps, SaveKeepsToken, DeleteKeepsToken
      DEF ChangeStep
  <1>6. ASSUME NEW s \in Slots, Begin(s)
        PROVE  TokenInv'
    <2>1. ASSUME NEW f, NEW pc, NEW row, NEW k, NEW w, Start(s, f, pc, row, k, w),
                 pc \notin {"save", "delete"} \/ f # "token",
                 UNCHANGED <<uses, crossed, tokens>>
          PROVE  TokenInv'
      <3>1. Avoids(s, "token", {"save", "delete"})
        BY <2>1 DEF Avoids
      <3>2. ~Fetched(s)
        BY <2>1, IdleFields DEF Start, Fetched
      <3>3. QED
        BY <1>2, <2>1, <3>1, <3>2
    <2>2. QED
      BY <1>6, <2>1
      DEF Begin, StartRegister, StartAdmin, StartConfirm, StartReset,
          StartLogin,
          StartOwn, StartOther, StartChange, StartSave, StartProcess
  <1>7. ASSUME NEW s \in Slots, ProcessStep(s)
        PROVE  TokenInv'
    BY <1>2, <1>7
    DEF ProcessStep, FindProcessToken, GetProcessUser, CheckProcessTokens,
        CreateProcessToken, Avoids, Fetched, At, Goto
  <1>8. QED
    BY <1>1, <1>4, <1>5, <1>6, <1>7, AbortKeepsToken DEF Next, Tick, vars

\* A PasswordChangeToken makes one change, and one more for each request that
\* fetched it while another had not deleted it, or that ended before the delete.
THEOREM TokensChangeOnce == Spec => []TokenChangesOnce
  <1>1. Init => TokenInv
    <2>1. ASSUME Init
          PROVE  UsesLeft
      BY <2>1 DEF Init, UsesLeft
    <2>2. ASSUME Init, NEW k \in Tokens
          PROVE  uses[k] + Cardinality(Saving(k)) <= 1 + crossed[k]
      <3>1. Saving(k) = {}
        BY <2>2, IdleFields DEF Init, Saving
      <3>2. QED
        BY <2>2, <3>1, FS_EmptySet DEF Init
    <2>3. QED
      BY <2>1, <2>2 DEF TokenInv, UsesCounted
  <1>2. Base /\ TokenInv /\ [Next]_vars => TokenInv'
    BY TokenStep
  <1>3. Base /\ TokenInv => TokenChangesOnce
    <2>1. ASSUME Base, TokenInv, NEW k \in Tokens
          PROVE  uses[k] <= 1 + crossed[k]
      BY <2>1, SavingFinite DEF TokenInv, UsesCounted, Base, DataOK, TokensOK
    <2>2. QED
      BY <2>1 DEF TokenChangesOnce
  <1>4. QED
    BY <1>1, <1>2, <1>3, BaseHolds, PTL DEF Spec

-----------------------------------------------------------------------------
(***************************************************************************)
(* OneTokenPerProcess: a token is counted from the check that its request  *)
(* passes, and the first one when the user of the process is made.         *)
(***************************************************************************)

Creating(s) == At(s, "process", "create")

\* The tokens of the process, with those that a request is about to create.
Drawn ==
    processTokens \cup
        {k \in ProcessKeys : \E s \in Slots : Creating(s) /\ slot[s].key = k}

DrawnCounted == Cardinality(Drawn) <= 1 + processCrossed

\* Without its user the process has no token, and nobody looks at its tokens.
NothingDrawn ==
    ~processUser => Drawn = {} /\ \A s \in Slots : ~At(s, "process", "check")

ProcessInv == DrawnCounted /\ NothingDrawn

LEMMA DrawnFinite ==
    ASSUME Base
    PROVE  /\ Drawn \subseteq ProcessKeys /\ IsFiniteSet(Drawn)
           /\ Cardinality(Drawn) \in Nat
  <1>1. Drawn \subseteq ProcessKeys
    BY DEF Drawn, Base, DataOK, ProcessOK
  <1>2. QED
    BY <1>1, ConstantsAssumption, FS_Subset, FS_CardinalityType

\* The set of drawn tokens does not grow.
LEMMA NoneDrawn ==
    ASSUME Base, ProcessInv, Drawn' \subseteq Drawn, processCrossed' = processCrossed,
           ~processUser' => ~processUser /\ \A s \in Slots : ~At(s, "process", "check")'
    PROVE  ProcessInv'
  <1>1. Cardinality(Drawn') <= Cardinality(Drawn) /\ Cardinality(Drawn') \in Nat
    BY DrawnFinite, FS_Subset, FS_CardinalityType
  <1>2. DrawnCounted'
    BY <1>1, DrawnFinite DEF ProcessInv, DrawnCounted, Base, DataOK, ProcessOK
  <1>3. NothingDrawn'
    BY DEF ProcessInv, NothingDrawn
  <1>4. QED
    BY <1>2, <1>3 DEF ProcessInv

LEMMA QuietProcess ==
    ASSUME Base, ProcessInv, NEW s \in Slots,
           Avoids(s, "process", {"create", "check"}),
           UNCHANGED <<processUser, processCrossed>>,
           processTokens' \subseteq Drawn
    PROVE  ProcessInv'
  <1>1. /\ \A t \in Slots : t # s => slot'[t] = slot[t]
        /\ slot'[s].flow # "process" \/ slot'[s].pc \notin {"create", "check"}
    BY AvoidsSlot DEF Base
  <1>2. Drawn' \subseteq Drawn
    BY <1>1 DEF Drawn, Creating, At
  <1>3. ~processUser => \A t \in Slots : ~At(t, "process", "check")'
    BY <1>1 DEF ProcessInv, NothingDrawn, At
  <1>4. QED
    BY <1>2, <1>3, NoneDrawn

\* Request s passes with the key k.
LEMMA DrawOne ==
    ASSUME Base, ProcessInv, NEW s \in Slots, NEW k \in ProcessKeys,
           slot[s].flow = "process", slot[s].key = k,
           Goto(s, "create"), Passed(s), processUser',
           processTokens' = processTokens, processTokens \subseteq {k}
    PROVE  ProcessInv'
  <1>1. /\ \A t \in Slots : t # s => slot'[t] = slot[t]
        /\ slot'[s].flow = "process" /\ slot'[s].pc = "create" /\ slot'[s].key = k
    BY GoesSlot DEF Goto, Fields, Base, SlotsOK
  <1>2. Drawn' \subseteq Drawn \cup {k}
    BY <1>1 DEF Drawn, Creating, At
  <1>3. /\ IsFiniteSet(Drawn \cup {k})
        /\ Cardinality(Drawn \cup {k}) <= Cardinality(Drawn) + 1
        /\ Cardinality(Drawn \cup {k}) \in Nat
    <2>1. IsFiniteSet(Drawn \cup {k})
      BY DrawnFinite, FS_AddElement
    <2>2. /\ Cardinality(Drawn \cup {k}) = IF k \in Drawn THEN Cardinality(Drawn)
                                            ELSE Cardinality(Drawn) + 1
      BY DrawnFinite, FS_AddElement
    <2>3. Cardinality(Drawn \cup {k}) <= Cardinality(Drawn) + 1
      BY <2>2, DrawnFinite
    <2>4. QED
      BY <2>1, <2>3, FS_CardinalityType
  <1>4. IsFiniteSet(Drawn') /\ Cardinality(Drawn') \in Nat
        /\ Cardinality(Drawn') <= Cardinality(Drawn) + 1
    BY <1>2, <1>3, DrawnFinite, FS_Subset, FS_CardinalityType
  <1>5. processCrossed \in Nat
    BY DEF Base, DataOK, ProcessOK
  <1>6. CASE \E t \in Others(s) : At(t, "process", "create")
    <2>1. processCrossed' = processCrossed + 1
      BY <1>6 DEF Passed
    <2>2. QED
      BY <1>4, <1>5, <2>1, DrawnFinite
      DEF ProcessInv, DrawnCounted, NothingDrawn
  <1>7. CASE \A t \in Others(s) : ~At(t, "process", "create")
    <2>1. processCrossed' = processCrossed
      BY <1>7 DEF Passed
    <2>2. Drawn' \subseteq {k}
      BY <1>1, <1>7 DEF Drawn, Creating, At, Others
    <2>3. Cardinality(Drawn') <= 1
      <3>1. IsFiniteSet({k}) /\ Cardinality({k}) = 1
        BY FS_Singleton
      <3>2. QED
        BY <2>2, <3>1, FS_Subset
    <2>4. QED
      BY <1>4, <1>5, <2>1, <2>3 DEF ProcessInv, DrawnCounted, NothingDrawn
  <1>8. QED
    BY <1>6, <1>7

LEMMA ProcessStepKeeps ==
    ASSUME Base, ProcessInv, NEW s \in Slots, ProcessStep(s)
    PROVE  ProcessInv'
  <1> USE DEF clock, rows, processes, mails, changes
  <1>1. slot[s].flow = "process" /\ slot[s].key \in ProcessKeys
    BY DEF ProcessStep, FindProcessToken, GetProcessUser, CheckProcessTokens,
        CreateProcessToken, At, Base, SlotsOK, GoodSlot
  <1>2. processTokens \subseteq Drawn
    BY DEF Drawn
  <1>3. ASSUME FindProcessToken(s)
        PROVE  ProcessInv'
    BY <1>2, <1>3, QuietProcess DEF FindProcessToken, Avoids, Goto
  <1>4. ASSUME GetProcessUser(s)
        PROVE  ProcessInv'
    <2>1. ASSUME processUser
          PROVE  ProcessInv'
      <3>1. /\ \A t \in Slots : t # s => slot'[t] = slot[t]
            /\ slot'[s].pc = "check"
        BY <1>4, <2>1, GoesSlot DEF GetProcessUser, Goto, Fields, Base, SlotsOK
      <3>2. Drawn' \subseteq Drawn
        BY <1>4, <3>1 DEF GetProcessUser, Drawn, Creating, At
      <3>3. processUser' /\ processCrossed' = processCrossed
        BY <1>4, <2>1 DEF GetProcessUser
      <3>4. QED
        BY <3>2, <3>3, NoneDrawn
    <2>2. ASSUME ~processUser
          PROVE  ProcessInv'
      <3>1. processTokens = {}
        BY <2>2 DEF ProcessInv, NothingDrawn, Drawn
      <3>2. QED
        BY <1>1, <1>4, <2>2, <3>1, DrawOne DEF GetProcessUser
    <2>3. QED
      BY <2>1, <2>2
  <1>5. ASSUME CheckProcessTokens(s)
        PROVE  ProcessInv'
    <2>1. processUser
      BY <1>5 DEF CheckProcessTokens, ProcessInv, NothingDrawn
    <2>2. ASSUME End(s), UNCHANGED processCrossed
          PROVE  ProcessInv'
      BY <1>2, <1>5, <2>2, QuietProcess DEF CheckProcessTokens, Avoids
    <2>3. ASSUME processTokens \ {slot[s].key} = {}, Goto(s, "create"), Passed(s)
          PROVE  ProcessInv'
      BY <1>1, <1>5, <2>1, <2>3, DrawOne DEF CheckProcessTokens
    <2>4. QED
      BY <1>5, <2>2, <2>3 DEF CheckProcessTokens
  <1>6. ASSUME CreateProcessToken(s)
        PROVE  ProcessInv'
    <2>1. processTokens' \subseteq Drawn
      BY <1>1, <1>2, <1>6 DEF CreateProcessToken, Drawn, Creating
    <2>2. QED
      BY <1>6, <2>1, QuietProcess DEF CreateProcessToken, Avoids
  <1>7. QED
    BY <1>3, <1>4, <1>5, <1>6 DEF ProcessStep

LEMMA ProcessInvStep ==
    ASSUME Base, ProcessInv, [Next]_vars
    PROVE  ProcessInv'
  <1> USE DEF clock, rows, processes, mails, changes
  <1>1. ASSUME UNCHANGED <<slot, processUser, processTokens, processCrossed>>
        PROVE  ProcessInv'
    BY <1>1 DEF ProcessInv, DrawnCounted, NothingDrawn, Drawn, Creating, At
  <1>2. ASSUME NEW s \in Slots, Avoids(s, "process", {"create", "check"}),
               UNCHANGED processes
        PROVE  ProcessInv'
    <2>1. processTokens' \subseteq Drawn
      BY <1>2 DEF Drawn
    <2>2. QED
      BY <1>2, <2>1, QuietProcess
  <1>3. ASSUME NEW s \in Slots, RegisterStep(s)
        PROVE  ProcessInv'
    <2>1. ASSUME NEW t \in Tokens, RegisterToken(s, t)
          PROVE  ProcessInv'
      BY <1>2, <2>1 DEF RegisterToken, Avoids, At, Hold
    <2>2. ASSUME RegisterGet(s) \/ RegisterCreate(s) \/ RegisterPassword(s)
          PROVE  ProcessInv'
      BY <1>2, <2>2
      DEF RegisterGet, RegisterCreate, RegisterPassword, Avoids, At, Goto, Load
    <2>3. ASSUME RegisterMail(s) \/ SaveSent(s) \/ LoadConfirmation(s) \/ Confirm(s)
          PROVE  ProcessInv'
      BY <1>2, <2>3
      DEF RegisterMail, SaveSent, LoadConfirmation, Confirm, Avoids, Keep
    <2>4. ASSUME GetConfirmation(s) \/ SendLink(s)
          PROVE  ProcessInv'
      BY <1>2, <2>4 DEF GetConfirmation, SendLink, Avoids, Goto, Keep
    <2>5. QED
      BY <1>3, <2>1, <2>2, <2>3, <2>4 DEF RegisterStep
  <1>4. ASSUME NEW s \in Slots, ChangeStep(s)
        PROVE  ProcessInv'
    <2>1. ASSUME NEW t \in Tokens, ResetToken(s, t) \/ AnswerExpired(s, t)
          PROVE  ProcessInv'
      BY <1>2, <2>1 DEF ResetToken, AnswerExpired, Avoids, Hold
    <2>2. ASSUME RefuseFormat(s) \/ MailReset(s) \/ LoadTarget(s) \/ TokenExists(s)
          PROVE  ProcessInv'
      BY <1>2, <2>2
      DEF RefuseFormat, MailReset, LoadTarget, TokenExists, Avoids, Goto, Load
    <2>3. ASSUME SaveProfile(s) \/ SaveCommand(s) \/ DeleteToken(s)
          PROVE  ProcessInv'
      BY <1>2, <2>3 DEF SaveProfile, SaveCommand, DeleteToken, Avoids
    <2>4. ASSUME FetchToken(s) \/ SaveChange(s)
          PROVE  ProcessInv'
      BY <1>2, <2>4 DEF FetchToken, SaveChange, Avoids, Goto
    <2>5. QED
      BY <1>4, <2>1, <2>2, <2>3, <2>4 DEF ChangeStep
  <1>5. ASSUME NEW s \in Slots, Begin(s)
        PROVE  ProcessInv'
    <2>1. ASSUME NEW f, NEW pc, NEW row, NEW k, NEW w, Start(s, f, pc, row, k, w),
                 pc \notin {"create", "check"}, UNCHANGED processes
          PROVE  ProcessInv'
      BY <1>2, <2>1 DEF Avoids
    <2>2. QED
      BY <1>5, <2>1
      DEF Begin, StartRegister, StartAdmin, StartConfirm, StartReset,
          StartLogin,
          StartOwn, StartOther, StartChange, StartSave, StartProcess
  <1>6. ASSUME NEW s \in Slots, Abort(s)
        PROVE  ProcessInv'
    BY <1>2, <1>6 DEF Abort, Avoids
  <1>7. QED
    BY <1>1, <1>3, <1>4, <1>5, <1>6, ProcessStepKeeps DEF Next, Tick, vars

\* A process has one token, and one more for each of its registrations that
\* passed the check while another was about to create its token.
THEOREM ProcessTokensCounted == Spec => []OneTokenPerProcess
  <1>1. Init => ProcessInv
    <2>1. ASSUME Init
          PROVE  Drawn = {} /\ \A s \in Slots : ~At(s, "process", "check")
      BY <2>1, IdleFields DEF Init, Drawn, Creating, At
    <2>2. ASSUME Init
          PROVE  Cardinality(Drawn) = 0
      BY <2>1, <2>2, FS_EmptySet
    <2>3. ASSUME Init
          PROVE  processCrossed = 0
      BY <2>3 DEF Init
    <2>4. QED
      BY <2>1, <2>2, <2>3 DEF ProcessInv, DrawnCounted, NothingDrawn
  <1>2. Base /\ ProcessInv /\ [Next]_vars => ProcessInv'
    BY ProcessInvStep
  <1>3. Base /\ ProcessInv => OneTokenPerProcess
    <2>1. ASSUME Base, ProcessInv
          PROVE  Cardinality(processTokens) <= 1 + processCrossed
      <3>1. processTokens \subseteq Drawn
        BY DEF Drawn
      <3>2. /\ Cardinality(processTokens) <= Cardinality(Drawn)
            /\ Cardinality(processTokens) \in Nat
        BY <2>1, <3>1, DrawnFinite, FS_Subset, FS_CardinalityType
      <3>3. QED
        BY <2>1, <3>2, DrawnFinite
        DEF ProcessInv, DrawnCounted, Base, DataOK, ProcessOK
    <2>2. QED
      BY <2>1 DEF OneTokenPerProcess
  <1>4. QED
    BY <1>1, <1>2, <1>3, BaseHolds, PTL DEF Spec

-----------------------------------------------------------------------------
(***************************************************************************)
(* ConfirmedStays: what send_link is about to save is confirmed, once      *)
(* somebody has followed the link undisturbed.                             *)
(***************************************************************************)

Sending(s) == slot[s].pc \in {"link", "sent"}

ConfirmedInv ==
    clicked => /\ confirmation.confirmed
               /\ \A s \in Slots : Sending(s) => slot[s].mine.confirmed

\* Request s ends, goes on or begins somewhere else.
Elsewhere(s) ==
    \/ End(s)
    \/ \E pc, row, k, mine : Goes(s, pc, row, k, mine) /\ pc \notin {"link", "sent"}
    \/ \E f, pc, row, k, w : Start(s, f, pc, row, k, w) /\ pc \notin {"link", "sent"}

LEMMA ElsewhereSlot ==
    ASSUME SlotsOK, NEW s \in Slots, Elsewhere(s)
    PROVE  ~Sending(s)' /\ \A t \in Slots : t # s => slot'[t] = slot[t]
  <1>1. ASSUME End(s)
        PROVE  slot'[s].pc \notin {"link", "sent"}
               /\ \A t \in Slots : t # s => slot'[t] = slot[t]
    BY <1>1, IdleFields DEF End, SlotsOK
  <1>2. ASSUME NEW pc, NEW row, NEW k, NEW mine, Goes(s, pc, row, k, mine),
               pc \notin {"link", "sent"}
        PROVE  slot'[s].pc \notin {"link", "sent"}
               /\ \A t \in Slots : t # s => slot'[t] = slot[t]
    BY <1>2, GoesSlot DEF Fields, SlotsOK
  <1>3. ASSUME NEW f, NEW pc, NEW row, NEW k, NEW w, Start(s, f, pc, row, k, w),
               pc \notin {"link", "sent"}
        PROVE  slot'[s].pc \notin {"link", "sent"}
               /\ \A t \in Slots : t # s => slot'[t] = slot[t]
    BY <1>3 DEF Start, SlotsOK
  <1>4. QED
    BY <1>1, <1>2, <1>3 DEF Elsewhere, Sending

\* The confirmation may change when it stays confirmed.
LEMMA ElsewhereKeeps ==
    ASSUME SlotsOK, ConfirmedInv, NEW s \in Slots, Elsewhere(s), clicked' = clicked,
           clicked => confirmation'.confirmed
    PROVE  ConfirmedInv'
  <1>1. ~Sending(s)' /\ \A t \in Slots : t # s => slot'[t] = slot[t]
    BY ElsewhereSlot
  <1>2. ASSUME NEW t \in Slots, Sending(t)', clicked
        PROVE  slot'[t].mine.confirmed
    BY <1>1, <1>2 DEF Sending, ConfirmedInv
  <1>3. QED
    BY <1>2 DEF ConfirmedInv

\* Request s is about to send what it has in mine, which is confirmed.
LEMMA SendingKeeps ==
    ASSUME SlotsOK, ConfirmedInv, NEW s \in Slots, NEW pc, NEW row, NEW k, NEW mine,
           Goes(s, pc, row, k, mine), clicked' = clicked,
           clicked => mine.confirmed /\ confirmation'.confirmed
    PROVE  ConfirmedInv'
  <1>1. slot'[s].mine = mine /\ \A t \in Slots : t # s => slot'[t] = slot[t]
    BY GoesSlot DEF Fields, SlotsOK
  <1>2. ASSUME NEW t \in Slots, Sending(t)', clicked
        PROVE  slot'[t].mine.confirmed
    BY <1>1, <1>2 DEF Sending, ConfirmedInv
  <1>3. QED
    BY <1>2 DEF ConfirmedInv

LEMMA ConfirmedStep ==
    ASSUME Base, ConfirmedInv, [Next]_vars
    PROVE  ConfirmedInv'
  <1> USE DEF clock, rows, processes, mails, changes
  <1>0. SlotsOK
    BY DEF Base
  <1>1. ASSUME UNCHANGED <<slot, confirmation, clicked>>
        PROVE  ConfirmedInv'
    BY <1>1 DEF ConfirmedInv, Sending
  <1>2. ASSUME NEW s \in Slots, Elsewhere(s), UNCHANGED <<confirmation, clicked>>
        PROVE  ConfirmedInv'
    BY <1>0, <1>2, ElsewhereKeeps DEF ConfirmedInv
  <1>3. ASSUME NEW s \in Slots, RegisterStep(s)
        PROVE  ConfirmedInv'
    <2>1. ASSUME NEW t \in Tokens, RegisterToken(s, t)
          PROVE  ConfirmedInv'
      BY <1>2, <2>1 DEF RegisterToken, Elsewhere, Hold
    <2>2. ASSUME RegisterGet(s) \/ RegisterCreate(s) \/ RegisterPassword(s)
          PROVE  ConfirmedInv'
      BY <1>2, <2>2
      DEF RegisterGet, RegisterCreate, RegisterPassword, Elsewhere, Goto, Load
    <2>3. ASSUME RegisterMail(s) \/ LoadConfirmation(s)
          PROVE  ConfirmedInv'
      BY <1>2, <2>3 DEF RegisterMail, LoadConfirmation, Elsewhere, Keep
    <2>4. ASSUME GetConfirmation(s)
          PROVE  ConfirmedInv'
      <3>1. ASSUME clicked
            PROVE  confirmation' = confirmation /\ confirmation.confirmed
        BY <2>4, <3>1, NoRowAssumption
        DEF GetConfirmation, ConfirmedInv, Base, ConfirmationKept
      <3>2. PICK mine : mine = confirmation'
        OBVIOUS
      <3>3. clicked' = clicked /\ (End(s) \/ Keep(s, "link", mine))
        BY <2>4, <3>2 DEF GetConfirmation
      <3>4. ASSUME Keep(s, "link", mine)
            PROVE  ConfirmedInv'
        BY <1>0, <3>1, <3>2, <3>3, <3>4, SendingKeeps DEF Keep
      <3>5. ASSUME End(s)
            PROVE  ConfirmedInv'
        BY <1>0, <3>1, <3>3, <3>5, ElsewhereKeeps DEF Elsewhere
      <3>6. QED
        BY <3>3, <3>4, <3>5
    <2>5. ASSUME SendLink(s)
          PROVE  ConfirmedInv'
      <3>1. clicked => slot[s].mine.confirmed /\ confirmation'.confirmed
        BY <2>5 DEF SendLink, ConfirmedInv, Sending
      <3>2. QED
        BY <1>0, <2>5, <3>1, SendingKeeps DEF SendLink, Goto
    <2>6. ASSUME SaveSent(s)
          PROVE  ConfirmedInv'
      <3>1. clicked => confirmation'.confirmed
        BY <2>6 DEF SaveSent, ConfirmedInv, Sending
      <3>2. QED
        BY <1>0, <2>6, <3>1, ElsewhereKeeps DEF SaveSent, Elsewhere
    <2>7. ASSUME Confirm(s)
          PROVE  ConfirmedInv'
      <3>1. confirmation'.confirmed /\ Elsewhere(s)
        BY <2>7 DEF Confirm, Elsewhere
      <3>2. ~Sending(s)' /\ \A t \in Slots : t # s => slot'[t] = slot[t]
        BY <1>0, <3>1, ElsewhereSlot
      <3>3. ASSUME NEW t \in Slots, Sending(t)', clicked'
            PROVE  slot'[t].mine.confirmed
        <4>1. t # s /\ slot'[t] = slot[t] /\ Sending(t)
          BY <3>2, <3>3 DEF Sending
        <4>2. clicked
          BY <2>7, <3>3, <4>1 DEF Confirm, Others, Sending
        <4>3. QED
          BY <4>1, <4>2 DEF ConfirmedInv
      <3>4. QED
        BY <3>1, <3>3 DEF ConfirmedInv
    <2>8. QED
      BY <1>3, <2>1, <2>2, <2>3, <2>4, <2>5, <2>6, <2>7 DEF RegisterStep
  <1>4. ASSUME NEW s \in Slots, ChangeStep(s)
        PROVE  ConfirmedInv'
    <2>1. ASSUME NEW t \in Tokens, ResetToken(s, t) \/ AnswerExpired(s, t)
          PROVE  ConfirmedInv'
      BY <1>2, <2>1 DEF ResetToken, AnswerExpired, Elsewhere, Hold
    <2>2. ASSUME RefuseFormat(s) \/ MailReset(s) \/ LoadTarget(s) \/ TokenExists(s)
          PROVE  ConfirmedInv'
      BY <1>2, <2>2
      DEF RefuseFormat, MailReset, LoadTarget, TokenExists, Elsewhere, Goto,
          Load
    <2>3. ASSUME SaveProfile(s) \/ SaveCommand(s) \/ DeleteToken(s)
          PROVE  ConfirmedInv'
      BY <1>2, <2>3 DEF SaveProfile, SaveCommand, DeleteToken, Elsewhere
    <2>4. ASSUME FetchToken(s) \/ SaveChange(s)
          PROVE  ConfirmedInv'
      BY <1>2, <2>4 DEF FetchToken, SaveChange, Elsewhere, Goto
    <2>5. QED
      BY <1>4, <2>1, <2>2, <2>3, <2>4 DEF ChangeStep
  <1>5. ASSUME NEW s \in Slots, Begin(s)
        PROVE  ConfirmedInv'
    <2>1. ASSUME NEW f, NEW pc, NEW row, NEW k, NEW w, Start(s, f, pc, row, k, w),
                 pc \notin {"link", "sent"}, UNCHANGED <<confirmation, clicked>>
          PROVE  ConfirmedInv'
      BY <1>2, <2>1 DEF Elsewhere
    <2>2. QED
      BY <1>5, <2>1
      DEF Begin, StartRegister, StartAdmin, StartConfirm, StartReset,
          StartLogin,
          StartOwn, StartOther, StartChange, StartSave, StartProcess
  <1>6. ASSUME NEW s \in Slots, ProcessStep(s) \/ Abort(s)
        PROVE  ConfirmedInv'
    BY <1>2, <1>6
    DEF ProcessStep, FindProcessToken, GetProcessUser, CheckProcessTokens,
        CreateProcessToken, Abort, Elsewhere, Goto
  <1>7. QED
    BY <1>1, <1>3, <1>4, <1>5, <1>6 DEF Next, Tick, vars

\* Who has followed the link of the mail stays confirmed, unless send_link was
\* about to save its row.
THEOREM ConfirmationStays == Spec => []ConfirmedStays
  <1>1. Init => ConfirmedInv
    BY DEF Init, ConfirmedInv
  <1>2. Base /\ ConfirmedInv /\ [Next]_vars => ConfirmedInv'
    BY ConfirmedStep
  <1>3. ConfirmedInv => ConfirmedStays
    BY DEF ConfirmedInv, ConfirmedStays
  <1>4. QED
    BY <1>1, <1>2, <1>3, BaseHolds, PTL DEF Spec

-----------------------------------------------------------------------------
(***************************************************************************)
(* RegisteredIsTold: from the save of a password that nobody knows until   *)
(* its token is in a mail, the registration is on its way to the mail.  A  *)
(* row in memory may bring such a password back later.                     *)
(***************************************************************************)

\* A registration on its way from the password to the mail with its token.
Telling(q) ==
    /\ q.flow = "register"
    /\ \/ q.pc = "token"
       \/ q.pc \in {"mail", "confirmation", "link"} /\ q.key \in Tokens

\* A row whose password somebody can know.
Known(row) == row = NoRow \/ row.password # Generated

AllKnown == Known(user) /\ \A s \in Slots : Known(slot[s].row)

TellInv ==
    told # {} \/ failed \/ AllKnown \/ \E s \in Slots : Telling(slot[s])

\* Request s ends, or it goes on or begins with this row.
Takes(s, row) ==
    \/ End(s)
    \/ \E pc, k, mine : Goes(s, pc, row, k, mine)
    \/ \E f, pc, k, w : Start(s, f, pc, row, k, w)

LEMMA TakesSlot ==
    ASSUME SlotsOK, NEW s \in Slots, NEW row, Takes(s, row)
    PROVE  /\ \A t \in Slots : t # s => slot'[t] = slot[t]
           /\ slot'[s].row \in {row, NoRow}
  <1>1. ASSUME End(s)
        PROVE  /\ \A t \in Slots : t # s => slot'[t] = slot[t]
               /\ slot'[s].row = NoRow
    BY <1>1, IdleFields DEF End, SlotsOK
  <1>2. ASSUME NEW pc, NEW k, NEW mine, Goes(s, pc, row, k, mine)
        PROVE  /\ \A t \in Slots : t # s => slot'[t] = slot[t]
               /\ slot'[s].row = row
    BY <1>2, GoesSlot DEF Fields, SlotsOK
  <1>3. ASSUME NEW f, NEW pc, NEW k, NEW w, Start(s, f, pc, row, k, w)
        PROVE  /\ \A t \in Slots : t # s => slot'[t] = slot[t]
               /\ slot'[s].row = row
    BY <1>3 DEF Start, SlotsOK
  <1>4. QED
    BY <1>1, <1>2, <1>3 DEF Takes

\* A request that is not on its way takes or saves a row that was there.
LEMMA TakesKeeps ==
    ASSUME SlotsOK, TellInv, NEW s \in Slots, NEW row, Takes(s, row),
           Telling(slot[s]) => told' # {} \/ failed',
           told # {} => told' # {}, failed => failed',
           AllKnown => Known(row) /\ Known(user')
    PROVE  TellInv'
  <1>1. /\ \A t \in Slots : t # s => slot'[t] = slot[t]
        /\ slot'[s].row \in {row, NoRow}
    BY TakesSlot
  <1>2. CASE told # {} \/ failed
    BY <1>2 DEF TellInv
  <1>3. CASE AllKnown
    <2>1. ASSUME NEW t \in Slots
          PROVE  Known(slot'[t].row)
      BY <1>1, <1>3, <2>1 DEF AllKnown, Known
    <2>2. AllKnown'
      BY <1>3, <2>1 DEF AllKnown, Known
    <2>3. QED
      BY <2>2 DEF TellInv
  <1>4. CASE \E t \in Slots : Telling(slot[t])
    <2>1. PICK t \in Slots : Telling(slot[t])
      BY <1>4
    <2>2. t # s => Telling(slot'[t])
      BY <1>1, <2>1
    <2>3. (\E u \in Slots : Telling(slot[u]))' \/ told' # {} \/ failed'
      BY <2>1, <2>2 DEF Telling
    <2>4. QED
      BY <2>3 DEF TellInv
  <1>5. QED
    BY <1>2, <1>3, <1>4 DEF TellInv

\* A request is on its way after its step.
LEMMA TellingKeeps ==
    ASSUME NEW s \in Slots, Telling(slot'[s])
    PROVE  TellInv'
  <1>1. (\E t \in Slots : Telling(slot[t]))'
    BY DEF Telling
  <1>2. QED
    BY <1>1 DEF TellInv

LEMMA KnownMade ==
    ASSUME NEW password, password # Generated, NEW at
    PROVE  Known([password |-> password, modified |-> at])
  BY DEF Known

LEMMA RegisterTells ==
    ASSUME Base, TellInv, NEW s \in Slots, RegisterStep(s)
    PROVE  TellInv'
  <1> USE DEF clock, rows, processes, mails, changes
  <1>1. SlotsOK /\ told \subseteq Tokens /\ Generated # Unset
    BY ConstantsAssumption DEF Base, DataOK, TokensOK
  <1>2. ASSUME RegisterGet(s)
        PROVE  TellInv'
    <2>1. Takes(s, slot[s].row) /\ ~Telling(slot[s])
      BY <1>2 DEF RegisterGet, Takes, Goto, Telling, At
    <2>2. QED
      BY <1>1, <1>2, <2>1, TakesKeeps DEF RegisterGet, AllKnown
  <1>3. ASSUME RegisterCreate(s)
        PROVE  TellInv'
    <2>1. PICK row : row = [password |-> Unset, modified |-> now]
      OBVIOUS
    <2>2. Known(row)
      BY <1>1, <2>1, KnownMade
    <2>3. Takes(s, row) /\ ~Telling(slot[s]) /\ user' \in {user, row}
      BY <1>3, <2>1 DEF RegisterCreate, Takes, Load, Telling, At
    <2>4. UNCHANGED <<told, failed>>
      BY <1>3 DEF RegisterCreate
    <2>5. QED
      BY <1>1, <2>2, <2>3, <2>4, TakesKeeps DEF AllKnown
  <1>4. ASSUME RegisterPassword(s)
        PROVE  TellInv'
    <2>1. PICK row : row = [password |-> slot[s].password,
                            modified |-> slot[s].row.modified]
      OBVIOUS
    <2>2. CASE slot[s].password = Generated
      <3>1. Load(s, "token", row) /\ slot[s].flow = "register"
        BY <1>4, <2>1, <2>2 DEF RegisterPassword, At
      <3>2. Telling(slot'[s])
        BY <1>1, <3>1, GoesSlot DEF Load, Telling, Fields, SlotsOK
      <3>3. QED
        BY <3>2, TellingKeeps
    <2>3. CASE slot[s].password # Generated
      <3>1. Known(row)
        BY <2>1, <2>3, KnownMade
      <3>2. Takes(s, row) /\ ~Telling(slot[s])
        BY <1>4, <2>1 DEF RegisterPassword, Takes, Load, Telling, At
      <3>3. user' = row /\ UNCHANGED <<told, failed>>
        BY <1>4, <2>1 DEF RegisterPassword, StoreUser
      <3>4. QED
        BY <1>1, <3>1, <3>2, <3>3, TakesKeeps
    <2>4. QED
      BY <2>2, <2>3
  <1>5. ASSUME NEW t \in Tokens, RegisterToken(s, t)
        PROVE  TellInv'
    <2>1. PICK pc \in {"confirmation", "mail"} : Hold(s, pc, t)
      BY <1>5 DEF RegisterToken
    <2>2. slot[s].flow = "register"
      BY <1>5 DEF RegisterToken, At
    <2>3. Telling(slot'[s])
      BY <1>1, <2>1, <2>2, GoesSlot DEF Hold, Telling, Fields, SlotsOK
    <2>4. QED
      BY <2>3, TellingKeeps
  <1>6. ASSUME RegisterMail(s)
        PROVE  TellInv'
    <2>1. Takes(s, NoRow) /\ told' # {}
      BY <1>6 DEF RegisterMail, Takes
    <2>2. QED
      BY <2>1 DEF TellInv
  <1>7. ASSUME GetConfirmation(s)
        PROVE  TellInv'
    <2>1. PICK mine : mine = confirmation'
      OBVIOUS
    <2>2. \/ End(s) \/ Keep(s, "link", mine)
      BY <1>7, <2>1 DEF GetConfirmation
    <2>3. /\ UNCHANGED <<user, told>> /\ (failed => failed')
      BY <1>7 DEF GetConfirmation
    <2>4. ASSUME Keep(s, "link", mine), Telling(slot[s])
          PROVE  TellInv'
      <3>1. slot[s].flow = "register" /\ slot[s].key \in Tokens
        BY <1>7, <2>4 DEF GetConfirmation, Telling
      <3>2. Telling(slot'[s])
        BY <1>1, <2>4, <3>1, GoesSlot DEF Keep, Telling, Fields, SlotsOK
      <3>3. QED
        BY <3>2, TellingKeeps
    <2>5. ASSUME Keep(s, "link", mine), ~Telling(slot[s])
          PROVE  TellInv'
      <3>1. Takes(s, slot[s].row)
        BY <2>5 DEF Takes, Keep
      <3>2. QED
        BY <1>1, <2>3, <2>5, <3>1, TakesKeeps DEF AllKnown
    <2>6. ASSUME End(s), Telling(slot[s]), ~Keep(s, "link", mine)
          PROVE  TellInv'
      <3>1. slot[s].key # NoKey
        BY <1>7, <2>6, ConstantsAssumption DEF GetConfirmation, Telling
      <3>2. failed'
        BY <1>7, <2>1, <2>6, <3>1 DEF GetConfirmation
      <3>3. QED
        BY <3>2 DEF TellInv
    <2>7. ASSUME End(s), ~Telling(slot[s])
          PROVE  TellInv'
      <3>1. Takes(s, slot[s].row)
        BY <2>7 DEF Takes
      <3>2. QED
        BY <1>1, <2>3, <2>7, <3>1, TakesKeeps DEF AllKnown
    <2>8. QED
      BY <2>2, <2>4, <2>5, <2>6, <2>7
  <1>8. ASSUME SendLink(s)
        PROVE  TellInv'
    <2>1. CASE slot[s].key # NoKey
      <3>1. told' # {}
        BY <1>8, <2>1 DEF SendLink
      <3>2. QED
        BY <3>1 DEF TellInv
    <2>2. CASE slot[s].key = NoKey
      <3>1. Takes(s, slot[s].row) /\ ~Telling(slot[s])
        BY <1>8, <2>2, ConstantsAssumption DEF SendLink, Takes, Goto, Telling
      <3>2. UNCHANGED <<user, told, failed>>
        BY <1>8, <2>2 DEF SendLink
      <3>3. QED
        BY <1>1, <3>1, <3>2, TakesKeeps DEF AllKnown
    <2>3. QED
      BY <2>1, <2>2
  <1>9. ASSUME SaveSent(s) \/ Confirm(s) \/ LoadConfirmation(s)
        PROVE  TellInv'
    <2>1. Takes(s, slot[s].row) /\ ~Telling(slot[s])
      BY <1>9
      DEF SaveSent, Confirm, LoadConfirmation, Takes, Keep, Telling, At
    <2>2. UNCHANGED <<user, told, failed>>
      BY <1>9 DEF SaveSent, Confirm, LoadConfirmation
    <2>3. QED
      BY <1>1, <2>1, <2>2, TakesKeeps DEF AllKnown
  <1>10. QED
    BY <1>2, <1>3, <1>4, <1>5, <1>6, <1>7, <1>8, <1>9 DEF RegisterStep

LEMMA ChangeTells ==
    ASSUME Base, TellInv, NEW s \in Slots, ChangeStep(s)
    PROVE  TellInv'
  <1> USE DEF clock, rows, processes, mails, changes
  <1>1. SlotsOK
    BY DEF Base
  <1>2. ASSUME NEW t \in Tokens, ResetToken(s, t) \/ AnswerExpired(s, t)
        PROVE  TellInv'
    <2>1. Takes(s, slot[s].row) /\ ~Telling(slot[s])
      BY <1>2 DEF ResetToken, AnswerExpired, Takes, Hold, Telling, At
    <2>2. UNCHANGED <<user, failed>> /\ (told # {} => told' # {})
      BY <1>2 DEF ResetToken, AnswerExpired
    <2>3. QED
      BY <1>1, <2>1, <2>2, TakesKeeps DEF AllKnown
  <1>3. ASSUME RefuseFormat(s) \/ MailReset(s) \/ TokenExists(s) \/ FetchToken(s)
               \/ DeleteToken(s)
        PROVE  TellInv'
    <2>1. Takes(s, slot[s].row) /\ ~Telling(slot[s])
      BY <1>3
      DEF RefuseFormat, MailReset, TokenExists, FetchToken, DeleteToken, Takes,
          Goto, Telling, At
    <2>2. UNCHANGED <<user, failed>> /\ (told # {} => told' # {})
      BY <1>3 DEF RefuseFormat, MailReset, TokenExists, FetchToken, DeleteToken
    <2>3. QED
      BY <1>1, <2>1, <2>2, TakesKeeps DEF AllKnown
  <1>4. ASSUME LoadTarget(s)
        PROVE  TellInv'
    <2>1. PICK row \in {slot[s].row, user} : Takes(s, row)
      BY <1>4 DEF LoadTarget, Takes, Load
    <2>2. ~Telling(slot[s]) /\ UNCHANGED <<user, told, failed>>
      BY <1>4 DEF LoadTarget, Telling
    <2>3. QED
      BY <1>1, <2>1, <2>2, TakesKeeps DEF AllKnown
  <1>5. ASSUME SaveChange(s)
        PROVE  TellInv'
    <2>1. slot[s].password # Generated
      BY <1>5, ConstantsAssumption DEF SaveChange, Base, SlotsOK, GoodSlot
    <2>2. Known(user')
      BY <1>5, <2>1, KnownMade DEF SaveChange, StoreUser
    <2>3. Takes(s, slot[s].row) /\ ~Telling(slot[s])
      BY <1>5 DEF SaveChange, Takes, Goto, Telling
    <2>4. UNCHANGED <<told, failed>>
      BY <1>5 DEF SaveChange
    <2>5. QED
      BY <1>1, <2>2, <2>3, <2>4, TakesKeeps DEF AllKnown
  <1>6. ASSUME SaveProfile(s)
        PROVE  TellInv'
    <2>1. Takes(s, slot[s].row) /\ ~Telling(slot[s]) /\ user' = slot[s].row
      BY <1>6 DEF SaveProfile, StoreUser, Takes, Telling, At
    <2>2. UNCHANGED <<told, failed>>
      BY <1>6 DEF SaveProfile
    <2>3. QED
      BY <1>1, <2>1, <2>2, TakesKeeps DEF AllKnown
  <1>7. ASSUME SaveCommand(s)
        PROVE  TellInv'
    <2>1. Known(user')
      BY <1>7, ConstantsAssumption, KnownMade DEF SaveCommand, StoreUser
    <2>2. Takes(s, slot[s].row) /\ ~Telling(slot[s])
      BY <1>7 DEF SaveCommand, Takes, Telling, At
    <2>3. UNCHANGED <<told, failed>>
      BY <1>7 DEF SaveCommand
    <2>4. QED
      BY <1>1, <2>1, <2>2, <2>3, TakesKeeps DEF AllKnown
  <1>8. QED
    BY <1>2, <1>3, <1>4, <1>5, <1>6, <1>7 DEF ChangeStep

LEMMA TellStep ==
    ASSUME Base, TellInv, [Next]_vars
    PROVE  TellInv'
  <1> USE DEF clock, rows, processes, mails, changes
  <1>1. SlotsOK
    BY DEF Base
  <1>2. ASSUME UNCHANGED <<slot, user, told, failed>>
        PROVE  TellInv'
    BY <1>2 DEF TellInv, AllKnown, Known, Telling
  <1>3. ASSUME NEW s \in Slots, Begin(s)
        PROVE  TellInv'
    <2>1. ASSUME NEW f, NEW pc, NEW row \in {user, NoRow}, NEW k, NEW w,
                 Start(s, f, pc, row, k, w), UNCHANGED <<user, told, failed>>
          PROVE  TellInv'
      <3>1. Takes(s, row) /\ ~Telling(slot[s])
        BY <2>1, IdleFields DEF Takes, Start, Telling
      <3>2. QED
        BY <1>1, <2>1, <3>1, TakesKeeps DEF AllKnown, Known
    <2>2. QED
      BY <1>3, <2>1
      DEF Begin, StartRegister, StartAdmin, StartConfirm, StartReset,
          StartLogin,
          StartOwn, StartOther, StartChange, StartSave, StartProcess
  <1>4. ASSUME NEW s \in Slots, ProcessStep(s)
        PROVE  TellInv'
    <2>1. Takes(s, slot[s].row) /\ ~Telling(slot[s])
      BY <1>4
      DEF ProcessStep, FindProcessToken, GetProcessUser, CheckProcessTokens,
          CreateProcessToken, Takes, Goto, Telling, At
    <2>2. UNCHANGED <<user, told, failed>>
      BY <1>4
      DEF ProcessStep, FindProcessToken, GetProcessUser, CheckProcessTokens,
          CreateProcessToken
    <2>3. QED
      BY <1>1, <2>1, <2>2, TakesKeeps DEF AllKnown
  <1>5. ASSUME NEW s \in Slots, Abort(s)
        PROVE  TellInv'
    <2>1. Takes(s, slot[s].row) /\ (Telling(slot[s]) => failed')
      BY <1>5 DEF Abort, Takes, Telling
    <2>2. UNCHANGED <<user, told>> /\ (failed => failed')
      BY <1>5 DEF Abort
    <2>3. QED
      BY <1>1, <2>1, <2>2, TakesKeeps DEF AllKnown
  <1>6. QED
    BY <1>2, <1>3, <1>4, <1>5, RegisterTells, ChangeTells DEF Next, Tick, vars

\* An account registered without a password has its link to set one, unless
\* its registration is running or has failed.
THEOREM RegistrationsAreTold == Spec => []RegisteredIsTold
  <1>1. Init => TellInv
    BY IdleFields DEF Init, TellInv, AllKnown, Known
  <1>2. Base /\ TellInv /\ [Next]_vars => TellInv'
    BY TellStep
  <1>3. TellInv => RegisteredIsTold
    BY DEF TellInv, RegisteredIsTold, AllKnown, Known, Telling
  <1>4. QED
    BY <1>1, <1>2, <1>3, BaseHolds, PTL DEF Spec
==============================================================================
