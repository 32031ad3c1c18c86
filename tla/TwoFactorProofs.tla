--------------------------- MODULE TwoFactorProofs ---------------------------
(***************************************************************************)
(* Proofs about TwoFactor, for any number of devices, temporary tokens and *)
(* requests that run at the same time.                                     *)
(***************************************************************************)
EXTENDS TwoFactor, FiniteSetTheorems, WellFoundedInduction, TLAPS

-----------------------------------------------------------------------------
(***************************************************************************)
(* first() finds a device where there is one: the rows up to a row form    *)
(* finite sets, one of which contains no other.                            *)
(***************************************************************************)

LEMMA FirstIn ==
    ASSUME NEW S \in SUBSET Ids, S # {}
    PROVE  First(S) \in S
  <1> DEFINE UpTo(x) == {y \in S : y <= x}
             Segments == {UpTo(x) : x \in S}
             Smaller == StrictSubsetOrdering(S)
  <1>1. S \subseteq Nat /\ IsFiniteSet(S)
    BY ConstantsAssumption, FS_Subset
  <1>2. IsWellFoundedOn(Smaller, SUBSET S)
    BY <1>1, FS_StrictSubsetOrderingWellFounded, FS_FiniteSubsetsOfFinite
  <1>3. Segments \subseteq SUBSET S /\ Segments # {}
    OBVIOUS
  <1>4. PICK x \in S : \A T \in Segments : ~(<<T, UpTo(x)>> \in Smaller)
    <2> HIDE DEF Smaller
    <2>1. \E seg \in Segments : \A T \in Segments : ~(<<T, seg>> \in Smaller)
      <3> HIDE DEF Segments
      <3>1. QED
        BY <1>2, <1>3, WFMin
    <2>2. QED
      BY <2>1
  <1>5. ASSUME NEW y \in S, y < x
        PROVE  FALSE
    <2>1. \A z \in S : z \in Nat
      BY <1>1
    <2>2. UpTo(y) \subseteq UpTo(x)
      BY <2>1, <1>5
    <2>3. x \in UpTo(x) /\ x \notin UpTo(y)
      <3>1. x \in UpTo(x)
        BY <2>1
      <3>2. x \notin UpTo(y)
        BY <2>1, <1>5
      <3>3. QED
        BY <3>1, <3>2
    <2>4. UpTo(x) \in SUBSET S
      OBVIOUS
    <2>5. UpTo(y) \in SUBSET S
      OBVIOUS
    <2>6. UpTo(y) \in Segments
      BY <1>5
    <2> HIDE DEF UpTo, Segments
    <2>7. <<UpTo(y), UpTo(x)>> \in Smaller
      BY <2>2, <2>3, <2>4, <2>5 DEF StrictSubsetOrdering
    <2>8. QED
      BY <1>4, <2>6, <2>7
  <1>6. \A y \in S : x <= y
    BY <1>1, <1>5
  <1>7. QED
    BY <1>6 DEF First, Min

-----------------------------------------------------------------------------
(***************************************************************************)
(* What a request holds.                                                   *)
(***************************************************************************)

\* Where a request goes on with the device that it has loaded.
WithDevice == {"challenge", "others", "check", "code", "save"}

\* A login and a verification have a token; a loaded row has existed.
GoodSlot(q) ==
    /\ q \in SlotState
    /\ q.flow \in {"login", "verify"} => q.key \in Keys
    /\ q.pc \in WithDevice => q.dev \in Ids \ fresh /\ q.row \in Row

SlotsOK == slot \in [Slots -> SlotState] /\ \A s \in Slots : GoodSlot(slot[s])

DevicesOK ==
    /\ devices \in [Ids -> Row \cup {NoRow}] /\ fresh \subseteq Ids
    /\ \A d \in fresh : devices[d] = NoRow

HistoryOK ==
    /\ used \in [Ids -> SUBSET Int] /\ twice \subseteq Ids /\ stale \subseteq Ids
    /\ logins \in [Keys -> Nat] /\ crossings \in [Keys -> Nat]
    /\ enrolled \in BOOLEAN /\ alone \in BOOLEAN

TokensOK ==
    /\ temps \in [Keys -> {"none", "live", "expired"}]
    /\ created \in [Keys -> Nat]

ClockOK == now \in Nat /\ ruleOn \in BOOLEAN /\ requests \in Nat

MailOK == mail \in [by: Keys \cup {NoKey}, dev: Ids \cup {NoDevice}, at: Nat]

Base == SlotsOK /\ DevicesOK /\ HistoryOK /\ TokensOK /\ ClockOK /\ MailOK

LEMMA BaseType == Base => TypeOK
  BY DEF Base, SlotsOK, DevicesOK, HistoryOK, TokensOK, ClockOK, MailOK, TypeOK

LEMMA IdleGood == GoodSlot(Idle)
  BY DEF GoodSlot, SlotState, Idle, WithDevice

\* A request that is not idle has all the fields of one.
LEMMA Busy ==
    ASSUME SlotsOK, NEW s \in Slots, slot[s].flow \in Flows
    PROVE  slot[s] \in [flow: Flows, pc: Pcs, dev: Ids \cup {NoDevice},
                        row: Row \cup {NoRow}, key: Keys \cup {NoKey}]
  <1>1. Idle.flow \notin Flows
    BY DEF Idle, Flows
  <1>2. QED
    BY <1>1 DEF SlotsOK, SlotState

\* A step of the flows leaves the other slots alone.
LEMMA SlotReplaced ==
    ASSUME SlotsOK, NEW s \in Slots, NEW q,
           slot' = [slot EXCEPT ![s] = q], GoodSlot(q)', fresh' \subseteq fresh
    PROVE  SlotsOK'
  <1>1. q \in SlotState
    BY DEF GoodSlot
  <1>2. slot' \in [Slots -> SlotState]
    BY <1>1 DEF SlotsOK
  <1>3. ASSUME NEW t \in Slots
        PROVE  GoodSlot(slot[t])'
    <2>1. CASE t = s
      BY <2>1 DEF SlotsOK
    <2>2. CASE t # s
      <3>1. slot'[t] = slot[t] /\ GoodSlot(slot[t])
        BY <2>2 DEF SlotsOK
      <3>2. QED
        BY <3>1 DEF GoodSlot
    <2>3. QED
      BY <2>1, <2>2
  <1>4. QED
    BY <1>2, <1>3 DEF SlotsOK

LEMMA GotoKeeps ==
    ASSUME SlotsOK, NEW s \in Slots, NEW pc \in Pcs, slot[s].flow \in Flows,
           Goto(s, pc), pc \in WithDevice => slot[s].pc \in WithDevice,
           fresh' \subseteq fresh
    PROVE  SlotsOK'
  <1> DEFINE q == [flow |-> slot[s].flow, pc |-> pc, dev |-> slot[s].dev,
                   row |-> slot[s].row, key |-> slot[s].key]
  <1>1. slot' = [slot EXCEPT ![s] = q]
    BY DEF Goto, SlotsOK
  <1>2. PICK p : p = q
    OBVIOUS
  <1>3. p \in SlotState
    BY <1>2, Busy DEF SlotState
  <1>4. GoodSlot(slot[s])
    BY DEF SlotsOK
  <1>5. GoodSlot(p)'
    BY <1>2, <1>3, <1>4 DEF GoodSlot
  <1>6. QED
    BY <1>1, <1>2, <1>5, SlotReplaced

LEMMA LoadKeeps ==
    ASSUME SlotsOK, NEW s \in Slots, NEW pc \in Pcs, slot[s].flow \in Flows,
           NEW d \in Ids \ fresh', NEW row \in Row, Load(s, pc, d, row),
           fresh' \subseteq fresh
    PROVE  SlotsOK'
  <1> DEFINE q == [flow |-> slot[s].flow, pc |-> pc, dev |-> d,
                   row |-> row, key |-> slot[s].key]
  <1>1. slot' = [slot EXCEPT ![s] = q]
    BY DEF Load, SlotsOK
  <1>2. PICK p : p = q
    OBVIOUS
  <1>3. p \in SlotState
    BY <1>2, Busy DEF SlotState
  <1>4. GoodSlot(slot[s])
    BY DEF SlotsOK
  <1>5. GoodSlot(p)'
    BY <1>2, <1>3, <1>4 DEF GoodSlot
  <1>6. QED
    BY <1>1, <1>2, <1>5, SlotReplaced

LEMMA EndKeeps ==
    ASSUME SlotsOK, NEW s \in Slots, End(s), fresh' \subseteq fresh
    PROVE  SlotsOK'
  <1>1. PICK p : p = Idle
    OBVIOUS
  <1>2. GoodSlot(p)'
    BY <1>1 DEF GoodSlot, SlotState, Idle, WithDevice
  <1>3. QED
    BY <1>1, <1>2, SlotReplaced DEF End

LEMMA StartKeeps ==
    ASSUME SlotsOK, NEW s \in Slots, NEW flow \in Flows,
           NEW pc \in Pcs \ WithDevice, NEW k \in Keys \cup {NoKey},
           flow \in {"login", "verify"} => k \in Keys,
           Start(s, flow, pc, k), fresh' \subseteq fresh
    PROVE  SlotsOK'
  <1>1. PICK p : p = [flow |-> flow, pc |-> pc, dev |-> NoDevice,
                      row |-> NoRow, key |-> k]
    OBVIOUS
  <1>2. GoodSlot(p)'
    BY <1>1 DEF GoodSlot, SlotState
  <1>3. QED
    BY <1>1, <1>2, SlotReplaced DEF Start

LEMMA SlotsStay ==
    ASSUME SlotsOK, slot' = slot, fresh' \subseteq fresh
    PROVE  SlotsOK'
  BY DEF SlotsOK, GoodSlot

-----------------------------------------------------------------------------
(***************************************************************************)
(* The rows that a step writes.                                            *)
(***************************************************************************)

LEMMA NewRowType ==
    ASSUME NEW confirmed \in BOOLEAN, NEW mode \in {"email", "otp"}
    PROVE  NewRow(mode, confirmed) \in Row
  BY DEF NewRow, Row

LEMMA RowFields ==
    ASSUME NEW row \in Row
    PROVE  /\ row.mode \in {"email", "otp"} /\ row.confirmed \in BOOLEAN
           /\ row.last_t \in Int /\ row.drift \in Int
           /\ row.fails \in Nat /\ row.failedAt \in Nat
  BY DEF Row

LEMMA RowMade ==
    ASSUME NEW mode \in {"email", "otp"}, NEW confirmed \in BOOLEAN,
           NEW last \in Int, NEW drift \in Int, NEW fails \in Nat, NEW at \in Nat
    PROVE  [mode |-> mode, confirmed |-> confirmed, last_t |-> last,
            drift |-> drift, fails |-> fails, failedAt |-> at] \in Row
  BY DEF Row

LEMMA CreateKeeps ==
    ASSUME DevicesOK, NEW d \in Ids, NEW row \in Row, CreateDevice(d, row)
    PROVE  DevicesOK' /\ fresh' \subseteq fresh /\ d \notin fresh'
  BY DEF DevicesOK, CreateDevice

LEMMA SaveKeeps ==
    ASSUME SlotsOK, DevicesOK, NEW s \in Slots, slot[s].pc \in WithDevice,
           NEW row \in Row, SaveRow(s, row), stale \subseteq Ids
    PROVE  /\ DevicesOK' /\ fresh' = fresh /\ stale' \subseteq Ids
           /\ enrolled' \in BOOLEAN
  <1>1. slot[s].dev \in Ids \ fresh
    BY DEF SlotsOK, GoodSlot
  <1>2. QED
    BY <1>1 DEF DevicesOK, SaveRow

\* A device that is found has a row.
LEMMA FoundDevice ==
    ASSUME DevicesOK, NEW S \in SUBSET Confirmed, S # {}
    PROVE  First(S) \in Ids \ fresh /\ devices[First(S)] \in Row /\ First(S) \in S
  <1>1. S \in SUBSET Ids
    BY DEF Confirmed
  <1>2. First(S) \in S
    BY <1>1, FirstIn
  <1>3. PICK d : d = First(S)
    OBVIOUS
  <1>4. d \in Ids /\ devices[d] # NoRow
    BY <1>2, <1>3 DEF Confirmed
  <1>5. QED
    BY <1>2, <1>3, <1>4 DEF DevicesOK

-----------------------------------------------------------------------------
(***************************************************************************)
(* Every step keeps the types and what the requests hold.                  *)
(***************************************************************************)

LEMMA BaseStep ==
    ASSUME Base, [Next]_vars
    PROVE  Base'
  <1> USE DEF clock, rows, tokens, codes, counts, Interfere, NoMail
  <1>1. ASSUME NEW s \in Slots, NEW k \in Keys, StartLogin(s, k)
        PROVE  Base'
    <2>1. SlotsOK'
      BY <1>1, StartKeeps DEF StartLogin, Base, Flows, Pcs, WithDevice
    <2>2. QED
      BY <1>1, <2>1, ConstantsAssumption
      DEF StartLogin, Start, Base, DevicesOK, HistoryOK, TokensOK, ClockOK,
          MailOK
  <1>2. ASSUME NEW s \in Slots, CheckMfa(s)
        PROVE  Base'
    <2>1. (\E pc \in {"otp", "answer"} : Goto(s, pc))
      BY <1>2 DEF CheckMfa
    <2>2. slot[s].flow \in Flows /\ {"otp", "answer"} \subseteq Pcs \ WithDevice
      BY <1>2 DEF CheckMfa, At, Flows, Pcs, WithDevice
    <2>3. UNCHANGED fresh
      BY <1>2 DEF CheckMfa
    <2>4. SlotsOK'
      BY <2>1, <2>2, <2>3, GotoKeeps DEF Base
    <2>5. QED
      BY <1>2, <2>4
      DEF CheckMfa, Base, DevicesOK, HistoryOK, TokensOK, ClockOK, MailOK
  <1>3. ASSUME NEW s \in Slots, FindOtp(s)
        PROVE  Base'
    <2>1. slot[s].flow \in Flows /\ {"device", "others"} \subseteq Pcs
      BY <1>3 DEF FindOtp, Flows, Pcs
    <2>2. ASSUME Otp # {} PROVE SlotsOK'
      <3>1. PICK d : d = First(Otp)
        OBVIOUS
      <3>2. d \in Ids \ fresh /\ devices[d] \in Row
        BY <2>2, <3>1, FoundDevice DEF Otp, Base
      <3>3. PICK row : row = devices[d]
        OBVIOUS
      <3>4. Load(s, "others", d, row) /\ UNCHANGED fresh
        BY <1>3, <2>2, <3>1, <3>3 DEF FindOtp
      <3>5. QED
        BY <2>1, <3>2, <3>3, <3>4, LoadKeeps DEF Base
    <2>3. ASSUME Otp = {} PROVE SlotsOK'
      BY <1>3, <2>1, <2>3, GotoKeeps DEF FindOtp, Base, WithDevice
    <2>4. SlotsOK'
      BY <2>2, <2>3
    <2>5. QED
      BY <1>3, <2>4
      DEF FindOtp, Base, DevicesOK, HistoryOK, TokensOK, ClockOK, MailOK
  <1>4. ASSUME NEW s \in Slots, NEW i \in Ids, FindConfirmed(s, i)
        PROVE  Base'
    <2>1. PICK pc \in {"challenge", "others"} :
            pc = IF slot[s].flow = "login" THEN "challenge" ELSE "others"
      OBVIOUS
    <2>2. slot[s].flow \in Flows /\ pc \in Pcs
      BY <1>4 DEF FindConfirmed, Flows, Pcs
    <2>3. ASSUME Confirmed # {}
          PROVE  SlotsOK' /\ DevicesOK'
      <3>1. PICK d : d = First(Confirmed)
        OBVIOUS
      <3>2. d \in Ids \ fresh /\ devices[d] \in Row
        BY <2>3, <3>1, FoundDevice DEF Base
      <3>3. PICK row : row = devices[d]
        OBVIOUS
      <3>4. Load(s, pc, d, row) /\ UNCHANGED rows
        BY <1>4, <2>1, <2>3, <3>1, <3>3 DEF FindConfirmed
      <3>5. UNCHANGED fresh /\ DevicesOK'
        BY <3>4 DEF Base, DevicesOK
      <3>6. QED
        BY <2>2, <3>2, <3>3, <3>4, <3>5, LoadKeeps DEF Base
    <2>4. ASSUME Confirmed = {}
          PROVE  SlotsOK' /\ DevicesOK'
      <3>1. PICK row \in Row : row = NewRow("email", TRUE)
        BY NewRowType
      <3>2. CreateDevice(i, row) /\ Load(s, pc, i, row)
        BY <1>4, <2>1, <2>4, <3>1 DEF FindConfirmed
      <3>3. DevicesOK' /\ fresh' \subseteq fresh /\ i \notin fresh'
        BY <3>1, <3>2, CreateKeeps DEF Base
      <3>4. QED
        BY <2>2, <3>1, <3>2, <3>3, LoadKeeps DEF Base
    <2>5. SlotsOK' /\ DevicesOK'
      BY <2>3, <2>4
    <2>6. QED
      BY <1>4, <2>5
      DEF FindConfirmed, Base, HistoryOK, TokensOK, ClockOK, MailOK
  <1>5. ASSUME NEW s \in Slots, Challenge(s)
        PROVE  Base'
    <2>1. slot[s].flow \in Flows /\ "others" \in Pcs /\ slot[s].pc \in WithDevice
      BY <1>5 DEF Challenge, At, Flows, Pcs, WithDevice
    <2>2. SlotsOK'
      BY <1>5, <2>1, GotoKeeps DEF Challenge, Base
    <2>3. slot[s].dev \in Ids
      BY <2>1 DEF Base, SlotsOK, GoodSlot
    <2>4. MailOK'
      BY <1>5, <2>3 DEF Challenge, Base, MailOK, ClockOK
    <2>5. QED
      BY <1>5, <2>2, <2>4
      DEF Challenge, Base, DevicesOK, HistoryOK, TokensOK, ClockOK, MailOK
  <1>6. ASSUME NEW s \in Slots, DeleteOthers(s)
        PROVE  Base'
    <2>1. slot[s].flow \in Flows /\ {"answer", "code"} \subseteq Pcs
          /\ slot[s].pc \in WithDevice
      BY <1>6 DEF DeleteOthers, Flows, Pcs, WithDevice
    <2>2. SlotsOK'
      BY <1>6, <2>1, GotoKeeps DEF DeleteOthers, Base
    <2>3. DevicesOK'
      BY <1>6 DEF DeleteOthers, Base, DevicesOK
    <2>4. QED
      BY <1>6, <2>2, <2>3
      DEF DeleteOthers, Base, HistoryOK, TokensOK, ClockOK, MailOK
  <1>7. ASSUME NEW s \in Slots, Answer(s)
        PROVE  Base'
    <2>1. SlotsOK'
      BY <1>7, EndKeeps DEF Answer, Base
    <2>2. TokensOK' /\ HistoryOK'
      BY <1>7 DEF Answer, Base, TokensOK, HistoryOK, ClockOK
    <2>3. QED
      BY <1>7, <2>1, <2>2 DEF Answer, Base, DevicesOK, ClockOK, MailOK
  <1>8. ASSUME NEW s \in Slots, NEW k \in Keys, StartVerify(s, k)
        PROVE  Base'
    <2>1. SlotsOK'
      BY <1>8, StartKeeps DEF StartVerify, Base, Flows, Pcs, WithDevice
    <2>2. QED
      BY <1>8, <2>1, ConstantsAssumption
      DEF StartVerify, Start, Base, DevicesOK, HistoryOK, TokensOK, ClockOK,
          MailOK
  <1>9. ASSUME NEW s \in Slots, ExpireTemporaryTokens(s)
        PROVE  Base'
    <2>1. slot[s].flow \in Flows /\ "lookup" \in Pcs \ WithDevice
      BY <1>9 DEF ExpireTemporaryTokens, At, Flows, Pcs, WithDevice
    <2>2. SlotsOK'
      BY <1>9, <2>1, GotoKeeps DEF ExpireTemporaryTokens, Base
    <2>3. TokensOK'
      BY <1>9 DEF ExpireTemporaryTokens, Base, TokensOK
    <2>4. QED
      BY <1>9, <2>2, <2>3
      DEF ExpireTemporaryTokens, Base, DevicesOK, HistoryOK, ClockOK, MailOK
  <1>10. ASSUME NEW s \in Slots, Lookup(s)
        PROVE  Base'
    <2>1. slot[s].flow \in Flows /\ "pick" \in Pcs \ WithDevice
      BY <1>10 DEF Lookup, At, Flows, Pcs, WithDevice
    <2>2. Goto(s, "pick") \/ End(s)
      BY <1>10 DEF Lookup
    <2>3. SlotsOK'
      BY <1>10, <2>1, <2>2, GotoKeeps, EndKeeps DEF Lookup, Base
    <2>4. HistoryOK'
      BY <1>10 DEF Lookup, Base, HistoryOK
    <2>5. QED
      BY <1>10, <2>3, <2>4
      DEF Lookup, Base, DevicesOK, HistoryOK, TokensOK, ClockOK, MailOK
  <1>11. ASSUME NEW s \in Slots, PickMode(s)
        PROVE  Base'
    <2>1. (\E pc \in {"totp", "confirmed"} : Goto(s, pc))
      BY <1>11 DEF PickMode
    <2>2. slot[s].flow \in Flows /\ {"totp", "confirmed"} \subseteq Pcs \ WithDevice
      BY <1>11 DEF PickMode, At, Flows, Pcs, WithDevice
    <2>3. UNCHANGED fresh
      BY <1>11 DEF PickMode
    <2>4. SlotsOK'
      BY <2>1, <2>2, <2>3, GotoKeeps DEF Base
    <2>5. QED
      BY <1>11, <2>4
      DEF PickMode, Base, DevicesOK, HistoryOK, TokensOK, ClockOK, MailOK
  <1>12. ASSUME NEW s \in Slots, PickDevice(s)
        PROVE  Base'
    <2>1. slot[s].flow \in Flows /\ "check" \in Pcs
      BY <1>12 DEF PickDevice, Flows, Pcs
    <2>2. PICK found \in SUBSET Confirmed :
            found = IF slot[s].pc = "totp" THEN Otp ELSE Confirmed
      BY DEF Otp
    <2>3. ASSUME found # {}
          PROVE  SlotsOK'
      <3>1. PICK d : d = First(found)
        OBVIOUS
      <3>2. d \in Ids \ fresh /\ devices[d] \in Row
        BY <2>3, <3>1, FoundDevice DEF Base
      <3>3. PICK row : row = devices[d]
        OBVIOUS
      <3>4. Load(s, "check", d, row) /\ UNCHANGED fresh
        BY <1>12, <2>2, <2>3, <3>1, <3>3 DEF PickDevice
      <3>5. QED
        BY <2>1, <3>2, <3>3, <3>4, LoadKeeps DEF Base
    <2>4. ASSUME found = {}
          PROVE  SlotsOK'
      BY <1>12, <2>2, <2>4, EndKeeps DEF PickDevice, Base
    <2>5. QED
      BY <1>12, <2>3, <2>4
      DEF PickDevice, Base, DevicesOK, HistoryOK, TokensOK, ClockOK, MailOK
  <1>13. ASSUME NEW s \in Slots, NEW w \in CodeWindows, CheckEmail(s, w)
        PROVE  Base'
    <2>1. (\E pc \in {"expire"} : Goto(s, pc)) \/ End(s)
      BY <1>13 DEF CheckEmail
    <2>2. slot[s].flow \in Flows /\ {"expire"} \subseteq Pcs \ WithDevice
      BY <1>13 DEF CheckEmail, At, Flows, Pcs, WithDevice
    <2>3. UNCHANGED fresh
      BY <1>13 DEF CheckEmail
    <2>4. SlotsOK'
      BY <2>1, <2>2, <2>3, GotoKeeps, EndKeeps DEF Base
    <2>5. QED
      BY <1>13, <2>4
      DEF CheckEmail, Base, DevicesOK, HistoryOK, TokensOK, ClockOK, MailOK
  <1>14. ASSUME NEW s \in Slots, Throttled(s)
        PROVE  Base'
    <2>4. SlotsOK'
      BY <1>14, EndKeeps DEF Throttled, Base
    <2>5. QED
      BY <1>14, <2>4
      DEF Throttled, Base, DevicesOK, HistoryOK, TokensOK, ClockOK, MailOK
  <1>15. ASSUME NEW s \in Slots, NEW k \in CodeSteps, AcceptOtp(s, k)
        PROVE  Base'
    <2>1. slot[s].pc \in WithDevice /\ slot[s].flow \in Flows
          /\ "expire" \in Pcs \ WithDevice
      BY <1>15 DEF AcceptOtp, ChecksOtp, At, WithDevice, Flows, Pcs
    <2>2. slot[s].dev \in Ids /\ slot[s].row \in Row /\ k \in Int /\ now \in Nat
      BY <2>1 DEF Base, SlotsOK, GoodSlot, CodeSteps, ClockOK
    <2>3. PICK row \in Row :
            row = [mode |-> slot[s].row.mode, confirmed |-> slot[s].row.confirmed,
                   last_t |-> k, drift |-> k - now, fails |-> 0, failedAt |-> 0]
      <3>1. k - now \in Int /\ 0 \in Nat
        BY <2>2
      <3>2. QED
        BY <2>2, <3>1, RowFields, RowMade
    <2>4. SaveRow(s, row)
      BY <1>15, <2>3 DEF AcceptOtp
    <2>5. /\ DevicesOK' /\ fresh' = fresh /\ stale' \subseteq Ids
          /\ enrolled' \in BOOLEAN
      BY <2>1, <2>3, <2>4, SaveKeeps DEF Base, HistoryOK
    <2>6. SlotsOK'
      BY <1>15, <2>1, <2>5, GotoKeeps, EndKeeps DEF AcceptOtp, Base
    <2>7. HistoryOK'
      BY <1>15, <2>2, <2>5 DEF AcceptOtp, Base, HistoryOK, counts
    <2>8. QED
      BY <1>15, <2>5, <2>6, <2>7 DEF AcceptOtp, Base, TokensOK, ClockOK, MailOK
  <1>16. ASSUME NEW s \in Slots, NEW k \in CodeSteps, RefuseOtp(s, k)
        PROVE  Base'
    <2>1. slot[s].pc \in WithDevice
      BY <1>16 DEF RefuseOtp, ChecksOtp, At, WithDevice
    <2>2. slot[s].row \in Row /\ now \in Nat
      BY <2>1 DEF Base, SlotsOK, GoodSlot, ClockOK
    <2>3. PICK row \in Row :
            row = [mode |-> slot[s].row.mode, confirmed |-> slot[s].row.confirmed,
                   last_t |-> slot[s].row.last_t, drift |-> slot[s].row.drift,
                   fails |-> slot[s].row.fails + 1, failedAt |-> now]
      <3>1. slot[s].row.fails + 1 \in Nat
        BY <2>2, RowFields
      <3>2. QED
        BY <2>2, <3>1, RowFields, RowMade
    <2>4. SaveRow(s, row)
      BY <1>16, <2>3 DEF RefuseOtp
    <2>5. /\ DevicesOK' /\ fresh' = fresh /\ stale' \subseteq Ids
          /\ enrolled' \in BOOLEAN
      BY <2>1, <2>3, <2>4, SaveKeeps DEF Base, HistoryOK
    <2>6. SlotsOK'
      BY <1>16, <2>5, EndKeeps DEF RefuseOtp, Base
    <2>7. HistoryOK'
      BY <1>16, <2>5 DEF RefuseOtp, Base, HistoryOK, counts
    <2>8. QED
      BY <1>16, <2>5, <2>6, <2>7 DEF RefuseOtp, Base, TokensOK, ClockOK, MailOK
  <1>17. ASSUME NEW s \in Slots, ExpireToken(s)
        PROVE  Base'
    <2>1. slot[s].flow \in Flows /\ "session" \in Pcs \ WithDevice
      BY <1>17 DEF ExpireToken, At, Flows, Pcs, WithDevice
    <2>2. SlotsOK'
      BY <1>17, <2>1, GotoKeeps DEF ExpireToken, Base
    <2>3. TokensOK'
      BY <1>17 DEF ExpireToken, Base, TokensOK
    <2>4. QED
      BY <1>17, <2>2, <2>3
      DEF ExpireToken, Base, DevicesOK, HistoryOK, ClockOK, MailOK
  <1>18. ASSUME NEW s \in Slots, OpenSession(s)
        PROVE  Base'
    <2>1. SlotsOK'
      BY <1>18, EndKeeps DEF OpenSession, Base
    <2>2. HistoryOK'
      <3>1. slot[s].key \in Keys
        BY <1>18 DEF OpenSession, At, Base, SlotsOK, GoodSlot
      <3>2. logins[slot[s].key] + 1 \in Nat
        BY <3>1 DEF Base, HistoryOK
      <3>3. logins' \in [Keys -> Nat]
        BY <1>18, <3>1, <3>2 DEF OpenSession, Base, HistoryOK
      <3>4. QED
        BY <1>18, <3>3 DEF OpenSession, Base, HistoryOK
    <2>3. QED
      BY <1>18, <2>1, <2>2
      DEF OpenSession, Base, DevicesOK, TokensOK, ClockOK, MailOK
  <1>19. ASSUME NEW s \in Slots, StartConfigure(s)
        PROVE  Base'
    <2>1. SlotsOK'
      BY <1>19, StartKeeps DEF StartConfigure, Base, Flows, Pcs, WithDevice
    <2>2. QED
      BY <1>19, <2>1, ConstantsAssumption
      DEF StartConfigure, Start, Base, DevicesOK, HistoryOK, TokensOK, ClockOK,
          MailOK
  <1>20. ASSUME NEW s \in Slots, RefuseConfigured(s)
        PROVE  Base'
    <2>1. (\E pc \in {"device"} : Goto(s, pc)) \/ End(s)
      BY <1>20 DEF RefuseConfigured
    <2>2. slot[s].flow \in Flows /\ {"device"} \subseteq Pcs \ WithDevice
      BY <1>20 DEF RefuseConfigured, At, Flows, Pcs, WithDevice
    <2>3. UNCHANGED fresh
      BY <1>20 DEF RefuseConfigured
    <2>4. SlotsOK'
      BY <2>1, <2>2, <2>3, GotoKeeps, EndKeeps DEF Base
    <2>5. QED
      BY <1>20, <2>4
      DEF RefuseConfigured, Base, DevicesOK, HistoryOK, TokensOK, ClockOK,
          MailOK
  <1>21. ASSUME NEW s \in Slots, NEW i \in Ids, ChooseEmailDevice(s, i)
        PROVE  Base'
    <2>1. slot[s].flow \in Flows /\ "code" \in Pcs
      BY <1>21 DEF ChooseEmailDevice, At, Flows, Pcs
    <2>2. ASSUME ByEmail # {}
          PROVE  SlotsOK' /\ DevicesOK'
      <3>1. PICK d : d = First(ByEmail)
        OBVIOUS
      <3>2. d \in Ids \ fresh /\ devices[d] \in Row
        BY <2>2, <3>1, FoundDevice DEF Base, ByEmail
      <3>3. PICK row : row = devices[d]
        OBVIOUS
      <3>4. Load(s, "code", d, row) /\ UNCHANGED rows
        BY <1>21, <2>2, <3>1, <3>3 DEF ChooseEmailDevice
      <3>5. UNCHANGED fresh /\ DevicesOK'
        BY <3>4 DEF Base, DevicesOK
      <3>6. QED
        BY <2>1, <3>2, <3>3, <3>4, <3>5, LoadKeeps DEF Base
    <2>3. ASSUME ByEmail = {}
          PROVE  SlotsOK' /\ DevicesOK'
      <3>1. PICK row \in Row : row = NewRow("email", TRUE)
        BY NewRowType
      <3>2. CreateDevice(i, row) /\ Load(s, "code", i, row)
        BY <1>21, <2>3, <3>1 DEF ChooseEmailDevice
      <3>3. DevicesOK' /\ fresh' \subseteq fresh /\ i \notin fresh'
        BY <3>1, <3>2, CreateKeeps DEF Base
      <3>4. QED
        BY <2>1, <3>1, <3>2, <3>3, LoadKeeps DEF Base
    <2>4. SlotsOK' /\ DevicesOK'
      BY <2>2, <2>3
    <2>5. QED
      BY <1>21, <2>4
      DEF ChooseEmailDevice, Base, HistoryOK, TokensOK, ClockOK, MailOK
  <1>22. ASSUME NEW s \in Slots, NEW w \in CodeWindows, CheckConfigureCode(s, w)
        PROVE  Base'
    <2>1. (\E pc \in {"enrol"} : Goto(s, pc)) \/ End(s)
      BY <1>22 DEF CheckConfigureCode
    <2>2. slot[s].flow \in Flows /\ {"enrol"} \subseteq Pcs \ WithDevice
      BY <1>22 DEF CheckConfigureCode, At, Flows, Pcs, WithDevice
    <2>3. UNCHANGED fresh
      BY <1>22 DEF CheckConfigureCode
    <2>4. SlotsOK'
      BY <2>1, <2>2, <2>3, GotoKeeps, EndKeeps DEF Base
    <2>5. QED
      BY <1>22, <2>4
      DEF CheckConfigureCode, Base, DevicesOK, HistoryOK, TokensOK, ClockOK,
          MailOK
  <1>23. ASSUME NEW s \in Slots, GetOtp(s)
        PROVE  Base'
    <2>1. (\E pc \in {"create"} : Goto(s, pc)) \/ End(s)
      BY <1>23 DEF GetOtp
    <2>2. slot[s].flow \in Flows /\ {"create"} \subseteq Pcs \ WithDevice
      BY <1>23 DEF GetOtp, At, Flows, Pcs, WithDevice
    <2>3. UNCHANGED fresh
      BY <1>23 DEF GetOtp
    <2>4. SlotsOK'
      BY <2>1, <2>2, <2>3, GotoKeeps, EndKeeps DEF Base
    <2>5. QED
      BY <1>23, <2>4
      DEF GetOtp, Base, DevicesOK, HistoryOK, TokensOK, ClockOK, MailOK
  <1>24. ASSUME NEW s \in Slots, NEW d \in Ids, CreateOtp(s, d)
        PROVE  Base'
    <2>1. PICK row \in Row : row = NewRow("otp", TRUE)
      BY NewRowType
    <2>2. DevicesOK' /\ fresh' \subseteq fresh
      BY <1>24, <2>1, CreateKeeps DEF CreateOtp, Base
    <2>3. SlotsOK'
      BY <1>24, <2>2, EndKeeps DEF CreateOtp, Base
    <2>4. QED
      BY <1>24, <2>2, <2>3
      DEF CreateOtp, Base, HistoryOK, TokensOK, ClockOK, MailOK
  <1>25. ASSUME NEW s \in Slots, StartAdmin(s)
        PROVE  Base'
    <2>1. SlotsOK'
      BY <1>25, StartKeeps DEF StartAdmin, Base, Flows, Pcs, WithDevice
    <2>2. QED
      BY <1>25, <2>1, ConstantsAssumption
      DEF StartAdmin, Start, Base, DevicesOK, HistoryOK, TokensOK, ClockOK,
          MailOK
  <1>26. ASSUME NEW s \in Slots, EndWithChallenge(s)
        PROVE  Base'
    <2>4. SlotsOK'
      BY <1>26, EndKeeps DEF EndWithChallenge, Base
    <2>5. QED
      BY <1>26, <2>4
      DEF EndWithChallenge, Base, DevicesOK, HistoryOK, TokensOK, ClockOK,
          MailOK
  <1>27. ASSUME NEW s \in Slots, NEW d \in Ids, LoadForEdit(s, d)
        PROVE  Base'
    <2>1. PICK q : q = [flow |-> "edit", pc |-> "save", dev |-> d,
                        row |-> devices[d], key |-> NoKey]
      OBVIOUS
    <2>2. d \notin fresh /\ devices[d] \in Row
      BY <1>27 DEF LoadForEdit, Base, DevicesOK
    <2>3. GoodSlot(q)'
      BY <1>27, <2>1, <2>2 DEF LoadForEdit, GoodSlot, SlotState, Flows, Pcs
    <2>4. SlotsOK'
      BY <1>27, <2>1, <2>3, SlotReplaced DEF LoadForEdit, Base
    <2>5. HistoryOK'
      BY <1>27 DEF LoadForEdit, Base, HistoryOK
    <2>6. QED
      BY <1>27, <2>4, <2>5, ConstantsAssumption
      DEF LoadForEdit, Base, DevicesOK, TokensOK, ClockOK, MailOK
  <1>28. ASSUME NEW s \in Slots, NEW confirmed \in BOOLEAN, SaveEdit(s, confirmed)
        PROVE  Base'
    <2>1. slot[s].pc \in WithDevice
      BY <1>28 DEF SaveEdit, At, WithDevice
    <2>2. slot[s].row \in Row
      BY <2>1 DEF Base, SlotsOK, GoodSlot
    <2>3. PICK row \in Row :
            row = [mode |-> slot[s].row.mode, confirmed |-> confirmed,
                   last_t |-> slot[s].row.last_t, drift |-> slot[s].row.drift,
                   fails |-> slot[s].row.fails, failedAt |-> slot[s].row.failedAt]
      BY <2>2, RowFields, RowMade
    <2>4. SaveRow(s, row)
      BY <1>28, <2>3 DEF SaveEdit
    <2>5. /\ DevicesOK' /\ fresh' = fresh /\ stale' \subseteq Ids
          /\ enrolled' \in BOOLEAN
      BY <2>1, <2>3, <2>4, SaveKeeps DEF Base, HistoryOK
    <2>6. SlotsOK'
      BY <1>28, <2>5, EndKeeps DEF SaveEdit, Base
    <2>7. HistoryOK'
      BY <1>28, <2>5 DEF SaveEdit, Base, HistoryOK, counts
    <2>8. QED
      BY <1>28, <2>5, <2>6, <2>7 DEF SaveEdit, Base, TokensOK, ClockOK, MailOK
  <1>29. ASSUME NEW d \in Ids, NEW confirmed \in BOOLEAN, AddDevice(d, confirmed)
        PROVE  Base'
    <2>1. PICK row \in Row : row = NewRow("email", confirmed)
      BY NewRowType
    <2>2. DevicesOK' /\ fresh' \subseteq fresh
      BY <1>29, <2>1, CreateKeeps DEF AddDevice, Base
    <2>3. SlotsOK'
      BY <1>29, <2>2, SlotsStay DEF AddDevice, Base
    <2>4. QED
      BY <1>29, <2>2, <2>3, ConstantsAssumption
      DEF AddDevice, Base, HistoryOK, TokensOK, ClockOK, MailOK
  <1>30. ASSUME NEW d \in Ids, DeleteDevice(d)
        PROVE  Base'
    <2>1. SlotsOK'
      BY <1>30, SlotsStay DEF DeleteDevice, Base
    <2>2. DevicesOK'
      BY <1>30 DEF DeleteDevice, Base, DevicesOK
    <2>3. QED
      BY <1>30, <2>1, <2>2, ConstantsAssumption
      DEF DeleteDevice, Base, HistoryOK, TokensOK, ClockOK, MailOK
  <1>31. ASSUME Tick
        PROVE  Base'
    <2>1. SlotsOK'
      BY <1>31, SlotsStay DEF Tick, Base
    <2>2. QED
      BY <1>31, <2>1
      DEF Tick, Base, DevicesOK, HistoryOK, TokensOK, ClockOK, MailOK
  <1>32. ASSUME UNCHANGED vars
        PROVE  Base'
    <2>1. UNCHANGED <<now, ruleOn, devices, fresh, temps, created, slot, requests>>
          /\ UNCHANGED <<used, twice, stale, logins, crossings, enrolled, alone, mail>>
      BY <1>32 DEF vars, tables, history
    <2>2. QED
      BY <2>1
      DEF Base, SlotsOK, GoodSlot, DevicesOK, HistoryOK, TokensOK, ClockOK,
          MailOK
  <1>33. QED
    BY <1>1, <1>2, <1>3, <1>4, <1>5, <1>6, <1>7, <1>8, <1>9, <1>10,
       <1>11, <1>12, <1>13, <1>14, <1>15, <1>16, <1>17, <1>18, <1>19,
       <1>20, <1>21, <1>22, <1>23, <1>24, <1>25, <1>26, <1>27, <1>28,
       <1>29, <1>30, <1>31, <1>32
    DEF Next, Begin, LoginStep, VerifyStep, ConfigureStep

LEMMA BaseInit == Init => Base
  <1>1. ASSUME Init
        PROVE  SlotsOK
    <2>1. PICK p : p = Idle
      OBVIOUS
    <2>2. GoodSlot(p)
      BY <2>1, IdleGood
    <2>3. slot = [s \in Slots |-> p] /\ p \in SlotState
      BY <1>1, <2>1, <2>2 DEF Init, GoodSlot
    <2>4. QED
      BY <2>2, <2>3 DEF SlotsOK
  <1>2. Init => HistoryOK
    <2>1. Init => used \in [Ids -> SUBSET Int]
      BY DEF Init
    <2>2. Init => logins \in [Keys -> Nat] /\ crossings \in [Keys -> Nat]
      BY DEF Init
    <2>3. Init => /\ twice \subseteq Ids /\ stale \subseteq Ids
                  /\ enrolled \in BOOLEAN /\ alone \in BOOLEAN
      BY DEF Init
    <2>4. QED
      BY <2>1, <2>2, <2>3 DEF HistoryOK
  <1>3. Init => TokensOK
    BY DEF Init, TokensOK
  <1>4. Init => MailOK
    BY DEF Init, MailOK, NoMail
  <1>5. Init => DevicesOK /\ ClockOK
    BY DEF Init, DevicesOK, ClockOK
  <1>6. QED
    BY <1>1, <1>2, <1>3, <1>4, <1>5 DEF Base

LEMMA BaseHolds == Spec => []Base
  <1>1. Base /\ [Next]_vars => Base'
    BY BaseStep
  <1>2. QED
    BY BaseInit, <1>1, PTL DEF Spec

\* The tables and the requests of the two-factor login keep their types, and a
\* request that saves or checks a device has loaded a row that existed.
THEOREM TypeCorrect == Spec => []TypeOK
  BY BaseHolds, BaseType, PTL

-----------------------------------------------------------------------------
(***************************************************************************)
(* AuthenticatorStays: while the watch on an enrolled authenticator lasts, *)
(* a request that deletes the other devices has chosen the first           *)
(* authenticator, and no request chooses a device of another kind.         *)
(***************************************************************************)

\* q does not choose another device than the first authenticator.
Keeps(q) ==
    /\ q.flow # "edit"
    /\ q.flow \in {"login", "admin"} => q.pc \notin {"device", "challenge"}
    /\ (q.flow \in {"login", "admin"} /\ q.pc = "others") => q.dev = First(Otp)

\* The device that a login, a verification or a form has loaded was confirmed.
Sure(q) == q.pc \in WithDevice \ {"save"} => q.row.confirmed

StaysInv ==
    /\ AuthenticatorStays
    /\ \A s \in Slots : Sure(slot[s])
    /\ enrolled => \A s \in Slots : Keeps(slot[s])

\* A step of one request that leaves the authenticators alone, while the watch
\* lasts.
LEMMA OneMoves ==
    ASSUME Base, StaysInv, NEW s \in Slots, NEW q,
           slot' = [slot EXCEPT ![s] = q], Sure(q), ~alone',
           enrolled' => enrolled /\ Otp' = Otp /\ Keeps(q)
    PROVE  StaysInv'
  <1>1. slot'[s] = q /\ \A t \in Slots \ {s} : slot'[t] = slot[t]
    BY DEF Base, SlotsOK
  <1>2. \A t \in Slots : Sure(slot'[t])
    BY <1>1 DEF StaysInv
  <1>3. enrolled' => Otp' # {} /\ \A t \in Slots : Keeps(slot[t])'
    BY <1>1 DEF StaysInv, AuthenticatorStays, Keeps
  <1>4. QED
    BY <1>2, <1>3 DEF StaysInv, AuthenticatorStays, Sure

\* A step of the table that leaves the requests alone.
LEMMA NoneMoves ==
    ASSUME Base, StaysInv, slot' = slot, ~alone',
           enrolled' => enrolled /\ Otp' = Otp
    PROVE  StaysInv'
  BY DEF StaysInv, AuthenticatorStays, Keeps, Sure

LEMMA OtpSame ==
    ASSUME devices' = devices
    PROVE  Otp' = Otp
  BY DEF Otp, Confirmed

\* A device of the mail comes.
LEMMA OtpSameCreate ==
    ASSUME Base, NEW d \in Ids, NEW confirmed \in BOOLEAN,
           CreateDevice(d, NewRow("email", confirmed))
    PROVE  Otp' = Otp
  <1>1. devices[d] = NoRow /\ devices'[d].mode = "email"
    BY DEF CreateDevice, NewRow, Base, DevicesOK
  <1>2. \A e \in Ids \ {d} : devices'[e] = devices[e]
    BY DEF CreateDevice, Base, DevicesOK
  <1>3. QED
    BY <1>1, <1>2 DEF Otp, Confirmed

\* A request ends.
LEMMA EndStays ==
    ASSUME Base, StaysInv, NEW s \in Slots, End(s), ~alone',
           enrolled' => enrolled /\ Otp' = Otp
    PROVE  StaysInv'
  <1>1. PICK q : q = Idle
    OBVIOUS
  <1>2. Sure(q) /\ Keeps(q)
    BY <1>1 DEF Sure, Keeps, Idle, WithDevice
  <1>3. slot' = [slot EXCEPT ![s] = q]
    BY <1>1 DEF End
  <1>4. QED
    BY <1>2, <1>3, OneMoves

\* A request goes on, and does not begin to choose a device.
LEMMA GotoStays ==
    ASSUME Base, StaysInv, NEW s \in Slots, NEW pc, Goto(s, pc), ~alone',
           slot[s].flow # "edit",
           pc \in WithDevice \ {"save"} => slot[s].pc \in WithDevice \ {"save"},
           \/ pc \notin {"device", "challenge", "others"}
           \/ slot[s].flow \notin {"login", "admin"} \/ ~enrolled,
           enrolled' => enrolled /\ Otp' = Otp
    PROVE  StaysInv'
  <1>1. PICK q : q = [flow |-> slot[s].flow, pc |-> pc, dev |-> slot[s].dev,
                      row |-> slot[s].row, key |-> slot[s].key]
    OBVIOUS
  <1>2. slot' = [slot EXCEPT ![s] = q]
    BY <1>1 DEF Goto, Base, SlotsOK
  <1>3. Sure(slot[s])
    BY DEF StaysInv
  <1>4. Sure(q) /\ (enrolled => Keeps(q))
    BY <1>1, <1>3 DEF Sure, Keeps
  <1>5. QED
    BY <1>2, <1>4, OneMoves

\* A request has found a device that is confirmed.
LEMMA LoadStays ==
    ASSUME Base, StaysInv, NEW s \in Slots, NEW pc, NEW d, NEW row,
           Load(s, pc, d, row), ~alone', slot[s].flow # "edit",
           row.confirmed,
           \/ pc \notin {"device", "challenge", "others"}
           \/ slot[s].flow \notin {"login", "admin"} \/ ~enrolled
           \/ pc = "others" /\ d = First(Otp),
           enrolled' => enrolled /\ Otp' = Otp
    PROVE  StaysInv'
  <1>1. PICK q : q = [flow |-> slot[s].flow, pc |-> pc, dev |-> d,
                      row |-> row, key |-> slot[s].key]
    OBVIOUS
  <1>2. slot' = [slot EXCEPT ![s] = q]
    BY <1>1 DEF Load, Base, SlotsOK
  <1>3. Sure(q) /\ (enrolled => Keeps(q))
    BY <1>1 DEF Sure, Keeps
  <1>4. QED
    BY <1>2, <1>3, OneMoves

\* A request begins.
LEMMA StartStays ==
    ASSUME Base, StaysInv, NEW s \in Slots, NEW flow, NEW pc, NEW k,
           Start(s, flow, pc, k), flow # "edit", pc \notin WithDevice \cup {"device"},
           ~alone', devices' = devices, enrolled' = enrolled
    PROVE  StaysInv'
  <1>1. PICK q : q = [flow |-> flow, pc |-> pc, dev |-> NoDevice,
                      row |-> NoRow, key |-> k]
    OBVIOUS
  <1>2. slot' = [slot EXCEPT ![s] = q]
    BY <1>1 DEF Start
  <1>3. Sure(q) /\ Keeps(q)
    BY <1>1 DEF Sure, Keeps, WithDevice
  <1>4. QED
    BY <1>2, <1>3, OneMoves, OtpSame

\* The first confirmed device of a set is confirmed.
LEMMA FirstSure ==
    ASSUME Base, NEW S \in SUBSET Confirmed, S # {}
    PROVE  devices[First(S)].confirmed /\ First(S) \in S
  <1>1. S \in SUBSET Ids
    BY DEF Confirmed
  <1>2. First(S) \in S
    BY <1>1, FirstIn
  <1>3. QED
    BY <1>2 DEF Confirmed

LEMMA DeleteOthersStays ==
    ASSUME Base, StaysInv, NEW s \in Slots, DeleteOthers(s)
    PROVE  StaysInv'
  <1> DEFINE d == slot[s].dev
  <1>1. /\ slot[s].flow \in {"login", "admin"} /\ slot[s].pc = "others"
        /\ ~alone' /\ enrolled' = enrolled
    BY DEF DeleteOthers, counts, StaysInv, AuthenticatorStays, Base, HistoryOK
  <1>2. PICK pc : Goto(s, pc) /\ pc \in {"answer", "code"}
    BY DEF DeleteOthers
  <1>3. CASE ~enrolled
    BY <1>1, <1>2, <1>3, GotoStays DEF WithDevice
  <1>4. CASE enrolled
    <2>1. \A t \in Slots : Keeps(slot[t])
      BY <1>4 DEF StaysInv
    <2>2. Otp \in SUBSET Ids /\ Otp # {} /\ d = First(Otp)
      BY <1>1, <1>4, <2>1 DEF StaysInv, AuthenticatorStays, Otp, Confirmed, Keeps
    <2>3. d \in Otp
      BY <2>2, FirstIn
    <2>4. /\ devices'[d] = devices[d]
          /\ \A e \in Ids \ {d} : devices'[e] = NoRow
      BY <2>2, <2>3 DEF DeleteOthers
    <2>5. Otp' = {d}
      BY <2>2, <2>3, <2>4 DEF Otp, Confirmed
    <2>6. First(Otp)' = d
      <3>1. First({d}) \in {d}
        BY <2>2, <2>3, FirstIn
      <3>2. QED
        BY <2>5, <3>1
    <2>7. /\ slot'[s].pc = pc /\ slot'[s].flow = slot[s].flow
          /\ slot'[s].row = slot[s].row
          /\ \A t \in Slots \ {s} : slot'[t] = slot[t]
      BY <1>2 DEF Goto, Base, SlotsOK
    <2>8. \A t \in Slots \ {s} : Keeps(slot[t])'
      BY <2>1, <2>2, <2>6, <2>7 DEF Keeps
    <2>9. Keeps(slot[s])'
      BY <1>1, <1>2, <2>7 DEF Keeps
    <2>10. \A t \in Slots : Sure(slot'[t])
      BY <1>1, <1>2, <2>7 DEF StaysInv, Sure, WithDevice
    <2>11. QED
      BY <1>1, <2>5, <2>8, <2>9, <2>10 DEF StaysInv, AuthenticatorStays, Sure
  <1>5. QED
    BY <1>3, <1>4

\* The save of a code changes neither the kind of a device nor that it is
\* confirmed.
LEMMA SaveStays ==
    ASSUME Base, StaysInv, NEW s \in Slots, ChecksOtp(s), NEW row,
           row.mode = "otp", row.confirmed = slot[s].row.confirmed,
           SaveRow(s, row), row \in Row
    PROVE  enrolled' => enrolled /\ Otp' = Otp
  <1>1. SUFFICES ASSUME enrolled'
                 PROVE  enrolled /\ Otp' = Otp
    OBVIOUS
  <1>2. enrolled /\ slot[s].dev \in Otp
    BY <1>1 DEF SaveRow
  <1>3. slot[s].row.confirmed
    BY DEF ChecksOtp, At, StaysInv, Sure, WithDevice
  <1>4. slot[s].dev \in Ids
    BY <1>2 DEF Otp, Confirmed
  <1>5. devices'[slot[s].dev] = row /\ row # NoRow
    BY <1>4, NoRowAssumption DEF SaveRow, Base, DevicesOK
  <1>6. \A e \in Ids \ {slot[s].dev} : devices'[e] = devices[e]
    BY <1>4 DEF SaveRow, Base, DevicesOK
  <1>7. QED
    BY <1>2, <1>3, <1>4, <1>5, <1>6 DEF Otp, Confirmed

LEMMA AcceptStays ==
    ASSUME Base, StaysInv, NEW s \in Slots, NEW k \in CodeSteps, AcceptOtp(s, k)
    PROVE  StaysInv'
  <1>1. /\ ChecksOtp(s) /\ slot[s].flow \in {"verify", "admin"}
        /\ slot[s].pc \in {"check", "code"} /\ slot[s].row.mode = "otp"
    BY DEF AcceptOtp, ChecksOtp, At
  <1>2. slot[s].row \in Row /\ now \in Nat /\ k \in Int
    BY <1>1 DEF Base, SlotsOK, GoodSlot, WithDevice, ClockOK, CodeSteps
  <1>3. PICK row \in Row :
          row = [mode |-> slot[s].row.mode, confirmed |-> slot[s].row.confirmed,
                 last_t |-> k, drift |-> k - now, fails |-> 0, failedAt |-> 0]
    <2>1. k - now \in Int /\ 0 \in Nat
      BY <1>2
    <2>2. QED
      BY <1>2, <2>1, RowFields, RowMade
  <1>4. SaveRow(s, row) /\ ~alone'
    BY <1>3 DEF AcceptOtp, counts, StaysInv, AuthenticatorStays, Base, HistoryOK
  <1>5. row.mode = "otp" /\ row.confirmed = slot[s].row.confirmed
    BY <1>1, <1>3
  <1>6. enrolled' => enrolled /\ Otp' = Otp
    BY <1>1, <1>4, <1>5, SaveStays
  <1>7. CASE Goto(s, "expire")
    BY <1>1, <1>4, <1>6, <1>7, GotoStays DEF WithDevice
  <1>8. CASE End(s)
    BY <1>4, <1>6, <1>8, EndStays
  <1>9. QED
    BY <1>7, <1>8 DEF AcceptOtp

LEMMA RefuseStays ==
    ASSUME Base, StaysInv, NEW s \in Slots, NEW k \in CodeSteps, RefuseOtp(s, k)
    PROVE  StaysInv'
  <1>1. ChecksOtp(s) /\ slot[s].row.mode = "otp" /\ slot[s].pc \in {"check", "code"}
    BY DEF RefuseOtp, ChecksOtp, At
  <1>2. slot[s].row \in Row /\ now \in Nat
    BY <1>1 DEF Base, SlotsOK, GoodSlot, WithDevice, ClockOK
  <1>3. PICK row \in Row :
          row = [mode |-> slot[s].row.mode, confirmed |-> slot[s].row.confirmed,
                 last_t |-> slot[s].row.last_t, drift |-> slot[s].row.drift,
                 fails |-> slot[s].row.fails + 1, failedAt |-> now]
    <2>1. slot[s].row.fails + 1 \in Nat
      BY <1>2, RowFields
    <2>2. QED
      BY <1>2, <2>1, RowFields, RowMade
  <1>4. SaveRow(s, row) /\ End(s) /\ ~alone'
    BY <1>3 DEF RefuseOtp, counts, StaysInv, AuthenticatorStays, Base, HistoryOK
  <1>5. row.mode = "otp" /\ row.confirmed = slot[s].row.confirmed
    BY <1>1, <1>3
  <1>6. enrolled' => enrolled /\ Otp' = Otp
    BY <1>1, <1>4, <1>5, SaveStays
  <1>7. QED
    BY <1>4, <1>6, EndStays

\* The enrolment itself.
LEMMA CreateOtpStays ==
    ASSUME Base, StaysInv, NEW s \in Slots, NEW d \in Ids, CreateOtp(s, d)
    PROVE  StaysInv'
  <1>1. devices'[d] = NewRow("otp", TRUE) /\ ~alone'
    BY DEF CreateOtp, CreateDevice, Base, DevicesOK, counts, StaysInv,
           AuthenticatorStays
  <1>2. NewRow("otp", TRUE) \in Row
    BY NewRowType
  <1>3. d \in Otp'
    <2>1. devices'[d] # NoRow
      BY <1>1, <1>2, NoRowAssumption
    <2>2. devices'[d].mode = "otp" /\ devices'[d].confirmed
      BY <1>1 DEF NewRow
    <2>3. QED
      BY <2>1, <2>2 DEF Otp, Confirmed
  <1>4. slot'[s] = Idle /\ \A t \in Slots \ {s} : slot'[t] = slot[t]
    BY DEF CreateOtp, End, Base, SlotsOK
  <1>5. Sure(Idle) /\ Keeps(Idle)'
    BY DEF Sure, Keeps, Idle, WithDevice
  <1>6. \A t \in Slots : Sure(slot'[t])
    BY <1>4, <1>5 DEF StaysInv
  <1>7. enrolled' => \A t \in Slots \ {s} : Keeps(slot[t])'
    BY <1>4 DEF CreateOtp, Others, Choosing, Keeps
  <1>8. enrolled' => \A t \in Slots : Keeps(slot[t])'
    BY <1>4, <1>5, <1>7
  <1>9. QED
    BY <1>1, <1>3, <1>6, <1>8 DEF StaysInv, AuthenticatorStays, Sure

LEMMA LoginStays ==
    ASSUME Base, StaysInv, NEW s \in Slots, LoginStep(s)
    PROVE  StaysInv'
  <1> USE DEF clock, rows, tokens, codes, counts
  <1>1. ~alone
    BY DEF StaysInv, AuthenticatorStays
  <1>2. enrolled => Keeps(slot[s]) /\ Otp # {}
    BY DEF StaysInv, AuthenticatorStays
  <1>3. CASE CheckMfa(s)
    <2>1. PICK pc \in {"otp", "answer"} : Goto(s, pc)
      BY <1>3 DEF CheckMfa
    <2>2. Otp' = Otp /\ enrolled' = enrolled /\ ~alone' /\ slot[s].flow # "edit"
      BY <1>1, <1>3, OtpSame DEF CheckMfa, At
    <2>3. QED
      BY <2>1, <2>2, GotoStays DEF WithDevice
  <1>4. CASE FindOtp(s)
    <2>1. Otp' = Otp /\ enrolled' = enrolled /\ ~alone' /\ slot[s].flow # "edit"
      BY <1>1, <1>4, OtpSame DEF FindOtp
    <2>2. CASE Otp # {}
      <3>1. PICK d, row : d = First(Otp) /\ row = devices[d]
        OBVIOUS
      <3>2. row.confirmed
        BY <2>2, <3>1, FirstSure DEF Otp
      <3>3. Load(s, "others", d, row)
        BY <1>4, <2>2, <3>1 DEF FindOtp
      <3>4. QED
        BY <2>1, <3>1, <3>2, <3>3, LoadStays
    <2>3. CASE Otp = {}
      BY <1>2, <1>4, <2>1, <2>3, GotoStays DEF FindOtp, WithDevice
    <2>4. QED
      BY <2>2, <2>3
  <1>5. ASSUME NEW i \in Ids, FindConfirmed(s, i)
        PROVE  StaysInv'
    <2>1. ~enrolled /\ ~alone' /\ slot[s].flow # "edit"
      BY <1>1, <1>2, <1>5 DEF FindConfirmed, Keeps
    <2>2. PICK pc : pc = IF slot[s].flow = "login" THEN "challenge" ELSE "others"
      OBVIOUS
    <2>3. ~enrolled'
      BY <1>5, <2>1 DEF FindConfirmed
    <2>4. CASE Confirmed # {}
      <3>1. PICK d, row : d = First(Confirmed) /\ row = devices[d]
        OBVIOUS
      <3>2. row.confirmed
        BY <2>4, <3>1, FirstSure
      <3>3. Load(s, pc, d, row)
        BY <1>5, <2>2, <2>4, <3>1 DEF FindConfirmed
      <3>4. QED
        BY <2>1, <2>3, <3>2, <3>3, LoadStays
    <2>5. CASE Confirmed = {}
      <3>1. PICK row : row = NewRow("email", TRUE)
        OBVIOUS
      <3>2. Load(s, pc, i, row) /\ row.confirmed
        BY <1>5, <2>2, <2>5, <3>1 DEF FindConfirmed, NewRow
      <3>3. QED
        BY <2>1, <2>3, <3>2, LoadStays
    <2>6. QED
      BY <2>4, <2>5
  <1>6. CASE Challenge(s)
    <2>1. /\ ~enrolled /\ ~enrolled' /\ ~alone' /\ slot[s].flow # "edit"
          /\ Goto(s, "others") /\ slot[s].pc = "challenge"
      BY <1>1, <1>2, <1>6 DEF Challenge, Keeps, At
    <2>2. QED
      BY <2>1, GotoStays DEF WithDevice
  <1>7. CASE DeleteOthers(s)
    BY <1>7, DeleteOthersStays
  <1>8. CASE Answer(s)
    <2>1. ~alone'
      BY <1>1, <1>2, <1>8 DEF Answer, IsMfaEnabled
    <2>2. Otp' = Otp /\ enrolled' = enrolled /\ End(s)
      BY <1>8, OtpSame DEF Answer
    <2>3. QED
      BY <2>1, <2>2, EndStays
  <1>9. QED
    BY <1>3, <1>4, <1>5, <1>6, <1>7, <1>8 DEF LoginStep

LEMMA VerifyStays ==
    ASSUME Base, StaysInv, NEW s \in Slots, VerifyStep(s)
    PROVE  StaysInv'
  <1> USE DEF clock, rows, tokens, codes, counts
  <1>1. ~alone
    BY DEF StaysInv, AuthenticatorStays
  <1>2. CASE PickDevice(s)
    <2>1. Otp' = Otp /\ enrolled' = enrolled /\ ~alone' /\ slot[s].flow = "verify"
      BY <1>1, <1>2, OtpSame DEF PickDevice
    <2>2. PICK found \in SUBSET Confirmed :
            found = IF slot[s].pc = "totp" THEN Otp ELSE Confirmed
      BY DEF Otp
    <2>3. CASE found # {}
      <3>1. PICK d, row : d = First(found) /\ row = devices[d]
        OBVIOUS
      <3>2. row.confirmed
        BY <2>3, <3>1, FirstSure
      <3>3. Load(s, "check", d, row)
        BY <1>2, <2>2, <2>3, <3>1 DEF PickDevice
      <3>4. QED
        BY <2>1, <3>2, <3>3, LoadStays
    <2>4. CASE found = {}
      BY <1>2, <2>1, <2>2, <2>4, EndStays DEF PickDevice
    <2>5. QED
      BY <2>3, <2>4
  <1>3. ASSUME NEW w \in CodeWindows, CheckEmail(s, w)
        PROVE  StaysInv'
    <2>1. Otp' = Otp /\ enrolled' = enrolled /\ ~alone' /\ slot[s].flow = "verify"
      BY <1>1, <1>3, OtpSame DEF CheckEmail, At
    <2>2. QED
      BY <1>3, <2>1, GotoStays, EndStays DEF CheckEmail, WithDevice
  <1>4. CASE Throttled(s)
    <2>1. Otp' = Otp /\ enrolled' = enrolled /\ ~alone' /\ End(s)
      BY <1>1, <1>4, OtpSame DEF Throttled
    <2>2. QED
      BY <2>1, EndStays
  <1>5. CASE \/ ExpireTemporaryTokens(s) \/ Lookup(s) \/ PickMode(s)
             \/ ExpireToken(s) \/ OpenSession(s)
    <2>1. slot[s].flow = "verify" /\ enrolled' = enrolled /\ ~alone'
      BY <1>1, <1>5
      DEF ExpireTemporaryTokens, Lookup, PickMode, ExpireToken, OpenSession, At
    <2>2. devices' = devices
      BY <1>5
      DEF ExpireTemporaryTokens, Lookup, PickMode, ExpireToken, OpenSession
    <2>3. Otp' = Otp
      BY <2>2, OtpSame
    <2>4. \/ End(s)
          \/ \E pc \in {"lookup", "pick", "totp", "confirmed", "session"} :
               Goto(s, pc)
      BY <1>5
      DEF ExpireTemporaryTokens, Lookup, PickMode, ExpireToken, OpenSession
    <2>5. QED
      BY <2>1, <2>3, <2>4, GotoStays, EndStays DEF WithDevice
  <1>6. QED
    BY <1>2, <1>3, <1>4, <1>5, AcceptStays, RefuseStays DEF VerifyStep

LEMMA ConfigureStays ==
    ASSUME Base, StaysInv, NEW s \in Slots, ConfigureStep(s)
    PROVE  StaysInv'
  <1> USE DEF clock, rows, tokens, codes, counts
  <1>1. ~alone
    BY DEF StaysInv, AuthenticatorStays
  <1>2. CASE RefuseConfigured(s) \/ GetOtp(s) \/ EndWithChallenge(s)
    <2>1. slot[s].flow # "edit" /\ enrolled' = enrolled /\ ~alone'
      BY <1>1, <1>2 DEF RefuseConfigured, GetOtp, EndWithChallenge, At
    <2>2. Otp' = Otp
      BY <1>2, OtpSame DEF RefuseConfigured, GetOtp, EndWithChallenge
    <2>3. CASE End(s)
      BY <2>1, <2>2, <2>3, EndStays
    <2>4. CASE ~End(s)
      <3>1. PICK pc \in {"device", "create"} : Goto(s, pc)
        BY <1>2, <2>4 DEF RefuseConfigured, GetOtp, EndWithChallenge
      <3>2. slot[s].flow = "configure"
        BY <1>2, <2>4 DEF RefuseConfigured, GetOtp, EndWithChallenge, At
      <3>3. QED
        BY <2>1, <2>2, <3>1, <3>2, GotoStays DEF WithDevice
    <2>5. QED
      BY <2>3, <2>4
  <1>3. ASSUME NEW i \in Ids, ChooseEmailDevice(s, i)
        PROVE  StaysInv'
    <2>1. slot[s].flow = "configure" /\ enrolled' = enrolled /\ ~alone'
      BY <1>1, <1>3 DEF ChooseEmailDevice, At
    <2>2. CASE ByEmail # {}
      <3>1. PICK d, row : d = First(ByEmail) /\ row = devices[d]
        OBVIOUS
      <3>2. row.confirmed
        BY <2>2, <3>1, FirstSure DEF ByEmail
      <3>3. Load(s, "code", d, row) /\ devices' = devices
        BY <1>3, <2>2, <3>1 DEF ChooseEmailDevice
      <3>4. QED
        BY <2>1, <3>2, <3>3, LoadStays, OtpSame
    <2>3. CASE ByEmail = {}
      <3>1. PICK row : row = NewRow("email", TRUE)
        OBVIOUS
      <3>2. Load(s, "code", i, row) /\ row.confirmed /\ CreateDevice(i, row)
        BY <1>3, <2>3, <3>1 DEF ChooseEmailDevice, NewRow
      <3>3. Otp' = Otp
        BY <3>1, <3>2, OtpSameCreate
      <3>4. QED
        BY <2>1, <3>2, <3>3, LoadStays
    <2>4. QED
      BY <2>2, <2>3
  <1>4. ASSUME NEW w \in CodeWindows, CheckConfigureCode(s, w)
        PROVE  StaysInv'
    <2>1. /\ Otp' = Otp /\ enrolled' = enrolled /\ ~alone'
          /\ slot[s].flow = "configure"
      BY <1>1, <1>4, OtpSame DEF CheckConfigureCode, At
    <2>2. QED
      BY <1>4, <2>1, GotoStays, EndStays DEF CheckConfigureCode, WithDevice
  <1>5. ASSUME NEW confirmed \in BOOLEAN, SaveEdit(s, confirmed)
        PROVE  StaysInv'
    <2>1. slot[s].flow = "edit" /\ ~alone' /\ End(s)
      BY <1>1, <1>5 DEF SaveEdit, At
    <2>2. ~enrolled
      BY <2>1 DEF StaysInv, Keeps
    <2>3. ~enrolled'
      BY <1>5, <2>2 DEF SaveEdit, SaveRow
    <2>4. QED
      BY <2>1, <2>3, EndStays
  <1>6. QED
    BY <1>2, <1>3, <1>4, <1>5, CreateOtpStays DEF ConfigureStep

LEMMA BeginStays ==
    ASSUME Base, StaysInv, NEW s \in Slots, Begin(s)
    PROVE  StaysInv'
  <1> USE DEF clock, rows, tokens, codes, counts
  <1>1. ~alone
    BY DEF StaysInv, AuthenticatorStays
  <1>2. ASSUME NEW k \in Keys, StartLogin(s, k) \/ StartVerify(s, k)
        PROVE  StaysInv'
    <2>1. devices' = devices /\ enrolled' = enrolled /\ ~alone'
      BY <1>1, <1>2 DEF StartLogin, StartVerify
    <2>2. Start(s, "login", "mfa", k) \/ Start(s, "verify", "sweep", k)
      BY <1>2 DEF StartLogin, StartVerify
    <2>3. QED
      BY <2>1, <2>2, StartStays DEF WithDevice
  <1>3. CASE StartConfigure(s) \/ StartAdmin(s)
    <2>1. devices' = devices /\ enrolled' = enrolled /\ ~alone'
      BY <1>1, <1>3 DEF StartConfigure, StartAdmin
    <2>2. Start(s, "configure", "otp", NoKey) \/ Start(s, "admin", "otp", NoKey)
      BY <1>3 DEF StartConfigure, StartAdmin
    <2>3. QED
      BY <2>1, <2>2, StartStays DEF WithDevice
  <1>4. ASSUME NEW d \in Ids, LoadForEdit(s, d)
        PROVE  StaysInv'
    <2>1. PICK q : q = [flow |-> "edit", pc |-> "save", dev |-> d,
                        row |-> devices[d], key |-> NoKey]
      OBVIOUS
    <2>2. slot' = [slot EXCEPT ![s] = q] /\ ~enrolled' /\ ~alone'
      BY <1>1, <1>4, <2>1 DEF LoadForEdit
    <2>3. Sure(q)
      BY <2>1 DEF Sure
    <2>4. QED
      BY <2>2, <2>3, OneMoves
  <1>5. QED
    BY <1>2, <1>3, <1>4 DEF Begin

LEMMA StaysStep ==
    ASSUME Base, StaysInv, [Next]_vars
    PROVE  StaysInv'
  <1> USE DEF clock, rows, tokens, codes, counts
  <1>1. ~alone
    BY DEF StaysInv, AuthenticatorStays
  <1>2. ASSUME NEW d \in Ids, DeleteDevice(d)
        PROVE  StaysInv'
    <2>1. slot' = slot /\ ~alone' /\ enrolled' = (enrolled /\ d \notin Otp)
      BY <1>1, <1>2 DEF DeleteDevice
    <2>2. ASSUME d \notin Otp
          PROVE  Otp' = Otp
      BY <1>2, <2>2 DEF DeleteDevice, Otp, Confirmed, Base, DevicesOK
    <2>3. QED
      BY <2>1, <2>2, NoneMoves
  <1>3. ASSUME NEW d \in Ids, NEW confirmed \in BOOLEAN, AddDevice(d, confirmed)
        PROVE  StaysInv'
    <2>1. /\ slot' = slot /\ ~alone' /\ enrolled' = enrolled
          /\ CreateDevice(d, NewRow("email", confirmed))
      BY <1>1, <1>3 DEF AddDevice
    <2>2. QED
      BY <2>1, OtpSameCreate, NoneMoves
  <1>4. ASSUME Tick \/ UNCHANGED vars
        PROVE  StaysInv'
    <2>1. slot' = slot /\ ~alone' /\ enrolled' = enrolled /\ devices' = devices
      BY <1>1, <1>4 DEF Tick, vars, tables, history
    <2>2. QED
      BY <2>1, OtpSame, NoneMoves
  <1>5. QED
    BY <1>2, <1>3, <1>4, LoginStays, VerifyStays, ConfigureStays, BeginStays
    DEF Next

\* The authenticator of an account, enrolled while no other request chooses a
\* device, is kept by every later login, form of the administration site and
\* verification, whatever their steps are interleaved with, until its user
\* changes the devices or a save brings one back; meanwhile the password alone
\* opens no session.
THEOREM EnrolledStays == Spec => []AuthenticatorStays
  <1>1. Init => StaysInv
    <2>1. Init => \A s \in Slots : Sure(slot[s])
      BY DEF Init, Sure, Idle, WithDevice
    <2>2. QED
      BY <2>1 DEF Init, StaysInv, AuthenticatorStays
  <1>2. Base /\ StaysInv /\ [Next]_vars => StaysInv'
    BY StaysStep
  <1>3. StaysInv => AuthenticatorStays
    BY DEF StaysInv
  <1>4. QED
    BY BaseHolds, <1>1, <1>2, <1>3, PTL DEF Spec

-----------------------------------------------------------------------------
(***************************************************************************)
(* OneUsePerCode: the row of a device that no older save has overwritten   *)
(* remembers, in last_t, the last step that it has accepted.               *)
(***************************************************************************)

LastKept ==
    /\ \A d \in fresh : used[d] = {}
    /\ \A d \in Ids \ stale : devices[d] # NoRow =>
         \A k \in used[d] : k <= devices[d].last_t

UseInv == OneUsePerCode /\ LastKept

\* Rows that are created or deleted.
LEMMA TableKeepsUse ==
    ASSUME Base, UseInv, UNCHANGED <<used, twice, stale>>,
           fresh' \subseteq fresh,
           \A d \in Ids : \/ devices'[d] = devices[d]
                          \/ devices'[d] = NoRow
                          \/ d \in fresh
    PROVE  UseInv'
  BY DEF UseInv, OneUsePerCode, LastKept

\* A save that leaves last_t as the request has loaded it.
LEMMA SaveKeepsUse ==
    ASSUME Base, UseInv, NEW s \in Slots, slot[s].pc \in WithDevice,
           NEW row \in Row, row.last_t = slot[s].row.last_t,
           SaveRow(s, row), UNCHANGED <<used, twice>>
    PROVE  UseInv'
  <1>1. slot[s].dev \in Ids \ fresh /\ slot[s].row \in Row
    BY DEF Base, SlotsOK, GoodSlot
  <1>2. stale \subseteq stale' /\ fresh' = fresh
    BY DEF SaveRow
  <1>3. ASSUME NEW d \in Ids \ stale', devices'[d] # NoRow, NEW k \in used'[d]
        PROVE  k <= devices'[d].last_t
    <2>1. ASSUME d = slot[s].dev
          PROVE  devices[d] = slot[s].row /\ devices'[d] = row
      BY <1>3, <2>1 DEF SaveRow, Base, DevicesOK
    <2>2. ASSUME d # slot[s].dev
          PROVE  devices'[d] = devices[d]
      BY <2>2 DEF SaveRow
    <2>3. d \in Ids \ stale /\ k \in used[d]
      BY <1>2, <1>3
    <2>4. devices[d] # NoRow => k <= devices[d].last_t
      BY <2>3 DEF UseInv, LastKept
    <2>5. QED
      BY <1>1, <1>3, <2>1, <2>2, <2>4, NoRowAssumption
  <1>4. QED
    BY <1>2, <1>3 DEF UseInv, OneUsePerCode, LastKept

LEMMA AcceptKeepsUse ==
    ASSUME Base, UseInv, NEW s \in Slots, NEW k \in CodeSteps, AcceptOtp(s, k)
    PROVE  UseInv'
  <1>1. slot[s].pc \in WithDevice
    BY DEF AcceptOtp, ChecksOtp, At, WithDevice
  <1>2. PICK d \in Ids \ fresh : d = slot[s].dev
    BY <1>1 DEF Base, SlotsOK, GoodSlot
  <1>3. slot[s].row \in Row /\ slot[s].row.last_t \in Int /\ k \in Int
    BY <1>1 DEF Base, SlotsOK, GoodSlot, CodeSteps, Row, ClockOK
  <1>4. /\ stale \subseteq stale' /\ fresh' = fresh
        /\ devices[d] # slot[s].row => d \in stale'
    BY <1>2 DEF AcceptOtp, SaveRow
  <1>5. k > slot[s].row.last_t
    BY <1>3 DEF AcceptOtp, OtpAccepts
  <1>6. ASSUME d \notin stale, devices[d] = slot[s].row
        PROVE  \A j \in used[d] : j < k
    <2>1. \A j \in used[d] : j <= slot[s].row.last_t /\ j \in Int
      BY <1>3, <1>6, NoRowAssumption DEF UseInv, LastKept, Base, HistoryOK
    <2>2. QED
      BY <1>3, <1>5, <2>1
  <1>7. OneUsePerCode'
    <2>1. twice' \subseteq twice \cup {d} /\ (d \in twice' \ twice => k \in used[d])
      BY <1>2 DEF AcceptOtp
    <2>2. twice \subseteq stale'
      BY <1>4 DEF UseInv, OneUsePerCode
    <2>3. d \in twice' \ twice => d \in stale'
      BY <1>3, <1>4, <1>6, <2>1
    <2>4. QED
      BY <2>1, <2>2, <2>3 DEF OneUsePerCode
  <1>8. ASSUME NEW e \in Ids \ stale', devices'[e] # NoRow, NEW j \in used'[e]
        PROVE  j <= devices'[e].last_t
    <2>1. ASSUME e = d
          PROVE  j <= devices'[e].last_t
      <3>1. devices'[e].last_t = k
        BY <1>2, <2>1 DEF AcceptOtp, SaveRow, Base, DevicesOK
      <3>2. used'[e] = used[d] \cup {k}
        BY <1>2, <2>1 DEF AcceptOtp, Base, HistoryOK
      <3>3. e \notin stale /\ devices[d] = slot[s].row
        BY <1>4, <1>8, <2>1
      <3>4. j \in Int
        BY <1>3, <1>8, <3>2 DEF Base, HistoryOK
      <3>5. QED
        BY <1>3, <1>6, <1>8, <2>1, <3>1, <3>2, <3>3, <3>4
    <2>2. ASSUME e # d
          PROVE  j <= devices'[e].last_t
      BY <1>2, <1>4, <1>8, <2>2
      DEF AcceptOtp, SaveRow, UseInv, LastKept, Base, DevicesOK, HistoryOK
    <2>3. QED
      BY <2>1, <2>2
  <1>9. \A e \in fresh' : used'[e] = {}
    BY <1>2, <1>4 DEF AcceptOtp, UseInv, LastKept, Base, HistoryOK, DevicesOK
  <1>10. QED
    BY <1>7, <1>8, <1>9 DEF UseInv, LastKept

LEMMA UseStep ==
    ASSUME Base, UseInv, [Next]_vars
    PROVE  UseInv'
  <1> USE DEF rows, codes
  <1>1. ASSUME UNCHANGED <<devices, fresh, used, twice, stale>>
        PROVE  UseInv'
    BY <1>1 DEF UseInv, OneUsePerCode, LastKept
  <1>2. ASSUME NEW d \in Ids, NEW row, CreateDevice(d, row), UNCHANGED codes
        PROVE  UseInv'
    <2>1. /\ d \in fresh /\ fresh' \subseteq fresh
          /\ \A e \in Ids : e # d => devices'[e] = devices[e]
      BY <1>2 DEF CreateDevice, Base, DevicesOK
    <2>2. QED
      BY <1>2, <2>1, TableKeepsUse
  <1>3. ASSUME NEW s \in Slots, LoginStep(s)
        PROVE  UseInv'
    <2>1. ASSUME DeleteOthers(s)
          PROVE  UseInv'
      BY <2>1, TableKeepsUse DEF DeleteOthers
    <2>2. QED
      BY <1>1, <1>2, <1>3, <2>1
      DEF LoginStep, CheckMfa, FindOtp, FindConfirmed, Challenge, Answer
  <1>4. ASSUME NEW s \in Slots, VerifyStep(s)
        PROVE  UseInv'
    <2>1. ASSUME NEW k \in CodeSteps, RefuseOtp(s, k)
          PROVE  UseInv'
      <3>1. slot[s].pc \in WithDevice
        BY <2>1 DEF RefuseOtp, ChecksOtp, At, WithDevice
      <3>2. slot[s].row \in Row /\ now \in Nat
        BY <3>1 DEF Base, SlotsOK, GoodSlot, ClockOK
      <3>3. slot[s].row.fails + 1 \in Nat
        BY <3>2, RowFields
      <3>4. PICK row \in Row :
              row = [mode |-> slot[s].row.mode, confirmed |-> slot[s].row.confirmed,
                     last_t |-> slot[s].row.last_t, drift |-> slot[s].row.drift,
                     fails |-> slot[s].row.fails + 1, failedAt |-> now]
        BY <3>2, <3>3, RowFields, RowMade
      <3>5. SaveRow(s, row) /\ row.last_t = slot[s].row.last_t
        BY <2>1, <3>4 DEF RefuseOtp
      <3>6. QED
        BY <2>1, <3>1, <3>5, SaveKeepsUse DEF RefuseOtp
    <2>2. QED
      BY <1>1, <1>4, <2>1, AcceptKeepsUse
      DEF VerifyStep, ExpireTemporaryTokens, Lookup, PickMode, PickDevice,
          CheckEmail, Throttled, ExpireToken, OpenSession
  <1>5. ASSUME NEW s \in Slots, ConfigureStep(s)
        PROVE  UseInv'
    <2>1. ASSUME NEW confirmed \in BOOLEAN, SaveEdit(s, confirmed)
          PROVE  UseInv'
      <3>1. slot[s].pc \in WithDevice
        BY <2>1 DEF SaveEdit, At, WithDevice
      <3>2. slot[s].row \in Row
        BY <3>1 DEF Base, SlotsOK, GoodSlot
      <3>3. PICK row \in Row :
              row = [mode |-> slot[s].row.mode, confirmed |-> confirmed,
                     last_t |-> slot[s].row.last_t, drift |-> slot[s].row.drift,
                     fails |-> slot[s].row.fails, failedAt |-> slot[s].row.failedAt]
        BY <3>2, RowFields, RowMade
      <3>4. SaveRow(s, row) /\ row.last_t = slot[s].row.last_t
        BY <2>1, <3>3 DEF SaveEdit
      <3>5. QED
        BY <2>1, <3>1, <3>4, SaveKeepsUse DEF SaveEdit
    <2>2. QED
      BY <1>1, <1>2, <1>5, <2>1
      DEF ConfigureStep, RefuseConfigured, GetOtp, EndWithChallenge,
          ChooseEmailDevice, CreateOtp, CheckConfigureCode
  <1>6. ASSUME NEW s \in Slots, Begin(s)
        PROVE  UseInv'
    BY <1>1, <1>6
    DEF Begin, StartLogin, StartVerify, StartConfigure, StartAdmin, LoadForEdit
  <1>7. ASSUME NEW d \in Ids, DeleteDevice(d)
        PROVE  UseInv'
    BY <1>7, TableKeepsUse DEF DeleteDevice, Base, DevicesOK
  <1>8. QED
    BY <1>1, <1>2, <1>3, <1>4, <1>5, <1>6, <1>7
    DEF Next, AddDevice, Tick, vars, tables, history

\* An authenticator accepts the code of a step once, unless a request saves a
\* row of the device that it had loaded before another save.
THEOREM CodesUsedOnce == Spec => []OneUsePerCode
  <1>1. Init => UseInv
    BY DEF Init, UseInv, OneUsePerCode, LastKept
  <1>2. Base /\ UseInv /\ [Next]_vars => UseInv'
    BY UseStep
  <1>3. UseInv => OneUsePerCode
    BY DEF UseInv
  <1>4. QED
    BY <1>1, <1>2, <1>3, BaseHolds, PTL DEF Spec

-----------------------------------------------------------------------------
(***************************************************************************)
(* OneSessionPerToken: the verifications that have found a token unexpired *)
(* and the sessions that it has opened are counted together.               *)
(***************************************************************************)

\* The verifications of k from the moment when they have found it unexpired.
Checking == {"pick", "totp", "confirmed", "check", "expire", "session"}
Verifying(k) == {s \in Slots : slot[s].flow = "verify" /\ slot[s].key = k
                                 /\ slot[s].pc \in Checking}

\* The key of a login under way is drawn by nobody else.
KeysDrawn ==
    \A s \in Slots : slot[s].flow = "login" =>
        /\ temps[slot[s].key] = "none"
        /\ \A t \in Others(s) : slot[t].key # slot[s].key

\* A token that is not marked has opened nothing, and no verification is past
\* the mark.
Unmarked ==
    \A k \in Keys : temps[k] # "expired" =>
        /\ logins[k] = 0
        /\ \A s \in Verifying(k) : slot[s].pc # "session"

Counted == \A k \in Keys : logins[k] + Cardinality(Verifying(k)) <= 1 + crossings[k]

SessionInv == KeysDrawn /\ Unmarked /\ Counted

LEMMA VerifyingFinite ==
    ASSUME NEW k \in Keys
    PROVE  IsFiniteSet(Verifying(k)) /\ Cardinality(Verifying(k)) \in Nat
  BY ConstantsAssumption, FS_Subset, FS_CardinalityType DEF Verifying

\* A step that verifies nothing new and opens nothing.
LEMMA QuietStep ==
    ASSUME Base, SessionInv, NEW s \in Slots, NEW q,
           slot' = [slot EXCEPT ![s] = q],
           UNCHANGED <<logins, crossings>>,
           \A k \in Keys : temps'[k] # "expired" => temps[k] # "expired",
           q.flow = "verify" /\ q.pc \in Checking =>
               /\ slot[s].flow = "verify" /\ slot[s].pc \in Checking
               /\ q.key = slot[s].key
               /\ q.pc # "session" \/ temps'[q.key] = "expired"
    PROVE  Unmarked' /\ Counted'
  <1>1. ASSUME NEW k \in Keys
        PROVE  Verifying(k)' \subseteq Verifying(k)
    <2>1. ASSUME NEW t \in Slots, t \in Verifying(k)'
          PROVE  t \in Verifying(k)
      BY <2>1 DEF Verifying, Base, SlotsOK
    <2>2. Verifying(k)' \subseteq Slots
      BY DEF Verifying
    <2>3. QED
      BY <2>1, <2>2
  <1>2. ASSUME NEW k \in Keys
        PROVE  Cardinality(Verifying(k)') <= Cardinality(Verifying(k))
    BY <1>1, VerifyingFinite, FS_Subset
  <1>3. Counted'
    <2>1. ASSUME NEW k \in Keys
          PROVE  (logins[k] + Cardinality(Verifying(k)) <= 1 + crossings[k])'
      <3>1. IsFiniteSet(Verifying(k)') /\ Cardinality(Verifying(k)') \in Nat
        BY <1>1, VerifyingFinite, FS_Subset, FS_CardinalityType
      <3>2. logins[k] + Cardinality(Verifying(k)) <= 1 + crossings[k]
        BY DEF SessionInv, Counted
      <3>3. logins[k] \in Nat /\ crossings[k] \in Nat
        BY DEF Base, HistoryOK
      <3>4. QED
        BY <1>2, <3>1, <3>2, <3>3, VerifyingFinite
    <2>2. QED
      BY <2>1 DEF Counted
  <1>4. ASSUME NEW k \in Keys, temps'[k] # "expired"
        PROVE  logins'[k] = 0 /\ \A t \in Verifying(k)' : slot'[t].pc # "session"
    <2>1. temps[k] # "expired" /\ logins[k] = 0
      BY <1>4 DEF SessionInv, Unmarked
    <2>2. ASSUME NEW t \in Verifying(k)'
          PROVE  slot'[t].pc # "session"
      <3>1. t \in Verifying(k) /\ t \in Slots
        BY <1>1, <2>2 DEF Verifying
      <3>2. slot[t].pc # "session"
        BY <2>1, <3>1 DEF SessionInv, Unmarked
      <3>3. ASSUME t = s
            PROVE  slot'[t].pc # "session"
        BY <1>4, <2>2, <3>3 DEF Verifying, Base, SlotsOK
      <3>4. ASSUME t # s
            PROVE  slot'[t] = slot[t]
        BY <3>1, <3>4 DEF Base, SlotsOK
      <3>5. QED
        BY <3>2, <3>3, <3>4
    <2>3. QED
      BY <2>1, <2>2
  <1>5. QED
    BY <1>3, <1>4 DEF Unmarked

\* The keys of the logins, when a slot moves and a token is not put back.
LEMMA KeysKept ==
    ASSUME Base, SessionInv, NEW s \in Slots, NEW q,
           slot' = [slot EXCEPT ![s] = q],
           q.flow = "login" => slot[s].flow = "login",
           q.key = slot[s].key \/ q.key = NoKey \/ temps[q.key] # "none",
           q.flow = "login" => q.key = slot[s].key,
           \A k \in Keys : temps[k] = "none" =>
               temps'[k] = "none" \/ (slot[s].key = k /\ q.flow # "login")
    PROVE  KeysDrawn'
  <1>1. ASSUME NEW t \in Slots, slot'[t].flow = "login"
        PROVE  /\ temps'[slot'[t].key] = "none"
               /\ \A u \in Others(t) : slot'[u].key # slot'[t].key
    <2>1. slot[t].flow = "login" /\ slot'[t].key = slot[t].key
      BY <1>1 DEF Base, SlotsOK
    <2>2. slot[t].key \in Keys /\ temps[slot[t].key] = "none"
      BY <2>1 DEF Base, SlotsOK, GoodSlot, SessionInv, KeysDrawn
    <2>3. \A u \in Others(t) : slot[u].key # slot[t].key
      BY <2>1 DEF SessionInv, KeysDrawn
    <2>4. ASSUME NEW u \in Others(t)
          PROVE  slot'[u].key # slot'[t].key
      <3>1. \/ slot'[u].key = slot[u].key \/ slot'[u].key = NoKey
            \/ temps[slot'[u].key] # "none"
        BY DEF Base, SlotsOK, Others
      <3>2. QED
        BY <2>1, <2>2, <2>3, <3>1, ConstantsAssumption
    <2>5. temps'[slot[t].key] = "none"
      <3>1. ASSUME slot[s].key = slot[t].key, q.flow # "login"
            PROVE  FALSE
        <4>1. t # s
          BY <1>1, <3>1 DEF Base, SlotsOK
        <4>2. QED
          BY <2>3, <3>1, <4>1 DEF Others
      <3>2. QED
        BY <2>2, <3>1
    <2>6. QED
      BY <2>1, <2>4, <2>5
  <1>2. QED
    BY <1>1 DEF KeysDrawn, Others

\* A request goes on, or ends, and marks no token.
LEMMA MoveKeeps ==
    ASSUME Base, SessionInv, NEW s \in Slots,
           UNCHANGED <<temps, logins, crossings>>,
           \/ End(s)
           \/ \E pc \in Pcs :
                /\ slot[s].flow = "verify" /\ pc \in Checking
                     => slot[s].pc \in Checking /\ pc # "session"
                /\ Goto(s, pc) \/ \E d, row : Load(s, pc, d, row)
    PROVE  SessionInv'
  <1>1. PICK q : /\ slot' = [slot EXCEPT ![s] = q]
                 /\ \/ q = Idle
                    \/ /\ q.flow = slot[s].flow /\ q.key = slot[s].key
                       /\ slot[s].flow = "verify" /\ q.pc \in Checking
                            => slot[s].pc \in Checking /\ q.pc # "session"
    <2>1. ASSUME End(s)
          PROVE  slot' = [slot EXCEPT ![s] = Idle]
      BY <2>1 DEF End
    <2>2. ASSUME NEW pc \in Pcs, Goto(s, pc)
          PROVE  slot' = [slot EXCEPT ![s] =
                     [flow |-> slot[s].flow, pc |-> pc, dev |-> slot[s].dev,
                      row |-> slot[s].row, key |-> slot[s].key]]
      BY <2>2 DEF Goto, Base, SlotsOK
    <2>3. ASSUME NEW pc \in Pcs, NEW d, NEW row, Load(s, pc, d, row)
          PROVE  slot' = [slot EXCEPT ![s] =
                     [flow |-> slot[s].flow, pc |-> pc, dev |-> d,
                      row |-> row, key |-> slot[s].key]]
      BY <2>3 DEF Load, Base, SlotsOK
    <2>4. QED
      BY <2>1, <2>2, <2>3
  <1>2. Idle.flow = "idle" /\ Idle.key = NoKey
    BY DEF Idle
  <1>3. Unmarked' /\ Counted'
    BY <1>1, <1>2, QuietStep
  <1>4. KeysDrawn'
    BY <1>1, <1>2, KeysKept
  <1>5. QED
    BY <1>3, <1>4 DEF SessionInv

LEMMA StartLoginKeeps ==
    ASSUME Base, SessionInv, NEW s \in Slots, NEW k \in Keys, StartLogin(s, k)
    PROVE  SessionInv'
  <1>1. PICK q : /\ slot' = [slot EXCEPT ![s] = q]
                 /\ q.flow = "login" /\ q.key = k
    <2>1. PICK q : q = [flow |-> "login", pc |-> "mfa", dev |-> NoDevice,
                        row |-> NoRow, key |-> k]
      OBVIOUS
    <2>2. slot' = [slot EXCEPT ![s] = q]
      BY <2>1 DEF StartLogin, Start
    <2>3. q.flow = "login" /\ q.key = k
      BY <2>1
    <2>4. QED
      BY <2>2, <2>3
  <1>2. UNCHANGED <<temps, logins, crossings>>
    BY DEF StartLogin, tokens, counts
  <1>3. Unmarked' /\ Counted'
    BY <1>1, <1>2, QuietStep
  <1>4. ASSUME NEW t \in Slots, slot'[t].flow = "login"
        PROVE  /\ temps'[slot'[t].key] = "none"
               /\ \A u \in Others(t) : slot'[u].key # slot'[t].key
    <2>1. temps[k] = "none" /\ \A u \in Slots : slot[u].key # k
      BY DEF StartLogin
    <2>2. ASSUME t = s
          PROVE  /\ temps'[slot'[t].key] = "none"
                 /\ \A u \in Others(t) : slot'[u].key # slot'[t].key
      BY <1>1, <1>2, <2>1, <2>2 DEF Base, SlotsOK, Others
    <2>3. ASSUME t # s
          PROVE  /\ temps'[slot'[t].key] = "none"
                 /\ \A u \in Others(t) : slot'[u].key # slot'[t].key
      <3>1. slot'[t] = slot[t]
        BY <1>1, <2>3 DEF Base, SlotsOK
      <3>2. /\ temps[slot[t].key] = "none"
            /\ \A u \in Others(t) : slot[u].key # slot[t].key
        BY <1>4, <3>1 DEF SessionInv, KeysDrawn
      <3>3. \A u \in Slots : slot'[u].key = slot[u].key \/ slot'[u].key = k
        BY <1>1 DEF Base, SlotsOK
      <3>4. QED
        BY <1>2, <2>1, <3>1, <3>2, <3>3 DEF Others
    <2>4. QED
      BY <2>2, <2>3
  <1>5. QED
    BY <1>3, <1>4 DEF SessionInv, KeysDrawn, Others

\* Another request begins.
LEMMA StartKeepsSessions ==
    ASSUME Base, SessionInv, NEW s \in Slots, NEW q,
           slot' = [slot EXCEPT ![s] = q],
           q.flow # "login", q.pc \notin Checking,
           q.key = NoKey \/ temps[q.key] # "none",
           UNCHANGED <<temps, logins, crossings>>
    PROVE  SessionInv'
  BY QuietStep, KeysKept DEF SessionInv

LEMMA LookupKeeps ==
    ASSUME Base, SessionInv, NEW s \in Slots, Lookup(s),
           temps[slot[s].key] = "live"
    PROVE  SessionInv'
  <1>1. PICK k \in Keys : k = slot[s].key
    BY DEF Lookup, At, Base, SlotsOK, GoodSlot
  <1>2. PICK q : /\ slot' = [slot EXCEPT ![s] = q]
                 /\ q.flow = "verify" /\ q.key = k /\ q.pc = "pick"
    <2>1. Goto(s, "pick") /\ slot[s].flow = "verify"
      BY DEF Lookup, At
    <2>2. PICK q : q = [flow |-> slot[s].flow, pc |-> "pick", dev |-> slot[s].dev,
                        row |-> slot[s].row, key |-> slot[s].key]
      OBVIOUS
    <2>3. slot' = [slot EXCEPT ![s] = q]
      BY <2>1, <2>2 DEF Goto, Base, SlotsOK
    <2>4. q.flow = "verify" /\ q.key = k /\ q.pc = "pick"
      BY <1>1, <2>1, <2>2
    <2>5. QED
      BY <2>3, <2>4
  <1>3. UNCHANGED <<temps, logins>>
    BY DEF Lookup, tokens
  <1>4. s \notin Verifying(k)
    BY DEF Lookup, At, Verifying, Checking
  <1>5. ASSUME NEW t \in Slots, t # s
        PROVE  slot'[t] = slot[t]
    BY <1>2, <1>5 DEF Base, SlotsOK
  <1>6. slot'[s] = q
    BY <1>2 DEF Base, SlotsOK
  <1>7. Verifying(k)' = Verifying(k) \cup {s}
    BY <1>2, <1>5, <1>6 DEF Verifying, Checking
  <1>8. ASSUME NEW j \in Keys, j # k
        PROVE  Verifying(j)' = Verifying(j)
    BY <1>1, <1>2, <1>5, <1>6, <1>8 DEF Verifying
  <1>9. temps[k] # "expired"
    BY <1>1
  <1>10. logins[k] = 0 /\ \A t \in Verifying(k) : slot[t].pc # "session"
    BY <1>9 DEF SessionInv, Unmarked
  <1>11. \A t \in Verifying(k) : Holds(t, k) /\ t \in Others(s)
    BY <1>4, <1>10 DEF Verifying, Holds, Others, Checking
  <1>12. ASSUME Verifying(k) # {}
         PROVE  crossings' = [crossings EXCEPT ![k] = @ + 1]
    BY <1>1, <1>11, <1>12 DEF Lookup
  <1>13. ASSUME NEW j \in Keys
         PROVE  crossings'[j] >= crossings[j] /\ crossings'[j] \in Nat
    <2>1. crossings' = crossings \/ crossings' = [crossings EXCEPT ![k] = @ + 1]
      BY <1>1 DEF Lookup
    <2>2. crossings[j] \in Nat
      BY DEF Base, HistoryOK
    <2>3. QED
      BY <2>1, <2>2 DEF Base, HistoryOK
  <1>14. Cardinality(Verifying(k)') = Cardinality(Verifying(k)) + 1
    BY <1>4, <1>7, VerifyingFinite, FS_AddElement
  <1>15. (logins[k] + Cardinality(Verifying(k)) <= 1 + crossings[k])'
    <2>1. ASSUME Verifying(k) = {}
          PROVE  Cardinality(Verifying(k)') = 1
      BY <1>14, <2>1, FS_EmptySet
    <2>2. ASSUME Verifying(k) # {}
          PROVE  crossings'[k] = crossings[k] + 1
      BY <1>12, <2>2 DEF Base, HistoryOK
    <2>3. logins[k] + Cardinality(Verifying(k)) <= 1 + crossings[k]
      BY DEF SessionInv, Counted
    <2>4. crossings[k] \in Nat /\ Cardinality(Verifying(k)) \in Nat
      BY VerifyingFinite DEF Base, HistoryOK
    <2>5. QED
      BY <1>3, <1>10, <1>13, <1>14, <2>1, <2>2, <2>3, <2>4
  <1>16. ASSUME NEW j \in Keys, j # k
         PROVE  (logins[j] + Cardinality(Verifying(j)) <= 1 + crossings[j])'
    <2>1. logins[j] + Cardinality(Verifying(j)) <= 1 + crossings[j]
      BY DEF SessionInv, Counted
    <2>2. /\ logins[j] \in Nat /\ crossings[j] \in Nat
          /\ Cardinality(Verifying(j)) \in Nat
      BY VerifyingFinite DEF Base, HistoryOK
    <2>3. QED
      BY <1>3, <1>8, <1>13, <1>16, <2>1, <2>2
  <1>17. Counted'
    BY <1>15, <1>16 DEF Counted
  <1>18. Unmarked'
    <2>1. ASSUME NEW j \in Keys, temps'[j] # "expired"
          PROVE  logins'[j] = 0 /\ \A t \in Verifying(j)' : slot'[t].pc # "session"
      <3>1. logins[j] = 0 /\ \A t \in Verifying(j) : slot[t].pc # "session"
        BY <1>3, <2>1 DEF SessionInv, Unmarked
      <3>2. \A t \in Verifying(j)' : t = s \/ t \in Verifying(j)
        BY <1>7, <1>8
      <3>3. \A t \in Verifying(j) : t \in Slots
        BY DEF Verifying
      <3>4. QED
        BY <1>2, <1>3, <1>5, <1>6, <3>1, <3>2, <3>3
    <2>2. QED
      BY <2>1 DEF Unmarked
  <1>19. KeysDrawn'
    BY <1>1, <1>2, <1>3, KeysKept DEF Lookup, At
  <1>20. QED
    BY <1>17, <1>18, <1>19 DEF SessionInv

LEMMA OpenKeeps ==
    ASSUME Base, SessionInv, NEW s \in Slots, OpenSession(s)
    PROVE  SessionInv'
  <1>1. PICK k \in Keys : k = slot[s].key
    BY DEF OpenSession, At, Base, SlotsOK, GoodSlot
  <1>2. slot' = [slot EXCEPT ![s] = Idle]
    BY DEF OpenSession, End
  <1>3. UNCHANGED <<temps, crossings>>
    BY DEF OpenSession, tokens
  <1>4. logins' = [logins EXCEPT ![k] = @ + 1]
    BY <1>1 DEF OpenSession
  <1>5. s \in Verifying(k) /\ slot[s].pc = "session"
    BY <1>1 DEF OpenSession, At, Verifying, Checking
  <1>6. ASSUME NEW t \in Slots, t # s
        PROVE  slot'[t] = slot[t]
    BY <1>2, <1>6 DEF Base, SlotsOK
  <1>7. slot'[s].flow = "idle" /\ slot'[s].key = NoKey
    BY <1>2 DEF Idle, Base, SlotsOK
  <1>8. Verifying(k)' = Verifying(k) \ {s}
    BY <1>6, <1>7 DEF Verifying
  <1>9. ASSUME NEW j \in Keys, j # k
        PROVE  Verifying(j)' = Verifying(j)
    BY <1>1, <1>6, <1>7, <1>9 DEF Verifying
  <1>10. Cardinality(Verifying(k)') = Cardinality(Verifying(k)) - 1
    BY <1>5, <1>8, VerifyingFinite, FS_RemoveElement
  <1>11. Counted'
    <2>1. ASSUME NEW j \in Keys
          PROVE  (logins[j] + Cardinality(Verifying(j)) <= 1 + crossings[j])'
      <3>1. logins[j] + Cardinality(Verifying(j)) <= 1 + crossings[j]
        BY DEF SessionInv, Counted
      <3>2. /\ logins[j] \in Nat /\ crossings[j] \in Nat
            /\ Cardinality(Verifying(j)) \in Nat
        BY VerifyingFinite DEF Base, HistoryOK
      <3>3. logins'[j] = IF j = k THEN logins[j] + 1 ELSE logins[j]
        BY <1>4 DEF Base, HistoryOK
      <3>4. QED
        BY <1>3, <1>9, <1>10, <3>1, <3>2, <3>3
    <2>2. QED
      BY <2>1 DEF Counted
  <1>12. temps[k] = "expired"
    BY <1>5 DEF SessionInv, Unmarked, Base, TokensOK
  <1>13. Unmarked'
    <2>1. ASSUME NEW j \in Keys, temps'[j] # "expired"
          PROVE  logins'[j] = 0 /\ \A t \in Verifying(j)' : slot'[t].pc # "session"
      <3>1. j # k /\ temps[j] # "expired"
        BY <1>3, <1>12, <2>1
      <3>2. logins[j] = 0 /\ \A t \in Verifying(j) : slot[t].pc # "session"
        BY <3>1 DEF SessionInv, Unmarked
      <3>3. logins'[j] = logins[j]
        BY <1>4, <3>1 DEF Base, HistoryOK
      <3>4. \A t \in Verifying(j) : t # s /\ t \in Slots
        BY <1>1, <3>1 DEF Verifying
      <3>5. QED
        BY <1>6, <1>9, <3>1, <3>2, <3>3, <3>4
    <2>2. QED
      BY <2>1 DEF Unmarked
  <1>14. KeysDrawn'
    BY <1>2, <1>3, <1>7, KeysKept DEF Idle
  <1>15. QED
    BY <1>11, <1>13, <1>14 DEF SessionInv

LEMMA SessionStep ==
    ASSUME Base, SessionInv, [Next]_vars
    PROVE  SessionInv'
  <1> USE DEF tokens, counts
  <1>1. ASSUME UNCHANGED <<slot, temps, logins, crossings>>
        PROVE  SessionInv'
    BY <1>1 DEF SessionInv, KeysDrawn, Unmarked, Counted, Verifying, Others
  <1>2. ASSUME NEW s \in Slots, LoginStep(s)
        PROVE  SessionInv'
    <2>1. ASSUME Answer(s)
          PROVE  SessionInv'
      <3>1. PICK k \in Keys : k = slot[s].key
        BY <2>1 DEF Answer, At, Base, SlotsOK, GoodSlot
      <3>2. temps[k] = "none"
        BY <2>1, <3>1 DEF Answer, At, SessionInv, KeysDrawn
      <3>3. temps' = [temps EXCEPT ![k] = "live"] \/ temps' = temps
        BY <2>1, <3>1 DEF Answer
      <3>4. PICK q : q = Idle /\ slot' = [slot EXCEPT ![s] = q]
        BY <2>1 DEF Answer, End
      <3>5. q.flow = "idle" /\ q.key = NoKey
        BY <3>4 DEF Idle
      <3>6. UNCHANGED <<logins, crossings>>
        BY <2>1 DEF Answer
      <3>7. \A j \in Keys : temps'[j] # "expired" => temps[j] # "expired"
        BY <3>2, <3>3 DEF Base, TokensOK
      <3>8. \A j \in Keys : temps[j] = "none" => temps'[j] = "none" \/ j = k
        BY <3>3 DEF Base, TokensOK
      <3>9. Unmarked' /\ Counted'
        BY <3>4, <3>5, <3>6, <3>7, QuietStep
      <3>10. KeysDrawn'
        BY <3>1, <3>4, <3>5, <3>8, KeysKept
      <3>11. QED
        BY <3>9, <3>10 DEF SessionInv
    <2>2. QED
      BY <1>2, <2>1, MoveKeeps
      DEF LoginStep, CheckMfa, FindOtp, FindConfirmed, Challenge, DeleteOthers,
          At, Pcs
  <1>3. ASSUME NEW s \in Slots, ExpireTemporaryTokens(s)
        PROVE  SessionInv'
    <2>1. PICK q : q = [flow |-> slot[s].flow, pc |-> "lookup", dev |-> slot[s].dev,
                        row |-> slot[s].row, key |-> slot[s].key]
      OBVIOUS
    <2>2. slot' = [slot EXCEPT ![s] = q]
      BY <1>3, <2>1 DEF ExpireTemporaryTokens, Goto, Base, SlotsOK
    <2>3. UNCHANGED <<logins, crossings>> /\ slot[s].flow = "verify"
      BY <1>3 DEF ExpireTemporaryTokens, At
    <2>4. \A j \in Keys : /\ temps'[j] # "expired" => temps[j] # "expired"
                          /\ temps[j] = "none" => temps'[j] = "none"
      BY <1>3 DEF ExpireTemporaryTokens
    <2>5. q.flow = "verify" /\ q.pc = "lookup" /\ q.key = slot[s].key
      BY <2>1, <2>3
    <2>6. Unmarked' /\ Counted'
      BY <2>2, <2>3, <2>4, <2>5, QuietStep DEF Checking
    <2>7. KeysDrawn'
      BY <2>2, <2>4, <2>5, KeysKept
    <2>8. QED
      BY <2>6, <2>7 DEF SessionInv
  <1>4. ASSUME NEW s \in Slots, ExpireToken(s)
        PROVE  SessionInv'
    <2>1. PICK k \in Keys : k = slot[s].key
      BY <1>4 DEF ExpireToken, At, Base, SlotsOK, GoodSlot
    <2>2. PICK q : q = [flow |-> slot[s].flow, pc |-> "session", dev |-> slot[s].dev,
                        row |-> slot[s].row, key |-> slot[s].key]
      OBVIOUS
    <2>3. slot' = [slot EXCEPT ![s] = q]
      BY <1>4, <2>2 DEF ExpireToken, Goto, Base, SlotsOK
    <2>4. UNCHANGED <<logins, crossings>> /\ At(s, "verify", "expire")
      BY <1>4 DEF ExpireToken
    <2>5. temps' = [temps EXCEPT ![k] = "expired"]
      BY <1>4, <2>1 DEF ExpireToken
    <2>6. /\ temps'[k] = "expired"
          /\ \A j \in Keys : temps'[j] # "expired" => temps[j] # "expired"
          /\ \A j \in Keys : temps[j] = "none" => temps'[j] = "none" \/ j = k
      BY <2>5 DEF Base, TokensOK
    <2>7. q.flow = "verify" /\ q.key = k /\ slot[s].pc \in Checking
      BY <2>1, <2>2, <2>4 DEF At, Checking
    <2>8. Unmarked' /\ Counted'
      BY <2>1, <2>3, <2>4, <2>6, <2>7, QuietStep DEF At
    <2>9. KeysDrawn'
      BY <2>1, <2>3, <2>6, <2>7, KeysKept
    <2>10. QED
      BY <2>8, <2>9 DEF SessionInv
  <1>5. ASSUME NEW s \in Slots, VerifyStep(s)
        PROVE  SessionInv'
    <2>1. ASSUME Lookup(s)
          PROVE  SessionInv'
      BY <2>1, LookupKeeps, MoveKeeps DEF Lookup
    <2>2. ASSUME PickMode(s) \/ PickDevice(s) \/ Throttled(s)
          PROVE  SessionInv'
      <3>1. {"totp", "confirmed", "check"} \subseteq Pcs \cap Checking
        BY DEF Pcs, Checking
      <3>2. QED
        BY <2>2, <3>1, MoveKeeps
        DEF PickMode, PickDevice, Throttled, At, Checking
    <2>3. ASSUME \/ \E w \in CodeWindows : CheckEmail(s, w)
                 \/ \E k \in CodeSteps : AcceptOtp(s, k) \/ RefuseOtp(s, k)
          PROVE  SessionInv'
      <3>1. "expire" \in Pcs /\ "check" \in Checking
        BY DEF Pcs, Checking
      <3>2. QED
        BY <2>3, <3>1, MoveKeeps
        DEF CheckEmail, AcceptOtp, RefuseOtp, ChecksOtp, At
    <2>4. QED
      BY <1>3, <1>4, <1>5, <2>1, <2>2, <2>3, OpenKeeps DEF VerifyStep
  <1>6. ASSUME NEW s \in Slots, ConfigureStep(s)
        PROVE  SessionInv'
    BY <1>6, MoveKeeps
    DEF ConfigureStep, RefuseConfigured, GetOtp, EndWithChallenge, CreateOtp,
        ChooseEmailDevice, CheckConfigureCode, SaveEdit, At, Pcs
  <1>7. ASSUME NEW s \in Slots, Begin(s)
        PROVE  SessionInv'
    <2>1. ASSUME NEW flow \in Flows \ {"login"}, NEW pc \in Pcs \ Checking,
                 NEW row, NEW d,
                 NEW k, k = NoKey \/ temps[k] # "none",
                 slot' = [slot EXCEPT ![s] = [flow |-> flow, pc |-> pc, dev |-> d,
                                              row |-> row, key |-> k]],
                 UNCHANGED <<temps, logins, crossings>>
          PROVE  SessionInv'
      <3>1. PICK q : q = [flow |-> flow, pc |-> pc, dev |-> d,
                          row |-> row, key |-> k]
        OBVIOUS
      <3>2. q.flow # "login" /\ q.pc \notin Checking /\ q.key = k
        BY <3>1
      <3>3. slot' = [slot EXCEPT ![s] = q]
        BY <2>1, <3>1
      <3>4. QED
        BY <2>1, <3>2, <3>3, StartKeepsSessions
    <2>2. ASSUME NEW k \in Keys, StartVerify(s, k)
          PROVE  SessionInv'
      BY <2>1, <2>2 DEF StartVerify, Start, Flows, Pcs, Checking
    <2>3. ASSUME StartConfigure(s) \/ StartAdmin(s)
          PROVE  SessionInv'
      BY <2>1, <2>3 DEF StartConfigure, StartAdmin, Start, Flows, Pcs, Checking
    <2>4. ASSUME NEW d \in Ids, LoadForEdit(s, d)
          PROVE  SessionInv'
      BY <2>1, <2>4 DEF LoadForEdit, Flows, Pcs, Checking
    <2>5. QED
      BY <1>7, <2>2, <2>3, <2>4, StartLoginKeeps DEF Begin
  <1>8. QED
    BY <1>1, <1>2, <1>5, <1>6, <1>7
    DEF Next, DeleteDevice, AddDevice, Tick, vars, tables, history

LEMMA SessionInit == Init => SessionInv
  <1>1. ASSUME Init
        PROVE  KeysDrawn /\ Unmarked
    BY <1>1 DEF Init, KeysDrawn, Unmarked, Verifying, Idle
  <1>2. ASSUME Init, NEW k \in Keys
        PROVE  logins[k] + Cardinality(Verifying(k)) <= 1 + crossings[k]
    <2>1. Verifying(k) = {}
      BY <1>2 DEF Init, Verifying, Idle
    <2>2. QED
      BY <1>2, <2>1, FS_EmptySet DEF Init
  <1>3. QED
    BY <1>1, <1>2 DEF SessionInv, Counted

\* A temporary token opens one session, and one more for each verification
\* that found it unexpired while another one had not marked it yet.
THEOREM TokensOpenOneSession == Spec => []OneSessionPerToken
  <1>1. Init => SessionInv
    BY SessionInit
  <1>2. Base /\ SessionInv /\ [Next]_vars => SessionInv'
    BY SessionStep
  <1>3. Base /\ SessionInv => OneSessionPerToken
    <2>1. ASSUME Base, SessionInv, NEW k \in Keys
          PROVE  logins[k] <= 1 + crossings[k]
      BY <2>1, VerifyingFinite DEF SessionInv, Counted, Base, HistoryOK
    <2>2. QED
      BY <2>1 DEF OneSessionPerToken
  <1>4. QED
    BY <1>1, <1>2, <1>3, BaseHolds, PTL DEF Spec
-----------------------------------------------------------------------------
(***************************************************************************)
(* The code that the last login mailed.                                    *)
(***************************************************************************)

\* A verification has a token that was handed out, and checks the code of a
\* device that was confirmed.
Verifications ==
    \A s \in Slots : slot[s].flow = "verify" =>
        /\ temps[slot[s].key] # "none"
        /\ slot[s].pc = "check" => slot[s].row.confirmed

MailDates ==
    mail.at <= now /\ (mail.dev # NoDevice => mail.by # NoKey)

\* While nothing interferes, the requests are the login and verifications.
OnlyLogin ==
    \A s \in Slots : \/ slot[s] = Idle \/ slot[s].flow = "verify"
                     \/ slot[s].flow = "login" /\ slot[s].key = mail.by

\* A verification that is about to check the code of an authenticator, and to
\* write its row.
OtpRow(s) == At(s, "verify", "check") /\ slot[s].row.mode = "otp"
NoOtp == Otp = {} /\ \A s \in Slots : ~OtpRow(s)

\* The login has not looked for an authenticator yet.
Undecided ==
    \A s, t \in Slots : slot[s].flow = "login" /\ slot[s].pc \in {"mfa", "otp"}
                        /\ OtpRow(t) => Otp # {}

\* It has found none, and then the device of the code.
Chosen ==
    \A s \in Slots : slot[s].flow = "login" =>
        /\ slot[s].pc \in {"device", "challenge"} => NoOtp
        /\ slot[s].pc = "challenge" =>
             Confirmed # {} /\ First(Confirmed) = slot[s].dev

\* The code is out.
Sent ==
    mail.dev # NoDevice =>
        /\ NoOtp /\ Confirmed # {} /\ First(Confirmed) = mail.dev
        /\ \A s \in Slots : slot[s].flow = "login" =>
             /\ slot[s].pc \in {"others", "answer"}
             /\ slot[s].pc = "others" => slot[s].dev = mail.dev

\* The temporary token is younger than the code, and has expired only for use.
Spent(k) ==
    logins[k] > 0 \/ \E s \in Slots : At(s, "verify", "session") /\ slot[s].key = k
Lasts ==
    mail.dev # NoDevice /\ temps[mail.by] # "none" =>
        /\ mail.at <= created[mail.by]
        /\ temps[mail.by] = "expired" /\ now < mail.at + Timeout => Spent(mail.by)

Watched == OnlyLogin /\ Undecided /\ Chosen /\ Sent /\ Lasts
MailInv == Verifications /\ MailDates /\ (mail.by # NoKey => Watched)

\* Only slot s becomes q.
Turns(s, q) == slot' = [slot EXCEPT ![s] = q]

\* The slot of a request that goes on, loads a device, or ends.
LEMMA GotoIs ==
    ASSUME Base, NEW s \in Slots, NEW pc, Goto(s, pc)
    PROVE  \E q : /\ Turns(s, q)
                  /\ q.flow = slot[s].flow /\ q.pc = pc /\ q.dev = slot[s].dev
                  /\ q.row = slot[s].row /\ q.key = slot[s].key
  <1>1. PICK q : q = [flow |-> slot[s].flow, pc |-> pc, dev |-> slot[s].dev,
                      row |-> slot[s].row, key |-> slot[s].key]
    OBVIOUS
  <1>2. Turns(s, q)
    BY <1>1 DEF Goto, Turns, Base, SlotsOK
  <1>3. QED
    BY <1>1, <1>2

LEMMA LoadIs ==
    ASSUME Base, NEW s \in Slots, NEW pc, NEW d, NEW row, Load(s, pc, d, row)
    PROVE  \E q : /\ Turns(s, q)
                  /\ q.flow = slot[s].flow /\ q.pc = pc /\ q.dev = d
                  /\ q.row = row /\ q.key = slot[s].key
  <1>1. PICK q : q = [flow |-> slot[s].flow, pc |-> pc, dev |-> d,
                      row |-> row, key |-> slot[s].key]
    OBVIOUS
  <1>2. Turns(s, q)
    BY <1>1 DEF Load, Turns, Base, SlotsOK
  <1>3. QED
    BY <1>1, <1>2

LEMMA EndIs ==
    ASSUME NEW s \in Slots, End(s)
    PROVE  Turns(s, Idle) /\ Idle.flow = "idle" /\ Idle.key = NoKey
  BY DEF End, Idle, Turns

LEMMA TurnsAt ==
    ASSUME Base, NEW s \in Slots, NEW q, Turns(s, q)
    PROVE  slot'[s] = q /\ \A t \in Slots : t # s => slot'[t] = slot[t]
  BY DEF Turns, Base, SlotsOK

LEMMA DevicesSame ==
    ASSUME devices' = devices
    PROVE  Otp' = Otp /\ Confirmed' = Confirmed
  BY DEF Otp, Confirmed

\* Where the code of the login stands when a request of its time moves on and
\* writes no device.
LEMMA LastsKept ==
    ASSUME Base, Lasts, NEW s \in Slots, NEW q, Turns(s, q),
           ~At(s, "verify", "session"),
           UNCHANGED <<mail, now, temps, created, logins>>
    PROVE  Lasts'
  <1>1. slot'[s] = q /\ \A t \in Slots : t # s => slot'[t] = slot[t]
    BY TurnsAt
  <1>2. ASSUME NEW k, Spent(k) PROVE Spent(k)'
    BY <1>1, <1>2 DEF Spent, At
  <1>3. QED
    BY <1>2 DEF Lasts

LEMMA WatchedMove ==
    ASSUME Base, Watched, NEW s \in Slots, NEW q, Turns(s, q),
           mail' = mail, devices' = devices, Lasts',
           \/ q = Idle
           \/ q.flow = "verify"
           \/ q.flow = "login" /\ q.key = mail.by,
           q.flow = "verify" /\ q.pc = "check" /\ q.row.mode = "otp" => Otp # {},
           q.flow = "login" =>
             /\ slot[s].flow = "login"
             /\ q.pc = "otp" => slot[s].pc = "mfa"
             /\ q.pc # "mfa"
             /\ q.pc \in {"device", "challenge"} => NoOtp
             /\ q.pc = "challenge" =>
                  Confirmed # {} /\ First(Confirmed) = q.dev
             /\ mail.dev # NoDevice => q.pc \in {"others", "answer"}
             /\ mail.dev # NoDevice /\ q.pc = "others" => q.dev = mail.dev
    PROVE  Watched'
  <1>1. slot'[s] = q /\ \A t \in Slots : t # s => slot'[t] = slot[t]
    BY TurnsAt
  <1>2. Otp' = Otp /\ Confirmed' = Confirmed
    BY DevicesSame
  <1>3. q.flow = "login" => q # Idle
    BY DEF Idle
  <1>4. OnlyLogin'
    BY <1>1 DEF Watched, OnlyLogin
  <1>5. ASSUME NEW t \in Slots, OtpRow(t)'
        PROVE  OtpRow(t) \/ Otp # {}
    BY <1>1, <1>5 DEF OtpRow, At
  <1>6. Undecided'
    BY <1>1, <1>2, <1>5 DEF Watched, Undecided
  <1>7. NoOtp => NoOtp'
    BY <1>2, <1>5 DEF NoOtp
  <1>8. Chosen'
    BY <1>1, <1>2, <1>7 DEF Watched, Chosen
  <1>9. Sent'
    BY <1>1, <1>2, <1>7 DEF Watched, Sent
  <1>10. QED
    BY <1>4, <1>6, <1>8, <1>9 DEF Watched

\* A verification writes the row of an authenticator, which stays one.
LEMMA WatchedSave ==
    ASSUME Base, Watched, NEW s \in Slots, NEW q, Turns(s, q),
           mail' = mail, Otp' # {}, OtpRow(s), Lasts',
           q = Idle \/ (q.flow = "verify" /\ q.pc # "check")
    PROVE  Watched'
  <1>1. slot'[s] = q /\ \A t \in Slots : t # s => slot'[t] = slot[t]
    BY TurnsAt
  <1>2. q.flow # "login" \/ q = Idle
    BY DEF Idle
  <1>3. Idle.flow # "login"
    BY DEF Idle
  <1>4. ~NoOtp
    BY DEF NoOtp
  <1>5. OnlyLogin'
    BY <1>1 DEF Watched, OnlyLogin
  <1>6. Undecided'
    BY <1>1 DEF Undecided
  <1>7. Chosen'
    BY <1>1, <1>2, <1>3, <1>4 DEF Watched, Chosen
  <1>8. Sent'
    BY <1>1, <1>4 DEF Watched, Sent
  <1>9. QED
    BY <1>5, <1>6, <1>7, <1>8 DEF Watched

LEMMA WatchedSame ==
    ASSUME Base, Watched, UNCHANGED <<slot, devices, mail>>, Lasts'
    PROVE  Watched'
  <1>1. Otp' = Otp /\ Confirmed' = Confirmed
    BY DevicesSame
  <1>2. /\ NoOtp' <=> NoOtp
        /\ \A t \in Slots : OtpRow(t)' <=> OtpRow(t)
    BY <1>1 DEF NoOtp, OtpRow, At
  <1>3. OnlyLogin' /\ Undecided' /\ Chosen' /\ Sent'
    BY <1>1, <1>2 DEF Watched, OnlyLogin, Undecided, Chosen, Sent
  <1>4. QED
    BY <1>3 DEF Watched

\* The login that is watched is the only one, and its token is not out.
LEMMA OneLogin ==
    ASSUME Base, SessionInv, OnlyLogin, NEW s \in Slots, slot[s].flow = "login"
    PROVE  /\ slot[s].key = mail.by /\ mail.by \in Keys
           /\ temps[mail.by] = "none"
           /\ \A t \in Slots : slot[t].flow = "login" => t = s
  <1>1. Idle.flow # "login"
    BY DEF Idle
  <1>2. \A t \in Slots : slot[t].flow = "login" => slot[t].key = mail.by
    BY <1>1 DEF OnlyLogin
  <1>3. slot[s].key = mail.by /\ mail.by \in Keys
    BY <1>2 DEF Base, SlotsOK, GoodSlot
  <1>4. QED
    BY <1>2, <1>3 DEF SessionInv, KeysDrawn, Others

LEMMA OtherFlows ==
    ASSUME OnlyLogin, NEW s \in Slots,
           slot[s].flow \in {"configure", "admin", "edit"}
    PROVE  FALSE
  BY DEF OnlyLogin, Idle

-----------------------------------------------------------------------------
\* The steps of the login that is watched.

LEMMA WatchedCheckMfa ==
    ASSUME Base, SessionInv, Watched, NEW s \in Slots, CheckMfa(s)
    PROVE  Watched'
  <1>1. PICK q : /\ Turns(s, q) /\ q.flow = "login" /\ q.pc \in {"otp", "answer"}
                 /\ q.key = slot[s].key
    BY GotoIs DEF CheckMfa, At
  <1>2. /\ slot[s].flow = "login" /\ slot[s].pc = "mfa"
        /\ UNCHANGED <<mail, now, temps, created, logins, devices>>
    BY DEF CheckMfa, At, clock, rows, tokens, counts
  <1>3. slot[s].key = mail.by /\ mail.dev = NoDevice
    BY <1>2, OneLogin DEF Watched, Sent
  <1>4. Lasts'
    BY <1>1, <1>2, LastsKept DEF Watched, At
  <1>5. QED
    BY <1>1, <1>2, <1>3, <1>4, WatchedMove

LEMMA WatchedFindOtp ==
    ASSUME Base, SessionInv, Watched, NEW s \in Slots, FindOtp(s)
    PROVE  Watched'
  <1>1. /\ slot[s].flow = "login" /\ slot[s].pc = "otp"
        /\ UNCHANGED <<mail, now, temps, created, logins, devices>>
    BY OtherFlows DEF FindOtp, Watched, clock, rows, tokens, counts
  <1>2. PICK q : /\ Turns(s, q) /\ q.flow = "login" /\ q.key = slot[s].key
                 /\ q.pc = "others" \/ (q.pc = "device" /\ Otp = {})
    BY <1>1, GotoIs, LoadIs DEF FindOtp
  <1>3. slot[s].key = mail.by /\ mail.dev = NoDevice
    BY <1>1, OneLogin DEF Watched, Sent
  <1>4. Otp = {} => NoOtp
    BY <1>1 DEF Watched, Undecided, NoOtp
  <1>5. Lasts'
    BY <1>1, <1>2, LastsKept DEF Watched, At
  <1>6. QED
    BY <1>1, <1>2, <1>3, <1>4, <1>5, WatchedMove

LEMMA FirstOfOne ==
    ASSUME NEW d \in Ids
    PROVE  First({d}) = d
  BY FirstIn

LEMMA WatchedFindConfirmed ==
    ASSUME Base, SessionInv, Watched, NEW s \in Slots, NEW i \in Ids,
           FindConfirmed(s, i)
    PROVE  Watched'
  <1>1. /\ slot[s].flow = "login" /\ slot[s].pc = "device"
        /\ UNCHANGED <<mail, now, temps, created, logins>>
    BY OtherFlows DEF FindConfirmed, Watched, clock, tokens, counts
  <1>2. /\ slot[s].key = mail.by /\ mail.dev = NoDevice /\ NoOtp
        /\ \A t \in Slots : slot[t].flow = "login" => t = s
    BY <1>1, OneLogin DEF Watched, Sent, Chosen
  <1>3. CASE Confirmed # {}
    <2>1. PICK q : /\ Turns(s, q) /\ q.flow = "login" /\ q.key = slot[s].key
                   /\ q.pc = "challenge" /\ q.dev = First(Confirmed)
      BY <1>1, <1>3, LoadIs DEF FindConfirmed
    <2>2. devices' = devices
      BY <1>3 DEF FindConfirmed, rows
    <2>3. Lasts'
      BY <1>1, <2>1, LastsKept DEF Watched, At
    <2>4. QED
      BY <1>1, <1>2, <1>3, <2>1, <2>2, <2>3, WatchedMove
  <1>4. CASE Confirmed = {}
    <2>1. PICK q : /\ Turns(s, q) /\ q.flow = "login" /\ q.key = slot[s].key
                   /\ q.pc = "challenge" /\ q.dev = i
      <3>1. Load(s, "challenge", i, NewRow("email", TRUE))
        BY <1>1, <1>4 DEF FindConfirmed
      <3>2. PICK r : r = NewRow("email", TRUE)
        OBVIOUS
      <3>3. Load(s, "challenge", i, r)
        BY <3>1, <3>2
      <3>4. QED
        BY <1>1, <3>3, LoadIs
    <2>2. /\ devices' = [devices EXCEPT ![i] = NewRow("email", TRUE)]
          /\ NewRow("email", TRUE) \in Row
      BY <1>4, NewRowType DEF FindConfirmed, CreateDevice
    <2>3. PICK r \in Row : /\ r = NewRow("email", TRUE)
                           /\ r.mode = "email" /\ r.confirmed
      BY <2>2 DEF NewRow
    <2>4. /\ devices'[i] = r /\ r # NoRow
          /\ \A d \in Ids : d # i => devices'[d] = devices[d]
      BY <2>2, <2>3, NoRowAssumption DEF Base, DevicesOK
    <2>5. Confirmed' = {i}
      BY <1>4, <2>3, <2>4 DEF Confirmed
    <2>6. Otp' = {}
      BY <2>3, <2>4, <2>5 DEF Otp
    <2>7. First(Confirmed)' = i
      BY <2>5, FirstOfOne
    <2>8. slot'[s] = q /\ \A t \in Slots : t # s => slot'[t] = slot[t]
      BY <2>1, TurnsAt
    <2>9. \A t \in Slots : OtpRow(t)' => OtpRow(t)
      BY <2>1, <2>8 DEF OtpRow, At
    <2>10. NoOtp'
      BY <1>2, <2>6, <2>9 DEF NoOtp
    <2>11. \A t \in Slots : slot'[t].flow = "login" => t = s
      BY <1>2, <2>8
    <2>12. OnlyLogin'
      BY <1>1, <1>2, <2>1, <2>8 DEF Watched, OnlyLogin
    <2>13. Undecided' /\ Chosen'
      BY <2>1, <2>5, <2>7, <2>8, <2>10, <2>11 DEF Undecided, Chosen
    <2>14. Sent' /\ Lasts'
      BY <1>1, <1>2 DEF Sent, Lasts
    <2>15. QED
      BY <2>12, <2>13, <2>14 DEF Watched
  <1>5. QED
    BY <1>3, <1>4

LEMMA WatchedChallenge ==
    ASSUME Base, SessionInv, Watched, NEW s \in Slots, Challenge(s)
    PROVE  Watched'
  <1>1. /\ slot[s].flow = "login" /\ slot[s].pc = "challenge"
        /\ UNCHANGED <<now, temps, created, logins, devices>>
    BY DEF Challenge, At, clock, rows, tokens, counts
  <1>2. PICK q : /\ Turns(s, q) /\ q.flow = "login" /\ q.pc = "others"
                 /\ q.key = slot[s].key /\ q.dev = slot[s].dev
    BY <1>1, GotoIs DEF Challenge
  <1>3. /\ slot[s].key = mail.by /\ NoOtp /\ temps[mail.by] = "none"
        /\ Confirmed # {} /\ First(Confirmed) = slot[s].dev
        /\ \A t \in Slots : slot[t].flow = "login" => t = s
    BY <1>1, OneLogin DEF Watched, Chosen
  <1>4. mail'.by = mail.by /\ mail'.dev = slot[s].dev
    BY <1>3 DEF Challenge
  <1>5. slot'[s] = q /\ \A t \in Slots : t # s => slot'[t] = slot[t]
    BY <1>2, TurnsAt
  <1>6. Otp' = Otp /\ Confirmed' = Confirmed
    BY <1>1, DevicesSame
  <1>7. \A t \in Slots : OtpRow(t)' => OtpRow(t)
    BY <1>2, <1>5 DEF OtpRow, At
  <1>8. NoOtp'
    BY <1>3, <1>6, <1>7 DEF NoOtp
  <1>9. \A t \in Slots : slot'[t].flow = "login" => t = s
    BY <1>3, <1>5
  <1>10. OnlyLogin'
    BY <1>2, <1>3, <1>4, <1>5 DEF Watched, OnlyLogin
  <1>11. Undecided' /\ Chosen'
    BY <1>2, <1>5, <1>9 DEF Undecided, Chosen
  <1>12. Sent'
    BY <1>2, <1>3, <1>4, <1>5, <1>6, <1>8, <1>9 DEF Sent
  <1>13. Lasts'
    BY <1>1, <1>3, <1>4 DEF Lasts
  <1>14. QED
    BY <1>10, <1>11, <1>12, <1>13 DEF Watched

LEMMA WatchedDeleteOthers ==
    ASSUME Base, SessionInv, Watched, NEW s \in Slots, DeleteOthers(s)
    PROVE  Watched'
  <1>1. /\ slot[s].flow = "login" /\ slot[s].pc = "others"
        /\ UNCHANGED <<mail, now, temps, created, logins>>
        /\ devices' = [d \in Ids |-> IF d = slot[s].dev THEN devices[d] ELSE NoRow]
    BY OtherFlows DEF DeleteOthers, Watched, clock, tokens, counts
  <1>2. PICK q : /\ Turns(s, q) /\ q.flow = "login" /\ q.pc = "answer"
                 /\ q.key = slot[s].key
    BY <1>1, GotoIs DEF DeleteOthers
  <1>3. /\ slot[s].key = mail.by /\ temps[mail.by] = "none"
        /\ \A t \in Slots : slot[t].flow = "login" => t = s
    BY <1>1, OneLogin DEF Watched
  <1>4. slot'[s] = q /\ \A t \in Slots : t # s => slot'[t] = slot[t]
    BY <1>2, TurnsAt
  <1>5. \A t \in Slots : OtpRow(t)' => OtpRow(t)
    BY <1>2, <1>4 DEF OtpRow, At
  <1>6. \A t \in Slots : slot'[t].flow = "login" => t = s
    BY <1>3, <1>4
  <1>7. OnlyLogin'
    BY <1>1, <1>2, <1>3, <1>4 DEF Watched, OnlyLogin
  <1>8. Undecided' /\ Chosen'
    BY <1>2, <1>4, <1>6 DEF Undecided, Chosen
  <1>9. Lasts'
    BY <1>1, <1>3 DEF Lasts
  <1>10. ASSUME mail.dev # NoDevice
         PROVE  NoOtp' /\ Confirmed' # {} /\ First(Confirmed)' = mail.dev
    <2>1. /\ slot[s].dev = mail.dev /\ NoOtp /\ Confirmed # {}
          /\ First(Confirmed) = mail.dev
      BY <1>1, <1>10 DEF Watched, Sent
    <2>2. Confirmed \in SUBSET Ids
      BY DEF Confirmed
    <2>3. mail.dev \in Confirmed /\ mail.dev \in Ids
      BY <2>1, <2>2, FirstIn
    <2>4. \A d \in Ids : devices'[d] = IF d = mail.dev THEN devices[d] ELSE NoRow
      BY <1>1, <2>1
    <2>5. Confirmed' = {mail.dev}
      BY <2>3, <2>4 DEF Confirmed
    <2>6. \A d \in Ids : d \in Otp' => d \in Otp
      BY <2>4 DEF Otp, Confirmed
    <2>7. Otp' = {}
      BY <2>1, <2>2, <2>6 DEF NoOtp, Otp, Confirmed
    <2>8. First(Confirmed)' = mail.dev
      BY <2>3, <2>5, FirstOfOne
    <2>9. NoOtp'
      BY <1>5, <2>1, <2>7 DEF NoOtp
    <2>10. QED
      BY <2>5, <2>8, <2>9
  <1>11. Sent'
    BY <1>1, <1>2, <1>4, <1>6, <1>10 DEF Sent
  <1>12. QED
    BY <1>7, <1>8, <1>9, <1>11 DEF Watched

LEMMA WatchedAnswer ==
    ASSUME Base, SessionInv, MailDates, Watched, NEW s \in Slots, Answer(s)
    PROVE  Watched'
  <1>1. /\ slot[s].flow = "login" /\ slot[s].pc = "answer"
        /\ UNCHANGED <<mail, now, logins, devices>>
    BY DEF Answer, At, clock, rows
  <1>2. /\ slot[s].key = mail.by /\ mail.by \in Keys /\ temps[mail.by] = "none"
    BY <1>1, OneLogin DEF Watched
  <1>3. \/ temps' = temps
        \/ temps'[mail.by] = "live" /\ created'[mail.by] = now
    BY <1>2 DEF Answer, tokens, Base, TokensOK
  <1>4. Lasts'
    BY <1>1, <1>2, <1>3 DEF Lasts, MailDates
  <1>5. PICK q : Turns(s, q) /\ q = Idle /\ q.flow = "idle"
    BY EndIs DEF Answer
  <1>6. QED
    BY <1>1, <1>4, <1>5, WatchedMove

-----------------------------------------------------------------------------
\* The steps of verifications meanwhile.

\* A verification goes on, ends, or begins, and writes nothing.
LEMMA WatchedVerify ==
    ASSUME Base, Watched, NEW s \in Slots, NEW q, Turns(s, q),
           ~At(s, "verify", "session"),
           UNCHANGED <<mail, now, temps, created, logins, devices>>,
           q = Idle \/ q.flow = "verify",
           q.flow = "verify" /\ q.pc = "check" /\ q.row.mode = "otp" => Otp # {}
    PROVE  Watched'
  <1>1. Lasts'
    BY LastsKept DEF Watched
  <1>2. q.flow # "login"
    BY DEF Idle
  <1>3. QED
    BY <1>1, <1>2, WatchedMove

LEMMA WatchedQuietVerify ==
    ASSUME Base, Watched, NEW s \in Slots,
           \/ \E k \in Keys : StartVerify(s, k)
           \/ Lookup(s) \/ PickMode(s) \/ Throttled(s)
           \/ \E w \in CodeWindows : CheckEmail(s, w)
    PROVE  Watched'
  <1> USE DEF clock, rows, tokens, counts
  <1>1. CASE \E k \in Keys : StartVerify(s, k)
    <2>1. PICK k \in Keys : StartVerify(s, k)
      BY <1>1
    <2>2. PICK q : q = [flow |-> "verify", pc |-> "sweep", dev |-> NoDevice,
                        row |-> NoRow, key |-> k]
      OBVIOUS
    <2>3. Turns(s, q) /\ slot[s] = Idle
      BY <2>1, <2>2 DEF StartVerify, Start, Turns
    <2>4. ~At(s, "verify", "session")
      BY <2>3 DEF At, Idle
    <2>5. UNCHANGED <<mail, now, temps, created, logins, devices>>
      BY <2>1 DEF StartVerify
    <2>6. QED
      BY <2>2, <2>3, <2>4, <2>5, WatchedVerify
  <1>2. ASSUME NEW pc, pc # "check", Goto(s, pc), slot[s].flow = "verify",
               slot[s].pc # "session",
               UNCHANGED <<mail, now, temps, created, logins, devices>>
        PROVE  Watched'
    <2>1. PICK q : Turns(s, q) /\ q.flow = "verify" /\ q.pc = pc
      BY <1>2, GotoIs
    <2>2. QED
      BY <1>2, <2>1, WatchedVerify DEF At
  <1>3. ASSUME End(s), slot[s].pc # "session",
               UNCHANGED <<mail, now, temps, created, logins, devices>>
        PROVE  Watched'
    <2>1. PICK q : Turns(s, q) /\ q = Idle /\ q.flow = "idle"
      BY <1>3, EndIs
    <2>2. QED
      BY <1>3, <2>1, WatchedVerify DEF At
  <1>4. CASE Lookup(s)
    BY <1>2, <1>3, <1>4 DEF Lookup, At
  <1>5. CASE PickMode(s)
    BY <1>2, <1>5 DEF PickMode, At
  <1>6. CASE Throttled(s)
    BY <1>3, <1>6 DEF Throttled, ChecksOtp, At
  <1>7. CASE \E w \in CodeWindows : CheckEmail(s, w)
    BY <1>2, <1>3, <1>7 DEF CheckEmail, At
  <1>8. QED
    BY <1>1, <1>4, <1>5, <1>6, <1>7

LEMMA WatchedPickDevice ==
    ASSUME Base, Watched, NEW s \in Slots, PickDevice(s)
    PROVE  Watched'
  <1>1. PICK found \in SUBSET Confirmed :
          found = IF slot[s].pc = "totp" THEN Otp ELSE Confirmed
    BY DEF Otp
  <1>2. /\ slot[s].flow = "verify" /\ slot[s].pc # "session"
        /\ UNCHANGED <<mail, now, temps, created, logins, devices>>
    BY DEF PickDevice, clock, rows, tokens, counts
  <1>3. CASE found # {}
    <2>1. PICK d, row : d = First(found) /\ row = devices[First(found)]
      OBVIOUS
    <2>2. Load(s, "check", d, row)
      BY <1>1, <1>3, <2>1 DEF PickDevice
    <2>3. PICK q : /\ Turns(s, q) /\ q.flow = "verify" /\ q.pc = "check"
                   /\ q.row = row
      BY <1>2, <2>2, LoadIs
    <2>4. d \in Confirmed
      BY <1>1, <1>3, <2>1, FoundDevice DEF Base
    <2>5. row.mode = "otp" => Otp # {}
      BY <2>1, <2>4 DEF Otp
    <2>6. QED
      BY <1>2, <2>3, <2>5, WatchedVerify DEF At
  <1>4. CASE found = {}
    <2>1. End(s)
      BY <1>1, <1>4 DEF PickDevice
    <2>2. PICK q : Turns(s, q) /\ q = Idle /\ q.flow = "idle"
      BY <2>1, EndIs
    <2>3. QED
      BY <1>2, <2>2, WatchedVerify DEF At
  <1>5. QED
    BY <1>3, <1>4

LEMMA WatchedOtp ==
    ASSUME Base, Verifications, Watched, NEW s \in Slots, NEW k \in CodeSteps,
           AcceptOtp(s, k) \/ RefuseOtp(s, k)
    PROVE  Watched'
  <1>1. At(s, "verify", "check") /\ slot[s].row.mode = "otp"
    BY OtherFlows DEF AcceptOtp, RefuseOtp, ChecksOtp, At, Watched
  <1>2. /\ slot[s].row.confirmed /\ slot[s].dev \in Ids /\ slot[s].row \in Row
    BY <1>1 DEF Verifications, At, Base, SlotsOK, GoodSlot, WithDevice
  <1>3. UNCHANGED <<mail, now, temps, created, logins>>
    BY DEF AcceptOtp, RefuseOtp, clock, tokens, counts
  <1>4. PICK r : /\ SaveRow(s, r) /\ r \in Row /\ r.mode = "otp" /\ r.confirmed
    <2>1. CASE AcceptOtp(s, k)
      <3>1. PICK r : r = [mode |-> slot[s].row.mode,
                          confirmed |-> slot[s].row.confirmed, last_t |-> k,
                          drift |-> k - now, fails |-> 0, failedAt |-> 0]
        OBVIOUS
      <3>2. k \in Int /\ k - now \in Int
        BY DEF CodeSteps, Base, ClockOK
      <3>3. SaveRow(s, r)
        BY <2>1, <3>1 DEF AcceptOtp
      <3>4. r \in Row /\ r.mode = "otp" /\ r.confirmed
        BY <1>1, <1>2, <3>1, <3>2, RowFields DEF Row
      <3>5. QED
        BY <3>3, <3>4
    <2>2. CASE RefuseOtp(s, k)
      <3>1. PICK r : r = [mode |-> slot[s].row.mode,
                          confirmed |-> slot[s].row.confirmed,
                          last_t |-> slot[s].row.last_t,
                          drift |-> slot[s].row.drift,
                          fails |-> slot[s].row.fails + 1, failedAt |-> now]
        OBVIOUS
      <3>2. SaveRow(s, r)
        BY <2>2, <3>1 DEF RefuseOtp
      <3>3. r \in Row /\ r.mode = "otp" /\ r.confirmed
        BY <1>1, <1>2, <3>1, RowFields DEF Row, Base, ClockOK
      <3>4. QED
        BY <3>2, <3>3
    <2>3. QED
      BY <2>1, <2>2
  <1>5. devices' = [devices EXCEPT ![slot[s].dev] = r]
    BY <1>4 DEF SaveRow
  <1>6. PICK d \in Ids : d = slot[s].dev
    BY <1>2
  <1>7. devices'[d] = r /\ r # NoRow
    BY <1>4, <1>5, <1>6, NoRowAssumption DEF Base, DevicesOK
  <1>8. Otp' # {}
    BY <1>4, <1>6, <1>7 DEF Otp, Confirmed
  <1>9. PICK q : /\ Turns(s, q)
                 /\ q = Idle \/ (q.flow = "verify" /\ q.pc # "check")
    <2>1. Goto(s, "expire") \/ End(s)
      BY DEF AcceptOtp, RefuseOtp
    <2>2. QED
      BY <1>1, <2>1, GotoIs, EndIs DEF At
  <1>10. Lasts'
    BY <1>1, <1>3, <1>9, LastsKept DEF Watched, At
  <1>11. QED
    BY <1>1, <1>3, <1>8, <1>9, <1>10, WatchedSave DEF OtpRow

LEMMA WatchedSweep ==
    ASSUME Base, MailDates, Watched, mail.by \in Keys, NEW s \in Slots,
           ExpireTemporaryTokens(s)
    PROVE  Watched'
  <1>1. /\ slot[s].flow = "verify" /\ slot[s].pc = "sweep"
        /\ UNCHANGED <<mail, now, created, logins, devices>>
    BY DEF ExpireTemporaryTokens, At, clock, rows, counts
  <1>2. PICK q : Turns(s, q) /\ q.flow = "verify" /\ q.pc = "lookup"
    BY <1>1, GotoIs DEF ExpireTemporaryTokens
  <1>3. slot'[s] = q /\ \A t \in Slots : t # s => slot'[t] = slot[t]
    BY <1>2, TurnsAt
  <1>4. Spent(mail.by) => Spent(mail.by)'
    BY <1>1, <1>3 DEF Spent, At
  <1>5. /\ now \in Nat /\ created[mail.by] \in Nat /\ mail.at \in Nat
        /\ Timeout \in Nat
    BY ConstantsAssumption DEF Base, ClockOK, TokensOK, MailOK
  <1>6. \/ temps'[mail.by] = temps[mail.by]
        \/ created[mail.by] <= now - Timeout /\ temps[mail.by] = "live"
    BY DEF ExpireTemporaryTokens
  <1>7. Lasts'
    <2>1. SUFFICES ASSUME mail.dev # NoDevice, temps'[mail.by] # "none"
                   PROVE  /\ mail.at <= created[mail.by]
                          /\ temps'[mail.by] = "expired" /\ now < mail.at + Timeout
                               => Spent(mail.by)'
      BY <1>1 DEF Lasts
    <2>2. temps[mail.by] # "none"
      BY <1>6, <2>1
    <2>3. /\ mail.at <= created[mail.by]
          /\ temps[mail.by] = "expired" /\ now < mail.at + Timeout
               => Spent(mail.by)
      BY <2>1, <2>2 DEF Watched, Lasts
    <2>4. created[mail.by] <= now - Timeout => ~(now < mail.at + Timeout)
      BY <1>5, <2>3
    <2>5. QED
      BY <1>4, <1>6, <2>3, <2>4
  <1>8. QED
    BY <1>1, <1>2, <1>7, WatchedMove

LEMMA WatchedExpire ==
    ASSUME Base, Verifications, Watched, mail.by \in Keys, NEW s \in Slots,
           ExpireToken(s)
    PROVE  Watched'
  <1>1. /\ slot[s].flow = "verify" /\ slot[s].pc = "expire"
        /\ temps' = [temps EXCEPT ![slot[s].key] = "expired"]
        /\ UNCHANGED <<mail, now, created, logins, devices>>
    BY DEF ExpireToken, At, clock, rows, counts
  <1>2. PICK q : /\ Turns(s, q) /\ q.flow = "verify" /\ q.pc = "session"
                 /\ q.key = slot[s].key
    BY <1>1, GotoIs DEF ExpireToken
  <1>3. slot'[s] = q /\ \A t \in Slots : t # s => slot'[t] = slot[t]
    BY <1>2, TurnsAt
  <1>4. Spent(mail.by) => Spent(mail.by)'
    BY <1>1, <1>3 DEF Spent, At
  <1>5. slot[s].key = mail.by => Spent(mail.by)' /\ temps[mail.by] # "none"
    BY <1>1, <1>2, <1>3 DEF Spent, At, Verifications
  <1>6. slot[s].key # mail.by => temps'[mail.by] = temps[mail.by]
    BY <1>1 DEF Base, TokensOK
  <1>7. Lasts'
    BY <1>1, <1>4, <1>5, <1>6 DEF Watched, Lasts
  <1>8. QED
    BY <1>1, <1>2, <1>7, WatchedMove

LEMMA WatchedOpen ==
    ASSUME Base, Watched, mail.by \in Keys, NEW s \in Slots, OpenSession(s)
    PROVE  Watched'
  <1>1. /\ slot[s].flow = "verify" /\ slot[s].pc = "session"
        /\ logins' = [logins EXCEPT ![slot[s].key] = @ + 1]
        /\ UNCHANGED <<mail, now, temps, created, devices>>
    BY DEF OpenSession, At, clock, rows, tokens
  <1>2. PICK q : Turns(s, q) /\ q = Idle /\ q.flow = "idle"
    BY EndIs DEF OpenSession
  <1>3. slot'[s] = q /\ \A t \in Slots : t # s => slot'[t] = slot[t]
    BY <1>2, TurnsAt
  <1>4. PICK n \in Nat : n = logins[mail.by]
    BY DEF Base, HistoryOK
  <1>5. logins'[mail.by] = IF slot[s].key = mail.by THEN n + 1 ELSE n
    BY <1>1, <1>4 DEF Base, HistoryOK
  <1>6. ASSUME Spent(mail.by) PROVE Spent(mail.by)'
    <2>1. PICK by : by = mail.by
      OBVIOUS
    <2>2. CASE slot[s].key = by
      BY <1>1, <1>4, <1>5, <2>1, <2>2 DEF Spent
    <2>3. CASE slot[s].key # by
      <3>1. logins'[by] = logins[by]
        BY <1>4, <1>5, <2>1, <2>3
      <3>2. ASSUME NEW t \in Slots, At(t, "verify", "session"), slot[t].key = by
            PROVE  At(t, "verify", "session")' /\ slot'[t].key = by
        BY <1>3, <2>3, <3>2 DEF At
      <3>3. QED
        BY <1>1, <1>6, <2>1, <3>1, <3>2 DEF Spent
    <2>4. QED
      BY <2>2, <2>3
  <1>7. Lasts'
    BY <1>1, <1>6 DEF Watched, Lasts
  <1>8. QED
    BY <1>1, <1>2, <1>7, WatchedMove

-----------------------------------------------------------------------------
\* A login that begins alone is watched.
LEMMA WatchedStartLogin ==
    ASSUME Base, NEW s \in Slots, NEW k \in Keys, StartLogin(s, k),
           mail'.by # NoKey
    PROVE  Watched'
  <1>1. /\ mail' = [by |-> k, dev |-> NoDevice, at |-> now]
        /\ \A t \in Others(s) : slot[t] = Idle
    BY DEF StartLogin, NoMail
  <1>2. PICK q : q = [flow |-> "login", pc |-> "mfa", dev |-> NoDevice,
                      row |-> NoRow, key |-> k]
    OBVIOUS
  <1>3. Turns(s, q)
    BY <1>2 DEF StartLogin, Start, Turns
  <1>4. slot'[s] = q /\ \A t \in Slots : t # s => slot'[t] = Idle
    BY <1>1, <1>3, TurnsAt DEF Others
  <1>5. /\ mail'.by = k /\ mail'.dev = NoDevice
        /\ q.flow = "login" /\ q.pc = "mfa" /\ q.key = k
    BY <1>1, <1>2
  <1>6. Idle.flow = "idle"
    BY DEF Idle
  <1>7. \A t \in Slots : ~OtpRow(t)'
    BY <1>4, <1>5, <1>6 DEF OtpRow, At
  <1>8. OnlyLogin' /\ Undecided' /\ Chosen'
    BY <1>4, <1>5, <1>6, <1>7 DEF OnlyLogin, Undecided, Chosen
  <1>9. Sent' /\ Lasts'
    BY <1>5 DEF Sent, Lasts
  <1>10. QED
    BY <1>8, <1>9 DEF Watched

LEMMA WatchedStep ==
    ASSUME Base, SessionInv, MailInv, [Next]_vars, mail'.by # NoKey
    PROVE  Watched'
  <1>1. ASSUME mail' = mail
        PROVE  Watched /\ mail.by \in Keys
    BY <1>1 DEF MailInv, Base, MailOK
  <1>2. ASSUME mail' = NoMail
        PROVE  FALSE
    BY <1>2 DEF NoMail
  <1>3. ASSUME NEW s \in Slots, LoginStep(s)
        PROVE  Watched'
    <2>1. CASE Challenge(s)
      <3>1. mail.by # NoKey
        BY <2>1 DEF Challenge
      <3>2. QED
        BY <2>1, <3>1, WatchedChallenge DEF MailInv
    <2>2. CASE ~Challenge(s)
      <3>1. mail' = mail
        BY <1>3, <2>2
        DEF LoginStep, CheckMfa, FindOtp, FindConfirmed, DeleteOthers, Answer
      <3>2. QED
        BY <1>1, <1>3, <2>2, <3>1, WatchedCheckMfa, WatchedFindOtp,
           WatchedFindConfirmed, WatchedDeleteOthers, WatchedAnswer
        DEF LoginStep, MailInv
    <2>3. QED
      BY <2>1, <2>2
  <1>4. ASSUME NEW s \in Slots, VerifyStep(s)
        PROVE  Watched'
    <2>1. mail' = mail
      BY <1>4
      DEF VerifyStep, ExpireTemporaryTokens, Lookup, PickMode, PickDevice,
          CheckEmail, Throttled, AcceptOtp, RefuseOtp, ExpireToken, OpenSession,
          counts
    <2>2. QED
      BY <1>1, <1>4, <2>1, WatchedSweep, WatchedQuietVerify, WatchedPickDevice,
         WatchedOtp, WatchedExpire, WatchedOpen
      DEF VerifyStep, MailInv
  <1>5. ASSUME NEW s \in Slots, ConfigureStep(s)
        PROVE  Watched'
    <2>1. mail' = mail /\ slot[s].flow \in {"configure", "admin", "edit"}
      BY <1>5
      DEF ConfigureStep, RefuseConfigured, GetOtp, EndWithChallenge,
          ChooseEmailDevice, CreateOtp, CheckConfigureCode, SaveEdit, At, counts
    <2>2. QED
      BY <1>1, <2>1, OtherFlows DEF Watched
  <1>6. ASSUME NEW s \in Slots, Begin(s)
        PROVE  Watched'
    <2>1. CASE \E k \in Keys : StartLogin(s, k)
      BY <2>1, WatchedStartLogin
    <2>2. CASE \E k \in Keys : StartVerify(s, k)
      <3>1. mail' = mail
        BY <2>2 DEF StartVerify
      <3>2. QED
        BY <1>1, <2>2, <3>1, WatchedQuietVerify
    <2>3. CASE StartConfigure(s) \/ StartAdmin(s) \/ \E d \in Ids : LoadForEdit(s, d)
      BY <1>2, <2>3 DEF StartConfigure, StartAdmin, LoadForEdit, Interfere
    <2>4. QED
      BY <1>6, <2>1, <2>2, <2>3 DEF Begin
  <1>7. ASSUME NEW d \in Ids,
               DeleteDevice(d) \/ \E confirmed \in BOOLEAN : AddDevice(d, confirmed)
        PROVE  Watched'
    BY <1>2, <1>7 DEF DeleteDevice, AddDevice, Interfere
  <1>8. CASE Tick
    <2>1. /\ UNCHANGED <<slot, devices, mail, temps, created, logins>>
          /\ now' = now + 1
      BY <1>8 DEF Tick, rows, tokens, counts
    <2>2. Watched
      BY <1>1, <2>1
    <2>3. mail.at \in Nat /\ now \in Nat /\ Timeout \in Nat
      BY ConstantsAssumption DEF Base, MailOK, ClockOK
    <2>4. now' < mail.at + Timeout => now < mail.at + Timeout
      BY <2>1, <2>3
    <2>5. Lasts'
      BY <2>1, <2>2, <2>4 DEF Watched, Lasts, Spent, At
    <2>6. QED
      BY <2>1, <2>2, <2>5, WatchedSame
  <1>9. CASE UNCHANGED vars
    <2>1. UNCHANGED <<slot, devices, mail, temps, created, logins, now>>
      BY <1>9 DEF vars, tables, history
    <2>2. Watched
      BY <1>1, <2>1
    <2>3. Lasts'
      BY <2>1, <2>2 DEF Watched, Lasts, Spent, At
    <2>4. QED
      BY <2>1, <2>2, <2>3, WatchedSame
  <1>10. QED
    BY <1>3, <1>4, <1>5, <1>6, <1>7, <1>8, <1>9 DEF Next

\* What a verification holds.
LEMMA VerificationTurn ==
    ASSUME Base, Verifications, NEW s \in Slots, NEW q, Turns(s, q),
           q.flow = "verify" => /\ q.key \in Keys /\ temps[q.key] # "none"
                                /\ q.pc = "check" => q.row.confirmed,
           \A k \in Keys : temps[k] # "none" => temps'[k] # "none"
    PROVE  Verifications'
  <1>1. slot'[s] = q /\ \A t \in Slots : t # s => slot'[t] = slot[t]
    BY TurnsAt
  <1>2. \A t \in Slots : slot[t].flow = "verify" => slot[t].key \in Keys
    BY DEF Base, SlotsOK, GoodSlot
  <1>3. QED
    BY <1>1, <1>2 DEF Verifications

LEMMA VerificationMove ==
    ASSUME Base, Verifications, NEW s \in Slots,
           \/ End(s)
           \/ \E pc \in Pcs : /\ Goto(s, pc)
                              /\ slot[s].flow = "verify" => pc # "check"
           \/ \E pc \in Pcs : \E d, row :
                /\ Load(s, pc, d, row)
                /\ slot[s].flow = "verify" /\ pc = "check" => row.confirmed,
           \A k \in Keys : temps[k] # "none" => temps'[k] # "none"
    PROVE  Verifications'
  <1>1. ASSUME End(s) PROVE Verifications'
    <2>1. PICK q : Turns(s, q) /\ q.flow = "idle"
      BY <1>1, EndIs
    <2>2. QED
      BY <2>1, VerificationTurn
  <1>2. ASSUME NEW pc \in Pcs, Goto(s, pc), slot[s].flow = "verify" => pc # "check"
        PROVE  Verifications'
    <2>1. PICK q : /\ Turns(s, q) /\ q.flow = slot[s].flow /\ q.pc = pc
                   /\ q.key = slot[s].key
      BY <1>2, GotoIs
    <2>2. QED
      BY <1>2, <2>1, VerificationTurn
      DEF Verifications, Base, SlotsOK, GoodSlot
  <1>3. ASSUME NEW pc \in Pcs, NEW d, NEW row, Load(s, pc, d, row),
               slot[s].flow = "verify" /\ pc = "check" => row.confirmed
        PROVE  Verifications'
    <2>1. PICK q : /\ Turns(s, q) /\ q.flow = slot[s].flow /\ q.pc = pc
                   /\ q.key = slot[s].key /\ q.row = row
      BY <1>3, LoadIs
    <2>2. QED
      BY <1>3, <2>1, VerificationTurn
      DEF Verifications, Base, SlotsOK, GoodSlot
  <1>4. QED
    BY <1>1, <1>2, <1>3

LEMMA VerificationStart ==
    ASSUME Base, Verifications, NEW s \in Slots, NEW flow, NEW pc, NEW d, NEW row,
           NEW k, flow = "verify" => k \in Keys /\ temps[k] # "none" /\ pc # "check",
           slot' = [slot EXCEPT ![s] = [flow |-> flow, pc |-> pc, dev |-> d,
                                        row |-> row, key |-> k]],
           temps' = temps
    PROVE  Verifications'
  <1>1. PICK q : q = [flow |-> flow, pc |-> pc, dev |-> d, row |-> row, key |-> k]
    OBVIOUS
  <1>2. Turns(s, q) /\ q.flow = flow /\ q.pc = pc /\ q.key = k
    BY <1>1 DEF Turns
  <1>3. QED
    BY <1>2, VerificationTurn

LEMMA VerificationStep ==
    ASSUME Base, Verifications, [Next]_vars
    PROVE  Verifications'
  <1> USE DEF tokens
  <1>1. ASSUME UNCHANGED <<slot, temps>>
        PROVE  Verifications'
    BY <1>1 DEF Verifications
  <1>2. ASSUME NEW s \in Slots, LoginStep(s)
        PROVE  Verifications'
    <2>1. \A k \in Keys : temps[k] # "none" => temps'[k] # "none"
      BY <1>2
      DEF LoginStep, CheckMfa, FindOtp, FindConfirmed, Challenge, DeleteOthers,
          Answer, Base, TokensOK
    <2>2. {"otp", "answer", "device", "others", "challenge", "code"} \subseteq Pcs
      BY DEF Pcs
    <2>3. QED
      BY <1>2, <2>1, <2>2, VerificationMove
      DEF LoginStep, CheckMfa, FindOtp, FindConfirmed, Challenge, DeleteOthers,
          Answer
  <1>3. ASSUME NEW s \in Slots, PickDevice(s)
        PROVE  Verifications'
    <2>1. PICK found \in SUBSET Confirmed :
            found = IF slot[s].pc = "totp" THEN Otp ELSE Confirmed
      BY DEF Otp
    <2>2. temps' = temps
      BY <1>3 DEF PickDevice
    <2>3. CASE found # {}
      <3>1. PICK d, row : d = First(found) /\ row = devices[First(found)]
        OBVIOUS
      <3>2. Load(s, "check", d, row) /\ "check" \in Pcs
        BY <1>3, <2>1, <2>3, <3>1 DEF PickDevice, Pcs
      <3>3. d \in Confirmed
        BY <2>1, <2>3, <3>1, FoundDevice DEF Base
      <3>4. row.confirmed
        BY <3>1, <3>3 DEF Confirmed
      <3>5. QED
        BY <2>2, <3>2, <3>4, VerificationMove
    <2>4. CASE found = {}
      <3>1. End(s)
        BY <1>3, <2>1, <2>4 DEF PickDevice
      <3>2. QED
        BY <2>2, <3>1, VerificationMove
    <2>5. QED
      BY <2>3, <2>4
  <1>4. ASSUME NEW s \in Slots, VerifyStep(s)
        PROVE  Verifications'
    <2>1. ~PickDevice(s) => \A k \in Keys : temps[k] # "none" => temps'[k] # "none"
      BY <1>4
      DEF VerifyStep, ExpireTemporaryTokens, Lookup, PickMode, CheckEmail,
          Throttled, AcceptOtp, RefuseOtp, ExpireToken, OpenSession, Base,
          TokensOK
    <2>2. {"lookup", "pick", "totp", "confirmed", "expire", "session"} \subseteq Pcs
      BY DEF Pcs
    <2>3. ~PickDevice(s) => \/ End(s)
                            \/ \E pc \in Pcs : pc # "check" /\ Goto(s, pc)
      BY <1>4, <2>2
      DEF VerifyStep, ExpireTemporaryTokens, Lookup, PickMode, CheckEmail,
          Throttled, AcceptOtp, RefuseOtp, ExpireToken, OpenSession
    <2>4. QED
      BY <1>3, <2>1, <2>3, VerificationMove
  <1>5. ASSUME NEW s \in Slots, ConfigureStep(s)
        PROVE  Verifications'
    <2>1. temps' = temps /\ slot[s].flow # "verify"
      BY <1>5
      DEF ConfigureStep, RefuseConfigured, GetOtp, EndWithChallenge,
          ChooseEmailDevice, CreateOtp, CheckConfigureCode, SaveEdit, At
    <2>2. {"device", "code", "enrol", "create"} \subseteq Pcs
      BY DEF Pcs
    <2>3. QED
      BY <1>5, <2>1, <2>2, VerificationMove
      DEF ConfigureStep, RefuseConfigured, GetOtp, EndWithChallenge,
          ChooseEmailDevice, CreateOtp, CheckConfigureCode, SaveEdit
  <1>6. ASSUME NEW s \in Slots, Begin(s)
        PROVE  Verifications'
    BY <1>6, VerificationStart
    DEF Begin, StartLogin, StartVerify, StartConfigure, StartAdmin, LoadForEdit,
        Start
  <1>7. QED
    BY <1>1, <1>2, <1>4, <1>5, <1>6
    DEF Next, DeleteDevice, AddDevice, Tick, vars, tables

LEMMA MailDatesStep ==
    ASSUME Base, MailDates, [Next]_vars
    PROVE  MailDates'
  <1>1. now \in Nat /\ mail.at \in Nat
    BY DEF Base, ClockOK, MailOK
  <1>2. now' = now \/ now' = now + 1
    <2>1. ASSUME NEW s \in Slots, Begin(s) PROVE now' = now
      BY <2>1
      DEF Begin, StartLogin, StartVerify, StartConfigure, StartAdmin, LoadForEdit,
          clock
    <2>2. ASSUME NEW s \in Slots, LoginStep(s) PROVE now' = now
      BY <2>2
      DEF LoginStep, CheckMfa, FindOtp, FindConfirmed, Challenge, DeleteOthers,
          Answer, clock
    <2>3. ASSUME NEW s \in Slots, VerifyStep(s) PROVE now' = now
      BY <2>3
      DEF VerifyStep, ExpireTemporaryTokens, Lookup, PickMode, PickDevice,
          CheckEmail, Throttled, AcceptOtp, RefuseOtp, ExpireToken, OpenSession,
          clock
    <2>4. ASSUME NEW s \in Slots, ConfigureStep(s) PROVE now' = now
      BY <2>4
      DEF ConfigureStep, RefuseConfigured, GetOtp, EndWithChallenge,
          ChooseEmailDevice, CreateOtp, CheckConfigureCode, SaveEdit, clock
    <2>5. QED
      BY <2>1, <2>2, <2>3, <2>4
      DEF Next, DeleteDevice, AddDevice, Tick, vars, clock
  <1>3. ASSUME mail' = mail PROVE MailDates'
    BY <1>1, <1>2, <1>3 DEF MailDates
  <1>4. ASSUME mail' = NoMail PROVE MailDates'
    BY <1>1, <1>2, <1>4 DEF MailDates, NoMail
  <1>5. ASSUME NEW s \in Slots, NEW k \in Keys, StartLogin(s, k)
        PROVE  MailDates'
    <2>1. mail' = [by |-> k, dev |-> NoDevice, at |-> now] \/ mail' = NoMail
      BY <1>5 DEF StartLogin
    <2>2. CASE mail' = [by |-> k, dev |-> NoDevice, at |-> now]
      BY <1>1, <1>2, <2>2 DEF MailDates
    <2>3. QED
      BY <1>4, <2>1, <2>2
  <1>6. ASSUME NEW s \in Slots, Challenge(s) PROVE MailDates'
    <2>1. slot[s].key \in Keys
      BY <1>6 DEF Challenge, At, Base, SlotsOK, GoodSlot
    <2>2. CASE mail.by = slot[s].key
      <3>1. mail' = [by |-> mail.by, dev |-> slot[s].dev, at |-> now]
        BY <1>6, <2>2 DEF Challenge
      <3>2. mail'.by # NoKey /\ mail'.at = now
        BY <2>1, <2>2, <3>1, ConstantsAssumption
      <3>3. QED
        BY <1>1, <1>2, <3>2 DEF MailDates
    <2>3. QED
      BY <1>3, <1>6, <2>2 DEF Challenge
  <1>7. ASSUME NEW s \in Slots, LoginStep(s) PROVE MailDates'
    BY <1>3, <1>6, <1>7
    DEF LoginStep, CheckMfa, FindOtp, FindConfirmed, DeleteOthers, Answer
  <1>8. ASSUME NEW s \in Slots, VerifyStep(s) PROVE MailDates'
    BY <1>3, <1>8
    DEF VerifyStep, ExpireTemporaryTokens, Lookup, PickMode, PickDevice,
        CheckEmail, Throttled, AcceptOtp, RefuseOtp, ExpireToken, OpenSession,
        counts
  <1>9. ASSUME NEW s \in Slots, ConfigureStep(s) PROVE MailDates'
    BY <1>3, <1>9
    DEF ConfigureStep, RefuseConfigured, GetOtp, EndWithChallenge,
        ChooseEmailDevice, CreateOtp, CheckConfigureCode, SaveEdit, counts
  <1>10. ASSUME NEW s \in Slots, Begin(s) PROVE MailDates'
    BY <1>3, <1>4, <1>5, <1>10
    DEF Begin, StartVerify, StartConfigure, StartAdmin, LoadForEdit, Interfere
  <1>11. QED
    BY <1>3, <1>4, <1>7, <1>8, <1>9, <1>10
    DEF Next, DeleteDevice, AddDevice, Tick, Interfere, vars, history

\* A code is accepted in its window and in the next one, hence for Timeout.
LEMMA WindowsCover ==
    ASSUME NEW T \in Nat \ {0}, NEW a \in Nat, NEW n \in Nat, a <= n, n < a + T
    PROVE  a \div T = n \div T \/ a \div T = n \div T - 1
  <1>1. ASSUME NEW x \in Nat
        PROVE  /\ x \div T \in Nat
               /\ T * (x \div T) <= x /\ x < T * (x \div T) + T
    OBVIOUS
  <1>2. ASSUME NEW p \in Nat, NEW q \in Nat, T * q <= a, a < T * q + T,
               T * p <= n, n < T * p + T
        PROVE  q = p \/ q = p - 1
    BY <1>2
  <1>3. QED
    BY <1>1, <1>2

LEMMA MailSuffices ==
    ASSUME Base, MailInv
    PROVE  LoginCodeWorks
  <1>1. SUFFICES ASSUME mail.dev # NoDevice, temps[mail.by] # "none",
                        now < mail.at + Timeout
                 PROVE  /\ Otp = {} /\ Confirmed # {}
                        /\ First(Confirmed) = mail.dev
                        /\ EmailAccepts(mail.at \div Timeout)
                        /\ \/ temps[mail.by] = "live" \/ logins[mail.by] > 0
                           \/ \E s \in Slots : /\ At(s, "verify", "session")
                                               /\ slot[s].key = mail.by
    BY DEF LoginCodeWorks
  <1>2. mail.by # NoKey /\ mail.at <= now /\ Watched
    BY <1>1 DEF MailInv, MailDates
  <1>3. Otp = {} /\ Confirmed # {} /\ First(Confirmed) = mail.dev
    BY <1>1, <1>2 DEF Watched, Sent, NoOtp
  <1>4. EmailAccepts(mail.at \div Timeout)
    <2>1. Timeout \in Nat \ {0} /\ mail.at \in Nat /\ now \in Nat
      BY ConstantsAssumption DEF Base, MailOK, ClockOK
    <2>2. \/ mail.at \div Timeout = now \div Timeout
          \/ mail.at \div Timeout = now \div Timeout - 1
      BY <1>1, <1>2, <2>1, WindowsCover
    <2>3. QED
      BY <2>2 DEF EmailAccepts, Windows
  <1>5. mail.by \in Keys /\ temps[mail.by] \in {"live", "expired"}
    BY <1>1, <1>2 DEF Base, MailOK, TokensOK
  <1>6. temps[mail.by] = "expired" => Spent(mail.by)
    BY <1>1, <1>2 DEF Watched, Lasts
  <1>7. QED
    BY <1>3, <1>4, <1>5, <1>6 DEF Spent

LEMMA SessionHolds == Spec => [](Base /\ SessionInv)
  <1>1. Init => SessionInv
    BY SessionInit
  <1>2. Base /\ SessionInv /\ [Next]_vars => SessionInv'
    BY SessionStep
  <1>3. QED
    BY <1>1, <1>2, BaseHolds, PTL DEF Spec

\* The code that the last login mailed works with its temporary token for
\* TWO_FACTOR_CODE_TIMEOUT_SECONDS, however many verifications and sweeps of
\* other tokens run meanwhile, unless another request has begun to choose,
\* change or delete a device of the account.
THEOREM MailedCodeWorks == Spec => []LoginCodeWorks
  <1>1. Init => MailInv
    <2>1. ASSUME Init
          PROVE  Verifications /\ MailDates /\ mail.by = NoKey
      BY <2>1 DEF Init, Verifications, MailDates, NoMail, Idle
    <2>2. QED
      BY <2>1 DEF MailInv
  <1>2. Base /\ SessionInv /\ MailInv /\ [Next]_vars => MailInv'
    BY VerificationStep, MailDatesStep, WatchedStep DEF MailInv
  <1>3. Base /\ MailInv => LoginCodeWorks
    BY MailSuffices
  <1>4. QED
    BY <1>1, <1>2, <1>3, SessionHolds, PTL DEF Spec
==============================================================================
