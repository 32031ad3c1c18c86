------------------------ MODULE EmailDeliveryProofs ------------------------
(***************************************************************************)
(* Proofs about EmailDelivery, for every number of mails, requests and     *)
(* workers, every number of tries and every setting: it implements Outbox. *)
(* The refinement needs to know where the status that a slot is about to   *)
(* write comes from: SlotsKnow says that a slot holds "sent" only of a     *)
(* mail that was handed over, and works only on a mail that was asked for. *)
(***************************************************************************)
EXTENDS EmailDelivery, FiniteSetTheorems, TLAPS

Handed(m) == copies[m] > 0
Asked(m) == asked[m] > 0

\* A row says "sent" of handed mails only, and only asked mails have a row or
\* a task.
RowsKnow ==
    \A m \in Mails :
        /\ status[m] = "sent" => Handed(m)
        /\ status[m] # "none" => Asked(m)
        /\ queue[m] > 0 => Asked(m)

\* What is known of the instance st on which slot s works.
SlotKnows(s, st) ==
    /\ st.status = "sent" => Handed(st.mail)
    /\ st.pc # "loaded" => Asked(st.mail)
    /\ st.status # "to-send" => Asked(st.mail)
    /\ st.pc \in {"record", "giveup"} => s \in Workers /\ st.status # "to-send"
    /\ st.pc \in {"loaded", "enqueue"} => s \in Requests
    /\ st.pc = "enqueue" => st.status = "to-send"
    /\ st.pc \in {"try", "record"} => st.tries < Tries(s)
    /\ st.pc = "loaded" /\ st.status = "to-send" => st.tries = 0

SlotsKnow == \A s \in Slots : slot[s] # Idle => SlotKnows(s, slot[s])

IInv == TypeOK /\ RowsKnow /\ SlotsKnow
-----------------------------------------------------------------------------
LEMMA IdleTyped == Idle \in SlotState /\ Idle.pc = "idle" /\ Idle.mail = NoMail
BY DEF Idle, SlotState

\* A slot that is at work has the fields of a mail at work.
LEMMA Busy ==
    ASSUME NEW st \in SlotState, st # Idle
    PROVE  /\ st.mail \in Mails /\ st.status \in Statuses
           /\ st.fields \in Fields /\ st.tries \in 0 .. MaxRetries
           /\ st.pc \in {"loaded", "try", "record", "giveup", "enqueue"}
           /\ st = [pc |-> st.pc, mail |-> st.mail, status |-> st.status,
                    fields |-> st.fields, tries |-> st.tries]
BY DEF SlotState

\* The converse: how a step builds the next state of a slot.
LEMMA BusyTyped ==
    ASSUME NEW p \in {"loaded", "try", "record", "giveup", "enqueue"},
           NEW m \in Mails, NEW st \in Statuses, NEW f \in Fields,
           NEW t \in 0 .. MaxRetries
    PROVE  /\ [pc |-> p, mail |-> m, status |-> st, fields |-> f, tries |-> t]
                \in SlotState
           /\ [pc |-> p, mail |-> m, status |-> st, fields |-> f, tries |-> t] # Idle
BY DEF SlotState, Idle

LEMMA TriesBound == \A s \in Slots : Tries(s) \in 1 .. MaxRetries
BY ConstantsAssumption DEF Tries

\* Every action replaces at most one slot.  AnotherTry is the one whose new
\* slot depends on a count.
LEMMA AnotherTrySlot ==
    ASSUME TypeOK, NEW s \in Slots, slot[s] # Idle, AnotherTry(s),
           slot[s].tries < Tries(s)
    PROVE  \E n \in SlotState :
              /\ slot' = [slot EXCEPT ![s] = n] /\ n # Idle
              /\ n.mail = slot[s].mail
              /\ \/ /\ n.pc = "try" /\ n.status = slot[s].status
                    /\ n.tries < Tries(s)
                 \/ /\ n.status = "send-error"
                    /\ n.pc = IF s \in Workers THEN "giveup" ELSE "loaded"
<1> DEFINE old == slot[s]
           t == old.tries + 1
           p == IF s \in Workers THEN "giveup" ELSE "loaded"
<1>1. old \in SlotState
  BY DEF TypeOK
<1>2. /\ old.mail \in Mails /\ old.status \in Statuses /\ old.fields \in Fields
      /\ old.tries \in 0 .. MaxRetries
      /\ old = [pc |-> old.pc, mail |-> old.mail, status |-> old.status,
                fields |-> old.fields, tries |-> old.tries]
  BY <1>1, Busy
<1>3. t \in 0 .. MaxRetries
  BY <1>2, TriesBound, ConstantsAssumption
<1>4. slot \in [Slots -> SlotState]
  BY DEF TypeOK
<1>5. CASE t < Tries(s)
  <2> DEFINE n == [pc |-> "try", mail |-> old.mail, status |-> old.status,
                   fields |-> old.fields, tries |-> t]
  <2>1. n \in SlotState /\ n # Idle
    BY <1>2, <1>3, BusyTyped
  <2>2. slot' = [slot EXCEPT ![s] = n]
    BY <1>2, <1>4, <1>5 DEF AnotherTry
  <2>3. n.mail = old.mail /\ n.pc = "try" /\ n.status = old.status /\ n.tries = t
    OBVIOUS
  <2> QED BY <1>5, <2>1, <2>2, <2>3
<1>6. CASE ~(t < Tries(s))
  <2> DEFINE n == [pc |-> p, mail |-> old.mail, status |-> "send-error",
                   fields |-> old.fields, tries |-> t]
  <2>1. n \in SlotState /\ n # Idle
    BY <1>2, <1>3, BusyTyped DEF Statuses
  <2>2. slot' = [slot EXCEPT ![s] = n]
    BY <1>2, <1>4, <1>6 DEF AnotherTry
  <2>3. n.mail = old.mail /\ n.pc = p /\ n.status = "send-error"
    OBVIOUS
  <2> QED BY <2>1, <2>2, <2>3
<1> QED BY <1>5, <1>6

LEMMA OutcomeSlot ==
    ASSUME TypeOK, NEW s \in Slots, slot[s] # Idle, NEW st \in Statuses, Outcome(s, st)
    PROVE  \E n \in SlotState :
              /\ slot' = [slot EXCEPT ![s] = n] /\ n # Idle
              /\ n.mail = slot[s].mail /\ n.status = st /\ n.tries = slot[s].tries
              /\ n.pc = IF s \in Workers THEN "record" ELSE "loaded"
<1> DEFINE old == slot[s]
           p == IF s \in Workers THEN "record" ELSE "loaded"
           n == [pc |-> p, mail |-> old.mail, status |-> st,
                 fields |-> old.fields, tries |-> old.tries]
<1>1. old \in SlotState /\ slot \in [Slots -> SlotState]
  BY DEF TypeOK
<1>2. /\ old.mail \in Mails /\ old.status \in Statuses /\ old.fields \in Fields
      /\ old.tries \in 0 .. MaxRetries
      /\ old = [pc |-> old.pc, mail |-> old.mail, status |-> old.status,
                fields |-> old.fields, tries |-> old.tries]
  BY <1>1, Busy
<1>3. n \in SlotState /\ n # Idle
  BY <1>2, BusyTyped
<1>4. slot' = [slot EXCEPT ![s] = n]
  <2>1. CASE s \in Workers
    BY <1>1, <1>2, <2>1 DEF Outcome
  <2>2. CASE s \notin Workers
    BY <1>1, <1>2, <2>2 DEF Outcome
  <2> QED BY <2>1, <2>2
<1>5. n.mail = old.mail /\ n.status = st /\ n.tries = old.tries /\ n.pc = p
  OBVIOUS
<1> QED BY <1>3, <1>4, <1>5

HistoriesGrow ==
    /\ \A m \in Mails : Handed(m) => Handed(m)'
    /\ \A m \in Mails : Asked(m) => Asked(m)'

LEMMA SlotKnowsKept ==
    ASSUME NEW s, NEW st \in SlotState, st # Idle, SlotKnows(s, st),
           UNCHANGED settings, HistoriesGrow
    PROVE  SlotKnows(s, st)'
<1>1. st.mail \in Mails
  BY Busy
<1>2. /\ Handed(st.mail) => Handed(st.mail)'
      /\ Asked(st.mail) => Asked(st.mail)'
  BY <1>1 DEF HistoriesGrow
<1>3. Tries(s)' = Tries(s)
  BY DEF Tries, settings
<1> QED BY <1>2, <1>3 DEF SlotKnows

\* What the slots know survives a step that changes one of them, as long as
\* the histories only grow.
LEMMA SlotsKnowKept ==
    ASSUME TypeOK, SlotsKnow, UNCHANGED settings, HistoriesGrow,
           NEW s \in Slots, NEW n \in SlotState,
           slot' = [slot EXCEPT ![s] = n],
           n # Idle => SlotKnows(s, n)'
    PROVE  slot' \in [Slots -> SlotState] /\ SlotsKnow'
<1>1. slot' \in [Slots -> SlotState]
  BY DEF TypeOK
<1>2. ASSUME NEW q \in Slots, slot'[q] # Idle
      PROVE  SlotKnows(q, slot[q])'
  <2>1. CASE q = s
    <3>1. slot'[q] = n
      BY <2>1 DEF TypeOK
    <3> QED BY <3>1, <1>2, <2>1 DEF SlotKnows, Handed, Asked, Tries
  <2>2. CASE q # s
    <3>1. slot'[q] = slot[q] /\ slot[q] \in SlotState /\ slot[q] # Idle
      BY <1>2, <2>2 DEF TypeOK
    <3> DEFINE old == slot[q]
    <3>2. PICK st \in SlotState : st = old /\ st = slot'[q] /\ st # Idle /\ SlotKnows(q, st)
      BY <3>1 DEF SlotsKnow
    <3>3. SlotKnows(q, st)'
      BY <3>2, SlotKnowsKept
    <3> QED BY <3>2, <3>3 DEF SlotKnows, Handed, Asked, Tries
  <2> QED BY <2>1, <2>2
<1> QED BY <1>1, <1>2 DEF SlotsKnow

\* The same for a step that changes no slot.
LEMMA SlotsKnowUnchanged ==
    ASSUME TypeOK, SlotsKnow, UNCHANGED settings, UNCHANGED slot, HistoriesGrow
    PROVE  slot' \in [Slots -> SlotState] /\ SlotsKnow'
<1>1. slot' \in [Slots -> SlotState]
  BY DEF TypeOK
<1>2. ASSUME NEW q \in Slots, slot'[q] # Idle
      PROVE  SlotKnows(q, slot[q])'
  <2> DEFINE old == slot[q]
  <2>1. PICK st \in SlotState : st = old /\ st = slot'[q] /\ st # Idle /\ SlotKnows(q, st)
    BY <1>2 DEF SlotsKnow, TypeOK
  <2>2. SlotKnows(q, st)'
    BY <2>1, SlotKnowsKept
  <2> QED BY <2>1, <2>2 DEF SlotKnows, Handed, Asked, Tries
<1> QED BY <1>1, <1>2 DEF SlotsKnow

-----------------------------------------------------------------------------
\* One lemma per action: it keeps the inductive invariant.

At(p, m, st, f, t) ==
    [pc |-> p, mail |-> m, status |-> st, fields |-> f, tries |-> t]

LEMMA SlotFacts ==
    ASSUME IInv, NEW s \in Slots, slot[s] # Idle
    PROVE  /\ slot[s] \in SlotState /\ slot[s].mail \in Mails
           /\ slot[s].status \in Statuses /\ slot[s].fields \in Fields
           /\ slot[s].tries \in 0 .. MaxRetries
           /\ slot[s] = At(slot[s].pc, slot[s].mail, slot[s].status,
                           slot[s].fields, slot[s].tries)
           /\ SlotKnows(s, slot[s])
<1>1. slot[s] \in SlotState
  BY DEF IInv, TypeOK
<1>2. SlotKnows(s, slot[s])
  BY DEF IInv, SlotsKnow
<1> QED BY <1>1, <1>2, Busy DEF At

LEMMA AtWork ==
    ASSUME NEW s \in Slots, slot[s].pc # "idle"
    PROVE  slot[s] # Idle
BY IdleTyped

\* A slot that starts on m, or goes on, with the instance st.
LEMMA SlotWrites ==
    ASSUME IInv, UNCHANGED settings, HistoriesGrow,
           NEW s \in Slots, NEW n \in SlotState,
           slot' = [slot EXCEPT ![s] = n], SlotKnows(s, n)'
    PROVE  slot' \in [Slots -> SlotState] /\ SlotsKnow'
BY SlotsKnowKept DEF IInv

LEMMA SlotStops ==
    ASSUME IInv, UNCHANGED settings, HistoriesGrow, NEW s \in Slots,
           slot' = [slot EXCEPT ![s] = Idle]
    PROVE  slot' \in [Slots -> SlotState] /\ SlotsKnow'
<1>1. Idle \in SlotState
  BY IdleTyped
<1> QED BY <1>1, SlotsKnowKept DEF IInv

LEMMA RowsKnowUnchanged ==
    ASSUME IInv, UNCHANGED <<status, queue>>, HistoriesGrow
    PROVE  RowsKnow'
BY DEF IInv, RowsKnow, HistoriesGrow

\* A save of what a slot holds.
LEMMA RowsKnowStored ==
    ASSUME IInv, NEW s \in Slots, slot[s] # Idle, StoreRow(s), UNCHANGED queue,
           HistoriesGrow, NEW m, m = slot[s].mail, Asked(m)'
    PROVE  /\ RowsKnow'
           /\ status' \in [Mails -> Statuses \cup {"none"}]
           /\ fields' \in [Mails -> Fields]
<1>1. m \in Mails /\ slot[s].status \in Statuses /\ slot[s].fields \in Fields
      /\ SlotKnows(s, slot[s])
  BY SlotFacts
<1>2. /\ status' = [status EXCEPT ![m] = slot[s].status]
      /\ fields' = [fields EXCEPT ![m] = slot[s].fields]
  BY DEF StoreRow
<1>3. status \in [Mails -> Statuses \cup {"none"}] /\ fields \in [Mails -> Fields]
  BY DEF IInv, TypeOK
<1>4. slot[s].status = "sent" => Handed(m)'
  <2>1. slot[s].status = "sent" => Handed(m)
    BY <1>1 DEF SlotKnows, Handed
  <2> QED BY <1>1, <2>1 DEF HistoriesGrow
<1>5. RowsKnow'
  <2> SUFFICES ASSUME NEW q \in Mails
               PROVE  /\ status'[q] = "sent" => Handed(q)'
                      /\ status'[q] # "none" => Asked(q)'
                      /\ queue'[q] > 0 => Asked(q)'
    BY DEF RowsKnow
  <2>1. CASE q = m
    BY <1>1, <1>2, <1>3, <1>4, <2>1 DEF IInv, RowsKnow, HistoriesGrow
  <2>2. CASE q # m
    BY <1>2, <1>3, <2>2 DEF IInv, RowsKnow, HistoriesGrow
  <2> QED BY <2>1, <2>2
<1> QED BY <1>1, <1>2, <1>3, <1>5

LEMMA CreateKeeps ==
    ASSUME IInv, NEW r \in Requests, NEW m \in Mails, NEW f \in Fields,
           Create(r, m, f)
    PROVE  IInv'
<1>1. UNCHANGED settings /\ HistoriesGrow
  BY DEF Create, settings, history, HistoriesGrow, Asked, Handed
<1>2. r \in Slots
  BY DEF Slots
<1> DEFINE n == At("loaded", m, "to-send", f, 0)
<1>3. n \in SlotState
  <2>1. "loaded" \in {"loaded", "try", "record", "giveup", "enqueue"}
        /\ "to-send" \in Statuses /\ 0 \in 0 .. MaxRetries
    BY ConstantsAssumption DEF Statuses
  <2> QED BY <2>1, BusyTyped DEF At
<1>4. slot' = [slot EXCEPT ![r] = n]
  BY DEF Create, Load, At
<1>5. SlotKnows(r, n)'
  BY DEF SlotKnows, At
<1>6. slot' \in [Slots -> SlotState] /\ SlotsKnow'
  BY <1>1, <1>2, <1>3, <1>4, <1>5, SlotWrites
<1>7. RowsKnow'
  BY <1>1, RowsKnowUnchanged DEF Create, row
<1>8. TypeOK'
  BY <1>6 DEF Create, IInv, TypeOK, settings, row, history, bounds
<1> QED BY <1>6, <1>7, <1>8 DEF IInv

LEMMA EditKeeps ==
    ASSUME IInv, NEW r \in Requests, NEW m \in Mails, NEW st \in Statuses,
           NEW f \in Fields, Edit(r, m, st, f)
    PROVE  IInv'
<1>1. UNCHANGED settings /\ HistoriesGrow
  BY DEF Edit, settings, history, HistoriesGrow, Asked, Handed
<1>2. r \in Slots
  BY DEF Slots
<1> DEFINE n == At("loaded", m, st, f, 0)
<1>3. n \in SlotState
  <2>1. "loaded" \in {"loaded", "try", "record", "giveup", "enqueue"}
        /\ st \in Statuses /\ 0 \in 0 .. MaxRetries
    BY ConstantsAssumption DEF Statuses
  <2> QED BY <2>1, BusyTyped DEF At
<1>4. slot' = [slot EXCEPT ![r] = n]
  BY DEF Edit, Load, At
<1>5. SlotKnows(r, n)'
  <2>1. /\ st = "sent" => Handed(m)'
        /\ st # "to-send" => Asked(m)'
    BY <1>1 DEF Edit, IInv, RowsKnow, HistoriesGrow
  <2> QED BY <2>1 DEF SlotKnows, At
<1>6. slot' \in [Slots -> SlotState] /\ SlotsKnow'
  BY <1>1, <1>2, <1>3, <1>4, <1>5, SlotWrites
<1>7. RowsKnow'
  BY <1>1, RowsKnowUnchanged DEF Edit, row
<1>8. TypeOK'
  BY <1>6 DEF Edit, IInv, TypeOK, settings, row, history, bounds
<1> QED BY <1>6, <1>7, <1>8 DEF IInv

LEMMA DeleteKeeps ==
    ASSUME IInv, NEW m \in Mails, Delete(m)
    PROVE  IInv'
<1>1. UNCHANGED settings /\ HistoriesGrow
  BY DEF Delete, settings, history, HistoriesGrow, Asked, Handed
<1>2. slot' \in [Slots -> SlotState] /\ SlotsKnow'
  BY <1>1, SlotsKnowUnchanged DEF Delete, IInv
<1>3. RowsKnow'
  BY <1>1 DEF Delete, IInv, RowsKnow, TypeOK, HistoriesGrow
<1>4. TypeOK'
  BY <1>2 DEF Delete, IInv, TypeOK, settings, row, history, bounds
<1> QED BY <1>2, <1>3, <1>4 DEF IInv

LEMMA SendBeforeSaveKeeps ==
    ASSUME IInv, NEW r \in Requests, SendBeforeSave(r)
    PROVE  IInv'
<1>1. r \in Slots /\ slot[r] # Idle
  BY AtWork DEF Slots, SendBeforeSave
<1>2. PICK old \in SlotState :
      /\ old = slot[r] /\ old.mail \in Mails /\ old.status \in Statuses /\ old.fields \in Fields
      /\ old.tries \in 0 .. MaxRetries /\ SlotKnows(r, old)
      /\ old = At(old.pc, old.mail, old.status, old.fields, old.tries)
  BY <1>1, SlotFacts
<1> DEFINE n == At("try", old.mail, old.status, old.fields, old.tries)
<1>3. asked \in [Mails -> Nat] /\ asked' = [asked EXCEPT ![old.mail] = @ + 1]
  BY <1>2 DEF SendBeforeSave, IInv, TypeOK
<1>4. Asked(old.mail)'
  BY <1>2, <1>3 DEF Asked
<1>5. UNCHANGED settings /\ HistoriesGrow
  <2>1. \A m \in Mails : asked[m] > 0 => asked'[m] > 0
    BY <1>2, <1>3
  <2>2. UNCHANGED settings /\ UNCHANGED copies
    BY DEF SendBeforeSave
  <2> QED BY <2>1, <2>2 DEF HistoriesGrow, Asked, Handed
<1>6. n \in SlotState
  BY <1>2, BusyTyped DEF At
<1>7. slot' = [slot EXCEPT ![r] = n]
  <2>1. [old EXCEPT !.pc = "try"] = n
    BY <1>2 DEF At
  <2>2. slot' = [slot EXCEPT ![r] = [slot[r] EXCEPT !.pc = "try"]]
    BY DEF SendBeforeSave
  <2> QED BY <1>2, <2>1, <2>2
<1>8. SlotKnows(r, n)'
  <2>1. old.tries = 0 /\ old.status = "to-send"
    BY <1>2 DEF SendBeforeSave, SlotKnows
  <2>2. 0 < Tries(r)'
    BY <1>1, <1>5, TriesBound DEF Tries, settings
  <2> QED BY <1>4, <2>1, <2>2 DEF SlotKnows, At, Asked, Tries
<1>9. slot' \in [Slots -> SlotState] /\ SlotsKnow'
  BY <1>1, <1>5, <1>6, <1>7, <1>8, SlotWrites
<1>10. RowsKnow'
  BY <1>5, RowsKnowUnchanged DEF SendBeforeSave, row
<1>11. TypeOK'
  BY <1>2, <1>9 DEF SendBeforeSave, IInv, TypeOK, settings, row, history, bounds
<1> QED BY <1>9, <1>10, <1>11 DEF IInv

LEMMA WriteKeeps ==
    ASSUME IInv, NEW r \in Requests, Write(r)
    PROVE  IInv'
<1>1. r \in Slots /\ slot[r] # Idle
  BY AtWork DEF Slots, Write, ReadyToWrite
<1>2. PICK old \in SlotState :
      /\ old = slot[r] /\ old.mail \in Mails /\ old.status \in Statuses /\ old.fields \in Fields
      /\ old.tries \in 0 .. MaxRetries /\ SlotKnows(r, old)
      /\ old = At(old.pc, old.mail, old.status, old.fields, old.tries)
  BY <1>1, SlotFacts
<1> DEFINE n == At("enqueue", old.mail, old.status, old.fields, old.tries)
<1>3. /\ UNCHANGED settings /\ HistoriesGrow /\ Asked(old.mail)'
      /\ asked' \in [Mails -> Nat]
  <2>1. CASE old.status = "to-send"
    BY <1>2, <2>1 DEF Write, settings, HistoriesGrow, Asked, Handed, IInv, TypeOK
  <2>2. CASE old.status # "to-send"
    BY <1>2, <2>2 DEF Write, settings, HistoriesGrow, Asked, Handed, IInv, TypeOK, SlotKnows
  <2> QED BY <2>1, <2>2
<1>4. slot' \in [Slots -> SlotState] /\ SlotsKnow'
  <2>1. CASE old.status = "to-send"
    <3>1. n \in SlotState
      BY <1>2, BusyTyped DEF At
    <3>2. slot' = [slot EXCEPT ![r] = n]
      BY <1>2, <2>1 DEF Write, At
    <3>3. SlotKnows(r, n)'
      BY <1>3, <2>1 DEF SlotKnows, At, Asked, Tries
    <3> QED BY <1>1, <1>3, <3>1, <3>2, <3>3, SlotWrites
  <2>2. CASE old.status # "to-send"
    BY <1>1, <1>2, <1>3, <2>2, SlotStops DEF Write
  <2> QED BY <2>1, <2>2
<1>5. /\ RowsKnow'
      /\ status' \in [Mails -> Statuses \cup {"none"}]
      /\ fields' \in [Mails -> Fields]
  BY <1>1, <1>2, <1>3, RowsKnowStored DEF Write
<1>6. TypeOK'
  BY <1>3, <1>4, <1>5 DEF Write, IInv, TypeOK, settings, bounds
<1> QED BY <1>4, <1>5, <1>6 DEF IInv

LEMMA WriteFailsKeeps ==
    ASSUME IInv, NEW r \in Requests, WriteFails(r)
    PROVE  IInv'
<1>1. r \in Slots /\ slot[r] # Idle
  BY AtWork DEF Slots, WriteFails, ReadyToWrite
<1>2. slot[r].mail \in Mails /\ SlotKnows(r, slot[r])
  BY <1>1, SlotFacts
<1>3. UNCHANGED settings /\ HistoriesGrow
  BY DEF WriteFails, settings, history, HistoriesGrow, Asked, Handed
<1>4. slot' \in [Slots -> SlotState] /\ SlotsKnow'
  BY <1>1, <1>3, SlotStops DEF WriteFails
<1>5. RowsKnow'
  BY <1>3, RowsKnowUnchanged DEF WriteFails, row
<1>6. TypeOK'
  BY <1>2, <1>4 DEF WriteFails, IInv, TypeOK, settings, row, history, bounds
<1> QED BY <1>4, <1>5, <1>6 DEF IInv

LEMMA EnqueueKeeps ==
    ASSUME IInv, NEW r \in Requests, Enqueue(r)
    PROVE  IInv'
<1>1. r \in Slots /\ slot[r] # Idle
  BY AtWork DEF Slots, Enqueue
<1>2. slot[r].mail \in Mails /\ SlotKnows(r, slot[r])
  BY <1>1, SlotFacts
<1>3. UNCHANGED settings /\ HistoriesGrow
  BY DEF Enqueue, settings, history, HistoriesGrow, Asked, Handed
<1>4. slot' \in [Slots -> SlotState] /\ SlotsKnow'
  BY <1>1, <1>3, SlotStops DEF Enqueue
<1>5. RowsKnow'
  <2>1. Asked(slot[r].mail)
    BY <1>2 DEF Enqueue, SlotKnows
  <2>2. queue' = [queue EXCEPT ![slot[r].mail] = @ + 1] /\ queue \in [Mails -> Nat]
    BY DEF Enqueue, IInv, TypeOK
  <2> QED BY <1>2, <1>3, <2>1, <2>2 DEF Enqueue, row, IInv, RowsKnow, HistoriesGrow
<1>6. TypeOK'
  BY <1>2, <1>4 DEF Enqueue, IInv, TypeOK, settings, row, history, bounds
<1> QED BY <1>4, <1>5, <1>6 DEF IInv

LEMMA EnqueueFailsKeeps ==
    ASSUME IInv, NEW r \in Requests, EnqueueFails(r)
    PROVE  IInv'
<1>1. r \in Slots /\ slot[r] # Idle
  BY AtWork DEF Slots, EnqueueFails
<1>2. slot[r].mail \in Mails /\ SlotKnows(r, slot[r])
  BY <1>1, SlotFacts
<1>3. UNCHANGED settings /\ HistoriesGrow
  BY DEF EnqueueFails, settings, history, HistoriesGrow, Asked, Handed
<1>4. slot' \in [Slots -> SlotState] /\ SlotsKnow'
  BY <1>1, <1>3, SlotStops DEF EnqueueFails
<1>5. RowsKnow'
  BY <1>3, RowsKnowUnchanged DEF EnqueueFails, row
<1>6. TypeOK'
  BY <1>2, <1>4 DEF EnqueueFails, IInv, TypeOK, settings, row, history, bounds
<1> QED BY <1>4, <1>5, <1>6 DEF IInv

LEMMA TakeKeeps ==
    ASSUME IInv, NEW w \in Workers, NEW m \in Mails, Take(w, m)
    PROVE  IInv'
<1>1. UNCHANGED settings /\ HistoriesGrow
  BY DEF Take, settings, history, HistoriesGrow, Asked, Handed
<1>2. w \in Slots
  BY DEF Slots
<1>3. /\ queue' = [queue EXCEPT ![m] = @ - 1] /\ queue \in [Mails -> Nat] /\ queue[m] > 0
      /\ UNCHANGED <<status, fields>>
  BY DEF Take, row, IInv, TypeOK
<1>4. slot' \in [Slots -> SlotState] /\ SlotsKnow'
  <2>1. CASE status[m] = "none"
    BY <1>1, <2>1, SlotsKnowUnchanged DEF Take, IInv
  <2>2. CASE status[m] # "none"
    <3>1. PICK st \in Statuses, f \in Fields : st = status[m] /\ f = fields[m]
      BY <2>2 DEF IInv, TypeOK
    <3> DEFINE n == At("try", m, st, f, 0)
    <3>2. n \in SlotState
      BY BusyTyped, ConstantsAssumption DEF At
    <3>3. slot' = [slot EXCEPT ![w] = n]
      BY <2>2, <3>1 DEF Take, At
    <3>4. Asked(m)' /\ (st = "sent" => Handed(m)') /\ 0 < Tries(w)'
      BY <3>1, <1>1, <1>2, <2>2, TriesBound
      DEF IInv, RowsKnow, HistoriesGrow, Tries, settings
    <3>5. SlotKnows(w, n)'
      BY <1>3, <3>4 DEF SlotKnows, At, Asked, Handed, Tries
    <3> QED BY <1>1, <1>2, <3>2, <3>3, <3>5, SlotWrites
  <2> QED BY <2>1, <2>2
<1>5. RowsKnow'
  BY <1>1, <1>3 DEF IInv, RowsKnow, HistoriesGrow
<1>6. TypeOK'
  BY <1>3, <1>4 DEF Take, IInv, TypeOK, settings, row, history, bounds
<1> QED BY <1>4, <1>5, <1>6 DEF IInv

LEMMA UnfitKeeps ==
    ASSUME IInv, NEW s \in Slots, Unfit(s)
    PROVE  IInv'
<1>1. slot[s] # Idle
  BY AtWork DEF Unfit
<1>2. PICK old \in SlotState :
      old = slot[s] /\ old.mail \in Mails /\ SlotKnows(s, old) /\ old.pc = "try"
  BY <1>1, SlotFacts DEF Unfit
<1>3. /\ UNCHANGED settings /\ HistoriesGrow /\ Asked(old.mail)'
  BY <1>2 DEF Unfit, settings, history, HistoriesGrow, Asked, Handed, IInv, TypeOK,
             SlotKnows
<1>4. PICK n \in SlotState :
        /\ slot' = [slot EXCEPT ![s] = n] /\ n # Idle
        /\ n.mail = old.mail /\ n.status = "send-error" /\ n.tries = old.tries
        /\ n.pc = IF s \in Workers THEN "record" ELSE "loaded"
  <2>1. "send-error" \in Statuses
    BY DEF Statuses
  <2> QED BY <1>1, <1>2, <2>1, OutcomeSlot DEF Unfit, IInv
<1>5. SlotKnows(s, n)'
  <2>1. old.tries < Tries(s)'
    BY <1>2, <1>3 DEF SlotKnows, Tries, settings
  <2>2. s \in Workers \/ s \in Requests
    BY DEF Slots
  <2>3. Asked(n.mail)' /\ (n.status = "sent" => Handed(n.mail)')
    BY <1>3, <1>4 DEF Asked, Handed
  <2> QED BY <1>4, <2>1, <2>2, <2>3 DEF SlotKnows
<1>6. slot' \in [Slots -> SlotState] /\ SlotsKnow'
  BY <1>3, <1>4, <1>5, SlotWrites
<1>7. RowsKnow'
  BY <1>3, RowsKnowUnchanged DEF Unfit, row
<1>8. TypeOK'
  BY <1>2, <1>6 DEF Unfit, IInv, TypeOK, settings, row, history, bounds
<1> QED BY <1>6, <1>7, <1>8 DEF IInv

LEMMA HandOverKeeps ==
    ASSUME IInv, NEW s \in Slots, HandOver(s)
    PROVE  IInv'
<1>1. slot[s] # Idle
  BY AtWork DEF HandOver
<1>2. PICK old \in SlotState :
      old = slot[s] /\ old.mail \in Mails /\ SlotKnows(s, old) /\ old.pc = "try"
  BY <1>1, SlotFacts DEF HandOver
<1>3. /\ UNCHANGED settings /\ HistoriesGrow /\ Asked(old.mail)'
      /\ Handed(old.mail)'
  BY <1>2 DEF HandOver, settings, history, HistoriesGrow, Asked, Handed, IInv, TypeOK,
             SlotKnows
<1>4. PICK n \in SlotState :
        /\ slot' = [slot EXCEPT ![s] = n] /\ n # Idle
        /\ n.mail = old.mail /\ n.status = "sent" /\ n.tries = old.tries
        /\ n.pc = IF s \in Workers THEN "record" ELSE "loaded"
  <2>1. "sent" \in Statuses
    BY DEF Statuses
  <2> QED BY <1>1, <1>2, <2>1, OutcomeSlot DEF HandOver, IInv
<1>5. SlotKnows(s, n)'
  <2>1. old.tries < Tries(s)'
    BY <1>2, <1>3 DEF SlotKnows, Tries, settings
  <2>2. s \in Workers \/ s \in Requests
    BY DEF Slots
  <2>3. Asked(n.mail)' /\ (n.status = "sent" => Handed(n.mail)')
    BY <1>3, <1>4 DEF Asked, Handed
  <2> QED BY <1>4, <2>1, <2>2, <2>3 DEF SlotKnows
<1>6. slot' \in [Slots -> SlotState] /\ SlotsKnow'
  BY <1>3, <1>4, <1>5, SlotWrites
<1>7. RowsKnow'
  BY <1>3, RowsKnowUnchanged DEF HandOver, row
<1>8. TypeOK'
  BY <1>2, <1>6 DEF HandOver, IInv, TypeOK, settings, row, history, bounds
<1> QED BY <1>6, <1>7, <1>8 DEF IInv

LEMMA HandOverFailsKeeps ==
    ASSUME IInv, NEW s \in Slots, HandOverFails(s)
    PROVE  IInv'
<1>1. slot[s] # Idle /\ s \in Slots /\ slot[s].pc \in {"try", "record"}
  BY AtWork DEF HandOverFails, Slots
<1>2. PICK old \in SlotState :
      old = slot[s] /\ old.mail \in Mails /\ SlotKnows(s, old)
  BY <1>1, SlotFacts
<1>3. UNCHANGED settings /\ HistoriesGrow
  BY <1>2 DEF HandOverFails, settings, history, HistoriesGrow, Asked, Handed, IInv, TypeOK
<1>4. old.tries < Tries(s)
  BY <1>1, <1>2 DEF SlotKnows
<1>5. PICK n \in SlotState :
        /\ slot' = [slot EXCEPT ![s] = n] /\ n # Idle
        /\ n.mail = old.mail
        /\ \/ n.pc = "try" /\ n.status = old.status /\ n.tries < Tries(s)
           \/ /\ n.status = "send-error"
              /\ n.pc = IF s \in Workers THEN "giveup" ELSE "loaded"
  BY <1>1, <1>2, <1>4, AnotherTrySlot DEF HandOverFails, IInv
<1>6. SlotKnows(s, n)'
  <2>1. Asked(old.mail)' /\ (old.status = "sent" => Handed(old.mail)')
    BY <1>1, <1>2, <1>3 DEF SlotKnows, HistoriesGrow
  <2>2. s \in Workers \/ s \in Requests
    BY <1>1 DEF Slots
  <2>3. Tries(s)' = Tries(s)
    BY <1>3 DEF Tries, settings
  <2>4. Asked(n.mail)' /\ (n.status = "sent" => Handed(n.mail)')
    BY <1>5, <2>1 DEF Asked, Handed
  <2> QED BY <1>5, <2>2, <2>3, <2>4 DEF SlotKnows
<1>7. slot' \in [Slots -> SlotState] /\ SlotsKnow'
  BY <1>1, <1>3, <1>5, <1>6, SlotWrites
<1>8. RowsKnow'
  BY <1>3, RowsKnowUnchanged DEF HandOverFails, row
<1>9. TypeOK'
  BY <1>2, <1>7 DEF HandOverFails, IInv, TypeOK, settings, row, history, bounds
<1> QED BY <1>7, <1>8, <1>9 DEF IInv

LEMMA RecordFailsKeeps ==
    ASSUME IInv, NEW s \in Workers, RecordFails(s)
    PROVE  IInv'
<1>1. slot[s] # Idle /\ s \in Slots /\ slot[s].pc \in {"try", "record"}
  BY AtWork DEF RecordFails, Slots
<1>2. PICK old \in SlotState :
      old = slot[s] /\ old.mail \in Mails /\ SlotKnows(s, old)
  BY <1>1, SlotFacts
<1>3. UNCHANGED settings /\ HistoriesGrow
  BY <1>2 DEF RecordFails, settings, history, HistoriesGrow, Asked, Handed, IInv, TypeOK
<1>4. old.tries < Tries(s)
  BY <1>1, <1>2 DEF SlotKnows
<1>5. PICK n \in SlotState :
        /\ slot' = [slot EXCEPT ![s] = n] /\ n # Idle
        /\ n.mail = old.mail
        /\ \/ n.pc = "try" /\ n.status = old.status /\ n.tries < Tries(s)
           \/ /\ n.status = "send-error"
              /\ n.pc = IF s \in Workers THEN "giveup" ELSE "loaded"
  BY <1>1, <1>2, <1>4, AnotherTrySlot DEF RecordFails, IInv
<1>6. SlotKnows(s, n)'
  <2>1. Asked(old.mail)' /\ (old.status = "sent" => Handed(old.mail)')
    BY <1>1, <1>2, <1>3 DEF SlotKnows, HistoriesGrow
  <2>2. s \in Workers \/ s \in Requests
    BY <1>1 DEF Slots
  <2>3. Tries(s)' = Tries(s)
    BY <1>3 DEF Tries, settings
  <2>4. Asked(n.mail)' /\ (n.status = "sent" => Handed(n.mail)')
    BY <1>5, <2>1 DEF Asked, Handed
  <2> QED BY <1>5, <2>2, <2>3, <2>4 DEF SlotKnows
<1>7. slot' \in [Slots -> SlotState] /\ SlotsKnow'
  BY <1>1, <1>3, <1>5, <1>6, SlotWrites
<1>8. RowsKnow'
  BY <1>3, RowsKnowUnchanged DEF RecordFails, row
<1>9. TypeOK'
  BY <1>2, <1>7 DEF RecordFails, IInv, TypeOK, settings, row, history, bounds
<1> QED BY <1>7, <1>8, <1>9 DEF IInv

LEMMA RecordKeeps ==
    ASSUME IInv, NEW w \in Workers, Record(w)
    PROVE  IInv'
<1>1. w \in Slots /\ slot[w] # Idle
  BY AtWork DEF Slots, Record
<1>2. PICK old \in SlotState :
      old = slot[w] /\ old.mail \in Mails /\ SlotKnows(w, old)
  BY <1>1, SlotFacts
<1>3. UNCHANGED settings /\ HistoriesGrow /\ Asked(old.mail)'
  BY <1>2 DEF Record, settings, history, HistoriesGrow, Asked, Handed, SlotKnows
<1>4. slot' \in [Slots -> SlotState] /\ SlotsKnow'
  BY <1>1, <1>3, SlotStops DEF Record
<1>5. /\ RowsKnow'
      /\ status' \in [Mails -> Statuses \cup {"none"}]
      /\ fields' \in [Mails -> Fields]
  BY <1>1, <1>2, <1>3, RowsKnowStored DEF Record
<1>6. TypeOK'
  BY <1>4, <1>5 DEF Record, IInv, TypeOK, settings, history, bounds
<1> QED BY <1>4, <1>5, <1>6 DEF IInv

LEMMA GiveUpFailsKeeps ==
    ASSUME IInv, NEW w \in Workers, GiveUpFails(w)
    PROVE  IInv'
<1>1. w \in Slots /\ slot[w] # Idle
  BY AtWork DEF Slots, GiveUpFails
<1>2. slot[w].mail \in Mails /\ SlotKnows(w, slot[w])
  BY <1>1, SlotFacts
<1>3. UNCHANGED settings /\ HistoriesGrow
  BY DEF GiveUpFails, settings, history, HistoriesGrow, Asked, Handed
<1>4. slot' \in [Slots -> SlotState] /\ SlotsKnow'
  BY <1>1, <1>3, SlotStops DEF GiveUpFails
<1>5. RowsKnow'
  BY <1>3, RowsKnowUnchanged DEF GiveUpFails, row
<1>6. TypeOK'
  BY <1>2, <1>4 DEF GiveUpFails, IInv, TypeOK, settings, row, history, bounds
<1> QED BY <1>4, <1>5, <1>6 DEF IInv

LEMMA CrashKeeps ==
    ASSUME IInv, NEW w \in Workers, Crash(w)
    PROVE  IInv'
<1>1. w \in Slots /\ slot[w] # Idle
  BY AtWork DEF Slots, Crash
<1>2. slot[w].mail \in Mails /\ SlotKnows(w, slot[w])
  BY <1>1, SlotFacts
<1>3. UNCHANGED settings /\ HistoriesGrow
  BY DEF Crash, settings, history, HistoriesGrow, Asked, Handed
<1>4. slot' \in [Slots -> SlotState] /\ SlotsKnow'
  BY <1>1, <1>3, SlotStops DEF Crash
<1>5. RowsKnow'
  BY <1>3, RowsKnowUnchanged DEF Crash, row
<1>6. TypeOK'
  BY <1>2, <1>4 DEF Crash, IInv, TypeOK, settings, row, history, bounds
<1> QED BY <1>4, <1>5, <1>6 DEF IInv

-----------------------------------------------------------------------------
\* The invariant holds at first, and every step keeps it.

LEMMA InitKeeps == Init => IInv
<1> SUFFICES ASSUME Init PROVE IInv
  OBVIOUS
<1>1. TypeOK
  BY IdleTyped DEF Init, TypeOK, Statuses, Fields
<1>2. RowsKnow
  BY DEF Init, RowsKnow
<1>3. SlotsKnow
  BY DEF Init, SlotsKnow
<1> QED BY <1>1, <1>2, <1>3 DEF IInv

LEMMA NextKeeps == IInv /\ [Next]_vars => IInv'
<1> SUFFICES ASSUME IInv, [Next]_vars PROVE IInv'
  OBVIOUS
<1>1. ASSUME NEW r \in Requests, NEW m \in Mails, NEW f \in Fields,
             NEW st \in Statuses, Create(r, m, f) \/ Edit(r, m, st, f)
      PROVE  IInv'
  BY <1>1, CreateKeeps, EditKeeps
<1>2. ASSUME NEW m \in Mails, Delete(m) PROVE IInv'
  BY <1>2, DeleteKeeps
<1>3. ASSUME NEW r \in Requests, SaveStep(r) PROVE IInv'
  BY <1>3, SendBeforeSaveKeeps, WriteKeeps, WriteFailsKeeps, EnqueueKeeps,
     EnqueueFailsKeeps DEF SaveStep
<1>4. ASSUME NEW q \in Slots, SendStep(q) PROVE IInv'
  BY <1>4, UnfitKeeps, HandOverKeeps, HandOverFailsKeeps DEF SendStep
<1>5. ASSUME NEW w \in Workers, TaskStep(w) \/ Crash(w) PROVE IInv'
  BY <1>5, TakeKeeps, RecordKeeps, RecordFailsKeeps, GiveUpFailsKeeps, CrashKeeps
  DEF TaskStep
<1>6. ASSUME UNCHANGED vars PROVE IInv'
  <2>1. UNCHANGED <<settings, row, queue, slot, history, bounds>>
    BY <1>6 DEF vars
  <2>2. TypeOK'
    BY <2>1 DEF IInv, TypeOK, settings, row, history, bounds
  <2>3. HistoriesGrow
    BY <2>1 DEF HistoriesGrow, history, Handed, Asked
  <2>4. SlotsKnow'
    BY <2>1, <2>3, SlotsKnowUnchanged DEF IInv
  <2>5. RowsKnow'
    BY <2>1, <2>3, RowsKnowUnchanged DEF row
  <2> QED BY <2>2, <2>4, <2>5 DEF IInv
<1>7. CASE Next
  <2>1. CASE \E r \in Requests, m \in Mails, f \in Fields :
               Create(r, m, f) \/ \E st \in Statuses : Edit(r, m, st, f)
    <3>1. PICK r \in Requests, m \in Mails, f \in Fields :
            Create(r, m, f) \/ \E st \in Statuses : Edit(r, m, st, f)
      BY <2>1
    <3>2. "sent" \in Statuses
      BY DEF Statuses
    <3> QED BY <3>1, <3>2, <1>1
  <2> QED BY <1>2, <1>3, <1>4, <1>5, <1>7, <2>1 DEF Next
<1> QED BY <1>6, <1>7

THEOREM Inductive == Spec => []IInv
<1> QED BY InitKeeps, NextKeeps, PTL DEF Spec

\* Every variable keeps its type: no save, task or crash leaves a slot with a
\* status or a number of tries that perform_send_email cannot have.
THEOREM TypeCorrect == Spec => []TypeOK
<1>1. IInv => TypeOK
  BY DEF IInv
<1> QED BY <1>1, Inductive, PTL

\* perform_send_email sets "sent" after email.send() only, and every other
\* save writes a status that it has read: a row never says "sent" of a mail of
\* which no copy was handed to the SMTP server.
SentWasHanded == \A m \in Mails : status[m] = "sent" => copies[m] > 0

THEOREM SentIsHanded == Spec => []SentWasHanded
<1>1. IInv => SentWasHanded
  BY DEF IInv, RowsKnow, Handed, SentWasHanded
<1> QED BY <1>1, Inductive, PTL
-----------------------------------------------------------------------------
\* The refinement, step by step.

LEMMA InitMaps == Init => O!Init
BY DEF Init, O!Init

\* What a slot stores is an outcome that the outbox allows.
LEMMA StoreMaps ==
    ASSUME IInv, NEW s \in Slots, slot[s] # Idle, slot[s].status # "to-send",
           StoreRow(s), UNCHANGED <<asked, copies>>
    PROVE  O!Next
<1>1. PICK old \in SlotState : old = slot[s] /\ old.mail \in Mails
                              /\ old.status \in Statuses /\ SlotKnows(s, old)
  BY SlotFacts
<1>2. asked[old.mail] > 0 /\ (old.status = "sent" => copies[old.mail] > 0)
  BY <1>1 DEF SlotKnows, Asked, Handed
<1>3. old.status \in {"sent", "send-error"}
  BY <1>1 DEF Statuses
<1>4. O!Settle(old.mail)
  BY <1>1, <1>2, <1>3 DEF O!Settle, StoreRow
<1> QED BY <1>1, <1>4 DEF O!Next

\* A handover, and what a failure adds to it.
LEMMA HandMaps ==
    ASSUME IInv, NEW s \in Slots, HandOver(s) \/ HandOverFails(s)
    PROVE  O!Next \/ UNCHANGED O!vars
<1>1. slot[s] # Idle
  BY AtWork DEF HandOver, HandOverFails
<1>2. PICK old \in SlotState : old = slot[s] /\ old.mail \in Mails /\ SlotKnows(s, old)
  BY <1>1, SlotFacts
<1>3. asked[old.mail] > 0
  BY <1>2 DEF HandOver, HandOverFails, SlotKnows, Asked
<1>4. UNCHANGED <<status, asked>>
  BY DEF HandOver, HandOverFails, row
<1>5. CASE UNCHANGED copies
  BY <1>4, <1>5 DEF O!vars
<1>6. CASE copies' = [copies EXCEPT ![old.mail] = @ + 1]
  BY <1>2, <1>3, <1>4, <1>6 DEF O!Next, O!Hand
<1> QED BY <1>2, <1>5, <1>6 DEF HandOver, HandOverFails

LEMMA WriteMaps ==
    ASSUME IInv, NEW r \in Requests, Write(r)
    PROVE  O!Next
<1>1. r \in Slots /\ slot[r] # Idle
  BY AtWork DEF Slots, Write, ReadyToWrite
<1>2. slot[r].mail \in Mails
  BY <1>1, SlotFacts
<1>3. CASE slot[r].status = "to-send"
  <2>1. O!Ask(slot[r].mail)
    BY <1>3 DEF Write, StoreRow, O!Ask
  <2> QED BY <1>2, <2>1 DEF O!Next
<1>4. CASE slot[r].status # "to-send"
  BY <1>1, <1>4, StoreMaps DEF Write
<1> QED BY <1>3, <1>4

LEMMA NextMaps == IInv /\ [Next]_vars => [O!Next]_O!vars
<1> SUFFICES ASSUME IInv, [Next]_vars PROVE O!Next \/ UNCHANGED O!vars
  OBVIOUS
<1>1. ASSUME NEW r \in Requests, NEW m \in Mails, NEW f \in Fields,
             NEW st \in Statuses, Create(r, m, f) \/ Edit(r, m, st, f)
      PROVE  UNCHANGED O!vars
  BY <1>1 DEF Create, Edit, row, history, O!vars
<1>2. ASSUME NEW m \in Mails, Delete(m) PROVE O!Next
  BY <1>2 DEF Delete, history, O!Next, O!Delete
<1>3. ASSUME NEW r \in Requests, SaveStep(r) PROVE O!Next \/ UNCHANGED O!vars
  <2>1. CASE SendBeforeSave(r)
    <3>1. r \in Slots /\ slot[r] # Idle
      BY <2>1, AtWork DEF Slots, SendBeforeSave
    <3>2. slot[r].mail \in Mails
      BY <3>1, SlotFacts
    <3>3. O!Ask(slot[r].mail)
      BY <2>1 DEF SendBeforeSave, row, O!Ask
    <3> QED BY <3>2, <3>3 DEF O!Next
  <2>2. CASE Write(r)
    BY <2>2, WriteMaps
  <2>3. CASE WriteFails(r) \/ Enqueue(r) \/ EnqueueFails(r)
    BY <2>3 DEF WriteFails, Enqueue, EnqueueFails, row, history, O!vars
  <2> QED BY <1>3, <2>1, <2>2, <2>3 DEF SaveStep
<1>4. ASSUME NEW q \in Slots, SendStep(q) PROVE O!Next \/ UNCHANGED O!vars
  <2>1. CASE Unfit(q)
    BY <2>1 DEF Unfit, row, history, O!vars
  <2> QED BY <1>4, <2>1, HandMaps DEF SendStep
<1>5. ASSUME NEW w \in Workers, TaskStep(w) \/ Crash(w)
      PROVE  O!Next \/ UNCHANGED O!vars
  <2>1. CASE Record(w)
    <3>1. w \in Slots /\ slot[w] # Idle
      BY <2>1, AtWork DEF Slots, Record
    <3>2. slot[w].status # "to-send"
      BY <2>1, <3>1, SlotFacts DEF Record, SlotKnows
    <3> QED BY <2>1, <3>1, <3>2, StoreMaps DEF Record, history
  <2>2. CASE (\E m \in Mails : Take(w, m)) \/ RecordFails(w) \/ GiveUpFails(w) \/ Crash(w)
    BY <2>2 DEF Take, RecordFails, GiveUpFails, Crash, row, history, O!vars
  <2> QED BY <1>5, <2>1, <2>2 DEF TaskStep
<1>6. ASSUME UNCHANGED vars PROVE UNCHANGED O!vars
  BY <1>6 DEF vars, row, history, O!vars
<1>7. CASE Next
  <2>1. CASE \E r \in Requests, m \in Mails, f \in Fields :
               Create(r, m, f) \/ \E st \in Statuses : Edit(r, m, st, f)
    <3>1. PICK r \in Requests, m \in Mails, f \in Fields :
            Create(r, m, f) \/ \E st \in Statuses : Edit(r, m, st, f)
      BY <2>1
    <3>2. "sent" \in Statuses
      BY DEF Statuses
    <3> QED BY <3>1, <3>2, <1>1
  <2> QED BY <1>2, <1>3, <1>4, <1>5, <1>7, <2>1 DEF Next
<1> QED BY <1>6, <1>7

\* EmailDelivery implements the outbox, whatever the number of requests,
\* workers, tries, edits and crashes, and in both modes of sending.
THEOREM Refinement == Spec => ImplementsOutbox
<1>1. Spec => []IInv
  BY Inductive
<1> QED BY <1>1, InitMaps, NextMaps, PTL DEF Spec, ImplementsOutbox, O!Spec
-----------------------------------------------------------------------------
(***************************************************************************)
(* Why a mail goes out more than once.  A slot that will hand its mail     *)
(* over, or that may still be sent back to do so by a save that fails,     *)
(* holds one of the copies that the saves asked for; so does a task on the *)
(* queue.  Copies gone out, tasks and slots together never outnumber what  *)
(* was asked for and what went wrong.                                      *)
(***************************************************************************)

MayHandOver(st, m) ==
    /\ st.mail = m
    /\ st.pc \in {"enqueue", "try"} \/ (st.pc = "record" /\ st.status = "send-error")

Pending(m) == {s \in Slots : MayHandOver(slot[s], m)}

Explained ==
    \A m \in Mails :
        copies[m] + queue[m] + Cardinality(Pending(m)) <= asked[m] + mishaps[m]

\* What a slot that holds st counts for in Pending(m).
Weight(st, m) == IF MayHandOver(st, m) THEN 1 ELSE 0

LEMMA PendingFinite ==
    \A m \in Mails : IsFiniteSet(Pending(m)) /\ Cardinality(Pending(m)) \in Nat
<1> TAKE m \in Mails
<1>1. IsFiniteSet(Slots)
  BY FinitenessAssumption, FS_Union DEF Slots
<1>2. Pending(m) \subseteq Slots
  BY DEF Pending
<1> QED BY <1>1, <1>2, FS_Subset, FS_CardinalityType

LEMMA PendingMoves ==
    ASSUME TypeOK, NEW s \in Slots, NEW n, slot' = [slot EXCEPT ![s] = n],
           NEW m \in Mails
    PROVE  /\ Cardinality(Pending(m)') \in Nat
           /\ Cardinality(Pending(m)') + Weight(slot[s], m)
                = Cardinality(Pending(m)) + Weight(n, m)
<1>1. slot \in [Slots -> SlotState]
  BY DEF TypeOK
<1>2. slot'[s] = n /\ \A q \in Slots \ {s} : slot'[q] = slot[q]
  BY <1>1
<1>3. IsFiniteSet(Pending(m)) /\ Cardinality(Pending(m)) \in Nat
  BY PendingFinite
<1>4. /\ s \in Pending(m) <=> MayHandOver(slot[s], m)
      /\ s \in Pending(m)' <=> MayHandOver(n, m)
      /\ Pending(m)' \ {s} = Pending(m) \ {s}
  BY <1>2 DEF Pending, MayHandOver
<1> DEFINE P == Pending(m)
           Q == Pending(m)'
<1>5. /\ P \cup {s} = IF s \in Q THEN Q ELSE Q \cup {s}
      /\ P \ {s} = IF s \in Q THEN Q \ {s} ELSE Q
      /\ s \in P => Q = (IF s \in Q THEN P ELSE P \ {s})
      /\ s \notin P => Q = (IF s \in Q THEN P \cup {s} ELSE P)
  BY <1>4
<1> HIDE DEF P, Q
<1>6. IsFiniteSet(P) /\ Cardinality(P) \in Nat
  BY <1>3 DEF P
<1>7. Cardinality(P \cup {s}) = IF s \in P THEN Cardinality(P) ELSE Cardinality(P) + 1
  BY <1>6, FS_AddElement
<1>8. Cardinality(P \ {s}) = IF s \in P THEN Cardinality(P) - 1 ELSE Cardinality(P)
  BY <1>6, FS_RemoveElement
<1>9. IsFiniteSet(P \ {s}) /\ Cardinality(P \ {s}) \in Nat
  <2>1. P \ {s} \subseteq P
    OBVIOUS
  <2> QED BY <1>6, <2>1, FS_Subset, FS_CardinalityType
<1>10. Cardinality(Q) \in Nat
       /\ Cardinality(Q) + (IF s \in P THEN 1 ELSE 0) = Cardinality(P) + (IF s \in Q THEN 1 ELSE 0)
  <2>1. CASE s \in P /\ s \in Q
    BY <1>5, <1>6, <2>1
  <2>2. CASE s \in P /\ s \notin Q
    <3>1. Q = P \ {s}
      BY <1>5, <2>2
    <3>2. Cardinality(Q) = Cardinality(P) - 1
      BY <1>8, <2>2, <3>1
    <3>3. Cardinality(Q) \in Nat
      BY <1>9, <3>1
    <3> QED BY <1>6, <2>2, <3>2, <3>3
  <2>3. CASE s \notin P /\ s \in Q
    BY <1>5, <1>6, <1>7, <2>3
  <2>4. CASE s \notin P /\ s \notin Q
    BY <1>5, <1>6, <2>4
  <2> QED BY <2>1, <2>2, <2>3, <2>4
<1> QED BY <1>4, <1>10 DEF P, Q, Weight

\* A step that changes one slot keeps the balance of each mail, if what it
\* adds to the left it adds to the right too.
LEMMA ExplainedMoves ==
    ASSUME TypeOK, TypeOK', Explained, NEW s \in Slots, NEW n,
           slot' = [slot EXCEPT ![s] = n],
           \A m \in Mails :
               copies'[m] + queue'[m] + Weight(n, m) + asked[m] + mishaps[m]
                 <= copies[m] + queue[m] + Weight(slot[s], m) + asked'[m] + mishaps'[m]
    PROVE  Explained'
<1> SUFFICES ASSUME NEW m \in Mails
             PROVE  copies'[m] + queue'[m] + Cardinality(Pending(m)')
                      <= asked'[m] + mishaps'[m]
  BY DEF Explained
<1>1. /\ copies[m] \in Nat /\ queue[m] \in Nat /\ asked[m] \in Nat /\ mishaps[m] \in Nat
      /\ copies'[m] \in Nat /\ queue'[m] \in Nat /\ asked'[m] \in Nat
      /\ mishaps'[m] \in Nat
  BY DEF TypeOK
<1>2. Weight(slot[s], m) \in {0, 1} /\ Weight(n, m) \in {0, 1}
  BY DEF Weight
<1>3. copies[m] + queue[m] + Cardinality(Pending(m)) <= asked[m] + mishaps[m]
  BY DEF Explained
<1>4. /\ Cardinality(Pending(m)') \in Nat /\ Cardinality(Pending(m)) \in Nat
      /\ Cardinality(Pending(m)') + Weight(slot[s], m)
           = Cardinality(Pending(m)) + Weight(n, m)
  BY PendingMoves, PendingFinite
<1>5. copies'[m] + queue'[m] + Weight(n, m) + asked[m] + mishaps[m]
        <= copies[m] + queue[m] + Weight(slot[s], m) + asked'[m] + mishaps'[m]
  OBVIOUS
<1> QED BY <1>1, <1>2, <1>3, <1>4, <1>5

\* In particular a step that ends a slot, or lets it start without a task.
LEMMA ExplainedLighter ==
    ASSUME TypeOK, TypeOK', Explained, NEW s \in Slots, NEW n,
           slot' = [slot EXCEPT ![s] = n],
           \A m \in Mails : MayHandOver(n, m) => MayHandOver(slot[s], m),
           UNCHANGED <<copies, queue, asked, mishaps>>
    PROVE  Explained'
<1>1. \A m \in Mails : Weight(n, m) <= Weight(slot[s], m)
                       /\ Weight(n, m) \in Nat /\ Weight(slot[s], m) \in Nat
  BY DEF Weight
<1>2. \A m \in Mails : copies[m] \in Nat /\ queue[m] \in Nat /\ asked[m] \in Nat
                        /\ mishaps[m] \in Nat
  BY DEF TypeOK
<1>3. \A m \in Mails :
        copies'[m] + queue'[m] + Weight(n, m) + asked[m] + mishaps[m]
          <= copies[m] + queue[m] + Weight(slot[s], m) + asked'[m] + mishaps'[m]
  BY <1>1, <1>2
<1> QED BY <1>3, ExplainedMoves

LEMMA ExplainedUnchanged ==
    ASSUME Explained, UNCHANGED <<slot, copies, queue, asked, mishaps>>
    PROVE  Explained'
<1>1. \A m \in Mails : Pending(m)' = Pending(m)
  BY DEF Pending
<1> QED BY <1>1 DEF Explained

LEMMA StopsExplained ==
    ASSUME TypeOK, TypeOK', Explained, NEW s \in Slots, slot' = [slot EXCEPT ![s] = Idle],
           UNCHANGED <<copies, queue, asked, mishaps>>
    PROVE  Explained'
<1>1. \A m \in Mails : ~MayHandOver(Idle, m)
  BY DEF MayHandOver, Idle
<1> QED BY <1>1, ExplainedLighter

LEMMA LoadExplained ==
    ASSUME TypeOK, TypeOK', Explained, NEW r \in Requests, NEW m, NEW st, NEW f,
           Load(r, m, st, f), UNCHANGED <<copies, queue, asked, mishaps>>
    PROVE  Explained'
<1> DEFINE n == At("loaded", m, st, f, 0)
<1>1. \A q \in Mails : ~MayHandOver(n, q)
  BY DEF MayHandOver, At
<1>2. slot' = [slot EXCEPT ![r] = n] /\ r \in Slots
  BY DEF Load, At, Slots
<1> QED BY <1>1, <1>2, ExplainedLighter

\* A save that asks: a slot is pending from now on, and was not.
LEMMA AskExplained ==
    ASSUME IInv, TypeOK', Explained, NEW r \in Requests,
           slot[r].pc = "loaded", NEW p \in {"try", "enqueue"},
           slot' = [slot EXCEPT ![r].pc = p],
           asked' = [asked EXCEPT ![slot[r].mail] = @ + 1],
           UNCHANGED <<copies, queue, mishaps>>
    PROVE  Explained'
<1>1. r \in Slots /\ slot[r] # Idle
  BY AtWork DEF Slots
<1>2. PICK old \in SlotState :
      /\ old = slot[r] /\ old.mail \in Mails /\ old.pc = "loaded"
      /\ old = At(old.pc, old.mail, old.status, old.fields, old.tries)
  BY <1>1, SlotFacts
<1> DEFINE n == At(p, old.mail, old.status, old.fields, old.tries)
<1>3. slot' = [slot EXCEPT ![r] = n]
  <2>1. [old EXCEPT !.pc = p] = n
    BY <1>2 DEF At
  <2>2. slot' = [slot EXCEPT ![r] = [slot[r] EXCEPT !.pc = p]]
    OBVIOUS
  <2> QED BY <1>2, <2>1, <2>2
<1>4. \A m \in Mails : /\ Weight(old, m) = 0
                       /\ Weight(n, m) = IF m = old.mail THEN 1 ELSE 0
  BY <1>2 DEF Weight, MayHandOver, At
<1>5. \A m \in Mails :
        /\ asked[m] \in Nat /\ copies[m] \in Nat /\ queue[m] \in Nat /\ mishaps[m] \in Nat
        /\ asked'[m] = asked[m] + (IF m = old.mail THEN 1 ELSE 0)
  BY <1>2 DEF IInv, TypeOK
<1> HIDE DEF n
<1>6. \A m \in Mails :
        copies'[m] + queue'[m] + Weight(n, m) + asked[m] + mishaps[m]
          <= copies[m] + queue[m] + Weight(slot[r], m) + asked'[m] + mishaps'[m]
  BY <1>2, <1>4, <1>5
<1> QED BY <1>1, <1>3, <1>6, ExplainedMoves DEF IInv

LEMMA SaveExplained ==
    ASSUME IInv, TypeOK', Explained, NEW r \in Requests, SaveStep(r)
    PROVE  Explained'
<1>1. TypeOK /\ r \in Slots
  BY DEF IInv, Slots
<1>2. CASE SendBeforeSave(r)
  BY <1>2, AskExplained DEF SendBeforeSave
<1>3. CASE Write(r)
  <2>1. CASE slot[r].status = "to-send"
    BY <1>3, <2>1, AskExplained DEF Write, ReadyToWrite
  <2>2. CASE slot[r].status # "to-send"
    BY <1>1, <1>3, <2>2, StopsExplained DEF Write
  <2> QED BY <2>1, <2>2
<1>4. CASE WriteFails(r) \/ EnqueueFails(r)
  BY <1>1, <1>4, StopsExplained DEF WriteFails, EnqueueFails, history
<1>5. CASE Enqueue(r)
  <2>1. slot[r] # Idle
    BY <1>1, <1>5, AtWork DEF Enqueue
  <2>2. PICK old \in SlotState : old = slot[r] /\ old.mail \in Mails /\ old.pc = "enqueue"
    BY <1>1, <1>5, <2>1, SlotFacts DEF Enqueue
  <2>3. slot' = [slot EXCEPT ![r] = Idle] /\ UNCHANGED <<asked, copies, mishaps>>
    BY <1>5 DEF Enqueue, history
  <2>4. \A m \in Mails : /\ Weight(Idle, m) = 0
                         /\ Weight(old, m) = IF m = old.mail THEN 1 ELSE 0
    BY <2>2 DEF Weight, MayHandOver, Idle
  <2>5. \A m \in Mails :
          /\ asked[m] \in Nat /\ copies[m] \in Nat /\ queue[m] \in Nat /\ mishaps[m] \in Nat
          /\ queue'[m] = queue[m] + (IF m = old.mail THEN 1 ELSE 0)
    BY <1>5, <2>2 DEF IInv, TypeOK, Enqueue
  <2>6. \A m \in Mails :
          copies'[m] + queue'[m] + Weight(Idle, m) + asked[m] + mishaps[m]
            <= copies[m] + queue[m] + Weight(slot[r], m) + asked'[m] + mishaps'[m]
    BY <2>2, <2>3, <2>4, <2>5
  <2> QED BY <1>1, <2>3, <2>6, ExplainedMoves
<1> QED BY <1>2, <1>3, <1>4, <1>5 DEF SaveStep

\* A worker takes a task off the queue and is pending in its place.
LEMMA TakeExplained ==
    ASSUME IInv, TypeOK', Explained, NEW w \in Workers, NEW m \in Mails, Take(w, m)
    PROVE  Explained'
<1>1. TypeOK /\ w \in Slots /\ UNCHANGED <<copies, asked, mishaps>>
  BY DEF IInv, Slots, Take, history
<1> DEFINE n == IF status[m] = "none" THEN Idle
                ELSE At("try", m, status[m], fields[m], 0)
<1>2. slot' = [slot EXCEPT ![w] = n]
  BY <1>1 DEF Take, At, TypeOK
<1>3. \A q \in Mails : /\ Weight(slot[w], q) = 0
                       /\ Weight(n, q) \in Nat
                       /\ Weight(n, q) <= IF q = m THEN 1 ELSE 0
  BY DEF Weight, MayHandOver, Idle, At, Take
<1>4. \A q \in Mails :
        /\ asked[q] \in Nat /\ copies[q] \in Nat /\ queue[q] \in Nat /\ mishaps[q] \in Nat
        /\ queue'[q] \in Nat
        /\ queue'[q] + (IF q = m THEN 1 ELSE 0) = queue[q]
  BY <1>1 DEF TypeOK, Take
<1> HIDE DEF n
<1>5. \A q \in Mails :
        copies'[q] + queue'[q] + Weight(n, q) + asked[q] + mishaps[q]
          <= copies[q] + queue[q] + Weight(slot[w], q) + asked'[q] + mishaps'[q]
  BY <1>1, <1>3, <1>4
<1> QED BY <1>1, <1>2, <1>5, ExplainedMoves

LEMMA UnfitExplained ==
    ASSUME IInv, TypeOK', Explained, NEW s \in Slots, Unfit(s)
    PROVE  Explained'
<1>1. slot[s] # Idle /\ slot[s].pc = "try" /\ TypeOK
  BY AtWork DEF Unfit, IInv
<1>2. UNCHANGED <<copies, queue, asked, mishaps>>
  BY DEF Unfit, history
<1>3. PICK n \in SlotState : slot' = [slot EXCEPT ![s] = n] /\ n.mail = slot[s].mail
  <2>1. "send-error" \in Statuses
    BY DEF Statuses
  <2> QED BY <1>1, <2>1, OutcomeSlot DEF Unfit
<1>4. \A m \in Mails : MayHandOver(n, m) => MayHandOver(slot[s], m)
  BY <1>1, <1>3 DEF MayHandOver
<1> QED BY <1>1, <1>2, <1>3, <1>4, ExplainedLighter

LEMMA HandOverExplained ==
    ASSUME IInv, TypeOK', Explained, NEW s \in Slots, HandOver(s)
    PROVE  Explained'
<1>1. slot[s] # Idle /\ TypeOK /\ UNCHANGED <<queue, asked, mishaps>>
  BY AtWork DEF HandOver, IInv
<1>2. PICK old \in SlotState : old = slot[s] /\ old.mail \in Mails /\ old.pc = "try"
  BY <1>1, SlotFacts DEF HandOver
<1>3. PICK n \in SlotState :
        /\ slot' = [slot EXCEPT ![s] = n] /\ n.mail = old.mail /\ n.status = "sent"
        /\ n.pc = IF s \in Workers THEN "record" ELSE "loaded"
  <2>1. "sent" \in Statuses
    BY DEF Statuses
  <2> QED BY <1>1, <1>2, <2>1, OutcomeSlot DEF HandOver
<1>4. \A m \in Mails : /\ Weight(old, m) = IF m = old.mail THEN 1 ELSE 0
                       /\ Weight(n, m) = 0
  BY <1>2, <1>3 DEF Weight, MayHandOver
<1>5. \A m \in Mails :
        /\ asked[m] \in Nat /\ copies[m] \in Nat /\ queue[m] \in Nat /\ mishaps[m] \in Nat
        /\ copies'[m] = copies[m] + (IF m = old.mail THEN 1 ELSE 0)
  BY <1>1, <1>2 DEF TypeOK, HandOver
<1>6. \A m \in Mails :
        copies'[m] + queue'[m] + Weight(n, m) + asked[m] + mishaps[m]
          <= copies[m] + queue[m] + Weight(slot[s], m) + asked'[m] + mishaps'[m]
  BY <1>1, <1>2, <1>4, <1>5
<1> QED BY <1>1, <1>3, <1>6, ExplainedMoves

\* A handover that fails leaves the slot pending, or not.  The copy that went
\* out all the same is a mishap.
LEMMA HandOverFailsExplained ==
    ASSUME IInv, TypeOK', Explained, NEW s \in Slots, HandOverFails(s)
    PROVE  Explained'
<1>1. slot[s] # Idle /\ TypeOK /\ UNCHANGED <<queue, asked>>
  BY AtWork DEF HandOverFails, IInv
<1>2. PICK old \in SlotState :
        old = slot[s] /\ old.mail \in Mails /\ old.pc = "try" /\ SlotKnows(s, old)
  BY <1>1, SlotFacts DEF HandOverFails
<1>3. old.tries < Tries(s)
  BY <1>2 DEF SlotKnows
<1>4. PICK n \in SlotState : slot' = [slot EXCEPT ![s] = n] /\ n.mail = old.mail
  BY <1>1, <1>2, <1>3, AnotherTrySlot DEF HandOverFails
<1>5. \A m \in Mails : /\ Weight(old, m) = IF m = old.mail THEN 1 ELSE 0
                       /\ Weight(n, m) \in Nat
                       /\ Weight(n, m) <= Weight(old, m)
  BY <1>2, <1>4 DEF Weight, MayHandOver
<1>6. \A m \in Mails :
        /\ asked[m] \in Nat /\ copies[m] \in Nat /\ queue[m] \in Nat /\ mishaps[m] \in Nat
        /\ copies'[m] \in Nat /\ mishaps'[m] \in Nat
        /\ copies'[m] - copies[m] = mishaps'[m] - mishaps[m]
  <2>1. \A m \in Mails :
          /\ asked[m] \in Nat /\ copies[m] \in Nat /\ queue[m] \in Nat
          /\ mishaps[m] \in Nat /\ copies'[m] \in Nat /\ mishaps'[m] \in Nat
    BY <1>1 DEF TypeOK
  <2>2. CASE UNCHANGED <<copies, mishaps>>
    BY <2>1, <2>2
  <2>3. CASE /\ copies' = [copies EXCEPT ![old.mail] = @ + 1]
             /\ mishaps' = [mishaps EXCEPT ![old.mail] = @ + 1]
    BY <1>1, <1>2, <2>1, <2>3 DEF TypeOK
  <2> QED BY <1>2, <2>2, <2>3 DEF HandOverFails
<1>7. \A m \in Mails :
        copies'[m] + queue'[m] + Weight(n, m) + asked[m] + mishaps[m]
          <= copies[m] + queue[m] + Weight(slot[s], m) + asked'[m] + mishaps'[m]
  BY <1>1, <1>2, <1>5, <1>6
<1> QED BY <1>1, <1>4, <1>7, ExplainedMoves

\* The save of a task fails: the slot of a mail that was sent is pending again,
\* and that is a mishap; the slot of one that was not is pending already.
LEMMA RecordFailsExplained ==
    ASSUME IInv, TypeOK', Explained, NEW w \in Workers, RecordFails(w)
    PROVE  Explained'
<1>1. w \in Slots /\ slot[w] # Idle /\ TypeOK /\ UNCHANGED <<queue, asked, copies>>
  BY AtWork DEF RecordFails, IInv, Slots
<1>2. PICK old \in SlotState :
        /\ old = slot[w] /\ old.mail \in Mails /\ old.pc = "record" /\ SlotKnows(w, old)
        /\ old.status \in Statuses
  BY <1>1, SlotFacts DEF RecordFails
<1>3. old.tries < Tries(w) /\ old.status \in {"sent", "send-error"}
  BY <1>2 DEF SlotKnows, Statuses
<1>4. PICK n \in SlotState : slot' = [slot EXCEPT ![w] = n] /\ n.mail = old.mail
  BY <1>1, <1>2, <1>3, AnotherTrySlot DEF RecordFails
<1>5. \A m \in Mails :
        /\ Weight(old, m) = IF m = old.mail /\ old.status = "send-error" THEN 1 ELSE 0
        /\ Weight(n, m) \in Nat
        /\ Weight(n, m) <= IF m = old.mail THEN 1 ELSE 0
  BY <1>2, <1>4 DEF Weight, MayHandOver
<1>6. \A m \in Mails :
        /\ asked[m] \in Nat /\ copies[m] \in Nat /\ queue[m] \in Nat /\ mishaps[m] \in Nat
        /\ mishaps'[m] = mishaps[m]
                           + (IF m = old.mail /\ old.status = "sent" THEN 1 ELSE 0)
  <2>1. mishaps \in [Mails -> Nat]
    BY <1>1 DEF TypeOK
  <2>2. mishaps' = IF old.status = "sent" THEN [mishaps EXCEPT ![old.mail] = @ + 1]
                   ELSE mishaps
    BY <1>2 DEF RecordFails
  <2>3. \A m \in Mails : asked[m] \in Nat /\ copies[m] \in Nat /\ queue[m] \in Nat
    BY <1>1 DEF TypeOK
  <2>4. CASE old.status = "sent"
    BY <1>2, <2>1, <2>2, <2>3, <2>4
  <2>5. CASE old.status # "sent"
    BY <2>1, <2>2, <2>3, <2>5
  <2> QED BY <2>4, <2>5
<1>7. \A m \in Mails :
        copies'[m] + queue'[m] + Weight(n, m) + asked[m] + mishaps[m]
          <= copies[m] + queue[m] + Weight(slot[w], m) + asked'[m] + mishaps'[m]
  BY <1>1, <1>2, <1>3, <1>5, <1>6
<1> QED BY <1>1, <1>4, <1>7, ExplainedMoves

LEMMA InitExplained == Init => Explained
<1> SUFFICES ASSUME Init, NEW m \in Mails
             PROVE  copies[m] + queue[m] + Cardinality(Pending(m)) <= asked[m] + mishaps[m]
  BY DEF Explained
<1>1. Pending(m) = {}
  BY DEF Init, Pending, MayHandOver, Idle
<1>2. Cardinality(Pending(m)) = 0
  BY <1>1, FS_EmptySet
<1> QED BY <1>2 DEF Init

LEMMA NextExplained == IInv /\ Explained /\ [Next]_vars => Explained'
<1> SUFFICES ASSUME IInv, Explained, [Next]_vars PROVE Explained'
  OBVIOUS
<1>1. TypeOK /\ TypeOK'
  BY NextKeeps DEF IInv
<1>2. ASSUME NEW r \in Requests, NEW m \in Mails, NEW f \in Fields,
             NEW st \in Statuses, Create(r, m, f) \/ Edit(r, m, st, f)
      PROVE  Explained'
  BY <1>1, <1>2, LoadExplained DEF Create, Edit, history
<1>3. ASSUME NEW m \in Mails, Delete(m) PROVE Explained'
  BY <1>3, ExplainedUnchanged DEF Delete, history
<1>4. ASSUME NEW r \in Requests, SaveStep(r) PROVE Explained'
  BY <1>1, <1>4, SaveExplained
<1>5. ASSUME NEW q \in Slots, SendStep(q) PROVE Explained'
  BY <1>1, <1>5, UnfitExplained, HandOverExplained, HandOverFailsExplained DEF SendStep
<1>6. ASSUME NEW w \in Workers, TaskStep(w) \/ Crash(w) PROVE Explained'
  <2>1. w \in Slots
    BY DEF Slots
  <2>2. CASE Record(w) \/ GiveUpFails(w) \/ Crash(w)
    BY <1>1, <2>1, <2>2, StopsExplained DEF Record, GiveUpFails, Crash, history
  <2> QED BY <1>1, <1>6, <2>2, TakeExplained, RecordFailsExplained DEF TaskStep
<1>7. CASE UNCHANGED vars
  BY <1>7, ExplainedUnchanged DEF vars, history
<1>8. CASE Next
  <2>1. CASE \E r \in Requests, m \in Mails, f \in Fields :
               Create(r, m, f) \/ \E st \in Statuses : Edit(r, m, st, f)
    <3>1. PICK r \in Requests, m \in Mails, f \in Fields :
            Create(r, m, f) \/ \E st \in Statuses : Edit(r, m, st, f)
      BY <2>1
    <3>2. "sent" \in Statuses
      BY DEF Statuses
    <3> QED BY <3>1, <3>2, <1>2
  <2> QED BY <1>3, <1>4, <1>5, <1>6, <1>8, <2>1 DEF Next
<1> QED BY <1>7, <1>8

\* The copies of a mail that go out are no more than the saves that asked for
\* it and the exceptions that came after a handover: whatever the number of
\* workers, tries and crashes, a task never sends twice what it has recorded.
THEOREM EveryCopyExplained == Spec => []CopiesExplained
<1>1. IInv /\ Explained => CopiesExplained
  <2> SUFFICES ASSUME IInv, Explained, NEW m \in Mails
               PROVE  copies[m] <= asked[m] + mishaps[m]
    BY DEF CopiesExplained
  <2>1. /\ copies[m] \in Nat /\ queue[m] \in Nat /\ asked[m] \in Nat /\ mishaps[m] \in Nat
        /\ Cardinality(Pending(m)) \in Nat
    BY PendingFinite DEF IInv, TypeOK
  <2> QED BY <2>1 DEF Explained
<1>2. Spec => []IInv
  BY Inductive
<1> QED BY <1>1, <1>2, InitExplained, NextExplained, PTL DEF Spec
=============================================================================
