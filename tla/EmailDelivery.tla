--------------------------- MODULE EmailDelivery ---------------------------
(***************************************************************************)
(* How concrete-datastore sends mail.  Every mail is a row of the Email    *)
(* model; saving a row whose resource_status is "to-send" has it sent,     *)
(* - by the pre_save receiver, before the row is written, or               *)
(* - with SMTP_MAILING_USE_ASYNC, by a Celery task that the post_save      *)
(*   receiver puts on a queue, and that loads the row by its key.          *)
(* Both run perform_send_email, which tries again after any exception, the *)
(* failure of the task's own save included, and records the outcome in the *)
(* row.  Requests create, edit and delete rows at any time, an edit writes *)
(* the whole row that it loaded, and no transaction spans two queries.     *)
(* A request whose process ends leaves what WriteFails or EnqueueFails     *)
(* leave.  The task queue acknowledges a task when it is taken, so a       *)
(* worker that ends loses it.                                              *)
(***************************************************************************)
EXTENDS Integers, FiniteSets

CONSTANTS
    Mails,        \* keys that rows of Email can have
    Requests,     \* request slots that save rows
    Workers,      \* Celery workers on the queue email_senders
    MaxRetries,   \* settings.MAX_RETRIES
    MaxEdits,     \* bound of the model on the saves of existing rows
    MaxCrashes,   \* bound of the model on the workers that end
    NoMail        \* the mail of an idle slot

ASSUME ConstantsAssumption ==
    /\ MaxRetries \in Nat \ {0} /\ MaxEdits \in Nat /\ MaxCrashes \in Nat
    /\ NoMail \notin Mails /\ Requests \cap Workers = {}

\* A web server and a Celery deployment have a number of processes.
ASSUME FinitenessAssumption == IsFiniteSet(Requests) /\ IsFiniteSet(Workers)

VARIABLES
    useAsync,    \* settings.SMTP_MAILING_USE_ASYNC
    retrySync,   \* settings.RETRY_ON_SENDING_SYNC_EMAILS
    status,      \* resource_status of each row, "none" where there is no row
    fields,      \* whether the other fields of the row allow sending
    queue,       \* queue[m]: the tasks for m that no worker has taken
    slot,        \* slot[s]: the request or the worker s
    asked,       \* history: the saves that asked for m to be sent
    copies,      \* history: the copies of m handed to the SMTP server
    mishaps,     \* history: handovers of m that ended in an exception
    lost,        \* history: the mails one of whose tasks was lost
    edits, crashes

settings == <<useAsync, retrySync>>
row == <<status, fields>>
history == <<asked, copies, mishaps, lost>>
bounds == <<edits, crashes>>
vars == <<settings, row, queue, slot, history, bounds>>

Slots == Requests \cup Workers
Statuses == {"to-send", "sent", "send-error"}
\* subject, body or receiver are missing, created_by is null, or neither
Fields == {"empty", "no-sender", "complete"}

\* The instance that a slot works on: its status and fields are those in
\* memory, tries counts the calls of _perform_send_email that failed.
Idle == [pc |-> "idle", mail |-> NoMail, status |-> "sent",
         fields |-> "empty", tries |-> 0]
SlotState ==
    {Idle} \cup
    [pc: {"loaded", "try", "record", "giveup", "enqueue"}, mail: Mails,
     status: Statuses, fields: Fields, tries: 0 .. MaxRetries]

TypeOK ==
    /\ useAsync \in BOOLEAN /\ retrySync \in BOOLEAN
    /\ status \in [Mails -> Statuses \cup {"none"}]
    /\ fields \in [Mails -> Fields]
    /\ queue \in [Mails -> Nat]
    /\ slot \in [Slots -> SlotState]
    /\ asked \in [Mails -> Nat] /\ copies \in [Mails -> Nat]
    /\ mishaps \in [Mails -> Nat] /\ lost \in SUBSET Mails
    /\ edits \in Nat /\ crashes \in Nat

Init ==
    /\ useAsync \in BOOLEAN /\ retrySync \in BOOLEAN
    /\ status = [m \in Mails |-> "none"]
    /\ fields = [m \in Mails |-> "empty"]
    /\ queue = [m \in Mails |-> 0]
    /\ slot = [s \in Slots |-> Idle]
    /\ asked = [m \in Mails |-> 0]
    /\ copies = [m \in Mails |-> 0]
    /\ mishaps = [m \in Mails |-> 0]
    /\ lost = {}
    /\ edits = 0 /\ crashes = 0
-----------------------------------------------------------------------------
\* Saves: the receivers of pre_save and post_save around the write of a row.

Load(s, m, st, f) ==
    slot' = [slot EXCEPT ![s] = [pc |-> "loaded", mail |-> m, status |-> st,
                                 fields |-> f, tries |-> 0]]

\* A new row; the default of resource_status is "to-send".
Create(r, m, f) ==
    /\ slot[r] = Idle
    /\ asked[m] = 0 /\ \A s \in Slots : slot[s].mail # m
    /\ Load(r, m, "to-send", f)
    /\ UNCHANGED <<settings, row, queue, history, bounds>>

\* An update loads the whole row.  It keeps the status or asks to send (again).
Edit(r, m, st, f) ==
    /\ slot[r] = Idle
    /\ status[m] # "none" /\ edits < MaxEdits
    /\ st \in {status[m], "to-send"}
    /\ Load(r, m, st, f)
    /\ edits' = edits + 1
    /\ UNCHANGED <<settings, row, queue, history, crashes>>

Delete(m) ==
    /\ status[m] # "none"
    /\ status' = [status EXCEPT ![m] = "none"]
    /\ UNCHANGED <<settings, fields, queue, slot, history, bounds>>

\* send_email_pre_save: the mail is sent before its row is written.
SendBeforeSave(r) ==
    /\ slot[r].pc = "loaded" /\ slot[r].status = "to-send" /\ ~useAsync
    /\ slot' = [slot EXCEPT ![r].pc = "try"]
    /\ asked' = [asked EXCEPT ![slot[r].mail] = @ + 1]
    /\ UNCHANGED <<settings, row, queue, copies, mishaps, lost, bounds>>

\* The pre_save receiver has nothing to send, or has sent it.
ReadyToWrite(r) ==
    /\ slot[r].pc = "loaded"
    /\ slot[r].status = "to-send" => useAsync

\* save() updates the row, and inserts it again when it has been deleted.
StoreRow(s) ==
    /\ status' = [status EXCEPT ![slot[s].mail] = slot[s].status]
    /\ fields' = [fields EXCEPT ![slot[s].mail] = slot[s].fields]

\* Faulty variant: only a new row is sent, "if created and ...".
WriteNewOnly(r) ==
    /\ ReadyToWrite(r)
    /\ StoreRow(r)
    /\ IF slot[r].status = "to-send" /\ asked[slot[r].mail] = 0
         THEN /\ slot' = [slot EXCEPT ![r].pc = "enqueue"]
              /\ asked' = [asked EXCEPT ![slot[r].mail] = @ + 1]
         ELSE /\ slot' = [slot EXCEPT ![r] = Idle]
              /\ UNCHANGED asked
    /\ UNCHANGED <<settings, queue, copies, mishaps, lost, bounds>>

Write(r) ==
    /\ ReadyToWrite(r)
    /\ StoreRow(r)
    /\ IF slot[r].status = "to-send"
         THEN /\ slot' = [slot EXCEPT ![r].pc = "enqueue"]
              /\ asked' = [asked EXCEPT ![slot[r].mail] = @ + 1]
         ELSE /\ slot' = [slot EXCEPT ![r] = Idle]
              /\ UNCHANGED asked
    /\ UNCHANGED <<settings, queue, copies, mishaps, lost, bounds>>

WriteFails(r) ==
    /\ ReadyToWrite(r)
    /\ slot' = [slot EXCEPT ![r] = Idle]
    /\ UNCHANGED <<settings, row, queue, history, bounds>>

\* send_email_post_save
Enqueue(r) ==
    /\ slot[r].pc = "enqueue"
    /\ queue' = [queue EXCEPT ![slot[r].mail] = @ + 1]
    /\ slot' = [slot EXCEPT ![r] = Idle]
    /\ UNCHANGED <<settings, row, history, bounds>>

\* The broker refuses: the request fails, the row is there and waits.
EnqueueFails(r) ==
    /\ slot[r].pc = "enqueue"
    /\ lost' = lost \cup {slot[r].mail}
    /\ slot' = [slot EXCEPT ![r] = Idle]
    /\ UNCHANGED <<settings, row, queue, asked, copies, mishaps, bounds>>
-----------------------------------------------------------------------------
\* perform_send_email, in a worker or in the pre_save receiver of a request.

\* Faulty variant: the task stays on the queue until a later task ends.
TakeUnacknowledged(w, m) ==
    /\ slot[w] = Idle /\ queue[m] > 0 /\ status[m] # "none"
    /\ slot' = [slot EXCEPT ![w] =
            [pc |-> "try", mail |-> m, status |-> status[m],
             fields |-> fields[m], tries |-> 0]]
    /\ UNCHANGED <<settings, row, queue, history, bounds>>

\* send_async_mails loads the row by its key; the task of a row that is not
\* there any more fails.  It does not look at the status of the row.
Take(w, m) ==
    /\ slot[w] = Idle /\ queue[m] > 0
    /\ queue' = [queue EXCEPT ![m] = @ - 1]
    /\ IF status[m] = "none"
         THEN UNCHANGED slot
         ELSE slot' = [slot EXCEPT ![w] =
                  [pc |-> "try", mail |-> m, status |-> status[m],
                   fields |-> fields[m], tries |-> 0]]
    /\ UNCHANGED <<settings, row, history, bounds>>

Tries(s) == IF s \in Workers \/ retrySync THEN MaxRetries ELSE 1

\* save_instance_if_async: the task saves, the request is about to.
Outcome(s, st) ==
    slot' = [slot EXCEPT ![s] =
        [pc |-> IF s \in Workers THEN "record" ELSE "loaded",
         mail |-> @.mail, status |-> st, fields |-> @.fields, tries |-> @.tries]]

Unfit(s) ==
    /\ slot[s].pc = "try" /\ slot[s].fields # "complete"
    /\ Outcome(s, "send-error")
    /\ UNCHANGED <<settings, row, queue, history, bounds>>

\* Faulty variant: nobody notices that the server took nothing.
HandOverUnseen(s) ==
    /\ slot[s].pc = "try" /\ slot[s].fields = "complete"
    /\ Outcome(s, "sent")
    /\ UNCHANGED <<settings, row, queue, history, bounds>>

HandOver(s) ==
    /\ slot[s].pc = "try" /\ slot[s].fields = "complete"
    /\ copies' = [copies EXCEPT ![slot[s].mail] = @ + 1]
    /\ Outcome(s, "sent")
    /\ UNCHANGED <<settings, row, queue, asked, mishaps, lost, bounds>>

\* Faulty variant: it stops one try too late.
OneTryTooMany(s) ==
    LET failed == slot[s].tries + 1 IN
    IF failed <= Tries(s)
      THEN slot' = [slot EXCEPT ![s].tries = failed, ![s].pc = "try"]
      ELSE slot' = [slot EXCEPT ![s].tries = failed,
                                ![s].status = "send-error",
                                ![s].pc = IF s \in Workers THEN "giveup"
                                          ELSE "loaded"]

\* An exception in _perform_send_email: tenacity calls it again, and raises
\* after the last try; the outer handler then records the failure.
AnotherTry(s) ==
    LET failed == slot[s].tries + 1 IN
    IF failed < Tries(s)
      THEN slot' = [slot EXCEPT ![s].tries = failed, ![s].pc = "try"]
      ELSE slot' = [slot EXCEPT ![s].tries = failed,
                                ![s].status = "send-error",
                                ![s].pc = IF s \in Workers THEN "giveup"
                                          ELSE "loaded"]

\* The SMTP server refuses, or the failure comes when it has taken the mail.
HandOverFails(s) ==
    /\ slot[s].pc = "try" /\ slot[s].fields = "complete"
    /\ AnotherTry(s)
    /\ \/ UNCHANGED <<copies, mishaps>>
       \/ /\ copies' = [copies EXCEPT ![slot[s].mail] = @ + 1]
          /\ mishaps' = [mishaps EXCEPT ![slot[s].mail] = @ + 1]
    /\ UNCHANGED <<settings, row, queue, asked, lost, bounds>>

Record(w) ==
    /\ slot[w].pc \in {"record", "giveup"}
    /\ StoreRow(w)
    /\ slot' = [slot EXCEPT ![w] = Idle]
    /\ UNCHANGED <<settings, queue, history, bounds>>

\* The save is inside of what is retried: a mail that was sent is sent again.
RecordFails(w) ==
    /\ slot[w].pc = "record"
    /\ AnotherTry(w)
    /\ mishaps' = IF slot[w].status = "sent"
                    THEN [mishaps EXCEPT ![slot[w].mail] = @ + 1] ELSE mishaps
    /\ UNCHANGED <<settings, row, queue, asked, copies, lost, bounds>>

\* The save of the outer handler fails, and the task with it.
GiveUpFails(w) ==
    /\ slot[w].pc = "giveup"
    /\ lost' = lost \cup {slot[w].mail}
    /\ slot' = [slot EXCEPT ![w] = Idle]
    /\ UNCHANGED <<settings, row, queue, asked, copies, mishaps, bounds>>

\* The worker ends in the middle of a task, which is acknowledged already.
Crash(w) ==
    /\ slot[w] # Idle /\ crashes < MaxCrashes
    /\ crashes' = crashes + 1
    /\ lost' = lost \cup {slot[w].mail}
    /\ slot' = [slot EXCEPT ![w] = Idle]
    /\ UNCHANGED <<settings, row, queue, asked, copies, mishaps, edits>>
-----------------------------------------------------------------------------
SaveStep(r) ==
    SendBeforeSave(r) \/ Write(r) \/ WriteFails(r) \/ Enqueue(r) \/ EnqueueFails(r)

SendStep(s) == Unfit(s) \/ HandOver(s) \/ HandOverFails(s)

TaskStep(w) ==
    \/ \E m \in Mails : Take(w, m)
    \/ Record(w) \/ RecordFails(w) \/ GiveUpFails(w)

Next ==
    \/ \E r \in Requests, m \in Mails, f \in Fields :
        Create(r, m, f) \/ \E st \in Statuses : Edit(r, m, st, f)
    \/ \E m \in Mails : Delete(m)
    \/ \E r \in Requests : SaveStep(r)
    \/ \E s \in Slots : SendStep(s)
    \/ \E w \in Workers : TaskStep(w) \/ Crash(w)

Spec == Init /\ [][Next]_vars

\* A request that has begun runs to its end, and the workers go on taking and
\* running tasks.  Nothing obliges anyone to create, edit, delete or crash.
Fairness ==
    /\ \A r \in Requests : WF_vars(SaveStep(r) \/ SendStep(r))
    /\ \A w \in Workers : WF_vars(TaskStep(w) \/ SendStep(w))

FairSpec == Spec /\ Fairness
-----------------------------------------------------------------------------
\* What the saves and the tasks do to the rows is what the outbox promises:
\* whatever the interleaving of edits, deletions, retries and crashes, a row
\* says "sent" only after a handover, and a settled row waits again only when
\* a save asks for it (perform_send_email and the two receivers).
O == INSTANCE Outbox WITH status <- status, asked <- asked, copies <- copies
ImplementsOutbox == O!Spec

\* A mail goes out twice only for a reason that can be named: a second save
\* asked for it, or a handover ended in an exception (tasks.py, the retry
\* around the send and the save).  In particular a task never sends twice what
\* it has sent and recorded.
CopiesExplained == \A m \in Mails : copies[m] <= asked[m] + mishaps[m]

\* Every row that waits is settled (or deleted) at last, unless one of its
\* tasks was lost: nothing else, no edit that writes a stale status over the
\* outcome, leaves it waiting (post_save asks again at every such save).
WaitingSettles ==
    \A m \in Mails : (status[m] = "to-send") ~> (status[m] # "to-send" \/ m \in lost)
=============================================================================
