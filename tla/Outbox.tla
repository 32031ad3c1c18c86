------------------------------- MODULE Outbox -------------------------------
(***************************************************************************)
(* What the Email model of concrete-datastore promises to the code that    *)
(* creates a row to have a mail sent: a mail is handed to the SMTP server  *)
(* only after a save asked for it, at least once before its row says       *)
(* "sent", and a row that is settled waits again only when another save    *)
(* asks for it.  It may be handed over more than once, and a row that says *)
(* "send-error" does not exclude that a copy went out.                     *)
(***************************************************************************)
EXTENDS Naturals

CONSTANTS Mails

VARIABLES
    status,   \* what the table says of a mail; "none" when it has no row
    asked,    \* how often a save has asked for it
    copies    \* how often it was handed to the SMTP server

vars == <<status, asked, copies>>

Statuses == {"to-send", "sent", "send-error"}

TypeOK ==
    /\ status \in [Mails -> Statuses \cup {"none"}]
    /\ asked \in [Mails -> Nat]
    /\ copies \in [Mails -> Nat]

Init ==
    /\ status = [m \in Mails |-> "none"]
    /\ asked = [m \in Mails |-> 0]
    /\ copies = [m \in Mails |-> 0]

\* A save of a row that is to send: the row waits, unless the save sends it.
Ask(m) ==
    /\ asked' = [asked EXCEPT ![m] = @ + 1]
    /\ status' \in {status, [status EXCEPT ![m] = "to-send"]}
    /\ UNCHANGED copies

Hand(m) ==
    /\ asked[m] > 0
    /\ copies' = [copies EXCEPT ![m] = @ + 1]
    /\ UNCHANGED <<status, asked>>

\* The outcome is recorded; only what was handed over is said to be sent.
Settle(m) ==
    /\ asked[m] > 0
    /\ \E s \in {"sent", "send-error"} :
        /\ s = "sent" => copies[m] > 0
        /\ status' = [status EXCEPT ![m] = s]
    /\ UNCHANGED <<asked, copies>>

Delete(m) ==
    /\ status' = [status EXCEPT ![m] = "none"]
    /\ UNCHANGED <<asked, copies>>

Next == \E m \in Mails : Ask(m) \/ Hand(m) \/ Settle(m) \/ Delete(m)

Spec == Init /\ [][Next]_vars
=============================================================================
