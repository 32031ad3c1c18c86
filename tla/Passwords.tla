----------------------------- MODULE Passwords -----------------------------
(***************************************************************************)
(* Registration and passwords: one e-mail address, the row of its user,    *)
(* its PasswordChangeTokens and its UserConfirmation, and the account of   *)
(* one process that registers itself with a token of its own choice.       *)
(* Requests run one query at a time.  user.save() writes the whole row     *)
(* that the request has loaded, with the password that this row had, so a  *)
(* change of the profile can undo a change of the password.  The row is    *)
(* abstracted to the password and its date.                                *)
(***************************************************************************)
EXTENDS Integers, FiniteSets

CONSTANTS
    Secrets,        \* passwords that people choose
    Tokens,         \* keys that PasswordChangeTokens draw
    ProcessKeys,    \* tokens that the instances of the process choose
    Slots,          \* requests that run at the same time
    PasswordLife,   \* settings.PASSWORD_EXPIRY_TIME, 0 for no expiration
    ResetLife,      \* settings.PASSWORD_CHANGE_TOKEN_EXPIRY_HOURS
    RegisterLife,   \* the six months of a token that create_user makes
    MaxTime, MaxRequests,      \* bounds of the model
    Generated, Mailed, Unset,  \* a password that nobody knows, that a mail
                               \* has, and none
    NoRow, NoKey

ASSUME ConstantsAssumption ==
    /\ IsFiniteSet(ProcessKeys)
    /\ PasswordLife \in Nat /\ ResetLife \in Nat /\ RegisterLife \in Nat
    /\ MaxTime \in Nat /\ MaxRequests \in Nat
    /\ NoKey \notin Tokens \cup ProcessKeys
    /\ Generated \notin Secrets \cup {Mailed, Unset} /\ IsFiniteSet(Slots)

VARIABLES
    now, requests,
    allowReuse,       \* settings.ALLOW_REUSE_PASSWORD_ON_CHANGE
    mustConfirm,      \* settings.AUTH_CONFIRM_EMAIL_ENABLE
    user,             \* the row of the user
    confirmation,     \* the row of its UserConfirmation
    tokens, expiry,   \* PasswordChangeToken: "none", "live" or "deleted"
    processUser,      \* whether the user of the process is there
    processTokens,    \* its AuthTokens
    slot,             \* slot[s]: what request s runs
    told,             \* history: the tokens that a mail or an answer has named
    linked,           \* history: a mail has named the confirmation
    clicked,          \* history: the confirmation was followed, undisturbed
    uses, crossed,    \* history: changes that a token made, and that overlap
                      \* or were aborted before the token was deleted
    chosen,           \* history: the password that was saved last as such
    covered,          \* history: a save of an older row has covered a newer one
    failed,           \* history: a registration ended before it was complete
    processCrossed    \* history: registrations of the process that overlap

clock == <<now, allowReuse, mustConfirm>>
rows == <<user, confirmation, tokens, expiry>>
processes == <<processUser, processTokens, processCrossed>>
mails == <<told, linked, clicked, failed>>
changes == <<uses, crossed, chosen, covered>>
vars == <<clock, requests, rows, processes, slot, mails, changes>>

Passwords == Secrets \cup {Generated, Mailed, Unset}
Row == [password: Passwords, modified: Nat]
Confirmation == [confirmed: BOOLEAN, sent: BOOLEAN]
ASSUME NoRowAssumption == NoRow \notin Row \cup Confirmation

Flows == {"register", "reset", "token", "own", "other", "login", "profile",
          "command", "confirm", "admin", "process"}
Pcs == {"get", "create", "password", "token", "mail", "confirmation", "link",
        "sent", "find", "format", "load", "exists", "fetch", "save", "delete",
        "expired", "click", "user", "check"}
Idle == [flow |-> "idle", pc |-> "idle", row |-> NoRow, key |-> NoKey,
         password |-> Unset, mine |-> NoRow]
\* key is a PasswordChangeToken or the token of a process; mine is the row of
\* the confirmation in memory.
SlotState ==
    {Idle} \cup
    [flow: Flows, pc: Pcs, row: Row \cup {NoRow},
     key: Tokens \cup ProcessKeys \cup {NoKey}, password: Passwords,
     mine: Confirmation \cup {NoRow}]

TypeOK ==
    /\ now \in Nat /\ requests \in Nat
    /\ allowReuse \in BOOLEAN /\ mustConfirm \in BOOLEAN
    /\ user \in Row \cup {NoRow} /\ confirmation \in Confirmation \cup {NoRow}
    /\ tokens \in [Tokens -> {"none", "live", "deleted"}]
    /\ expiry \in [Tokens -> Nat]
    /\ processUser \in BOOLEAN /\ processTokens \subseteq ProcessKeys
    /\ processCrossed \in Nat
    /\ slot \in [Slots -> SlotState]
    /\ told \subseteq Tokens /\ linked \in BOOLEAN /\ clicked \in BOOLEAN
    /\ failed \in BOOLEAN /\ covered \in BOOLEAN
    /\ uses \in [Tokens -> Nat] /\ crossed \in [Tokens -> Nat]
    /\ chosen \in Passwords

Init ==
    /\ now = 0 /\ requests = 0
    /\ allowReuse \in BOOLEAN /\ mustConfirm \in BOOLEAN
    /\ user = NoRow /\ confirmation = NoRow
    /\ tokens = [t \in Tokens |-> "none"] /\ expiry = [t \in Tokens |-> 0]
    /\ processUser = FALSE /\ processTokens = {} /\ processCrossed = 0
    /\ slot = [s \in Slots |-> Idle]
    /\ told = {} /\ linked = FALSE /\ clicked = FALSE /\ failed = FALSE
    /\ uses = [t \in Tokens |-> 0] /\ crossed = [t \in Tokens |-> 0]
    /\ chosen = Unset /\ covered = FALSE
-----------------------------------------------------------------------------
Others(s) == Slots \ {s}
At(s, flow, pc) == slot[s].flow = flow /\ slot[s].pc = pc

Start(s, flow, pc, row, key, password) ==
    /\ slot[s] = Idle /\ requests < MaxRequests
    /\ requests' = requests + 1
    /\ slot' = [slot EXCEPT ![s] = [flow |-> flow, pc |-> pc, row |-> row,
                    key |-> key, password |-> password, mine |-> NoRow]]
Goes(s, pc, row, key, mine) == slot' = [slot EXCEPT ![s] =
    [flow |-> @.flow, pc |-> pc, row |-> row, key |-> key,
     password |-> @.password, mine |-> mine]]
Goto(s, pc) == Goes(s, pc, slot[s].row, slot[s].key, slot[s].mine)
Load(s, pc, row) == Goes(s, pc, row, slot[s].key, slot[s].mine)
Hold(s, pc, key) == Goes(s, pc, slot[s].row, key, slot[s].mine)
Keep(s, pc, mine) == Goes(s, pc, slot[s].row, slot[s].key, mine)
End(s) == slot' = [slot EXCEPT ![s] = Idle]

\* password_has_expired; dates are compared by the day, the unit of time.
HasExpired(row) == PasswordLife > 0 /\ now - row.modified >= PasswordLife

\* PasswordChangeToken.objects.create
CreateToken(t, life) ==
    /\ tokens[t] = "none"
    /\ tokens' = [tokens EXCEPT ![t] = "live"]
    /\ expiry' = [expiry EXCEPT ![t] = now + life]

\* user.save() in request s.
StoreUser(s, row) ==
    /\ user' = row
    /\ covered' = (covered \/ user # slot[s].row)
-----------------------------------------------------------------------------
\* RegisterApiView.create_user, and create_superuser, which has no password
\* to mail: the e-mail address is unique.

StartRegister(s, password) ==
    /\ Start(s, "register", "get", NoRow, NoKey, password)
    /\ UNCHANGED <<clock, rows, processes, mails, changes>>

\* An address that is taken is answered 200, and nothing is done.
RegisterGet(s) ==
    /\ At(s, "register", "get")
    /\ IF user = NoRow THEN Goto(s, "create") ELSE End(s)
    /\ UNCHANGED <<clock, requests, rows, processes, mails, changes>>

\* Faulty variant: the password is dated back to be changed at once.
RegisterExpired(s) ==
    LET row == [password |-> Unset, modified |-> now - PasswordLife] IN
    /\ At(s, "register", "create")
    /\ IF user = NoRow
         THEN user' = row /\ Load(s, "password", row)
         ELSE End(s) /\ UNCHANGED user
    /\ UNCHANGED <<clock, requests, confirmation, tokens, expiry, processes, mails, changes>>

RegisterCreate(s) ==
    LET row == [password |-> Unset, modified |-> now] IN
    /\ At(s, "register", "create")
    /\ IF user = NoRow
         THEN user' = row /\ Load(s, "password", row)
         ELSE End(s) /\ UNCHANGED user    \* IntegrityError
    /\ UNCHANGED <<clock, requests, confirmation, tokens, expiry, processes, mails, changes>>

RegisterPassword(s) ==
    LET row == [password |-> slot[s].password, modified |-> slot[s].row.modified] IN
    /\ At(s, "register", "password")
    /\ StoreUser(s, row)
    /\ chosen' = slot[s].password
    /\ CASE slot[s].password = Generated -> Load(s, "token", row)
         [] slot[s].password # Generated /\ mustConfirm -> Load(s, "confirmation", row)
         [] OTHER -> End(s)
    /\ UNCHANGED <<clock, requests, confirmation, tokens, expiry, processes, mails, uses, crossed>>

RegisterToken(s, t) ==
    /\ At(s, "register", "token")
    /\ CreateToken(t, RegisterLife)
    /\ Hold(s, IF mustConfirm THEN "confirmation" ELSE "mail", t)
    /\ UNCHANGED <<clock, requests, user, confirmation, processes, mails, changes>>

RegisterMail(s) ==
    /\ At(s, "register", "mail")
    /\ told' = told \cup {slot[s].key}
    /\ End(s)
    /\ UNCHANGED <<clock, requests, rows, processes, linked, clicked, failed, changes>>

\* MetaUserAdmin.save_model, which sends a link that was not sent.
StartAdmin(s) ==
    /\ user # NoRow /\ mustConfirm
    /\ Start(s, "admin", "confirmation", NoRow, NoKey, Unset)
    /\ UNCHANGED <<clock, rows, processes, mails, changes>>

\* Faulty variant: link_sent is True by default.
GetConfirmationSent(s) ==
    LET mine == IF confirmation = NoRow
                  THEN [confirmed |-> FALSE, sent |-> TRUE] ELSE confirmation IN
    /\ slot[s].pc = "confirmation"
    /\ confirmation' = mine
    /\ failed' = (failed \/ (confirmation # NoRow /\ mine.sent /\ slot[s].key # NoKey))
    /\ IF mine.sent THEN End(s) ELSE Keep(s, "link", mine)
    /\ UNCHANGED <<clock, requests, user, tokens, expiry, processes, told, linked, clicked, changes>>

\* get_or_create_confirmation.  A link that the administration site has sent
\* in the middle of a registration takes the place of the link to the password.
GetConfirmation(s) ==
    LET mine == IF confirmation = NoRow
                  THEN [confirmed |-> FALSE, sent |-> FALSE] ELSE confirmation IN
    /\ slot[s].pc = "confirmation"
    /\ confirmation' = mine
    /\ failed' = (failed \/ (confirmation # NoRow /\ mine.sent /\ slot[s].key # NoKey))
    /\ IF mine.sent THEN End(s) ELSE Keep(s, "link", mine)
    /\ UNCHANGED <<clock, requests, user, tokens, expiry, processes, told, linked, clicked, changes>>

\* send_link: the body of a registration without password has the link to
\* set it, the default body has the url of the confirmation.
SendLink(s) ==
    /\ slot[s].pc = "link"
    /\ IF slot[s].key = NoKey
         THEN linked' = TRUE /\ UNCHANGED told
         ELSE told' = told \cup {slot[s].key} /\ UNCHANGED linked
    /\ Goto(s, "sent")
    /\ UNCHANGED <<clock, requests, rows, processes, clicked, failed, changes>>

\* Faulty variant: a link that is sent again must be followed again.
SaveUnconfirmed(s) ==
    /\ slot[s].pc = "sent"
    /\ confirmation' = [confirmed |-> FALSE, sent |-> TRUE]
    /\ End(s)
    /\ UNCHANGED <<clock, requests, user, tokens, expiry, processes, mails, changes>>

\* ... and its last save writes the whole row.
SaveSent(s) ==
    /\ slot[s].pc = "sent"
    /\ confirmation' = [confirmed |-> slot[s].mine.confirmed, sent |-> TRUE]
    /\ End(s)
    /\ UNCHANGED <<clock, requests, user, tokens, expiry, processes, mails, changes>>

\* email_confirmation_view, which only a mail leads to.
StartConfirm(s) ==
    /\ linked
    /\ Start(s, "confirm", "find", NoRow, NoKey, Unset)
    /\ UNCHANGED <<clock, rows, processes, mails, changes>>

LoadConfirmation(s) ==
    /\ At(s, "confirm", "find")
    /\ Keep(s, "click", confirmation)
    /\ UNCHANGED <<clock, requests, rows, processes, mails, changes>>

Confirm(s) ==
    /\ At(s, "confirm", "click")
    /\ confirmation' = [confirmed |-> TRUE, sent |-> slot[s].mine.sent]
    /\ clicked' = (clicked \/ \A t \in Others(s) : slot[t].pc \notin {"link", "sent"})
    /\ End(s)
    /\ UNCHANGED <<clock, requests, user, tokens, expiry, processes, told, linked, failed, changes>>
-----------------------------------------------------------------------------
\* ResetPasswordApiView.post

StartReset(s) ==
    /\ user # NoRow
    /\ Start(s, "reset", "find", NoRow, NoKey, Unset)
    /\ UNCHANGED <<clock, rows, processes, mails, changes>>

ResetToken(s, t) ==
    /\ At(s, "reset", "find")
    /\ CreateToken(t, ResetLife)
    /\ Hold(s, "format", t)
    /\ UNCHANGED <<clock, requests, user, confirmation, processes, mails, changes>>

\* The format of the url is looked at when the token is there.
RefuseFormat(s) ==
    /\ At(s, "reset", "format")
    /\ End(s)
    /\ UNCHANGED <<clock, requests, rows, processes, mails, changes>>

MailReset(s) ==
    /\ At(s, "reset", "format")
    /\ told' = told \cup {slot[s].key}
    /\ End(s)
    /\ UNCHANGED <<clock, requests, rows, processes, linked, clicked, failed, changes>>
-----------------------------------------------------------------------------
\* ChangePasswordView.post: with a token, of one's own, of another user.

StartChange(s, t, password) ==
    /\ t \in told /\ user # NoRow
    /\ Start(s, "token", "load", NoRow, t, password)
    /\ UNCHANGED <<clock, rows, processes, mails, changes>>

\* request.user is loaded by the authentication of the request.
StartOwn(s, password) ==
    /\ user # NoRow
    /\ Start(s, "own", "load", user, NoKey, password)
    /\ UNCHANGED <<clock, rows, processes, mails, changes>>

\* The right of the other user to do so is part of UserAccounts.
StartOther(s, password) ==
    /\ user # NoRow
    /\ Start(s, "other", "load", NoRow, NoKey, password)
    /\ UNCHANGED <<clock, rows, processes, mails, changes>>

\* The new password must not be the one of target; whether that matters is
\* asked of row, the row that is saved.
Unchanged(row, target, password) ==
    (HasExpired(row) \/ ~allowReuse) /\ target.password = password

\* target_user; one's own password is compared with this row, but it is
\* request.user, loaded before, that is saved.
LoadTarget(s) ==
    LET row == IF slot[s].flow = "own" THEN slot[s].row ELSE user IN
    /\ slot[s].pc = "load" /\ slot[s].flow \in {"token", "own", "other"}
    /\ CASE slot[s].flow = "token" -> Load(s, "exists", user)
         [] slot[s].flow # "token" /\ Unchanged(row, user, slot[s].password) -> End(s)
         [] OTHER -> Load(s, "save", row)
    /\ UNCHANGED <<clock, requests, rows, processes, mails, changes>>

TokenExists(s) ==
    /\ At(s, "token", "exists")
    /\ IF tokens[slot[s].key] = "live" THEN Goto(s, "fetch") ELSE End(s)
    /\ UNCHANGED <<clock, requests, rows, processes, mails, changes>>

\* Request t has fetched the token k, and has not deleted it yet.
Holds(t, k) ==
    slot[t].flow = "token" /\ slot[t].pc \in {"save", "delete"} /\ slot[t].key = k

FetchToken(s) ==
    LET k == slot[s].key
        refused == \/ tokens[k] # "live"    \* None.user
                   \/ now >= expiry[k]
                   \/ Unchanged(slot[s].row, slot[s].row, slot[s].password) IN
    /\ At(s, "token", "fetch")
    /\ tokens' = IF tokens[k] = "live" /\ now >= expiry[k]
                   THEN [tokens EXCEPT ![k] = "deleted"] ELSE tokens
    /\ IF refused
         THEN End(s) /\ UNCHANGED crossed
         ELSE /\ Goto(s, "save")
              /\ crossed' = IF \E t \in Others(s) : Holds(t, k)
                              THEN [crossed EXCEPT ![k] = @ + 1] ELSE crossed
    /\ UNCHANGED <<clock, requests, user, confirmation, expiry, processes, mails,
                   uses, chosen, covered>>

\* Faulty variant: update_fields has the date and not the password.
SaveDateOnly(s) ==
    LET k == slot[s].key IN
    /\ slot[s].pc = "save" /\ slot[s].flow \in {"token", "own", "other"}
    /\ StoreUser(s, [password |-> user.password, modified |-> now])
    /\ chosen' = slot[s].password
    /\ IF slot[s].flow = "token"
         THEN Goto(s, "delete") /\ uses' = [uses EXCEPT ![k] = @ + 1]
         ELSE End(s) /\ UNCHANGED uses
    /\ UNCHANGED <<clock, requests, confirmation, tokens, expiry, processes, mails, crossed>>

SaveChange(s) ==
    LET row == [password |-> slot[s].password, modified |-> now]  k == slot[s].key IN
    /\ slot[s].pc = "save" /\ slot[s].flow \in {"token", "own", "other"}
    /\ StoreUser(s, row)
    /\ chosen' = slot[s].password
    /\ IF slot[s].flow = "token"
         THEN Goto(s, "delete") /\ uses' = [uses EXCEPT ![k] = @ + 1]
         ELSE End(s) /\ UNCHANGED uses
    /\ UNCHANGED <<clock, requests, confirmation, tokens, expiry, processes, mails, crossed>>

\* Faulty variant: the token is left to its expiry.
KeepToken(s) ==
    /\ At(s, "token", "delete")
    /\ End(s)
    /\ UNCHANGED <<clock, requests, rows, processes, mails, changes>>

DeleteToken(s) ==
    /\ At(s, "token", "delete")
    /\ tokens' = [tokens EXCEPT ![slot[s].key] = "deleted"]
    /\ End(s)
    /\ UNCHANGED <<clock, requests, user, confirmation, expiry, processes, mails, changes>>
-----------------------------------------------------------------------------
\* LoginApiView.post, from authenticate(): an expired password is answered
\* with a new token.
StartLogin(s) ==
    /\ user # NoRow
    /\ mustConfirm => confirmation # NoRow /\ confirmation.confirmed
    /\ HasExpired(user)
    /\ Start(s, "login", "expired", user, NoKey, Unset)
    /\ UNCHANGED <<clock, rows, processes, mails, changes>>

AnswerExpired(s, t) ==
    /\ At(s, "login", "expired")
    /\ CreateToken(t, ResetLife)
    /\ told' = told \cup {t}
    /\ End(s)
    /\ UNCHANGED <<clock, requests, user, confirmation, processes, linked, clicked, failed, changes>>

\* A save of the row for another reason, AccountMeApiView for one, and the
\* command reset_password, which leaves the date of the password.
StartSave(s, flow) ==
    /\ user # NoRow
    /\ Start(s, flow, "save", user, NoKey, IF flow = "command" THEN Mailed ELSE Unset)
    /\ UNCHANGED <<clock, rows, processes, mails, changes>>

SaveProfile(s) ==
    /\ At(s, "profile", "save")
    /\ StoreUser(s, slot[s].row)
    /\ End(s)
    /\ UNCHANGED <<clock, requests, confirmation, tokens, expiry, processes, mails,
                   uses, crossed, chosen>>

SaveCommand(s) ==
    /\ At(s, "command", "save")
    /\ StoreUser(s, [password |-> Mailed, modified |-> slot[s].row.modified])
    /\ chosen' = Mailed
    /\ End(s)
    /\ UNCHANGED <<clock, requests, confirmation, tokens, expiry, processes, mails, uses, crossed>>
-----------------------------------------------------------------------------
\* ProcessRegisterApiView.post

StartProcess(s, k) ==
    /\ Start(s, "process", "get", NoRow, k, Unset)
    /\ UNCHANGED <<clock, rows, processes, mails, changes>>

FindProcessToken(s) ==
    /\ At(s, "process", "get")
    /\ IF slot[s].key \in processTokens THEN End(s) ELSE Goto(s, "user")
    /\ UNCHANGED <<clock, requests, rows, processes, mails, changes>>

\* Request s passes while another one has not created its token yet.
Passed(s) ==
    processCrossed' = IF \E t \in Others(s) : At(t, "process", "create")
                        THEN processCrossed + 1 ELSE processCrossed

\* get_or_create: only a user that was there is asked for other tokens.
GetProcessUser(s) ==
    /\ At(s, "process", "user")
    /\ processUser' = TRUE
    /\ IF processUser THEN Goto(s, "check") /\ UNCHANGED processCrossed
                      ELSE Goto(s, "create") /\ Passed(s)
    /\ UNCHANGED <<clock, requests, rows, processTokens, mails, changes>>

\* Faulty variant: the tokens of the user are not looked at.
CheckNothing(s) ==
    /\ At(s, "process", "check")
    /\ Goto(s, "create") /\ Passed(s)
    /\ UNCHANGED <<clock, requests, rows, processUser, processTokens, mails, changes>>

CheckProcessTokens(s) ==
    /\ At(s, "process", "check")
    /\ IF processTokens \ {slot[s].key} # {}
         THEN End(s) /\ UNCHANGED processCrossed
         ELSE Goto(s, "create") /\ Passed(s)
    /\ UNCHANGED <<clock, requests, rows, processUser, processTokens, mails, changes>>

\* A key that is there already is refused by the database.
CreateProcessToken(s) ==
    /\ At(s, "process", "create")
    /\ processTokens' = processTokens \cup {slot[s].key}
    /\ End(s)
    /\ UNCHANGED <<clock, requests, rows, processUser, processCrossed, mails, changes>>
-----------------------------------------------------------------------------
\* The process of a request ends, or an exception ends it.
Abort(s) ==
    /\ slot[s] # Idle /\ requests < MaxRequests
    /\ requests' = requests + 1
    /\ failed' = (failed \/ (slot[s].flow = "register" /\ slot[s].pc \notin {"get", "create"}))
    /\ crossed' = IF At(s, "token", "delete")
                    THEN [crossed EXCEPT ![slot[s].key] = @ + 1] ELSE crossed
    /\ End(s)
    /\ UNCHANGED <<clock, rows, processes, told, linked, clicked, uses, chosen, covered>>

Tick ==
    /\ now < MaxTime
    /\ now' = now + 1
    /\ UNCHANGED <<allowReuse, mustConfirm, requests, rows, processes, slot, mails, changes>>

Begin(s) ==
    \/ \E p \in Secrets \cup {Generated} : StartRegister(s, p)
    \/ StartAdmin(s) \/ StartConfirm(s) \/ StartReset(s) \/ StartLogin(s)
    \/ \E p \in Secrets : StartOwn(s, p) \/ StartOther(s, p)
                          \/ \E t \in Tokens : StartChange(s, t, p)
    \/ \E flow \in {"profile", "command"} : StartSave(s, flow)
    \/ \E k \in ProcessKeys : StartProcess(s, k)

RegisterStep(s) ==
    \/ RegisterGet(s) \/ RegisterCreate(s) \/ RegisterPassword(s)
    \/ \E t \in Tokens : RegisterToken(s, t)
    \/ RegisterMail(s) \/ GetConfirmation(s) \/ SendLink(s) \/ SaveSent(s)
    \/ LoadConfirmation(s) \/ Confirm(s)

ChangeStep(s) ==
    \/ \E t \in Tokens : ResetToken(s, t) \/ AnswerExpired(s, t)
    \/ RefuseFormat(s) \/ MailReset(s)
    \/ LoadTarget(s) \/ TokenExists(s) \/ FetchToken(s) \/ SaveChange(s)
    \/ DeleteToken(s) \/ SaveProfile(s) \/ SaveCommand(s)

ProcessStep(s) ==
    \/ FindProcessToken(s) \/ GetProcessUser(s) \/ CheckProcessTokens(s)
    \/ CreateProcessToken(s)

Next ==
    \/ \E s \in Slots : Begin(s) \/ RegisterStep(s) \/ ChangeStep(s)
                        \/ ProcessStep(s) \/ Abort(s)
    \/ Tick

Spec == Init /\ [][Next]_vars
-----------------------------------------------------------------------------
\* A PasswordChangeToken makes one change, and one more for each request that
\* fetched it while another one had not deleted it yet, or that ended between
\* its save and the delete (views.py 753-797).
TokenChangesOnce == \A t \in Tokens : uses[t] <= 1 + crossed[t]

\* The account has the password that was set last, unless a request has saved
\* a row that it had loaded before another save (views.py 795, 1005, 710).
ChangeHolds == ~covered /\ user # NoRow => user.password = chosen

\* An account registered without a password has its link to set one, unless
\* its registration is running or has failed: a second one does nothing.
RegisteredIsTold ==
    (user # NoRow /\ user.password = Generated /\ ~failed
     /\ \A s \in Slots : slot[s].flow # "register") => told # {}

\* Who has followed the link of the mail stays confirmed, unless send_link was
\* about to save its row (models.py 537).
ConfirmedStays == clicked => confirmation.confirmed

\* A process has one token, and one more for each of its registrations that
\* passed the check while another was about to create its token.
OneTokenPerProcess == Cardinality(processTokens) <= 1 + processCrossed

\* Documentation: whoever registers where e-mails must be confirmed gets a
\* mail whose link confirms the address (docs/authentication.md 85).
MailConfirms == confirmation # NoRow /\ confirmation.sent => linked
=============================================================================
