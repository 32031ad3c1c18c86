----------------------------- MODULE TwoFactor -----------------------------
(***************************************************************************)
(* The second factor of one account: its EmailDevice rows, the temporary   *)
(* tokens that a password login hands out, and the requests that race on   *)
(* them, one database query at a time:                                     *)
(* - the login (LoginApiView), which chooses or creates a device, mails a  *)
(*   code, deletes the other devices and answers with a temporary token;   *)
(* - the verification (TwoFactorLoginView), which checks a code and        *)
(*   exchanges the temporary token for a session;                          *)
(* - the configuration of an authenticator (ConfigureOTPView), the login   *)
(*   form of the administration site, and the API of the devices.          *)
(* A save writes the whole row that a request has loaded, and inserts the  *)
(* row again when it has been deleted in between.                          *)
(*                                                                         *)
(* The unit of time is the step of an authenticator (30 s); the secrets    *)
(* are left out: a code is the device and the step or the window that it   *)
(* was computed for.  totp is a function of those two.                     *)
(***************************************************************************)
EXTENDS Integers, FiniteSets, FiniteSetsExt

CONSTANTS
    Ids,         \* primary keys of the devices, in the order of first()
    Keys,        \* keys of the temporary tokens
    Slots,       \* requests that run at the same time
    Timeout,     \* settings.TWO_FACTOR_CODE_TIMEOUT_SECONDS, in steps
    MaxTime,     \* bound of the model on the clock
    MaxFails,    \* bound of the model on the failures in a row of a device
    MaxRequests, \* bound of the model on the requests that begin
    NoDevice, NoKey, NoRow

ASSUME ConstantsAssumption ==
    /\ Ids \subseteq Nat /\ IsFiniteSet(Ids) /\ NoDevice \notin Ids
    /\ NoKey \notin Keys
    /\ Timeout \in Nat \ {0} /\ MaxTime \in Nat
    /\ MaxFails \in Nat /\ MaxRequests \in Nat /\ IsFiniteSet(Slots)

VARIABLES
    now,
    ruleOn,     \* settings.MFA_RULE_PER_USER, of this user
    devices,    \* devices[d]: the row of EmailDevice, NoRow where there is none
    fresh,      \* the keys that no device has had
    temps,      \* temps[k]: "none", "live" or "expired"
    created,    \* created[k]: creation_date of the temporary token
    slot,       \* slot[s]: what request s runs
    requests,   \* the requests that have begun
    used,       \* history: the codes of each authenticator that were accepted
    twice,      \* history: the devices that have accepted a code again
    stale,      \* history: the devices overwritten by a save of an older row
    logins,     \* history: the sessions that each temporary token has opened
    crossings,  \* history: the verifications that overlap another of their token
    enrolled,   \* history: an authenticator was enrolled while no other request
                \* was choosing or changing a device, and none has been deleted
                \* or overwritten by its user since
    alone,      \* history: the password alone has opened a session meanwhile
    mail        \* history: the last login, if nothing has interfered with it

tables == <<devices, fresh, temps, created>>
history == <<used, twice, stale, logins, crossings, enrolled, alone, mail>>
vars == <<now, ruleOn, tables, slot, requests, history>>

Row == [mode: {"email", "otp"}, confirmed: BOOLEAN, last_t: Int, drift: Int,
        fails: Nat, failedAt: Nat]
ASSUME NoRowAssumption == NoRow \notin Row
NewRow(mode, confirmed) ==
    [mode |-> mode, confirmed |-> confirmed, last_t |-> -1, drift |-> 0,
     fails |-> 0, failedAt |-> 0]

Flows == {"login", "verify", "configure", "admin", "edit"}
Pcs == {"mfa", "otp", "device", "challenge", "others", "answer", "sweep",
        "lookup", "pick", "totp", "confirmed", "check", "expire", "session",
        "code", "enrol", "create", "save"}
Idle == [flow |-> "idle", pc |-> "idle", dev |-> NoDevice, row |-> NoRow,
         key |-> NoKey]
SlotState ==
    {Idle} \cup
    [flow: Flows, pc: Pcs, dev: Ids \cup {NoDevice}, row: Row \cup {NoRow},
     key: Keys \cup {NoKey}]

NoMail == [by |-> NoKey, dev |-> NoDevice, at |-> 0]

TypeOK ==
    /\ now \in Nat /\ ruleOn \in BOOLEAN /\ requests \in Nat
    /\ devices \in [Ids -> Row \cup {NoRow}] /\ fresh \subseteq Ids
    /\ temps \in [Keys -> {"none", "live", "expired"}]
    /\ created \in [Keys -> Nat]
    /\ slot \in [Slots -> SlotState]
    /\ used \in [Ids -> SUBSET Int] /\ twice \subseteq Ids /\ stale \subseteq Ids
    /\ logins \in [Keys -> Nat] /\ crossings \in [Keys -> Nat]
    /\ enrolled \in BOOLEAN /\ alone \in BOOLEAN
    /\ mail \in [by: Keys \cup {NoKey}, dev: Ids \cup {NoDevice}, at: Nat]

Init ==
    /\ now = 0 /\ ruleOn \in BOOLEAN /\ requests = 0
    /\ devices = [d \in Ids |-> NoRow] /\ fresh = Ids
    /\ temps = [k \in Keys |-> "none"] /\ created = [k \in Keys |-> 0]
    /\ slot = [s \in Slots |-> Idle]
    /\ used = [d \in Ids |-> {}] /\ twice = {} /\ stale = {}
    /\ logins = [k \in Keys |-> 0] /\ crossings = [k \in Keys |-> 0]
    /\ enrolled = FALSE /\ alone = FALSE /\ mail = NoMail
-----------------------------------------------------------------------------
\* The queries on the devices.

Confirmed == {d \in Ids : devices[d] # NoRow /\ devices[d].confirmed}
Otp == {d \in Confirmed : devices[d].mode = "otp"}
ByEmail == {d \in Confirmed : devices[d].mode = "email"}

\* queryset.first(): by primary key
First(ids) == Min(ids)

IsMfaEnabled == ruleOn \/ Otp # {}

CreateDevice(d, row) ==
    /\ d \in fresh
    /\ devices' = [devices EXCEPT ![d] = row]
    /\ fresh' = fresh \ {d}

\* device.save() in request s: the row may have changed since it was loaded.
SaveRow(s, row) ==
    /\ devices' = [devices EXCEPT ![slot[s].dev] = row]
    /\ stale' = IF devices[slot[s].dev] = slot[s].row
                  THEN stale ELSE stale \cup {slot[s].dev}
    /\ enrolled' = (enrolled /\ slot[s].dev \in Otp)
    /\ UNCHANGED fresh

-----------------------------------------------------------------------------
\* The slots, and what most steps leave alone.

Others(s) == Slots \ {s}

Start(s, flow, pc, k) ==
    /\ slot[s] = Idle /\ requests < MaxRequests
    /\ requests' = requests + 1
    /\ slot' = [slot EXCEPT ![s] = [flow |-> flow, pc |-> pc, dev |-> NoDevice,
                                    row |-> NoRow, key |-> k]]
At(s, flow, pc) == slot[s].flow = flow /\ slot[s].pc = pc
Goto(s, pc) == slot' = [slot EXCEPT ![s] =
    [flow |-> @.flow, pc |-> pc, dev |-> @.dev, row |-> @.row, key |-> @.key]]
Load(s, pc, d, row) == slot' = [slot EXCEPT ![s] =
    [flow |-> @.flow, pc |-> pc, dev |-> d, row |-> row, key |-> @.key]]
End(s) == slot' = [slot EXCEPT ![s] = Idle]

clock == <<now, ruleOn>>
rows == <<devices, fresh, enrolled>>
tokens == <<temps, created>>
codes == <<used, twice, stale>>
counts == <<logins, crossings, alone>>

\* Request t has looked for the device to keep, or is changing one.
Choosing(t) ==
    \/ slot[t].flow \in {"login", "admin"}
       /\ slot[t].pc \in {"device", "challenge", "others"}
    \/ slot[t].flow = "edit"

\* A request that may change the devices begins.
Interfere == mail' = NoMail
-----------------------------------------------------------------------------
\* LoginApiView.post, from the moment when the password has been checked.

\* k is the key that the temporary token will draw.
StartLogin(s, k) ==
    /\ temps[k] = "none" /\ \A t \in Slots : slot[t].key # k
    /\ Start(s, "login", "mfa", k)
    /\ mail' = IF \A t \in Others(s) : slot[t] = Idle
                 THEN [by |-> k, dev |-> NoDevice, at |-> now] ELSE NoMail
    /\ UNCHANGED <<clock, rows, tokens, codes, counts>>

CheckMfa(s) ==
    /\ At(s, "login", "mfa")
    /\ Goto(s, IF IsMfaEnabled THEN "otp" ELSE "answer")
    /\ UNCHANGED <<clock, rows, tokens, requests, codes, counts, mail>>

\* user.totp_device, in the login and in the form of the administration site
FindOtp(s) ==
    /\ slot[s].flow \in {"login", "admin"} /\ slot[s].pc = "otp"
    /\ IF Otp # {} THEN Load(s, "others", First(Otp), devices[First(Otp)])
                   ELSE Goto(s, "device")
    /\ UNCHANGED <<clock, rows, tokens, requests, codes, counts, mail>>

\* The first confirmed device, or a new one.
FindConfirmed(s, d) ==
    LET pc == IF slot[s].flow = "login" THEN "challenge" ELSE "others" IN
    /\ slot[s].flow \in {"login", "admin"} /\ slot[s].pc = "device"
    /\ IF Confirmed # {}
         THEN /\ Load(s, pc, First(Confirmed), devices[First(Confirmed)])
              /\ UNCHANGED rows
         ELSE /\ CreateDevice(d, NewRow("email", TRUE))
              /\ Load(s, pc, d, NewRow("email", TRUE))
              /\ UNCHANGED enrolled
    /\ UNCHANGED <<clock, tokens, requests, codes, counts, mail>>

\* generate_challenge: the code of the current window goes out by mail.
Challenge(s) ==
    /\ At(s, "login", "challenge")
    /\ Goto(s, "others")
    /\ mail' = IF mail.by = slot[s].key
                 THEN [by |-> mail.by, dev |-> slot[s].dev, at |-> now] ELSE mail
    /\ UNCHANGED <<clock, rows, tokens, requests, codes, counts>>

DeleteOthers(s) ==
    /\ slot[s].flow \in {"login", "admin"} /\ slot[s].pc = "others"
    /\ devices' = [d \in Ids |-> IF d = slot[s].dev THEN devices[d] ELSE NoRow]
    /\ Goto(s, IF slot[s].flow = "login" THEN "answer" ELSE "code")
    /\ UNCHANGED <<clock, fresh, enrolled, tokens, requests, codes, counts, mail>>

\* Faulty variant: the token is stamped with the limit of the sweep.
AnswerStampedOld(s) ==
    /\ At(s, "login", "answer")
    /\ IF IsMfaEnabled
         THEN /\ temps' = [temps EXCEPT ![slot[s].key] = "live"]
              /\ created' = [created EXCEPT ![slot[s].key] = now - Timeout]
              /\ UNCHANGED alone
         ELSE alone' = (alone \/ enrolled) /\ UNCHANGED tokens
    /\ End(s)
    /\ UNCHANGED <<clock, rows, requests, codes, logins, crossings, mail>>

\* Faulty variant: the answer follows what CheckMfa has found.
AnswerAsFound(s) ==
    /\ At(s, "login", "answer")
    /\ IF slot[s].dev # NoDevice
         THEN /\ temps' = [temps EXCEPT ![slot[s].key] = "live"]
              /\ created' = [created EXCEPT ![slot[s].key] = now]
              /\ UNCHANGED alone
         ELSE alone' = (alone \/ enrolled) /\ UNCHANGED tokens
    /\ End(s)
    /\ UNCHANGED <<clock, rows, requests, codes, logins, crossings, mail>>

\* UserSerializer.get_token asks again whether there is a second factor.
Answer(s) ==
    /\ At(s, "login", "answer")
    /\ IF IsMfaEnabled
         THEN /\ temps' = [temps EXCEPT ![slot[s].key] = "live"]
              /\ created' = [created EXCEPT ![slot[s].key] = now]
              /\ UNCHANGED alone
         ELSE alone' = (alone \/ enrolled) /\ UNCHANGED tokens
    /\ End(s)
    /\ UNCHANGED <<clock, rows, requests, codes, logins, crossings, mail>>
-----------------------------------------------------------------------------
\* TwoFactorLoginView.post

StartVerify(s, k) ==
    /\ temps[k] # "none"
    /\ Start(s, "verify", "sweep", k)
    /\ UNCHANGED <<clock, rows, tokens, codes, counts, mail>>

ExpireTemporaryTokens(s) ==
    /\ At(s, "verify", "sweep")
    /\ temps' = [k \in Keys |-> IF temps[k] = "live" /\ created[k] <= now - Timeout
                                  THEN "expired" ELSE temps[k]]
    /\ Goto(s, "lookup")
    /\ UNCHANGED <<clock, rows, created, requests, codes, counts, mail>>

\* Request t has found the token unexpired, and has not marked it yet.
Holds(t, k) ==
    /\ slot[t].flow = "verify" /\ slot[t].key = k
    /\ slot[t].pc \in {"pick", "totp", "confirmed", "check", "expire"}

Lookup(s) ==
    /\ At(s, "verify", "lookup")
    /\ IF temps[slot[s].key] = "live"
         THEN /\ Goto(s, "pick")
              /\ crossings' = IF \E t \in Others(s) : Holds(t, slot[s].key)
                   THEN [crossings EXCEPT ![slot[s].key] = @ + 1] ELSE crossings
         ELSE End(s) /\ UNCHANGED crossings
    /\ UNCHANGED <<clock, rows, tokens, requests, codes, logins, alone, mail>>

\* The property totp_device is evaluated twice.
PickMode(s) ==
    /\ At(s, "verify", "pick")
    /\ Goto(s, IF Otp # {} THEN "totp" ELSE "confirmed")
    /\ UNCHANGED <<clock, rows, tokens, requests, codes, counts, mail>>

PickDevice(s) ==
    LET found == IF slot[s].pc = "totp" THEN Otp ELSE Confirmed IN
    /\ slot[s].flow = "verify" /\ slot[s].pc \in {"totp", "confirmed"}
    /\ IF found # {} THEN Load(s, "check", First(found), devices[First(found)])
                     ELSE End(s)    \* None.verify_token
    /\ UNCHANGED <<clock, rows, tokens, requests, codes, counts, mail>>

\* _verify_email_token: the code of window w is of this window or the last.
Windows == {now \div Timeout, now \div Timeout - 1}
\* Faulty variant: drift is 0 only.
ThisWindowOnly(w) == w = now \div Timeout

EmailAccepts(w) == w \in Windows

CheckEmail(s, w) ==
    /\ At(s, "verify", "check") /\ slot[s].row.mode = "email"
    /\ IF EmailAccepts(w) THEN Goto(s, "expire") ELSE End(s)
    /\ UNCHANGED <<clock, rows, tokens, requests, codes, counts, mail>>

\* _verify_otp_token for the code of step k, in the verification and in the
\* form of the administration site.  OTP_TOTP_TOLERANCE is 1.
\* Faulty variant: the code of the step last_t itself is accepted.
AcceptsLastStep(row, k) == k >= row.last_t /\ k - (now + row.drift) \in -1 .. 1

OtpAccepts(row, k) == k >= row.last_t + 1 /\ k - (now + row.drift) \in -1 .. 1

\* The delays of ThrottlingMixin are shorter than a step after few failures.
MayThrottle(row) == row.fails > 0 /\ row.failedAt = now

ChecksOtp(s) ==
    /\ At(s, "verify", "check") \/ At(s, "admin", "code")
    /\ slot[s].row.mode = "otp"

Throttled(s) ==
    /\ ChecksOtp(s) /\ MayThrottle(slot[s].row)
    /\ End(s)
    /\ UNCHANGED <<clock, rows, tokens, requests, codes, counts, mail>>

AcceptOtp(s, k) ==
    LET d == slot[s].dev  row == slot[s].row IN
    /\ ChecksOtp(s) /\ OtpAccepts(row, k)
    /\ SaveRow(s, [mode |-> row.mode, confirmed |-> row.confirmed, last_t |-> k,
                   drift |-> k - now, fails |-> 0, failedAt |-> 0])
    /\ used' = [used EXCEPT ![d] = @ \cup {k}]
    /\ twice' = IF k \in used[d] THEN twice \cup {d} ELSE twice
    /\ IF slot[s].flow = "verify" THEN Goto(s, "expire") ELSE End(s)
    /\ UNCHANGED <<clock, tokens, requests, counts, mail>>

RefuseOtp(s, k) ==
    LET row == slot[s].row IN
    /\ ChecksOtp(s) /\ ~OtpAccepts(row, k) /\ row.fails < MaxFails
    /\ SaveRow(s, [mode |-> row.mode, confirmed |-> row.confirmed,
                   last_t |-> row.last_t, drift |-> row.drift,
                   fails |-> row.fails + 1, failedAt |-> now])
    /\ End(s)
    /\ UNCHANGED <<clock, tokens, requests, used, twice, counts, mail>>

\* Faulty variant: the temporary token is not saved.
ForgetToExpire(s) ==
    /\ At(s, "verify", "expire")
    /\ Goto(s, "session")
    /\ UNCHANGED <<clock, rows, tokens, requests, codes, counts, mail>>

\* "Expire the token to use it only once"
ExpireToken(s) ==
    /\ At(s, "verify", "expire")
    /\ temps' = [temps EXCEPT ![slot[s].key] = "expired"]
    /\ Goto(s, "session")
    /\ UNCHANGED <<clock, rows, created, requests, codes, counts, mail>>

OpenSession(s) ==
    /\ At(s, "verify", "session")
    /\ logins' = [logins EXCEPT ![slot[s].key] = @ + 1]
    /\ End(s)
    /\ UNCHANGED <<clock, rows, tokens, requests, codes, crossings, alone, mail>>
-----------------------------------------------------------------------------
\* ConfigureOTPView, the administration form and the API of the devices.

StartConfigure(s) ==
    /\ Start(s, "configure", "otp", NoKey)
    /\ Interfere
    /\ UNCHANGED <<clock, rows, tokens, codes, counts>>

RefuseConfigured(s) ==
    /\ At(s, "configure", "otp")
    /\ IF Otp # {} THEN End(s) ELSE Goto(s, "device")
    /\ UNCHANGED <<clock, rows, tokens, requests, codes, counts, mail>>

ChooseEmailDevice(s, d) ==
    /\ At(s, "configure", "device")
    /\ IF ByEmail # {}
         THEN /\ Load(s, "code", First(ByEmail), devices[First(ByEmail)])
              /\ UNCHANGED rows
         ELSE /\ CreateDevice(d, NewRow("email", TRUE))
              /\ Load(s, "code", d, NewRow("email", TRUE))
              /\ UNCHANGED enrolled
    /\ UNCHANGED <<clock, tokens, requests, codes, counts, mail>>

CheckConfigureCode(s, w) ==
    /\ At(s, "configure", "code")
    /\ IF EmailAccepts(w) THEN Goto(s, "enrol") ELSE End(s)
    /\ UNCHANGED <<clock, rows, tokens, requests, codes, counts, mail>>

\* get_or_create(mfa_mode=MFA_OTP, confirmed=True): the get, then the create.
GetOtp(s) ==
    /\ At(s, "configure", "enrol")
    /\ IF Otp # {} THEN End(s) ELSE Goto(s, "create")
    /\ UNCHANGED <<clock, rows, tokens, requests, codes, counts, mail>>

CreateOtp(s, d) ==
    /\ At(s, "configure", "create")
    /\ CreateDevice(d, NewRow("otp", TRUE))
    /\ enrolled' = \A t \in Others(s) : ~Choosing(t)
    /\ End(s)
    /\ UNCHANGED <<clock, tokens, requests, codes, counts, mail>>

StartAdmin(s) ==
    /\ Start(s, "admin", "otp", NoKey)
    /\ Interfere
    /\ UNCHANGED <<clock, rows, tokens, codes, counts>>

\* No code was given, and a challenge is the answer; or the code of a mail.
\* The same answer ends a configuration without a code.
EndWithChallenge(s) ==
    /\ slot[s].flow \in {"admin", "configure"} /\ slot[s].pc = "code"
    /\ End(s)
    /\ UNCHANGED <<clock, rows, tokens, requests, codes, counts, mail>>

\* EmailDeviceAuthView: name, email and confirmed can be written.
LoadForEdit(s, d) ==
    /\ requests < MaxRequests /\ devices[d] # NoRow /\ slot[s] = Idle
    /\ slot' = [slot EXCEPT ![s] = [flow |-> "edit", pc |-> "save", dev |-> d,
                                    row |-> devices[d], key |-> NoKey]]
    /\ requests' = requests + 1
    /\ enrolled' = FALSE
    /\ Interfere
    /\ UNCHANGED <<clock, devices, fresh, tokens, codes, counts>>

SaveEdit(s, confirmed) ==
    LET row == slot[s].row IN
    /\ At(s, "edit", "save")
    /\ SaveRow(s, [mode |-> row.mode, confirmed |-> confirmed,
                   last_t |-> row.last_t, drift |-> row.drift,
                   fails |-> row.fails, failedAt |-> row.failedAt])
    /\ End(s)
    /\ UNCHANGED <<clock, tokens, requests, used, twice, counts, mail>>

AddDevice(d, confirmed) ==
    /\ requests < MaxRequests /\ CreateDevice(d, NewRow("email", confirmed))
    /\ requests' = requests + 1
    /\ Interfere
    /\ UNCHANGED <<clock, enrolled, tokens, slot, codes, counts>>

DeleteDevice(d) ==
    /\ requests < MaxRequests /\ devices[d] # NoRow
    /\ devices' = [devices EXCEPT ![d] = NoRow]
    /\ enrolled' = (enrolled /\ d \notin Otp)
    /\ requests' = requests + 1
    /\ Interfere
    /\ UNCHANGED <<clock, fresh, tokens, slot, codes, counts>>

Tick ==
    /\ now < MaxTime
    /\ now' = now + 1
    /\ UNCHANGED <<ruleOn, rows, tokens, slot, requests, codes, counts, mail>>
-----------------------------------------------------------------------------
\* The codes that a user can give: the steps of an authenticator whose clock
\* is at most two steps away, and the windows up to now.
CodeSteps == (now - 2) .. (now + 2)
CodeWindows == 0 .. (now \div Timeout)

LoginStep(s) ==
    \/ CheckMfa(s) \/ FindOtp(s) \/ \E d \in Ids : FindConfirmed(s, d)
    \/ Challenge(s) \/ DeleteOthers(s) \/ Answer(s)

VerifyStep(s) ==
    \/ ExpireTemporaryTokens(s) \/ Lookup(s) \/ PickMode(s) \/ PickDevice(s)
    \/ \E w \in CodeWindows : CheckEmail(s, w)
    \/ Throttled(s) \/ \E k \in CodeSteps : AcceptOtp(s, k) \/ RefuseOtp(s, k)
    \/ ExpireToken(s) \/ OpenSession(s)

ConfigureStep(s) ==
    \/ RefuseConfigured(s) \/ GetOtp(s) \/ EndWithChallenge(s)
    \/ \E d \in Ids : ChooseEmailDevice(s, d) \/ CreateOtp(s, d)
    \/ \E w \in CodeWindows : CheckConfigureCode(s, w)
    \/ \E confirmed \in BOOLEAN : SaveEdit(s, confirmed)

Begin(s) ==
    \/ \E k \in Keys : StartLogin(s, k) \/ StartVerify(s, k)
    \/ StartConfigure(s) \/ StartAdmin(s) \/ \E d \in Ids : LoadForEdit(s, d)

Next ==
    \/ \E s \in Slots : Begin(s) \/ LoginStep(s) \/ VerifyStep(s) \/ ConfigureStep(s)
    \/ \E d \in Ids : DeleteDevice(d) \/ \E confirmed \in BOOLEAN : AddDevice(d, confirmed)
    \/ Tick

Spec == Init /\ [][Next]_vars
-----------------------------------------------------------------------------
\* An authenticator that was enrolled while no other request was choosing a
\* device stays one of the account until its user deletes or edits a device, or
\* a stale save brings one back: no login and no form of the administration
\* site deletes it with the "other" devices (views.py 597, admin_form.py 112),
\* and no login, not even one that had found no second factor before, opens a
\* session by the password alone (get_token evaluates is_mfa_enabled again).
AuthenticatorStays == (enrolled => Otp # {}) /\ ~alone

\* An authenticator accepts the code of a step once (last_t), unless a request
\* saves a row that it had loaded before another save (models.py 270).
OneUsePerCode == twice \subseteq stale

\* A temporary token opens one session, and one more for each verification
\* that found it while another one had not marked it yet (v1_1/views.py 393).
OneSessionPerToken == \A k \in Keys : logins[k] <= 1 + crossings[k]

\* The code that the last login mailed can be used with its temporary token
\* for TWO_FACTOR_CODE_TIMEOUT_SECONDS, as its text says, unless another
\* request has begun to choose, change or delete a device of the account.
LoginCodeWorks ==
    (mail.dev # NoDevice /\ temps[mail.by] # "none" /\ now < mail.at + Timeout)
    => /\ Otp = {} /\ Confirmed # {} /\ First(Confirmed) = mail.dev
       /\ EmailAccepts(mail.at \div Timeout)
       /\ \/ temps[mail.by] = "live" \/ logins[mail.by] > 0
          \/ \E s \in Slots : At(s, "verify", "session") /\ slot[s].key = mail.by
=============================================================================
