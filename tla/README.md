# Concrete Datastore: a TLA+ verification project

Concrete Datastore is a Django REST service whose models are generated from a
datamodel file. This directory holds TLA+ models of its stateful protocols, the
TLC configurations that check them on small instances, and TLAPS proofs of the
properties that matter most. Paths below are under `src/concrete_datastore/`
unless they say otherwise.

The service has no transaction around a request (`ATOMIC_REQUESTS` is not set
and no view opens one). Every view is a sequence of queries, each its own
transaction; what a request has loaded is a copy that may be stale when it is
used or saved. Several worker processes, and the Celery workers, run such
sequences at once. The models therefore have one action per query (or per group
of queries that nothing can tell apart), and the requests are slots whose
program counter says which query comes next.

## Inventory

| Component | State | Operations | What makes it correct |
|---|---|---|---|
| **Authentication tokens** `api/v1/authentication.py`, `api/v1/serializers.py` (UserSerializer), `api/v1/views.py` (LoginApiView, SecureLogin*, ApiModelViewSet.dispatch) | the AuthToken table (`expired`, `expiration_date`, `last_action_date`), `User.is_active` | login: close rivals, sweep, select or create, count, recount, prune; API call: load, check, touch; block, unblock | sessions are capped, a closed session stays closed, a login answers a usable token |
| **Secure connect** `concrete/models.py` (SecureConnectModelMixin), the Retrieve, Generate and SecureLogin views | SecureConnectToken and SecureConnectCode tables (`expired`, `expiry_date`) | hand out an instance unless the maximum is reached, mark the overdue, log in with one | the maximum is nearly kept, an expired instance never logs in |
| **Incremental lists** `api/v1/views.py` (PaginatedViewSet), `concrete/automation/signal_processor.py` (on_pre_delete), DeletedModel | model tables with `modification_date`, DeletedModel, the client's copy and `timestamp_end` | list by `timestamp_start`/`timestamp_end`, page by page; create, update, delete; a change of visibility | the client ends up with what the server lists |
| **User accounts** ApiModelViewSet on users, AccountMe, ChangePassword, UnBlockUsers, UserAccessPermission, on_post_save | the level (four Booleans of one row), scopes, groups | update, block, leave a scope, account/me, password changes, unblock | no unauthorised promotion, scopes spread only from those who have them, a blocked user is stripped |
| **Object permissions** `api/v1/permissions.py`, `get_queryset` | roles, minimum levels, scopes, `can_view_*`, `can_admin_*` | retrieve, list, create, update, delete of an object | who sees and changes what |
| **Two factor login** `api/v1_1/views.py` (TwoFactorLoginView, EmailDeviceAuthView), `routes/views.py` (ConfigureOTPView), `admin/admin_form.py`, EmailDevice, TemporaryToken | device rows (`mfa_mode`, `confirmed`, `last_t`, failures), temporary tokens and their age | login, verify, enrol an authenticator, log in to the administration site, edit devices | a code is used once and while it is valid, a temporary token opens one session, no login deletes an authenticator or passes it by |
| **Registration and passwords** Register, ResetPassword, ChangePassword, ProcessRegister, `concrete/views.py` | the user row (password, `password_modification_date`), PasswordChangeToken, UserConfirmation, the tokens of a process | register, confirm, reset, change (with a token, one's own, another's), expire, register a process | a change token works once and until its date, a change holds, a confirmation holds |
| **E-mail delivery** `concrete/automation/tasks.py`, `api/v1/signals.py` | Email rows (`resource_status`), the Celery queue | create, edit, delete, send, retry, record | an e-mail that waits is settled, says `sent` only if it went out, and goes out again only for a reason |
| **Filters, ordering, pages** `api/v1/filters.py`, `api/v1/pagination.py`, the lists and statistics of `api/v1/views.py` | `filterset_fields` of the view, the queryset | seventeen filter backends in a row, then pages or statistics | the rows asked for, each once |
| **Data model parsing** `parsers/` | names and reverses seen so far | check a file model by model, field by field | it refuses the files that do not agree with themselves, and no others |
| **Model maker** `concrete/models.py` (make_django_model), `concrete/meta.py` | the arguments of the fields, completed in place | make the columns; decide what a creation may leave out | what may be left out can be stored |
| **Administration site, routing, commands** | none of their own | the login form and the enrolment of an authenticator, `reset_password`, `init_app` | those that change shared rows are actions of the modules above |
| **Interfaces, settings, OAuth2 helpers** | none | OpenAPI and CSV output, constants, glue | not modelled |

The components meet in few places. A login (password, secure connect or two
factor) ends in `UserSerializer`, which issues the AuthToken. Every
authenticated call goes through `TokenExpiryAuthentication`, which reads the
user's level once, expires the token, and marks the overdue secure connect
instances. Blocking a user clears `is_active`, which authentication reads, and
sends the `post_save` signal that strips scopes and groups. Object permissions
read levels and scopes; the incremental list shows what they let through, and the
filters work on the rows that they leave. Registration, reset, two factor login and
secure connect create Email rows, which `EmailDelivery` takes from there.

What is hard here is not in one function but between two queries: a row checked
and then written whole; a count and then a create; a date taken in Python and
committed later; a signal that runs after the row it is about was saved. The
`hazards` of `PROJECT.json` list these at their lines.

## Modules

| Module | Models | Abstraction |
|---|---|---|
| `AuthTokens` | the AuthToken table under logins and API calls | a key is drawn once; one clock in minutes |
| `AuthTokensProofs` | its theorems | |
| `SecureConnect` | one of the two tables for one user | the two tables never meet, so one is taken at a time; `url` and `mail_sent` are left out, their whole-row saves are not |
| `SecureConnectProofs` | its theorems | |
| `IncrementalSync` | one model, one refreshing client, any number of writers | creation order is commit order; the count and the slice of a page are one query, and so are the two queries of `deleted_uids`; the record of a deletion and the deletion are one step, as they are one transaction of Django's `Collector.delete` |
| `IncrementalSyncProofs` | its theorems | |
| `UserAccounts` | users, their levels, scopes, groups, and the requests about them | the reads of one permission check are one step; the four flags, always set together, are one level; one user per unblock request; the data model's minimum levels for users are taken as not above manager |
| `UserAccountsProofs` | its theorems | |
| `Permissions` | objects, their rows and lists, under creation, update, deletion, and the requests that take scopes away | the reads of one `get_object` are one step; a list is written or cleared in one step; of the fields only `public`, owner, scope and the lists; roles and minimum levels are constants; reads change nothing and are not actions |
| `PermissionsProofs` | its theorems, and those of `DataModel` and `Queries` | |
| `TwoFactor` | the devices and temporary tokens of one account | secrets are left out: a code is a device and the step or window it was computed for; a unit of time is one step of an authenticator; the failures of a device are bounded |
| `TwoFactorProofs` | its theorems | |
| `Passwords` | one address, its user row, its tokens and confirmation, and one process that registers itself | the row is its password and its date; who may change whose password is in `UserAccounts`; the rules of `concrete/password.py` are left out |
| `PasswordsProofs` | its theorems | |
| `Outbox` | what a row of Email promises: handed over only if asked, `sent` only if handed over | abstract: no requests, workers or queue |
| `EmailDelivery` | the requests that save mails and the workers that send them; implements `Outbox` | a mail is its status and whether it can be sent at all; the queue has no order |
| `EmailDeliveryProofs` | its theorems | |
| `DataModel` | the start of the server: the parser, then the model maker | a reference is a uid and a name; of the attributes only `allow_empty`, `default` (none, empty or a value, which is an address or not) and `protocol`; what Django itself refuses of a model is left out |
| `Queries` | requests for lists and statistics on the first model of an accepted file; EXTENDS `DataModel` | a text is the set of its letters, a point its distance, a JSON value a set of pairs, a date a number of ticks; the rows do not change |
| `MC*` | symmetry, the initial data and the inputs of TLC's instances | |

In `AuthTokens` a login is a slot that goes through `delete`, `sweep`,
`select`/`create`, `count`, `recount`, `prune` and `answered`, the lines of
LoginApiView.post and of UserSerializer in their order; the direct logins
(secure token, secure code) begin at `select`/`create`. A call goes through
`loaded` and `touch`, and its row is the copy that the code decides with. `CutShort` ends
a login at any query, as an exception or the end of its worker does; `left` and `since`
count the sessions that this leaves above the cap, until another login has counted
and closed the excess. The
settings (`USE_MULTIPLE_TOKENS`, `ALLOW_MULTIPLE_AUTH_TOKEN_SESSION`,
`SESSIONS_NUMBER_CONTROL_ENABLED`, ...) are CONSTANTS.

In `SecureConnect` a request loads the unmarked instances into `loaded`, looks at
them one by one, and counts `loaded`: `count()` on a queryset that was iterated
is answered from its cache. Every `save()` writes the row that the request holds.

In `IncrementalSync` the client drops the `deleted_uids` that no page of the
refresh returned, and takes a 404 for a page as the end of the refresh. The
history variable `dirty` names the objects whose last change the protocol can
lose: written in flight across the choice of `timestamp_end` (`Late`), dated
before a recorded deletion (`Predated`), shifted over a page boundary
(`Shifted`), or changed in visibility only (`Rescope`). The properties are about
all the others: the protocol loses nothing in any further way.

In `UserAccounts` a request holds the level its user had at authentication
(`rank`), the row that will be saved (`copy`) and the scopes that will be
assigned. `Save` is `user.save()` and the signal's test; `Unscope`, `Ungroup` and
`Assign` are the later queries; `End` is a refusal, an exception or the end of the
worker at any point. The removal of a user from the lists of objects is in
`Permissions`, which takes the requests about scopes where `UserAccounts` has
accepted them.

In `Permissions` an update goes through `load`, `recheck`, `save` and `lists`: the
two calls of `get_object`, the save of the whole row that the first one loaded,
and one query per list. A request that takes scopes away goes through `view` and
`admin` (the two loops of `remove_instances_user_tracked_fields`) and then `remove`
and `ungroup`. The authenticated user's level is read once (`rank`); his scopes
and groups are read anew by every query. The history variables are `left` (who
lost which scope), `late` (names given to a list while the user was losing a
scope), `hidden` (objects made private while nobody held a public row) and
`entitled` (who could ever change what); they say what the code can promise
without transactions, and guard nothing.

In `TwoFactor` a request that saves a device writes the row it has loaded, and
inserts it again when it was deleted in between; `stale` names the devices where
such a save has covered a newer row. `crossings` counts the verifications of one
temporary token that found it unexpired while another held it, and `mail` is the
last login that nothing has interfered with. The login evaluates
`is_mfa_enabled` in `CheckMfa` and again in `Answer`, the verification
`totp_device` twice (`PickMode`, `PickDevice`): steps of their own, as in the code.

In `Passwords` the same is done for the user row (`covered`), the
PasswordChangeTokens (`crossed`) and the registrations of the process
(`processCrossed`). `Abort` ends any request at any query, by an exception or with
its worker. `allowReuse` and `mustConfirm` are settings chosen in `Init`.

In `EmailDelivery` a save goes through `loaded` (the pre_save receiver, which sends
when `SMTP_MAILING_USE_ASYNC` is off), the write and `enqueue` (the post_save
receiver); a task goes through `try`, `record` and `giveup`. Failures are actions: of
the SMTP server before or after it took the mail, of the broker, of each save; a
`Crash` loses the task that the worker has acknowledged. `asked`, `copies`, `mishaps`
and `lost` are histories.

In `DataModel` the phases `model`, `names` and `fields` are the loops of the parser,
`maker` the making of the models; `WellFormed` is the reference: when the sections of
a file agree, said of the whole file and not in the order in which the code looks.
Reverses are remembered under the name of the target, as `models_attrs` has it, and the
divider is looked for in the permissions of the models of the file only.
In `Queries` one `Filter` is one backend; it reads `filterset`, out of which the
backends for JSON and for points take their fields. `filterset` begins with the filters of
the file, `uid` and, for a divided model, the foreign key to the divider. The backends
decide by Django's internal types (`InternalType`: an url or an address is a `CharField`),
and of a JSON field every lookup is FilterJSONFieldsBackend's. The queryset says of each row
whether it is in it not at all, once or more than once (0, 1, 2), since a filter on
links joins. The statistics filter twice
(`FilterAgain`) and answer the page urls that the client then fetches. The reference
is `Means`: what a parameter asks of a value, with instants as sets of ticks.

## Runs

| Run | Question | Bounds, and why they are enough |
|---|---|---|
| `auth_sessions` | is the session cap kept by concurrent logins (`SessionsCapped`)? | two slots, four keys, two sessions: a login can be overtaken at every query by a whole other login or cut short, twice in all, and the table goes over the cap |
| `auth_single` | with one session and token reuse, do closed sessions stay closed (`NoTokenRevived`), are rivals closed (`RivalSessionsClosed`), are answers fresh (`PasswordLoginFresh`), are the tokens bounded (`ReuseBoundsTokens`)? | two logins, one call, three keys, clock to 3 with an expiry and an inactivity period of 1: a token is created, expires, is kept alive, and dies |
| `secure_tokens` | how far is the maximum overshot (`LiveCapped`), is a marked instance refused (`MarkedNeverAccepted`)? | maximum 1, two requests, three values, clock to 2 with expiry 1: an instance is created, marked, unmarked by a stale save and replaced |
| `sync` | does a refresh miss a clean object (`SyncedWhenClean`), does a refreshing client converge (`CleanObjectsConverge`)? | two objects on pages of one, two writers, three writes, one content in the list and one out: writes cross the choice of `timestamp_end`, a deletion and a page boundary |
| `accounts_levels` | `OnlySuperusersAppoint`, `ScopesSpread`, `BlockedStripped` | a superuser, a manager and a simple user, two requests at once and three in all |
| `permissions_objects` | does a name come back to a list it was cleared from (`LeaversUnlisted`), is an object published by a row loaded after it was hidden (`HiddenStaysHidden`), does a user write what he never could change (`WritersEntitled`)? | a manager and a simple user, one scope, one group, one object and one still to be created, two requests at once and three in all: an update overlaps a removal, a second update or a deletion at every query |
| `two_factor` | is an enrolled authenticator kept, and asked for, by every login (`AuthenticatorStays`), a code used once (`OneUsePerCode`), a temporary token too (`OneSessionPerToken`), and does the code mailed work (`LoginCodeWorks`)? | two devices, two temporary tokens, two requests at once and four in all; a code lives two steps and the clock runs to four: a login, an enrolment and two verifications overlap, a token expires |
| `passwords` | `TokenChangesOnce`, `ChangeHolds`, `RegisteredIsTold`, `ConfirmedStays`, `OneTokenPerProcess` | two passwords, two tokens, two keys of the process, two requests at once and four in all, an expiry of one or two and the clock to two: a registration, a reset and two changes, each cut short at any query |
| `email` | does `EmailDelivery` implement `Outbox` (`ImplementsOutbox`), are the copies explained (`CopiesExplained`), is a waiting mail settled (`WaitingSettles`)? | one mail (mails do not meet), two requests, two workers, two tries, two edits, one crash: a resend, a stale status and a deletion overlap two tasks of the mail |
| `queries` | do the answers mean the query (`AnswersMeanTheQuery`), once per row (`NoRowTwice`)? are the right files accepted (`AcceptsWellFormed`), and what is left out stored (`OmittedFieldsStored`)? | three rows with values on both sides of every bound, a second of two ticks and a day of four; the model served is divided and has a field of every kind; every operator with and without negation on every type of field, pairs of parameters that share `filterset_fields` or a join, page sizes from zero to past the maximum; data model files that differ from a sound one in one field or one section, or in one of each, a permission of a model that is not in the file and a default that is no address among them |
| `secure_refused`, `passwords_confirm` | what a comment or a document says and the code does not do | the smallest instance that shows it |

`MaxClock`, `MaxTime`, `MaxWrites`, `MaxRequests`, `MaxEdits`, `MaxCrashes`, `MaxFails` and
the finite sets of keys and rows are bounds of the models, not of the code. The runs
of `UserAccounts`, `Permissions`, `TwoFactor`, `Passwords`, `EmailDelivery` and `Queries` do
not check deadlock: when the requests are made and done, or a file is refused, the
server is idle. In the others the request slots and the client never come to rest.

Every property has a mutant: a faulty variant of one action, in the module beside
the action, under which TLC finds the property violated.

**Fairness.** `Spec` of every module has none; safety needs none. `FairSpec` of
`IncrementalSync` adds WF on `ListStep`: a worker that serves a list request
goes on to its end, and the client asks for the next page or refresh, as the
protocol of `docs/filters.md` has it. Nothing is assumed of the writers; a write
that never commits is a write that never happened. `FairSpec` of `EmailDelivery` adds
WF per request on its own steps (a request that has begun runs to its end) and per
worker on taking and running tasks (`celery worker` does nothing else). Each slot
waits for nobody, so weak fairness is enough; nothing obliges anyone to create, edit,
delete or crash.

## Findings

Two runs show a disagreement; `PROJECT.json` quotes the lines.

* `RefusedOnlyWhenFull`: the views that hand out an instance count the ones they
  have just marked as expired, so the first request after expiry is answered 429.
* `MailConfirms`: who registers without a password where addresses must be confirmed
  gets a mail with the link to set one, and no link to confirm the address.

Known divergences, met while reading, that no run is about:

* A secure connect login may answer a token past its date (`serializers.py:159`).
* A write in flight while `timestamp_end` is chosen is in no refresh (`views.py:1759`);
  `IncrementalSync` has it as `Late`.
* A scope lets managers see its objects, and not simple users as `docs/permissions.md`
  has it (`permissions.py:391`); a request with an `X-Entity-Uid` of a scope that the
  user lacks gets nothing, although the same page lets named users see more.
* A user's own request, authenticated before the block, writes the unblocked row
  back (`views.py:1571`).
* `__range!` is documented (`docs/filters.md:113`, `filters.py:765`) and ignored
  (`filters.py:798`). `Queries` ignores it too, and `AnswersMeanTheQuery` leaves requests
  with one out of its precondition (`NegatedRange`). Two negated parameters of
  one backend, on a JSON field whatever their lookups, exclude only the rows that match both (`filters.py:167`), while
  ExcludeFilterBackend excludes one by one; `?name!=` without a value excludes all.
* `level` and `atleast` of users start again from all users when the filters before
  them left none (`concrete/models.py:645`).
* The statistics filter a second time with the `filterset_fields` that the first time
  left, so their page count ignores filters on JSON and points (`views.py:1657`,
  `views.py:1661`), and raise a KeyError when the page size is refused (`views.py:1669`).
* `docs/filters.md:149` has `c_resp_nested=False`; only `true` and `false` are taken (`views.py:1849`).
* A number that is none ends in a ValueError, not in a 400 (`filters.py:145`).
* Two relations to one name of a model that both give no reverse are refused (`parsers/meta.py:381`).
* `reset_password` leaves `password_modification_date`; a password that had expired
  has expired still.
* The enrolment's `get_or_create` may create two authenticators (`routes/views.py:171`), and
  the login form of the administration site deletes every device but the one it
  checks (`admin/admin_form.py:112`).
* A group named in `can_view_groups` keeps its rights when a member loses the scope
  (`views.py:188`); a creation takes its scope from `X-Entity-Uid`, which is not compared
  with the scopes of the creator (`views.py:2199`).

## Proofs

The theorems hold for any sets of users, keys, slots and scopes, and any values
of the settings that `ConstantsAssumption` allows. `FinitenessAssumption` is there
where sets are counted or a list is cut into pages: requests, workers and the rows
of a table are finitely many. TLC checked every inductive invariant before, on the
instance of the run (for the lists, in parts), and for the sync on a larger one.

* `AuthTokensProofs`. `TypeCorrect`. `ClosedSessionsStayClosed` follows from the
  actions alone: a row's `expired` is only ever set, and a key is drawn once.
  `RivalSessionsClosed` and `PasswordLoginFresh` are not inductive: the first needs
  that the rivals are still the login's user's rows until they are deleted, the
  second that after the sweep no active token of the user, old or created since,
  had expired then. `LoginInv` adds both; the lemma `SlotMoves` lists what a
  step can do to a slot, and `SlotUndisturbed` covers the steps of others.
  `SessionsCapped` counts sessions over a table that several logins have counted at
  different times. A login that issued a token is either fresh (nobody has counted
  since) or was seen by a login that is about to prune. `Capped` says that there
  are such sets: the sessions are within the cap, the fresh logins and `left`; what
  a pruner will leave is within the cap and the logins that came `after` its count; and
  the `after` sets are nested, so one pruner's update accounts for the others. The sets
  are witnesses in the invariant, since no variable of the code has them.
  `ReuseBoundsTokens` needs a stronger count (`ReuseInv`): tokens and logins about to
  create one are together no more than the slots, since whoever finds a token creates none.
* `SecureConnectProofs`. `LiveCapped` needs to count a request before it creates: one
  that loaded too few instances to be refused is a contender, and `CapInv` bounds
  live instances and contenders together. `MarkedStaysRefused` needs that every copy
  has the date of its row (`TypeOK`) and that marks are true (`MarksTrue`): a stale
  save takes the mark away but never the date, and the login looks at the date.
* `IncrementalSyncProofs`. `SyncedWhenClean` speaks of the moment between two refreshes;
  `IInv` says why it comes true. Of every clean object, the client is right, or the
  refresh under way has yet to tell, or the next one will: `Knows` says so
  of an object in the list, of one that left it and of one that is gone, and that a row is
  younger than the recorded deletions of its uid. `Bound` separates them: it is the date up to which
  the running refresh answers, and what is dated after it belongs to the next.
  A page is an interval of the objects by creation date, so the proof needs that creation
  dates are distinct (`Births`, part of `TypesAndOrder`) and that a removal below
  the next page makes an object `Shifted`, and hence not clean. `Frame` keeps the order
  of clock, dates and `timestamp_end`.
* `UserAccountsProofs`. Three lemmas say what a starting, a reading and a writing
  step do to a slot. `AppointInv` adds that a row about to be saved has a level
  that was appointed, or that its superuser appoints; `SpreadInv`, that what a
  manager is about to assign was had by someone, although those scopes may be gone
  since; `StripInv`, that a blocked user keeps scopes only while a request is
  about to clear them, and groups only while one is cleaning.
* `PermissionsProofs`. `ObjectHistory`, `RowHistory` and `AccountHistory` say where a slot
  and a row of the next state come from. `EntitledInv` adds the requests that passed
  `get_object` to those who could change the object; `HiddenInv`, that no update holds
  a public row of a hidden object unasked. `LeaversInv` says which lists a removal
  under way has cleared, and that nobody in `left` has the scope again; it needs
  `ScopeInv` (all rows of an object, stale ones included, have one scope) and
  `SpentInv` (a uid is given once), since a stale save may insert a row again.
  The same module proves the theorems of `DataModel`, as the file is where the minimum
  levels and the model of the scopes come from. `ParserIsExact`: the parser and
  the maker let a file pass exactly if it is `WellFormed`. The parser is one pass with two memories. `Position` says where it is, `Seen` that all it has passed is well formed
  and that `names` and `reverses` are those of the places passed, and no two places had the
  same. A refusal shows the place, or the two places, that `WellFormed` forbids; at the end
  the places passed are all. `OmittedAreStored` adds that the columns made are those of the
  fields (`ColumnsInv`), which needs the names of a model to be distinct, and goes through
  the types of fields once (`OneColumn`). `DefinitionsAssumption` says that the sections are
  lists and the attributes in the abstraction's domain, of which TLC's instance has every case.
  And it proves those of `Queries`, which EXTENDS `DataModel`. `ListInv` is inductive:
  while a request runs (`Running`), `filterset` and the rows of the queryset are what the
  backends before the next one leave, as functions of the query (`FieldsAt`, `Selected`),
  and after `distinct()` no row is in it twice; what the client has is the beginning of
  `ListingOf(Answers)`, cut by `PageSize` (`Received`). The place of a row in a listing is
  the number of rows before it (`Preceding`), so nothing there is recursive and no
  induction over data is needed. `NoRowIsTwice` follows
  from the listing. `AnswersAreMeant` needs three things more. The pages
  announced by the statistics are enough, although they filter without the fields
  on JSON and points: that only lets more rows through (`CountedIsEnough`).
  Where no backend has two parameters to exclude (`OneByOne`) and no range is negated, passing all backends is
  passing each parameter at those that take it (`Serving`, `PassesEach`). And operator by operator
  (the lemmas `...Meant`) what a backend does with its bound is what `Means` asks,
  `Conversions` being the arithmetic of ticks, seconds and days.
  `ServedAssumption` says that a served file has a model and filters by fields of it (the divider's is added by the code)
  (django-filter raises on other names), `CellAssumption` that a column holds
  values of its type (the database sees to it; a date is the start of its day),
  `LevelAssumption` that levels are the five of `concrete/models.py`, and
  `ClientQueriesAssumption` that a parameter has one of the operators and a value in one
  of the forms that the backends tell apart, malformed ones included; a parameter of
  another name is ignored by all of them.
* `EmailDeliveryProofs`. `Refinement` shows that `Spec` implements `Outbox`, step by step,
  under the refinement mapping that keeps `status`, `asked` and `copies` and forgets the
  requests, the queue and the workers. It needs to
  know where a status that is about to be written comes from. `RowsKnow` and
  `SlotsKnow` say that a row, a task or a copy in memory says `sent`, or exists at all,
  only of mails handed over or asked for; `SentIsHanded` is their reader's form.
  `CopiesExplained` counts: the copies made, the messages queued and the slots that may still
  hand the mail over (`Pending`) are together never more than the saves that asked and
  the exceptions after a handover (`Explained`); hence the finiteness.
* `TwoFactorProofs`. `Base` adds to the types what a request holds where it will use it:
  a saved row existed, and `first()` finds a device where there is one, which is why
  `Ids` is a finite set of numbers. `OneUsePerCode` needs `LastKept`: unless a stale save
  came between, `last_t` of the row is not below any step that was accepted.
  `OneSessionPerToken` counts the verifications past the check (`Verifying`) with the
  sessions opened (`Counted`), and needs that an unmarked token has opened nothing
  (`Unmarked`) and that a key is drawn by one login (`KeysDrawn`). `LoginCodeWorks` (theorem
  `MailedCodeWorks`) needs that while `mail` is watched nobody runs but the login it is about and
  verifications (`OnlyLogin`), what this login holds at each of its steps (`Chosen`, `Sent`), and
  that no verification changes the device but by its failures (`Verifications`).
  `WindowsCover` is the arithmetic of the windows a code is accepted in.
  `AuthenticatorStays` (theorem `EnrolledStays`) is not inductive: a login that has chosen
  its device deletes the others later. While `enrolled` holds, `StaysInv` says of every
  request (`Keeps`) that one about to delete the other devices has an authenticator as its
  own (`totp_device` is asked for before `email_device`), and that none is about to choose
  among the others or to save an edit; a row in memory is that of a confirmed
  device (`Sure`). A login that found no second factor before the enrolment finds it when
  `get_token` evaluates `is_mfa_enabled` again. `enrolled` begins only where no other request
  has chosen already (`Choosing`), for such a one does delete the new authenticator.
* `PasswordsProofs`. `ChangeHolds` is nearly inductive (`ChangeInv`). `TokenChangesOnce`
  counts the requests about to save with the changes made (`UsesCounted`); a token
  that is there and that nobody holds has one change left (`UsesLeft`).
  `OneTokenPerProcess` counts a token from the check on (`Drawn`), and needs that
  without its user the process has none. `ConfirmedStays` needs that what `send_link`
  holds in memory is confirmed too. `RegisteredIsTold` must look at the rows in memory:
  a stale one can bring the generated password back (`TellInv`).
  The proofs assume that nobody chooses `Generated`, and that the marks for "no row"
  are no rows (`NoRowAssumption`), as model values are.

Only model-checked: `WaitingSettles` and `CleanObjectsConverge`, since liveness under
fairness is out of the prover's reach. Every invariant and every action property of
the passing runs is a theorem, and so is the refinement. Each finding is a TLC counterexample.

## Plan

Done: the nine modules of components above and their runs, with proofs for all of them.

Left: an abstract access matrix (who may see and change what, by level, role, scope, owner
and lists) that the requests of `Permissions` implement as long as rights do not change
under them.

## Not modelled

* Full-text search, the `ordering` parameter, filters through two foreign keys, and the
  export: they choose or print rows and touch no state that another part reads.
* The loader of the older data model format (`make_model_cls`: a
  list of models without sections, none of whose parts can disagree), indexes, managers and `__str__` of the models made.
* The rules of `concrete/password.py` (predicates on text), and the scope that a
  registration may give.
* OpenAPI and CSV output, URL tables, settings and middleware: formatting and
  constants. The settings that matter are CONSTANTS or chosen in `Init`.
* The OAuth2 helpers and the declarations of the administration pages: glue to
  libraries.
* External: Celery's queue, the SMTP server, django-otp and django-filter, modelled by
  how the code uses them.
