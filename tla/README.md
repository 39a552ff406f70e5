# MineGuard: a TLA+ verification of the compliance service

MineGuard tracks mining leases in one API service (`services/api`, FastAPI on
PostgreSQL, with a Celery worker) and a web client (`apps/web`, Next.js). This
directory holds TLA+ models of the service's core logic, TLC configurations that
check them on small instances, and TLAPS proofs of what matters most.

## 1. Inventory

### How the code executes

* Every `def` endpoint runs in a thread of FastAPI's pool, concurrently with
  the others, in a SQLAlchemy session of its own (`core/db.py`). The session
  does not autoflush. A transaction ends with one explicit `commit`; an
  exception rolls it back.
* PostgreSQL runs at READ COMMITTED and no query takes a row lock (`FOR UPDATE`
  occurs nowhere). So a handler *reads* rows, decides, and *commits* later, and
  any other transaction may commit in between. An UPDATE writes only the
  attributes whose value differs from what was loaded, `WHERE id = pk`; if the
  row is gone the commit fails.
* `async def` endpoints (photo analysis, document upload) do their work between
  two awaits on the event loop; threadpool requests still interleave with them.
* Email (Resend), file storage, Supabase and the vision model are outside the
  transaction. A rollback does not take their effects back.
* Celery beat schedules exactly one task, the daily reminders
  (`jobs/celery_app.py`). The escalation sweep and the overdue refresh run only
  when somebody calls their endpoint.
* The tests share one session and one transaction per test (`tests/conftest.py`),
  so no test ever sees two transactions, a crash, or an autoflush difference.

### Components

| Component | State | Operations | What is hard | What makes it correct |
|---|---|---|---|---|
| Findings and escalation (`api/v1/findings.py`, `services/findings.py`) | `inspection_findings`, audit entries, emails, stored photos | analyze, acknowledge, update, resolve, escalation sweep | overlapping sweeps, mail before commit, race of closers, rollback after side effects | escalate only when due, mail at most once, closed stays closed, evidence behind every finding |
| Users and roles (`api/v1/users.py`, `services/users.py`) | `app_users`, Supabase accounts | sign-in (bootstrap, self-registration), create, invite, update | two first sign-ins, two admins demoting each other, invite that half succeeds | there is always an active administrator; an account has a role |
| Obligation calendar (`services/calendar.py`, `api/v1/calendar.py`, `api/v1/obligations.py`) | `lease_obligations`, `obligations` | generate, refresh overdue, submit, change status, edit a rule | refresh and generation racing with filings, status machine with late states, period arithmetic | one entry per rule and period; a filing is never lost; overdue means late |
| Compliance score (`services/compliance.py`) | none (pure, over rows) | score a lease | weights of components that do not apply, rounding, dates at the boundary | score within 0..100, monotone in violations, unmoved by a refresh |
| Dashboard (`services/dashboard.py`) | none | sums and counts of one request | figures that are computed twice | - |
| Reminders (`services/reminders.py`, `jobs/reminders.py`) | `reminder_deliveries`, emails | preview, send, daily job with retries | retry after a crash, reply lost after acceptance | every late entry is reminded of; nobody is mailed twice |
| Lease register (`api/v1/leases.py`, `services/leases.py`, `services/reference.py`) | `leases`, `lease_holders` | register, edit, delete; listing with filters, risk filter, sort and page; map | a listing takes three reads and a map two, and leases change in between; missing sort keys; a limit before a filter | a number and a holder for every lease; a page is the slice it was asked for; no lease twice, none with a risk not asked for |
| Documents (`api/v1/leases.py`, `core/storage.py`) | `lease_documents`, stored files | upload, review, download, cascade with the lease | file stored before its row, lease deleted meanwhile, storage changed by configuration | no document without its lease, no answer without a row, every row's file can be found |
| Audit trail (`services/audit.py`, `api/v1/audit.py`) | `audit_log` | record in the caller's transaction, record a refusal at once | a mutation without its entry, or the reverse | entry and mutation commit together |
| Session verification (`core/security.py`, `api/deps.py`) | the key client's key set and found keys | verify a token, load the principal | keys rotated or withdrawn, an unreachable key endpoint, a key set that lapses, restarts | an outstanding session is turned away for a reason only |
| Permissions (`core/permissions.py`, `services/authorization.py`) | audit entries of refusals | require a permission, narrow an operator to their organisation's leases | role, organisation and lease are read at different times | an operator works on their own leases only; a refusal is recorded |
| Vision and extraction adapters (`services/vision.py`, `services/document_extraction.py`) | none | parse a model's reply, extract text | malformed replies | fails closed |
| Reference data (`api/v1/reference.py`, `services/reference.py`) | `minerals`, `lease_holders` | create, edit, delete, list | natural keys can be edited and deleted under a seed run | a holder with leases is not deleted |
| Seed (`db/seed.py`, `db/reference_pack.py`) | none of its own: every table, in one transaction | load the pack, generate the calendar, invent a filing history | four tables read one after another while the service runs; run again after edits | a run loads the pack whole or nothing; a second one adds nothing; filings survive |
| Schema migrations (`alembic/`) | schema | - | - | external: constraints are modelled where code relies on them |
| Web client (`apps/web`) | browser state | - | - | presentation only |

Interactions: everything hangs off a lease row, whose deletion cascades to
licences, obligations, documents and findings. Findings, obligations and
licences feed the score, which feeds the register's listing and the dashboard.
Every request passes session verification, sign-in and authorisation first. The
seed command runs beside the service against the same tables.
Every mutation adds an audit entry to its own transaction. Findings and
reminders send email.

## 2. Modules and the code

Each specification has a module of its own, an `MC...` module with its
instances, and a `...Proofs` module that extends it with theorems. The state
variables are the tables and the outside world; one operator stands for one
handler, or for the part of one that runs between two points where another
transaction can commit.

| Module | Models | State | Actions and the code |
|---|---|---|---|
| `Findings` | analysis, triage and escalation of findings | `row` (inspection_findings), `doc`, `file`, `outbox`, `trail`, `lease`; `edit`, `scan`, `sweep`: requests under way | `AnalyzeSave`, `AnalyzeFlush`, `AnalyzeVisionFails`, `AnalyzeRecord` (`analyze_lease_photo`), `AcknowledgeRead`/`UpdateRead`/`ResolveRead` with `EditCommit`, `SweepRead`, `SweepSkip`, `SweepSend`, `SweepSendFails`, `SweepCommit` (`run_escalation_sweep`), `DeleteLease`, `Crash`, `Tick` |
| `UserAdmin` | sign-in with bootstrap and self-registration, creation, invitation and editing of users | `holder`, `profile` (app_users), `invited` (Supabase accounts), `trail`; `req`: requests by phase | resolving the caller (`api/deps.py`, `resolve_principal`), `POST /users`, `POST /users/invite`, `PATCH /users/{id}` as read and commit, loss of a reply, a crash, deletion of an organisation |
| `Access` | the way of a request to a lease; extends `UserAdmin` | `session`, `published`, `reachable` (Supabase); `fetched`, `known` (the key client); `lessee`, `call`, `refusals`; `opened`, `reached`, `crossed` (auxiliary: the keys sessions were accepted with; the leases that were in reach at some moment of a request, and those that came and left in one crossing), `crew` (who acts, for TLC) | `Issue`, `Expire`, `Rotate`, `Contact` (Supabase and the network), `Lapse`, `Restart`; `Present` (`get_principal`: `verify_token`, then `SignIn`); `LookUp`, `RecordDenied` (`assert_lease_access`), `Finish`, `TurnAway`; `Reassign` (`update_lease`); the actions of `UserAdmin` |
| `Calendar` | generation, refresh, filing, change of status, editing of rules | `lease`, `rule`, `entry` (lease_obligations, keyed by its unique index), `req` | `generate_instances` as planning, matching and insertion; `refresh_overdue`; `submit_obligation` and `update_obligation_status` as read and commit |
| `Seed` | the seed command and the reference data; extends `Calendar` | `reference` (minerals and lease_holders by natural key), `ident` (where the id made of a registration number is), `seeding` (the session of the command), `loaded`, `returned` (auxiliary: whether the register still has what a run loaded; the generations whose lease the command put back under them), `crew` (for TLC) | `SeedReference`, `SeedLeases`, `SeedGenerate`, `SeedFile`, `SeedCommit`, `SeedAbandon` (`seed`); `CreateMineral`, `UpdateMineral`, `CreateHolder`, `UpdateHolder`, `RenumberHolder`, `DeleteHolder` (`api/v1/reference.py`); `DropLease`; the actions of `Calendar` |
| `CalendarMath` | fiscal years, periods, the walk through a window | none | `period_containing`, `_block_period`, `periods_in_window`, `default_window` |
| `Scoring` | the four components of a score and their weights; clearances, entries and findings as the score reads them | `today`, `licence`, `entry`, `findings` | the handlers that change those rows |
| `Register` | the lease register and its two readers | `lease`, `holder`, `score`; `reading`, `editing`: requests under way; `still` (an auxiliary variable: the readers since whose first read nothing has changed) | `CreateLease`, `UpdateRead`, `UpdateCommit`, `UpdateFails`, `DeleteLease`, `DeleteHolder`, `Rescore` (any handler of `Scoring`); `ListIds`, `ListScore`, `ListPage` (`list_leases`); `MapRead`, `MapScore` (`lease_feature_collection`); `Leave` |
| `Uploads` | documents, composed with `Register` by EXTENDS | `doc` (lease_documents), `stored` (files by storage), `storage` (the setting), `request`; `traffic` (which requests a behaviour has, for TLC) | `UploadCheck`, `SaveUpload`, `InsertRow` (`upload_lease_document`), `ReviewRead`, `ReviewCommit` (`update_lease_document`), `RequestEnds`, `Reconfigure` (a restart with the other storage), `DeleteLeaseDocuments` (the cascade); the operator `Opens` is `open_download` |
| `Reminders` | one run of the reminder job or endpoint against a changing calendar | `entry`, `run`, `delivery`, `mailed` (the provider's view), `owed` (an auxiliary variable: what a run would have found at its start and nobody has touched) | `Start` and `ReadUpcoming` (`preview_reminders`), `Pass`, `MailAccepted`, `MailRefused` (`send_reminders`), `Commit` (`send_daily_reminders`), `Unconfigured`, `Crash`, and the calendar's changes |
| `ReminderLedger` | what the history of reminders promises its readers | `mailed`, `published`, `history` | abstract; `Reminders` implements it (`KeepsTheLedger`) |
| `FindingLife` | the life of a finding as everybody outside the requests sees it | `now`, `finding`, `chosen`, `mails` | abstract; `Findings` implements it (`KeepsTheLife`) |
| `FilingRegister` | what the calendar promises those who file | `leases`, `filing`, `claims` (who looked at which entry for what and has not acted yet) | abstract; `Seed`, with the actions of `Calendar`, implements it (`KeepsTheRegister`) |

How the modules fit together. `Access` puts verification and authorisation
before the handlers of `UserAdmin`, and `Seed` puts the command next to the
handlers of `Calendar`: each extends the other module and has its actions in
its own next-state relation, and `AccessImplements` proves that the behaviours of
`Access` are behaviours of `UserAdmin`. `MCCalendar` cuts time into periods with
`CalendarMath`, whose theorems are the assumption `PeriodsOK` of `Calendar`.
`Reminders` and `Scoring` read the calendar's rows; each keeps what its
properties tell apart of an entry and has the calendar's handlers as actions of
one step, because `Calendar` has already shown what their races can do to a
row. `Uploads` extends `Register`: its next-state relation has every action of the
register next to its own, and deletes a lease together with its documents.
`Register` takes a lease's score as a value that any handler of `Scoring` may
change; a list without repetitions is kept as the set of its members and the order
they stand in.

Three modules implement an abstract one, by `INSTANCE ... WITH` a mapping of their
state. `Reminders` is a `ReminderLedger` (`published` is the runs that ended well,
`history` is `delivery`). `Findings` is a `FindingLife`: requests under way are seen of
sweeps only, as the findings they chose, so an edit that commits late must be one
the finding still allows. `Seed` is a `FilingRegister`: a pending refresh, filing,
PATCH or history is a claim on the entries it read, taken while the entry allowed it
and used up by the commit. The abstract modules have no reads and commits, phases,
sessions or failures; that the code does behave like them, with everything that may
come between a read and its commit, is what the refinements say.

Abstractions shared by all modules. Titles, notes, addresses and file contents
are left out or are model values. Handlers that only read (lists, previews) have
no action. Ids are never used twice. A request is authorised before its handler
runs; who may do what is modelled in `UserAdmin` and `Access` only.

Abstractions of single modules:

* `UserAdmin`, `Access`: the development principal of `AUTH_MODE=disabled`, to which
  every check is vacuous, is left out. Cryptography and claims are one predicate
  (`Verified`); a fetch of keys is answered at once or not at all; the client's
  limit of 16 found keys is never reached. The handlers behind
  `assert_lease_access` act on their lease for a while, no more. A request keeps
  its principal (`self`) from sign-in; the row of the caller is not kept with it, so a
  handler that edits the caller reads it anew, like any other.
* `Seed`: a row of reference data says what the pack says or something else;
  clearances of the pack, geometry and the terms of leases, which the command moves
  with the day, are left out, so an instance is one day. Of late entries in no
  order every 37th is exempted, hence any set of that size. A holder is not
  renumbered while the command runs. Of a rule that is there the command sets what
  the pack lists (`db/seed.py:104`): recurrence, due days, lease types, and mineral
  categories for the rules in `PackMinerals` only; `is_active` and the fiscal year end,
  which no rule of the pack lists, stay as administrators left them, and the calendar
  is planned with them (`Restored`, `Schedule`).
* `Calendar`: a rule is what scheduling reads of it: recurrence, fiscal year end, due
  days, the leases whose type and whose mineral it applies to, and whether it is
  active. Type, mineral and term of a lease do not change. A run of the command sets
  an edited `mineral_id` of a pack lease back, but plans with the mineral it loaded with
  the lease (`models/lease.py:98`), so that after such an edit even the second run may
  add entries; `AgainAddsNothing` says nothing of it. `grace_days` is stored and
  read by no code; filings and changes of status write no audit entries in the code
  either. `Period` is any function that cuts time into successive spans, one cut for
  each recurrence and fiscal year end. `Plan` has every period of its window, where
  the code stops after 400 (`_MAX_PERIODS`, `services/calendar.py:23`), as `CalendarMath`
  does: no window of less than 33 years has as many.
* `CalendarMath`: all arithmetic of the code is on firsts of months, so a date
  is a year and a month.
* `Scoring`: the code scores in floats and rounds half up; the model scores in
  exact fractions and rounds half up, so the two may differ by a tenth at exact
  ties. Risk bands are a table over the score (`BandOf` of `Register`).
* `Register`: the filters of a listing (search, state, district, status, type,
  holder, mineral, expiry, box) are predicates on a row and appear as the one on
  its place; geometry is whether there is any. The queries of one
  `score_leases` are one read. The database gives equal and unsorted rows in any
  order (`ListIds`), from which Python's stable sort goes on.
* `Uploads`: what is extracted from a file is left out, but for the failure it can
  cause (`RequestEnds` after `SaveUpload`). A path that was configured absolute or
  relative and a key of the bucket are the three kinds of references, because
  `open_download` tells them apart and nothing else does.
* `Reminders`: `in_progress` is treated like `pending`, and the exempt statuses
  like `submitted`, by everything a run does, so each pair is one status. A mail's
  kind is the list its entry was found on; the code words it by `days_until_due`
  (`services/reminders.py:42`), so that an entry found overdue on its due day is announced
  as upcoming. That is the day `OncePerRun` excepts, and no other property tells the kinds
  of a mail apart by anything but the list.
* `Findings`: descriptions and confidences of violations are left out; an analysis
  yields any list of severities of up to as many findings as the instance has.

## 3. What TLC checks

Constants are named in the `.cfg` files; the bounds are there.

| Run | Instance | States | What it shows |
|---|---|---|---|
| `findings_races` | 1 finding, 2 editors, 1 analysis, 2 sweeps, 3 hours, crash, deletion, lost reply | 366 000 | all safety properties of a finding; refinement of `FindingLife` |
| `findings_live` | 2 findings of 2 leases, one without address, 1 sweeper, no faults | 53 000 | escalation under fairness; nobody mailed twice |
| `findings_twice` | 2 sweeps, no faults | violation | two overlapping sweeps mail the same finding |
| `access` | 2 people, 2 organisations, 1 lease; 2 requests of which 1 may administer users, beside edits of leases and organisations; or 1 request, 2 keys, rotation, outage, lapse, restart | 1 236 000 | an administrator remains; operators have an organisation; who works on a lease could reach it during the request; invitations end in roles; sessions go on across rotations |
| `users_races` | 2 people, 2 editing requests, crash, lost reply, deleted organisation | 1 289 000 | trail and authority survive the races |
| `users_last_admin` | 2 editing requests, no faults | violation | the last two administrators remove each other |
| `calendar_races` | 1 lease over 5 months with a term of 2, 1 rule of 4 definitions (monthly, the same switched off, quarterly with another fiscal year end, one-time), 2 minerals, 1 holder; 2 requests, 1 patcher, or 1 of them beside the seed command, or the command beside edits of the reference data; deletion, abandoned requests and runs | 381 000 | filings, exemptions, completeness and uniqueness; the command loads all or nothing, adds nothing when run again though rules of its pack are switched off, and without filings leaves decisions alone; refinement of `FilingRegister` |
| `calendar_exempt` | 2 patchers of monthly entries | violation | an exemption loses its reason |
| `seed_rerun` | the command without filings, edits of the reference data | violation | a renumbered holder fails every later run |
| `scoring_records` | 1 lease, 2 clearances, 2 entries, 0-4 findings, 3 days | 58 000 | how the score moves when records or dates move |
| `register_uploads` | 3 leases, 2 holders, 1 listing or map (of 5 queries, 2 charts), 1 edit; 1 document, 2 uploads or reviews, 2 storages | 490 000 | pages, map and identity of leases under changes; documents belong to leases and are found |
| `reminders_run` | 1 run, 3 entries of 2 leases, limit 2, 2 dates, crash, deletion, no configuration | 77 000 | the history is true, whole and complete; one mail per run; refinement of `ReminderLedger` |

Why the bounds are enough to be worth the run. Every race in this code is
between two transactions over one row, or one row and a count over rows: two
requests (and two rows for the count of administrators) show each of them, and
the clock runs past the one deadline involved. Two sweeps and two editors are
there together because a sweep races with edits as well as with a sweep. Three
entries are late, due today and due soon, with a limit of two, so that the limit
bites and a run that starts on either date sees both boundaries. A score
depends on a lease's own records only, so one lease is general; two records of
each kind are what makes a share other than none or all, and four findings pass
the point where the component is used up. Runs of the reminder job share
nothing but the rows they add to, so one run is general. Readers of the register
change nothing, so one is general too; three leases and a page of one are what it
takes for a page to begin after a lease and end before another, with two of the
same end of term or none. The five queries have each sort, both directions, a
filter by place, by risk and by neither, and pages beyond the first; the two
charts have a limit that bites and one that does not. Two uploads are one that
meets the other's deletion and one that meets a review. Listings and uploads
share nothing but the deletion of leases, so `Traffic` lets a behaviour have
listings with writes or documents with registrations and deletions; the theorems
have no such bound. `Crews` does the same for `access` and `calendar_races`: the
keys and the network matter to verification only, and edits of reference data
to the command only, so each is run beside the actors it meets. One key to
withdraw and one to take its place are two; one lease and two organisations
show every reassignment; the pack has one row of each kind, and a mineral
nobody mines yet, because the command treats rows of a table alike. Its rule can be
stored switched off before a run or between two, which is what the pack does not
restore. Periods are cut where they stick out of the five months. There
is one reason to exempt with, the command's own: what a stale write can go wrong by is
a reason that equals the one it read.

`CHECK_DEADLOCK FALSE` is given for `findings_races`, `users_races`,
`users_last_admin`, `register_uploads` and `reminders_run`: clocks end, runs are used once, ids are
used up, and everything may have been deleted.

Symmetry is used in safety runs only.

Fairness. Only `findings_live` assumes any (`FairSpec`): that time passes and that
an edit or a sweep once begun takes its next step, which is what a thread of the
pool does; it runs without crashes. That sweeps are run at all is no scheduler's doing
(`jobs/celery_app.py` schedules the reminders alone), and that Resend refuses
nothing is not the code's to promise; both are hypotheses inside
`EscalatedIfSwept` rather than fairness of the specification.

Each property of a passing run is paired with a mutant in `PROJECT.json`: a bug
somebody could write into the mapped code, as an operator next to the definition
it replaces and marked `Mutant:`; under it the property fails.

No run names `EscalationWasDue`, `ResolutionConsistent`, `ClosedStaysClosed`
(`Findings`), `DecisionsStand`, `FiledHasTime` (`Calendar`), `ReferencesResolve` or
`AnsweredIsFiled` (`Uploads`): they are proved, and the refinements have the third
and the fifth in them.

## 4. What the runs found

Runs that end in a violation, each of one sentence the repository says:

* `findings_twice`: `services/findings.py:116` calls the sweep idempotent and
  `tests/test_findings.py:244` says "escalated exactly once"; two overlapping sweeps
  that read a finding at level 0 both mail it.
* `users_last_admin`: `services/users.py:235` "Refuse an edit that removes the
  last active administrator"; two overlapping edits remove the last two.
* `calendar_exempt`: `api/v1/calendar.py:284` "An exemption without a recorded
  reason is indefensible in an audit"; two overlapping PATCHes leave one.
* `seed_rerun`: `db/seed.py:3` "Idempotent and safe to re-run: records are matched
  on natural keys"; ids are made of the natural keys too, and a registration number
  can be edited. A holder the command loaded and somebody renumbered is inserted
  again with the id it has, so that run and every later one fail.

Also met while modelling, without a run of their own:

* `core/security.py:4` says verification is local and goes on "working when Supabase
  is unreachable"; that holds for keys the client has found before. A failed fetch
  drops the key set, and a restart all found keys. `SessionsContinue` states how far
  the promise holds;
* an operator whose organisation is deleted keeps the role and reaches nothing
  (`api/v1/reference.py:199`); `OperatorsScoped` and `InvitedHaveRoles` are stated until a
  deletion;
* `--no-filings` generates the calendar, where `db/seed.py:10` speaks of leaving it
  untouched; `DecisionsKept` states what it does leave alone. With filings, the
  command files, exempts or marks as late whatever is due, what people decided
  included;
* the first finding of a lease can raise its score, since it brings a component into
  play of which two thirds are still earned (`services/compliance.py`);
  `FurtherFindingsCost` is about findings after the first;
* two first sign-ins can both be bootstrapped (`services/users.py:189`);
  `BootstrapCloses` states what remains true;
* an invitation can leave an account without a profile (`api/v1/users.py:155`);
* the escalation sweep has no schedule and, when started from one lease, mails
  the holder of that lease about the findings of every lease
  (`api/v1/findings.py:281`);
* the alert formats `detected_at`, and the audit entry reads a finding's id,
  before the flush that assigns them (`services/findings.py:71`,
  `api/v1/findings.py:188`);
* a rollback after a failed analysis leaves the stored photo without a row
  (`api/v1/findings.py:143`);
* a rule whose recurrence is edited between two generations keeps the entry of the
  old period in place of the new one (`services/calendar.py:265`), and one whose fiscal
  year end is edited gets quarters that overlap those it has; `NoOverlap`,
  `PlannedExists` and `PlannedStands` are stated for rules that keep both (with
  `"cadence_edit"` in `Faults` TLC breaks them);
* an operator who is moved from one organisation to another, and a lease that is then
  given to the first, may meet in a request that began before both: it works on a lease
  that was at no moment held by the organisation they belonged to
  (`services/authorization.py:177`); `WorkWasInReach` allows this one crossing;
* a rule of the pack that was switched off stays off when the command runs again, and
  the run reports its calendar as loaded (`db/seed.py:104`); `LoadsWhole` and
  `AgainAddsNothing` say what that leaves true;
* when a lease is deleted and put back by the command under a generation, the
  generation answers with the part of its periods it had found missing
  (`services/calendar.py:263`); `PlannedStands` excludes this one;
* `schemas/obligation.py:135` gives the default window as 12 months, the code as
  up to 18;
* when the provider's answer is lost or unreadable, a mail that was delivered is
  recorded as failed (`services/reminders.py:113`); the ledger (`KeepsTheLedger`) is
  stated in the one direction that holds;
* one entry deleted during a reminder run loses the history of all its mails
  (`jobs/reminders.py:32`), and the automatic retries of the task never happen;
* an entry that is late and was never refreshed is on neither list of a run
  (`services/reminders.py:27`);
* the dashboard counts expired clearances by their dates and a lease's own view
  also by their status, so a revoked one is expired in one only, where
  `services/dashboard.py:4` says the two can never disagree;
* the map applies its limit before its risk filter and in no order
  (`services/leases.py:311`), so above the limit it leaves out leases that it was
  asked for; `MapWhole` is stated below the limit;
* an edit can end a lease's term before it begins, which the schema of a new lease
  refuses and that of an edit does not compare;
* with the default, relative path of the disk (`core/config.py:82`), turning
  object storage on makes the documents uploaded before unreadable, since
  `open_download` takes only absolute paths for files (`core/storage.py:54`), and
  turning it off does so to keys; `Downloadable` names both;
* an upload that fails after its file is stored leaves the file without a row
  (`api/v1/leases.py:412`), and so does the deletion of a lease.

## 5. What is proved

The theorems are about any number of leases, rows, requests and runs, and any
faults, unless they say otherwise; the assumptions on constants are `ConstantsOK`
in each module (`PeriodsOK` besides in `Calendar`), which TLC evaluates in every
run.

* `FindingsProofs`. `TypeCorrect`, then the other properties of
  `findings_races`. A commit writes what an earlier read decided, so each
  invariant is strengthened by what the pending requests know: a sweep's
  candidates were due when it began and had an email when they are to be
  advanced, and a pending edit that closes a finding names its editor.
  `SerialSweepsMailOnce` is `EscalatedOnce` without faults and as long as no two sweeps
  are under way together (`Disjoint`), the condition `findings_twice` violates: by
  `OnceInv`, a finding that was mailed about is escalated or is about to be by
  the sweep that mailed, and one in line was not mailed about. `FindingsLive` is the
  refinement of `FindingLife`, under every interleaving and fault; that only a finding
  with a mail is escalated rests on `SweepHistory`, a part of the first invariant.
* `UserAdminProofs`, about `UserAdmin` and `Access`. `TrailExplainsProfiles`,
  `AuthorityIsTraced`, `NoWayBack` and `BootstrapEnds` hold under every interleaving.
  `LastAdminKept` and `OperatorsKeepScope` hold while edits of users do not overlap
  (`Updater` has at most one member), which is the exact condition
  `users_last_admin` violates; their invariants tie the pending request's copy of
  the edited row to the row. `InvitedGetRoles` assumes no crashes and no lost
  answers. `AccessImplements` is the refinement: every step of `Access` is a step of
  `UserAdmin` or leaves its variables alone, so all of these hold of `AccessSpec` too.
  `SessionsKept` follows from an invariant of the key client: whatever key a session
  was accepted with is among the keys it has found. `WorkWasReached` says that whoever
  works on a lease had it in reach, by the rows as they were stored together, at some
  moment of the request, or by the one crossing. Its invariant (`ReachInv`) is about
  requests that have not looked a lease up yet: a lease their principal may reach is
  among those that were in reach or crossed, which takes a step for each way a profile
  or a lease can change, since only then can the principal and the rows part. Both
  assume nothing but the constants' types.
* `CalendarProofs`. `GenerationComplete` holds while rules keep their recurrence and
  fiscal year end (`CadencesKept`);
  `ExemptionsExplained` while PATCHes do not overlap, the condition `calendar_exempt`
  violates. The lemmas for the handlers of
  the calendar are stated about its steps, so that `Seed` can use them.
* `SeedProofs`. `SeedTypeInvariant`, `DecisionsSurvive` and `SeedFilingsTimed` hold under
  every interleaving of the command, the requests and the edits; `SeedPeriodsApart`
  while rules keep their recurrence and fiscal year end and the pack gives no other
  (`CadencesKept`). The
  invariants say of the entries the command has made and not committed what those
  of `Calendar` say of rows: every one is a period of its rule as the session sees it,
  and distinct periods are apart. `PackIsLoaded` needs that assumption too, and
  `SecondRunAddsNothing` needs none: their invariant (`Seeing`) says that a session
  of which nothing was deleted has an entry for each period it planned, in the table
  or among the rows it made, and `LoadedInv` that after a run these are all in the
  table, so that the next session makes none. What the next session will see of a
  rule (`Standing`, by `Restored`) only changes with an edit of what the command leaves
  alone, and such an edit ends `loaded`. `RerunsAreSafe` gives the condition
  `seed_rerun` violates: `SafeToRerun` holds as long as no holder whose id the command
  made is away from its number (`NoneRenumbered`), since an id is taken by the row it
  was made for or by one that was renumbered (`Numbered`). `SeedGenerationComplete` and
  `SeedExemptionsExplained` are about `PlannedStands` and `ExemptHasReason`, which hold
  beside the command too. For the first the invariant follows a generation from its
  match on: each period is missing, or has its entry, or the lease is gone, and a
  lease that comes back puts the request among `returned`. A PATCH beside a run that
  invents filings can
  lose a reason: `PatchesAlone`, which the crews of `calendar_races` satisfy; its
  invariant (`Excused`) says of the history not yet committed that what it exempts
  has a reason, in the write or in the entry. `SeedKeepsTheRegister` is the refinement
  of `FilingRegister` and has no hypothesis: besides `Filing` it needs that requests
  which may not PATCH hold filings only (`FilersFile`) and that the command's new
  entries are as generated and its writes take no reason away (`Drafted`).
* `CalendarMathProofs`. For any fiscal year end: `PeriodsAgree` (the dates of a
  period have that period), `PeriodInFiscalYear`, `WalkIsLoop` (the walk, given in closed form,
  goes from each period to the one that follows, as the loop of the code does) and `WindowCovered` (a walk
  within its limit finds the period of every date). Together they are the
  assumption `PeriodsOK` of `Calendar`.
* `ScoringProofs`. `OldScoresKept`, `FurtherFindingsLower`, `RefreshChangesNoScore`,
  `TimeNeverHelps` and `FilingInTimeHelps`. A score is a quotient of sums over the
  components that apply; lemmas about fractions say how such a quotient moves with
  one of its numerators, and the theorems that follow change one component at a time.
* `RemindersProofs`. One inductive invariant, `RunInv`, follows a run: what it has
  found is in keeping with its date, each entry found is still in line or has a
  row, what was mailed was found, deliveries belong to runs that ended well, and
  an entry still owed is unchanged and covered by its list. `HistoryIsTrue`,
  `NobodyIsMailedTwice`, `HistoryIsComplete` and `OwedGetAnswers` follow from it;
  with `OneRowEach` it gives `HistoryIsALedger`, the refinement of
  `ReminderLedger`.

* `UploadsProofs`, about `Register` and `Uploads` together. `RowsInv` adds to
  `Identified` that an edit under way has a row it read; `RowPut` says once that a
  row the constraints accept keeps every lease identified. `DocsInv` follows an
  upload: a file that waits for its row is stored where its reference says, under
  a name no other upload waits for and no row has; an answered upload has its row,
  of its lease, or the lease is gone. Of the register it needs `LeasesKept`: no
  step but a deletion takes a lease away, and a deleted one stays deleted.
  `ReferencesKept`, `CreatedIsFiled` and `FilesFound`
  follow, for any leases, requests, traffic and moves between storages. `TypesKept`,
  `AnswersAreRight` and `ListingsCohere` are about the readers: `ReadInv` says of a
  reading under way that what it has is a list without repetitions that fits its
  page (`Coherent`) and, as long as nothing has changed since its first read, that
  it is what the tables call for at its stage (`Fresh`). That a stable sort followed
  by a slice gives each lease its place is shown with lemmas on ordered sets.

`OldScoresKept` (of `LegacyScores`) and `HistoryIsTrue` (of `SentWasMailed`) are proved of
properties no run names: the first is a fact about weights, and the second is part
of the ledger that `reminders_run` checks.

Only model-checked: `EscalatedIfSwept` of `findings_live`, since liveness under fairness
is beyond TLAPS. The runs that end in a violation have nothing to prove; where the
property holds under a condition, that is the theorem named above.

## 6. What is not modelled

Listed with reasons in `PROJECT.json`: the vision and text extraction adapters,
migrations, configuration, the web client, deployment. The dashboard, too: it
reads, sums and keeps nothing. Partly modelled: the audit trail (the entries of
findings and users, and refusals), permissions (those over users, and which
leases an operator reaches; the rest is a constant table), the job schedule, and
the seed (all but the clearances, geometry and figures of the pack).

## 7. Plan

Done: `Findings`, `UserAdmin` and `Access`, `Calendar` and `Seed`, `CalendarMath`,
`Scoring`, `Reminders`, `Register` and `Uploads`, the abstract `ReminderLedger`,
`FindingLife` and `FilingRegister`, and the proofs of all of them.

Next:

1. The score's sources in one composed module: clearances, entries and findings of
   a lease whose handlers overlap with a listing that scores it.
2. Between a reading and its answer: what a page shows of leases that did not
   change when others did.
