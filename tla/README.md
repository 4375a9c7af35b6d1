# HireKit backend: specifications, model checking and proofs

TLA+ modules for the HireKit backend (`src/`), the TLC configurations that check them on small instances, and
theorems that TLAPS proves for every instance. Paths below are relative to `src/app/` unless they start with `src/`.

## 1. The system

HireKit is a FastAPI service for campus placement. Four uvicorn processes (`src/Dockerfile`, `--workers 4`) serve
requests as coroutines over one PostgreSQL database and one Redis; an arq worker runs background jobs and three crons.
What matters for everything below:

* PostgreSQL runs at READ COMMITTED. A handler reads with plain SELECTs, decides in Python, and writes at a later
  COMMIT. Nothing takes a row lock between a read and the write that depends on it.
* The SQLAlchemy session (`db/session.py:16-33`) neither flushes before queries nor expires what it loaded on commit,
  and `get_db` rolls back on an exception. Assigning an attribute the value it was loaded with sends no UPDATE. An
  ORM UPDATE of a row that is gone raises; an ORM DELETE of one only warns.
* `get_current_user` (`core/deps.py:20-66`) loads the user, in the same session, before the handler begins: what the
  handler takes from `current_user` was read first of all.
* `update(...)` statements see the latest committed rows; `scalar_one_or_none()` raises on two rows.
* A process can die between any two awaits; Redis and the remote services can fail at each call.

| Component | State | Operations | Interactions |
|---|---|---|---|
| Applications | `applications`, `application_events`, `interviews`, `audit_logs` | apply, withdraw, bulk status update, schedule interview | reads drives, educations, resumes; writes notifications |
| Eligibility | none | the rule as enforced (apply) and as shown (drive pages) | read by both |
| Drives | `jobs` | create, delete (cascades), nightly deadline cron, recruiter endpoints | deletes applications |
| Sessions | `refresh_tokens`, `password_reset_tokens`, cookies | login, refresh, logout, forgot, reset | browsers share a cookie among tabs |
| Accounts | `users`, `email_verification_tokens`, `password_reset_tokens` | register, verify, reset, verify in bulk, onboard | mails letters |
| Resumes | `resumes` | create, upload, edit with a version test, compile, set primary, delete, transcribe in the background | snapshotted by apply, scored by ATS |
| ATS scoring | Redis cache and locks, `resumes.ats_score` | score | feeds the leaderboard |
| Leaderboard | Redis sorted set | nudge, rank, hourly reconciliation | reads `resumes` |
| Notifications, WebSocket | `notifications`, Redis channels | create and publish, list, mark read, stream | called by bulk update and interviews |
| Events, competitions, assignments | registrations and counters, submissions | register, unregister, change, submit | none |
| Feed | `posts`, `post_comments` | announce, pin, delete, comment, list by cursor | none |
| Profile | profile sections, `users.additional_info`, `user_settings` | CRUD with caps, merge of answers, completion score | read by eligibility and resumes |
| LinkedIn audit | a key of `additional_info` | audit by a model or by rules | overwrites `additional_info` |
| Placement policy | `placement_policies` | read, update | consulted by no other code |
| Tenants | `colleges` | provision, configure, import, suspend | three consoles write one row |
| Rate limiting | Redis counters | count and refuse | guards the AI endpoints |
| LaTeX compilation | none | compile with one retry | calls `src/latex-api` |
| Middleware, search, dashboard, email, health | none | headers, role checks, read-only queries, outgoing mail | |

What makes each correct is stated by the properties of section 3; the hard behaviours are listed one by one, at their
lines and with the properties that watch them, under `hazards` in `PROJECT.json`.

## 2. Modules

| Module | What it is |
|---|---|
| `Requests` | slots for requests in flight, shared by most modules |
| `Eligibility`, `EligibilityMC` | the two copies of the application rule as pure operators; a student, their rows and offers and a drive |
| `PlacementLifecycle` | abstract specification: what students and the placement cell reckon with, one step per request |
| `Applications`, `ApplicationsMC` | drives, applications, timelines, alerts, audit and the requests in flight (EXTENDS `Eligibility`) |
| `Sessions`, `SessionsMC` | refresh tokens, cookies and password resets of one user |
| `Resumes`, `ResumesMC` | one student's resumes, several tabs, uploads and their transcription |
| `AtsScoring`, `Leaderboard` | cache, lock and stored score; sorted set, hourly repair, ranks |
| `Registrations`, `Submissions` | seats at events and competitions; assignments against a due date |
| `Feed` | posts, pins, comments and a reader who pages |
| `LiveAlerts` | a notification's row, its publication and a WebSocket |
| `ProfileSections`, `ProfileEdits` | seven tables with caps; what is edited as a whole |
| `Scores` | the three scores computed by rules, as operators |
| `Accounts`, `Tenants` | users and their letters; colleges and the policy row |
| `RateLimit`, `LatexCompile` | the limiter; the compiler with its retry |
| `CampusMC`, `ServicesMC` | the instances of the components that are checked in one run |
| `ApplicationsProofs`, `SessionsProofs`, `ResumesProofs`, `DeskProofs`, `NewsProofs`, `CampusProofs`, `ProfileProofs`, `ServicesProofs` | the theorems (section 4) |

A definition called `X_<fault>` is `X` with one plausible slip. No action uses it; each is paired in `PROJECT.json`
with a property that fails when it takes the place of `X`.

In all modules a handler that reads and later writes is two steps: `StartX` does all its reads and tests and keeps what
the handler keeps in local variables and session objects, `CommitX` is its transaction. Between the two anything may
happen. Several reads of one handler are one step where no property depends on a change between them (`Applications`
keeps them apart). A request that is refused changes nothing and is not a step. `XFails` stands for the constraint, the
stale row, the lost connection and the crash that end a request without a write.

### 2.1 Applications

| Code | Actions |
|---|---|
| `ApplicationService.apply` | `StartApply` (drive open), `ApplyCheckExisting`, `ApplyCheckPolicy` (offers, academic rule, resume), `ApplyInsert` / `ApplyInsertFails` |
| `ApplicationService.withdraw` | `StartWithdraw` (status read and tested), `CommitWithdraw` |
| `AdminService.bulk_update_application_status` | `StartBulk` (rows read), `CommitBulkItem` (one COMMIT per application, inside `create_and_publish`), `CommitBulkAudit` |
| `InterviewService.schedule_interview` | `StartInterview`, `CommitInterview`, `NotifyInterview` |
| `JobService.create_job`, `delete_job` | `CreateJob`, `DeleteJob` |
| `check_job_deadlines_task` | `CheckDeadlines`; the clock is `DeadlineNears` |
| `advance_applicants_round`, `release_offer`, `shortlist_candidates_csv` | `RecruiterUpdate`: a TypeError before the only commit |
| `get_db` on an exception, a dying process | `WriteFails`, `Crash` |

`status[a]` is `applications.status`; UNIQUE `(user_id, job_id)` makes the pair of student and drive the identity of
an application. `timeline[a]` holds the (status, actor) pairs of its events, `latest[a]` the status of the event
committed last, `alerts[a]` the notifications, `audit` the audit rows. The field `same` of a bulk or interview request
marks the applications whose loaded status already was the new one: for them no UPDATE is sent.

Abstracted: the deadline is far, near or past; notes, timestamps, rounds and the resume snapshot are left out
(`current_round` is written by `RecruiterUpdate` alone and so never advances). An apply request may end at
`ApplyCheckPolicy` even when admissible, for want of a resume; the choice of the resume is `ResumesForApply` in
`Resumes`. `deleted` drives are not posted again: identifiers are UUIDs. The recruiter endpoints answer 500 as soon as
one application matches; without one they change nothing. An interview may be scheduled for another student than the
application's; the alert is counted for the application. `ApplyInsert` answers 201 although re-reading the application
could fail if its drive is deleted in between.

### 2.2 Sessions and Accounts

In `Sessions`, `rows[t]` is the row of a refresh token, `cookie[b]` what a browser would send, `mail` the reset tokens.
A request is in flight until the browser has stored the cookie of its response (`Deliver`) or lost it
(`LoseResponse`). `login` is `Login`; `refresh_tokens` is `StartRefresh` (row read, branch chosen by `RefreshStep`)
and `Rotate`, `FindSuccessor` or `RaiseAlarm`; `logout` is `Logout`; `forgot_password` and `reset_password` are
`ForgotPassword`, `StartReset`, `CommitReset`. `by` in a row (what revoked it) and `missed` (browsers that lost a
response) are history variables used by properties only. Expiry is not an action: a refused refresh changes nothing,
so an expired token is one no later step presents.

`Accounts` looks at the same letters from the side of the account: `users[a]` holds the password, the flags, and the
state of the verification token; `letters` are the reset tokens; `BulkVerify` is `bulk_verify_users` with its audit
row. An id is drawn when the row is inserted. `resets` counts the passwords each letter has set. The other writer of
`users` is `CommitProvision` of `Tenants`: an administrator is verified from the start, without a token, and has no
settings until `OpenSettings`.

### 2.3 Resumes, scoring, leaderboard

`Resumes`: content is the set of the edits it contains, so that an edit that is lost can be named; those of
`LatexEdits` are in `latex_source`, which a compilation replaces by what its client sent and a transcription by its own.
`Transcript` stands for what the transcription adds, `llm_processing = False` included. `updated_at` is only ever
compared with the value a tab was given, so a tab has a `version`: the `latest`, an `old` one, which the test refuses,
or one that was `overtaken`. The time is taken when the UPDATE is prepared (`models/resume.py:47`); one prepared
earlier and committed later than the version of a tab passes the test of that tab. `overrun` says who may still write
so: those that read a row which was stamped since. `tab[t]`, `call[t]` and `job[r]` are the
editor, its request and `process_pdf_transcription_background`; a task that failed once runs its handler
(`handler = TRUE`), which does not look at `is_deleted`. `render_resume_pdf` is left out: no code enqueues it.

`AtsScoring`: a score request goes through `cache`, `lock`, `evaluate`, `release`, `store`. The model's answer, its
failure and its timeout all give some verdict on the text. The code stores the word "locked"; the model stores the
holder, which only `ExpireLock` looks at, for the history variable `disturbed`: the resumes whose lock failed or ran
out under an evaluation under way. The thread of a model call that timed out runs on, outside the lock, and its
answer is dropped: it is no evaluation in the sense of `OneEvaluation`.

`Leaderboard`: `StartMark`, `StoreMark` and `NudgeBoard` are a score request's read, COMMIT and ZADD, `StartRecount` and
`WriteRecount` the two halves of the hourly task.

### 2.4 Campus life

`Registrations`: events and competitions share their handlers' shape; competitions have no cancellation, change or
deletion. `offered` is history: the most seats an event was ever announced with. `Submissions`: the clock is `due`;
`last` and `overdue` are history. `Feed`: a post is the number of its `(created_at, id)`; since `created_at` is the
start of the transaction, a later number may be committed first (`drawn`). The reader's history (`throughout`,
`shown`, `wasPinned`, `pinnedEnds`) is what the properties compare. `LiveAlerts`: the handler of a WebSocket accepts
(`Accept`) before it subscribes (`Subscribe`); `watching` holds from a list filled while the socket is live until
something is cut.

### 2.5 Profile, tenants, guarded services

`ProfileSections`: seven tables with one shape; each operation of `ProfileService` has its action, all share the
steps. Columns are left out: they are as the last writer sent them. `ProfileEdits`: `additional_info`, written from
the profile page and by the LinkedIn audit; the responsibilities, replaced by DELETE and INSERT; the settings row,
which a GET inserts when it is missing. `Scores`: texts count by the tests the code makes on them, lists by their
length; the state is the input, and every edit of it is a step, so that "adding costs nothing" is a property of steps.
`Tenants`: settings are a function of their keys; what a payload may leave out is a set of at most one value;
`ordered` is what the acknowledged calls asked for; a settings object that says nothing is the absent one, as `or` has
it. `OfficeSpec` is what `Accounts` and `Tenants` do together, sharing `users`. `RateLimit`: INCR and TTL are one
call, EXPIRE is another. `LatexCompile`: a source, whether there is a service, two attempts, the network and the proxy
in front of a sleeping service, and what `src/latex-api` answers; `disturbed` and `slow` are history.

### 2.6 Composition

`Applications` composes drives, eligibility, timelines, alerts and audit, which really interact, and is checked as a
whole. `Tenants` composes the accounts with the institutions, for both insert into `users`. The other components in
`CampusMC` and `ServicesMC` share no rows with one another (a student's resumes are of course read by scoring and
ranking: `AtsScoring` and `Leaderboard` therefore have the edits, deletions and scores of resumes among their own
actions; `Sessions` has the reset letters and `ProfileEdits` the settings row from the student's side). Their
interleaving would only multiply states, so these two modules take one component at a time: `part`, chosen once, names
it. `serial`, also chosen once, keeps requests from overlapping; properties named `...WhenSerial` speak of that case
and are, together with the run that violates them or the hazard that says so, the measure of what overlap costs.

## 3. Runs

| Run | Instance | States | Properties |
|---|---|---|---|
| `applications_overlap` | 1 student, 1 drive, 2 requests, OFFERED and REJECTED, fairness | 427 k | `TypeOK`, `TimelineExplainsStatus`, `NoOrphanApplication`, `AlertsMatchDecisions`, `AuditIsTruthful`, `SubmissionNeverResets`; `RequestsEnd`, `ExpiredDrivesClose` |
| `applications_serial` | 1 student, 2 drives, 1 request | 0.9 M | `TimelineEndsInStatus`, `ImplementsLifecycle` |
| `sessions` | 1 browser, 2 requests, or 2 browsers, 1 request; 3 tokens, 1 letter | 1.7 M | `TypeOK`, `ReplacedIsRevoked`, `NoSessionLost`; `RotationIsExactWhenSerial`, `NoFalseAlarmWhenSerial` |
| `resumes` | 2 tabs, a created and an uploaded resume, limit 1; or one of them, an edit of its LaTeX and another | 2.6 M | `OvershootIsBounded`, `OnePrimaryWhenSerial`, `LossesHaveCauses` |
| `campus` | one part at a time of: eligibility, scoring, leaderboard, registrations, submissions, feed, comments, alerts, the transcription of an upload | 309 k | `CampusTypeOK`, `ApplyAgreesWithListing`, `OneEvaluation`, `VerdictsFit`, `CountWithinOffer`, `CountsAreExactWhenSerial`, `NoLateFileOnTime`, `ScrollFailsOnlyAtPins`, `ComingOrSeen`; `AlertsArrive`, `BoardConverges`, `TranscriptionEnds` |
| `services` | one part at a time of: each profile section, each kind of edit, each score, accounts with a college being provisioned, tenants, policy, limiter, compiler | 138 k | `ServicesTypeOK`, `CapsHold`, `GoneStaysGone`, `IdentitiesAreSound`, `AnswersStandWhenSerial`, `AdviceIsHonest`, `MoreNeverCosts`, `WithinLimit`, `NoLockout`, `OneDisturbanceIsSurvived` |

What each property says, in words and of which code, is written above it in its module. All finish within minutes with
two workers.

**Bounds and why they are enough.** Every race in this code is between two requests (or a request and a background
task) about one row or one key, so two slots, or two tabs, show each of them: the violations below need no more. A
second drive is needed only where an offer locks another. Three tokens are a token, its successor and either a second
successor or the successor's successor; `Grace = 1` and `MaxNow = 2` reach both sides of the grace period. Three
tickets (files, sheets) allow two requests in flight and one more after either. Three posts with pages of one give a
page before, at and after a change. Caps of one and two are passed by one. `MaxRequests = 2` with `MostCounted = 4`
reaches counts at and above the limit; the counter saturates there, where every larger count is refused alike.
`Decisions` is what officers send; the code treats the others like these two. `OneAuditRow` stops the serial run
once a second audit row is written. Which further combinations are left out is written as conjuncts of
the next-state relations of `ResumesMC`, `CampusMC` and `ServicesMC`, with a comment above them. Tokens, tabs and
edits of one kind are interchangeable and `SYMMETRY` says so where only invariants and properties of single steps are checked. What these
bounds leave open is what section 4 closes for every safety property: the theorems have no bounds.

**Deadlock** is checked in the runs of applications, sessions and eligibility. Identifiers (rows, tickets, accounts)
are drawn once, as UUIDs are; in the modules of `resumes`, `edits_overwritten`, `campus` and `services` they run out,
and the instance really stops: hence `CHECK_DEADLOCK FALSE` there. That what has begun comes to an end is stated by
the liveness properties instead.

**Fairness.** A coroutine that can go on is run by asyncio, whatever its outcome (weak fairness of `Proceed` per slot
of `Applications`, of `Publish \/ PublishFails` and `Forward` in `LiveAlerts`, of `JobNext` in `Resumes`); arq runs
its crons (weak fairness of `CheckDeadlines`, `StartRecount`). Two assumptions are stronger than scheduling:
`BoardConverges` needs that the hourly ZADD does not fail for ever (strong fairness of `WriteRecount`), and `NoLockout`
that Redis windows end and that the user goes on asking without always hitting a failure (`LimitFairness`, stated only
where `part` is the limiter). Clients, officers, crashes, deletions and the clock of the drives are under no fairness.
The fairness of a component that is not the chosen `part` asks for nothing: no action it names is enabled there.

### What the code does otherwise

Each of these runs checks one statement of the code or its documentation, and TLC finds it violated.

| Run | Statement | Counterexample |
|---|---|---|
| `decisions_stand` | only active applications are withdrawn (`services/application_service.py:228`) | withdraw reads, an offer is committed, withdraw overwrites it |
| `offers_lock` | an offer closes other drives (`services/application_service.py:121`) | the offer is committed between the policy check and the insert |
| `departments` | apply checks departments (`src/README.md:65`, `services/application_service.py:138`) | it does not |
| `edits_overwritten` | the version test stops overwrites by other tabs (`src/README.md:57`) | two saves of one version both pass the test before either commits |
| `false_alarm` | the grace period prevents false invalidations (`src/README.md:44`) | the answer to a second tab puts the revoked token back into the shared cookie |
| `reset_race` | a reset revokes all refresh tokens (`services/auth_service.py:331`) | a refresh in flight commits a live successor afterwards |

`decisions_stand`, `offers_lock`, `false_alarm` and `reset_race` hold of requests that do not overlap, which is what
`ImplementsLifecycle`, `NoFalseAlarmWhenSerial` and `RotationIsExactWhenSerial` say: the guards are right, the
transactions around them are missing. `edits_overwritten` holds as long as no requests overlap, but the purpose
of the version test is missed without any overlap too: a compilation makes no such test. `LossesHaveCauses` lists what
may cost a saved edit; all else leaves it in place.

Seen while reading, and not the subject of a run of its own:

* Every release of an offer answers 500: `api/v1/jobs.py:277` gives `Notification` a `message` it does not have.
* `api/v1/admin.py:399` annotates a class field with `datetime`, which is imported only inside a function (`:419`).
  On Python 3.12 (`src/Dockerfile`) that fails at import, and with it the router. The models take the handlers as meant.
* `educations` has no `active_backlogs`, so the backlog rule compares 0 with the limit and never refuses.
* The stored placement policy (`api/v1/admin.py:325-387`) is consulted nowhere; `POST /resumes/{id}/pdf` enqueues nothing.
* The second of two simultaneous applications meets UNIQUE and answers 500, not 201 (`src/README.md:66`).
* "Any active resume" (`services/application_service.py:176`) raises when there are two and no primary; so does the
  primary one when two overlapping `set_primary` leave two (`OnePrimaryWhenSerial` is the part that holds).
* `POST /resumes/{id}/compile` stores the LaTeX it was sent (`api/v1/resumes.py:261`) and takes no
  `last_known_updated_at`: a tab that compiles puts its own source in the place of what another tab has saved.
* A sole tab is told of "another session" after its own scoring or its own choice of a primary moved `updated_at`
  (`services/resume_service.py:167`).
* The alarm is also raised inside the grace period, against the comment at `services/auth_service.py:197`, for a token
  revoked by a logout whose response was lost.
* Two overlapping resets with one letter both set a password; overlapping settings, toggles, comments and registrations
  lose updates of their counters. The `...WhenSerial` properties are what remains.
* A failing EXPIRE admits a request that was counted over the limit. The thread of a model call outlives its timeout
  and the lock that was to prevent a second call (`src/README.md:56`).
* "Add work experience or certifications to achieve 80%+" (`services/profile_service.py:118`) is shown only while
  basic facts are missing; from 65 one addition gives 75.
* `occurred_at` is the start of a transaction, so a displayed timeline need not be in the order of the commits.

## 4. Proofs

| Module | About | Theorems | Assumptions |
|---|---|---|---|
| `ApplicationsProofs` | `Applications` | `TypeCorrect`, `TimelineIsComplete`, `NoOrphans`, `AuditTruth`, `AlertsTruth`, `SubmissionIsHarmless`; `SerialRefinement`, `SerialTimeline` | `ApplicationsAssumption`, `RelatedAssumption`; for the last two at most one slot |
| `SessionsProofs` | `Sessions`, `SessionsMC` | `TypeCorrect`, `Rotation`, `SessionsAreHandedOn`; `RotationIsExact`, `NoFalseAlarms` | `SessionsAssumption` |
| `ResumesProofs` | `Resumes`, `ResumesMC` | `ResumesTypeCorrect`, `LossesAreExplained`, `LimitHolds`; `OnePrimary` | `ResumesAssumption` (finitely many tabs and resumes) |
| `DeskProofs` | `Registrations`, `Submissions` | `RegistrationsTypeCorrect`, `NoOverbookedCount`, `SerialCount`, `LateFilesStayLate` | `SeatsAssumption`, `TicketsAssumption`, `FilesAssumption` |
| `NewsProofs` | `LiveAlerts`, `Feed` | `NothingIsMissed`, `ScrollsFailOnlyAtPins` | `FeedAssumption` |
| `CampusProofs` | `AtsScoring`, `EligibilityMC`, `Leaderboard`, `CampusMC` | `ScoringTypeCorrect`, `LockExcludes`, `VerdictsAreFiledRight`, `PageAndApplyAgree`; `CampusTypeCorrect`, `CountsAreExact` | `ScoringAssumption`, `LeaderboardAssumption`, `RelatedAssumption`, and those of the parts |
| `ProfileProofs` | `ProfileSections`, `ProfileEdits`, `Scores` | `CapsAreKept`, `SectionsTypeCorrect`, `DeletedForGood`, `SkillsAreDistinct`, `AdviceCanBeTaken`, `NobodyPaysForMore` | `SectionsAssumption` (finitely many requests and keys), `EditsAssumption`, `ScoresAssumption` |
| `ServicesProofs` | `Accounts`, `Tenants`, `RateLimit`, `LatexCompile`, `ServicesMC` | `AddressesAreUnique`, `VerificationsAreExplained`, `CollegesApart`, `TheLimitHolds`, `RetryHelps`; `ServicesTypeCorrect`, `IdentitiesStaySound`, `AnswersStand` | `TenantsAssumption`, `LimitAssumption`, and those of the parts |

Every invariant, every property of single steps and the refinement that the passing runs check is stated by one of
these theorems. They hold for arbitrary sets of students, drives, tokens, tabs, resumes, requests, and so on; sets are
finite only where something is counted. TLC evaluates the assumptions on the instances. What they demand beyond the
sorts of the constants is what the code gives: marks lie between 0 and 100 (`schemas/resume.py:15`), a list may be
empty (`0 \in Counts`), the default settings and rules are settings and rules, a page holds at least one post.
A theorem about a component speaks of the component's own specification, in which its requests overlap freely, unless
the property itself is about requests that do not (`SerialCount`, and the theorems after a semicolon in the first three
rows). `CampusTypeCorrect`, `CountsAreExact` and the last three of `ServicesProofs` speak of the specifications the
runs check.

### 4.1 The arguments

**Applications.** None of the safety properties is inductive alone. `TimelineExplainsStatus` needs a fact about
requests in flight: an interview about to commit holds the lock that keeps its application's drive from being deleted
(`InterviewsLock`), or the event would be written for a row that is gone. With `TypeOK` and `NoOrphanApplication` this
is `CoreInv`; an update that is not sent (`same`) is harmless because the status the request loaded was already in the
timeline, and events go only with their application. The truth of audit rows and alerts is about the past: an audit row
speaks of applications whose loop steps came earlier. `KeptInv` carries that over the steps in between: what a bulk
update has finished stays recorded while the drive is posted (`BulkKept`), what an interview is to announce has been
logged (`InterviewsKept`), and likewise for rows and alerts already written (`AuditKept`, `AlertsKept`,
`DecisionsAlerted`). `SubmissionIsHarmless` is an action property and follows from the type of the requests: the insert
is the only step of a submission that writes, and it needs the application not to exist.

**Applications, one request at a time.** `SerialInv` says that what the one request has read is still true when it
commits; nothing else writes application rows except `delete_job` and the cron, which are not requests of a slot and
for which the invariant is weakened accordingly. Each step then maps to one step of `PlacementLifecycle` or to a
stutter, which is `Spec => ImplementsLifecycle`.

**Sessions.** `RowsChange` collects all that can happen to the table: each step is one of five changes (`RowSteps`), and
none removes a row, a predecessor link or a revocation (`RowsGrow`). The one fact about requests that is needed is that
they hold only tokens that were issued (`Known`).

**Sessions, one request at a time.** `RotationIsExact` says that a token has at most one successor and that none lives on
whose predecessor was revoked with all others. Neither is inductive: that the row read as live is still live at the commit needs `Alone` (the other
slots are idle) and `Fresh` (the branch a request took still fits the row), and that the exchange does not wipe out the
mark of a revocation needs `LiveIsClean`. The absence of false alarms is about browsers: `CookiesFit` says that no two
share a cookie, and that one which received all its responses holds an exchanged token only while the response with the
successor is under way. An alarm then means that the browser missed a response (`AlarmsAreTrue`).

**Resumes.** `EditInv`: a tab that has the latest version has all that is in the row, so what a save read is contained
in what it will write if it passed the version test with that version, and the LaTeX a compilation read in what it was
sent by such a tab (`Fits`). A write that loses an edit therefore read before that edit was committed, or was not
compared with the version it was made from, or is a compilation or transcription that replaces the LaTeX
(`LossesAreExplained`). For the limit, `CountsChange` follows the number of active
resumes and of creations in flight step by step: the two together pass the limit by less than the number of tabs.
`OnePrimary` is `PrimaryInv`: a request that is to create the first resume found none active, and beside it none runs
that could flag one; most steps only clear flags (`FlagsOnlyFall`), `set_primary` clears all others in its transaction.

**Desk.** `OfferInv`: what a request in flight has read, plus the seat it adds, is within what was once offered, and the
present capacity is too. That is why overlaps make the count wrong but never higher than the offer. `SerialInv` keeps
the count equal to the number of rows, with what the one request is about to change, and `HandedInv` says that
what a submission found is what is there. `SubmitInv` ties the lateness of a request to the clock and to the rows it found.

**Alerts and feed.** `AlertInv` adds that a request marking all as read holds only committed rows. For the feed, the
order of the listing is an order on the rows (`BeforeIsAnOrder`), a finite non-empty set has a first and a last row in it
(`FirstAndLast`), and so a page is a prefix of what lies below the cursor (`PageIsAPrefix`): a row passed over comes
after everything shown. `PostsInv` is about the rows alone: a drawn number belongs to one request, and counters lag
behind the comments. `ReaderInv` is about the reader: what stood throughout was shown, lies below the cursor, or lies above a pinned
post that ended a page; and what was shown unpinned lies above the cursor, so that it cannot come again. `CountedInv`
is for comments taken one at a time.

**Scoring.** `ScoringInv`: as long as a resume's lock was not disturbed, whoever evaluates it holds it, so two
evaluators are the same request; and every score in a request is a verdict on the text the request read, which is what
is written under its hash; the row remembers, for the property, which text its score is of.

**Eligibility.** `RulesAgree` compares the two copies of the rule for any rows, offers and drive. The policy is a
table in the one place and a chain of conditions in the other, and `PoliciesAgree` goes through the tiers; the grades
and the backlogs are compared alike. The lemma therefore needs nothing about what the best grade is.

**Profile.** `ShelfInv`: ids are drawn once, so that a COMMIT can create only the row it drew and an update of a deleted
row finds none. The caps follow from `CapsStep`, by the same count as the limit of resumes. `EditsInv`: what the one
request has read of the answers, the responsibilities or the settings is what is there, so that its write keeps all
that was acknowledged.

**Scores.** `ScoresInv` gives the ranges of the inputs; from there the proofs are arithmetic. The percentage is
rewritten as the sum of what is not missing (`ThePercentage`), from which `AdviceOpen` follows by cases. The LinkedIn
score is a weighted sum of parts: `RatesArePercentages` bounds the rounded rate of keywords, `TheParts` bounds the others
and relates each to the advice that goes with it (`AuditConsistent`). That adding costs nothing (`MoreOfAProfile`, `MoreOfAResume`) is monotonicity of each rule.

**Accounts and tenants.** `AccountInv` is the referential integrity of letters and requests, and that who has a token
to verify with has settings too; `LettersInv` adds that, alone, the letter a reset is about to use has set no password
yet. `TenantInv`: what a call refers to is there (`ConsoleFits`), so that each commit changes one row (`OneCollege`) and
leaves in it what `CollegeWritten` says, or inserts one with its administrator (`CollegeFounded`), whose id no account
has. Neither half of `OfficeNext` stands alone: a registration must leave administrators registered
(`AccountsKeepTenants`), a provisioning must leave addresses unique and its administrator explained (`UserInserted`,
`TenantsKeepAccounts`). `ConsoleSerialInv`: alone, what a console has loaded is what is stored, so its commit carries
everything ordered before, and the policy has one row.

**Guarded services.** `LimitInv` gives each request that was or is about to be admitted its own number on the counter,
which INCR makes atomic. `LatexInv`: a second attempt is made only after the first was disturbed, and an answer tells
the truth about the source; where no service is configured nothing is promised of a good one.

**Composition.** `CampusInv` and `ServicesInv` are the conjunctions of the parts' invariants, `CampusSerialInv` and
`ServicesSerialInv` those that hold where `serial` was chosen. `OneByOne` and `OneServiceAtATime` show that each step of
the whole is, for every part, a step of that part or none; with them the theorems about the whole are those about
the parts.

### 4.2 Only model-checked

What needs ENABLED, and so liveness under fairness, is out of the provers' reach: `RequestsEnd`, `ExpiredDrivesClose`,
`AlertsArrive`, `BoardConverges`, `TranscriptionEnds` and `NoLockout` stay with TLC, in the bounds of section 3. So does,
necessarily, everything in "What the code does otherwise". Induction over data is not needed for what is proved:
of the best grade it is enough that both rules use the same one, of the best mark that it is a mark.

## 5. What is not modelled

* `workers/tasks/render_pdf.py`: no code enqueues it.
* The columns of profile rows, `update_basic`, avatars, branding: assignments of what was sent, on which nothing else
  depends.
* Text: the extraction from PDFs (`parse_linkedin_pdf`, the upload's transcription), the generation of LaTeX,
  `services/layout_service.py`, prompts. The answers of the remote models are any value their schema admits.
* Search, dashboard, analytics, health, exports and lists: queries that change nothing. Mail: sent and forgotten.
* Storage, Redis, PostgreSQL, the model provider: external; modelled by what the code sees of them, failures included.
* Middleware, role checks, the mapping of errors: no state between requests. Migrations, settings, start-up.
* The size of the connection pool (`db/session.py:9`): a question of load, not of order.

What could be added: an atomic register which `Resumes` implements for one request at a time, and an abstract
specification of a session which `Sessions` implements, each with its refinement; the choice of a resume inside
`Applications` rather than beside it.
