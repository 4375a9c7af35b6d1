---------------------------- MODULE Applications ----------------------------
(***************************************************************************)
(* Placement drives and applications.  Requests are served concurrently    *)
(* by several uvicorn processes over one PostgreSQL database in READ       *)
(* COMMITTED: a handler reads rows with plain SELECTs, decides in Python   *)
(* and writes at a later COMMIT, and other requests commit in between.     *)
(* A request is held in `req` from its first read to its response; each    *)
(* step of it is one read whose result it keeps, or one transaction it     *)
(* commits.  A handler whose only effect is to refuse (400, 404) changes   *)
(* nothing and is not a step.                                              *)
(*                                                                         *)
(* UNIQUE (user_id, job_id) makes the pair <<student, job>> the identity   *)
(* of an application.                                                      *)
(*                                                                         *)
(* A definition whose name ends in _<fault> is the one after it with a     *)
(* single slip; no action uses it, it is there to be put in its place, to  *)
(* see a property fail.                                                    *)
(***************************************************************************)
EXTENDS Eligibility

CONSTANTS Students, Jobs,
          Workers,         \* slots for requests in flight
          Rule,            \* Rule[j]: the eligibility columns of job j
          Education,       \* Education[s]: the education rows of student s
          Decisions        \* the values of new_status officers send

ApplicationStatus == {"APPLIED", "UNDER_REVIEW", "SHORTLISTED",
                      "INTERVIEW_SCHEDULED", "OFFERED", "REJECTED", "WITHDRAWN"}

ASSUME ApplicationsAssumption ==
  /\ Rule \in [Jobs -> JobRule]
  /\ Education \in [Students -> SUBSET EducationRow]
  /\ Decisions \subseteq ApplicationStatus

VARIABLES
  jobStatus, \* "unposted" before create_job, "deleted" after delete_job
  deadline,  \* how far jobs.deadline is: "far" (> 48 h), "near" or "past"
  status,    \* applications.status, or NoApplication
  timeline,  \* the (status, actor) pairs among an application's events
  latest,    \* the status of the application's last committed event
  alerts,    \* notifications of the student about the application
  audit,     \* audit_logs rows of bulk_update_application_status
  req        \* the requests in flight

drives == <<jobStatus, deadline>>
records == <<status, timeline, latest, alerts>>
vars == <<drives, records, audit, req>>

Apps == Students \X Jobs
NoApplication == "none"
Event == [status: ApplicationStatus, actor: {"STUDENT", "TPO"}]
Alert == ApplicationStatus \cup {"INTERVIEW"}
AuditRow == [new_status: ApplicationStatus, application_ids: SUBSET Apps]

Idle == [op |-> "idle"]
ApplyRequest == [op: {"apply"}, pc: {"existing", "policy", "insert"}, app: Apps]
WithdrawRequest == [op: {"withdraw"}, app: Apps]
BulkRequest == [op: {"bulk"}, to: ApplicationStatus, ids: SUBSET Apps,
                todo: SUBSET Apps, same: SUBSET Apps]
InterviewRequest == [op: {"interview"}, pc: {"commit", "notify"}, app: Apps,
                     same: BOOLEAN]
Response == [op: {"reply"}, to: {"apply", "offer", "rounds", "shortlist"},
             code: {"201", "500"}]
Request == {Idle} \cup ApplyRequest \cup WithdrawRequest \cup BulkRequest
                  \cup InterviewRequest \cup Response

TypeOK ==
  /\ jobStatus \in [Jobs -> {"unposted", "OPEN", "CLOSING_SOON", "CLOSED", "deleted"}]
  /\ deadline \in [Jobs -> {"far", "near", "past"}]
  /\ status \in [Apps -> ApplicationStatus \cup {NoApplication}]
  /\ timeline \in [Apps -> SUBSET Event]
  /\ latest \in [Apps -> ApplicationStatus \cup {NoApplication}]
  /\ alerts \in [Apps -> SUBSET Alert]
  /\ audit \subseteq AuditRow
  /\ req \in [Workers -> Request]

Init ==
  /\ jobStatus = [j \in Jobs |-> "unposted"]
  /\ deadline = [j \in Jobs |-> "far"]
  /\ status = [a \in Apps |-> NoApplication]
  /\ timeline = [a \in Apps |-> {}]
  /\ latest = [a \in Apps |-> NoApplication]
  /\ alerts = [a \in Apps |-> {}]
  /\ audit = {}
  /\ req = [w \in Workers |-> Idle]

Posted(j) == jobStatus[j] \notin {"unposted", "deleted"}
Exists(a) == status[a] # NoApplication
OfferTiers(s) == {Rule[j].tier : j \in {k \in Jobs : status[<<s, k>>] = "OFFERED"}}

Go(w, r) == req' = [req EXCEPT ![w] = r]
Reply(to, code) == [op |-> "reply", to |-> to, code |-> code]

\* Log an event on application a and make its status st, unless the session
\* had loaded st already: then the assignment is no change and no UPDATE is sent.
Record(a, st, actor, unchanged) ==
  /\ status' = IF unchanged THEN status ELSE [status EXCEPT ![a] = st]
  /\ timeline' = [timeline EXCEPT ![a] = @ \cup {[status |-> st, actor |-> actor]}]
  /\ latest' = [latest EXCEPT ![a] = st]

------------------------------------------------------------------------------
(* Drives *)

\* JobService.create_job; the deadline is whatever the officer typed.
CreateJob(j) ==
  /\ jobStatus[j] = "unposted"
  /\ jobStatus' = [jobStatus EXCEPT ![j] = "OPEN"]
  /\ \E d \in {"far", "near", "past"} : deadline' = [deadline EXCEPT ![j] = d]
  /\ UNCHANGED <<records, audit, req>>

\* delete_job: the applications and their events go with the job.  A pending
\* schedule_interview holds a key-share lock on its application row, and the
\* DELETE waits for it.
DeleteJob(j) ==
  /\ Posted(j)
  /\ \A w \in Workers :
       req[w].op = "interview" /\ req[w].pc = "commit" => req[w].app[2] # j
  /\ jobStatus' = [jobStatus EXCEPT ![j] = "deleted"]
  /\ status' = [a \in Apps |-> IF a[2] = j THEN NoApplication ELSE status[a]]
  /\ timeline' = [a \in Apps |-> IF a[2] = j THEN {} ELSE timeline[a]]
  /\ latest' = [a \in Apps |-> IF a[2] = j THEN NoApplication ELSE latest[a]]
  /\ UNCHANGED <<deadline, alerts, audit, req>>

\* The clock: a deadline comes closer and passes.
DeadlineNears(j) ==
  /\ Posted(j) /\ deadline[j] # "past"
  /\ deadline' = [deadline EXCEPT ![j] = IF @ = "far" THEN "near" ELSE "past"]
  /\ UNCHANGED <<jobStatus, records, audit, req>>

CheckDeadlines_SkipsClosingSoon ==
  /\ jobStatus' = [j \in Jobs |->
       IF deadline[j] = "past" /\ jobStatus[j] = "OPEN" THEN "CLOSED"
       ELSE IF deadline[j] = "near" /\ jobStatus[j] = "OPEN" THEN "CLOSING_SOON"
       ELSE jobStatus[j]]
  /\ UNCHANGED <<deadline, records, audit, req>>

\* check_job_deadlines_task, the nightly cron: two UPDATEs, one COMMIT.
CheckDeadlines ==
  /\ jobStatus' = [j \in Jobs |->
       IF Posted(j) /\ deadline[j] = "past" THEN "CLOSED"
       ELSE IF deadline[j] = "near" /\ jobStatus[j] = "OPEN" THEN "CLOSING_SOON"
       ELSE jobStatus[j]]
  /\ UNCHANGED <<deadline, records, audit, req>>

------------------------------------------------------------------------------
(* ApplicationService.apply *)

\* The job exists, is not CLOSED, and its deadline has not passed.
StartApply(w, a) ==
  /\ req[w] = Idle
  /\ Posted(a[2]) /\ jobStatus[a[2]] # "CLOSED" /\ deadline[a[2]] # "past"
  /\ Go(w, [op |-> "apply", pc |-> "existing", app |-> a])
  /\ UNCHANGED <<drives, records, audit>>

\* Already applied: answer with the existing application.
ApplyCheckExisting(w) ==
  /\ req[w].op = "apply" /\ req[w].pc = "existing"
  /\ Go(w, IF Exists(req[w].app) THEN Reply("apply", "201")
                                 ELSE [req[w] EXCEPT !.pc = "policy"])
  /\ UNCHANGED <<drives, records, audit>>

Admissible_OffersNotLoaded(a) == MayApply(Education[a[1]], {}, Rule[a[2]])
Admissible(a) == MayApply(Education[a[1]], OfferTiers(a[1]), Rule[a[2]])

\* Offer policy, academic rule and the choice of a resume.  The resumes are
\* not part of this module: an admissible request may still end here for want
\* of one.
ApplyCheckPolicy(w) ==
  /\ req[w].op = "apply" /\ req[w].pc = "policy"
  /\ \/ /\ Admissible(req[w].app)
        /\ Go(w, [req[w] EXCEPT !.pc = "insert"])
     \/ Go(w, Idle)
  /\ UNCHANGED <<drives, records, audit>>

ApplyInsert_DefaultStatusCode(w) ==
  /\ req[w].op = "apply" /\ req[w].pc = "insert"
  /\ Posted(req[w].app[2]) /\ ~Exists(req[w].app)
  /\ Record(req[w].app, "APPLIED", "STUDENT", FALSE)
  /\ Go(w, Reply("apply", "200"))
  /\ UNCHANGED <<drives, alerts, audit>>

ApplyInsert_NoForeignKey(w) ==
  /\ req[w].op = "apply" /\ req[w].pc = "insert"
  /\ ~Exists(req[w].app)
  /\ Record(req[w].app, "APPLIED", "STUDENT", FALSE)
  /\ Go(w, Reply("apply", "201"))
  /\ UNCHANGED <<drives, alerts, audit>>

ApplyInsert_NoUniqueConstraint(w) ==
  /\ req[w].op = "apply" /\ req[w].pc = "insert"
  /\ Posted(req[w].app[2])
  /\ Record(req[w].app, "APPLIED", "STUDENT", FALSE)
  /\ Go(w, Reply("apply", "201"))
  /\ UNCHANGED <<drives, alerts, audit>>

\* INSERT application and first event, COMMIT.
ApplyInsert(w) ==
  /\ req[w].op = "apply" /\ req[w].pc = "insert"
  /\ Posted(req[w].app[2]) /\ ~Exists(req[w].app)
  /\ Record(req[w].app, "APPLIED", "STUDENT", FALSE)
  /\ Go(w, Reply("apply", "201"))
  /\ UNCHANGED <<drives, alerts, audit>>

\* The INSERT meets uq_user_job_application or the foreign key to a job that
\* is gone: IntegrityError, which no handler translates.
ApplyInsertFails(w) ==
  /\ req[w].op = "apply" /\ req[w].pc = "insert"
  /\ ~Posted(req[w].app[2]) \/ Exists(req[w].app)
  /\ Go(w, Reply("apply", "500"))
  /\ UNCHANGED <<drives, records, audit>>

------------------------------------------------------------------------------
(* ApplicationService.withdraw *)

StartWithdraw(w, a) ==
  /\ req[w] = Idle
  /\ status[a] \notin {NoApplication, "OFFERED", "REJECTED", "WITHDRAWN"}
  /\ Go(w, [op |-> "withdraw", app |-> a])
  /\ UNCHANGED <<drives, records, audit>>

\* UPDATE ... WHERE id = ... : whatever the status has become since the read.
CommitWithdraw(w) ==
  /\ req[w].op = "withdraw"
  /\ Exists(req[w].app)
  /\ Record(req[w].app, "WITHDRAWN", "STUDENT", FALSE)
  /\ Go(w, Idle)
  /\ UNCHANGED <<drives, alerts, audit>>

------------------------------------------------------------------------------
(* AdminService.bulk_update_application_status *)

StartBulk_AlertsFirst(w, ids, st) ==
  LET found == {a \in ids : Exists(a)} IN
  /\ req[w] = Idle
  /\ found # {}
  /\ Go(w, [op |-> "bulk", to |-> st, ids |-> found, todo |-> found,
            same |-> {a \in found : status[a] = st}])
  /\ alerts' = [a \in Apps |-> IF a \in found THEN alerts[a] \cup {st} ELSE alerts[a]]
  /\ UNCHANGED <<drives, status, timeline, latest, audit>>

StartBulk(w, ids, st) ==
  LET found == {a \in ids : Exists(a)} IN
  /\ req[w] = Idle
  /\ found # {}
  /\ Go(w, [op |-> "bulk", to |-> st, ids |-> found, todo |-> found,
            same |-> {a \in found : status[a] = st}])
  /\ UNCHANGED <<drives, records, audit>>

\* create_and_publish commits, and with its notification the status and the
\* event of the application the loop is at.
CommitBulkItem(w) ==
  /\ req[w].op = "bulk"
  /\ \E a \in req[w].todo :
       /\ Exists(a)
       /\ Record(a, req[w].to, "TPO", a \in req[w].same)
       /\ alerts' = [alerts EXCEPT ![a] = @ \cup {req[w].to}]
       /\ Go(w, [req[w] EXCEPT !.todo = @ \ {a}])
  /\ UNCHANGED <<drives, audit>>

CommitBulkAudit_BeforeLoop(w) ==
  /\ req[w].op = "bulk"
  /\ audit' = audit \cup
       {[new_status |-> req[w].to, application_ids |-> req[w].ids]}
  /\ Go(w, IF req[w].todo = {} THEN Idle ELSE req[w])
  /\ UNCHANGED <<drives, records>>

\* The audit row comes last, in a transaction of its own.
CommitBulkAudit(w) ==
  /\ req[w].op = "bulk" /\ req[w].todo = {}
  /\ audit' = audit \cup
       {[new_status |-> req[w].to, application_ids |-> req[w].ids]}
  /\ Go(w, Idle)
  /\ UNCHANGED <<drives, records>>

------------------------------------------------------------------------------
(* InterviewService.schedule_interview, with an application_id *)

\* INSERT interview (flush), then read the application.
StartInterview(w, a) ==
  /\ req[w] = Idle
  /\ Exists(a)
  /\ Go(w, [op |-> "interview", pc |-> "commit", app |-> a,
            same |-> status[a] = "INTERVIEW_SCHEDULED"])
  /\ UNCHANGED <<drives, records, audit>>

CommitInterview_NoEvent(w) ==
  /\ req[w].op = "interview" /\ req[w].pc = "commit"
  /\ status' = [status EXCEPT ![req[w].app] = "INTERVIEW_SCHEDULED"]
  /\ Go(w, [req[w] EXCEPT !.pc = "notify"])
  /\ UNCHANGED <<drives, timeline, latest, alerts, audit>>

CommitInterview_OnlyFirstStages(w) ==
  /\ req[w].op = "interview" /\ req[w].pc = "commit"
  /\ Record(req[w].app, "INTERVIEW_SCHEDULED", "TPO",
            status[req[w].app] \notin {"APPLIED", "UNDER_REVIEW", "SHORTLISTED"})
  /\ Go(w, [req[w] EXCEPT !.pc = "notify"])
  /\ UNCHANGED <<drives, alerts, audit>>

CommitInterview(w) ==
  /\ req[w].op = "interview" /\ req[w].pc = "commit"
  /\ Record(req[w].app, "INTERVIEW_SCHEDULED", "TPO", req[w].same)
  /\ Go(w, [req[w] EXCEPT !.pc = "notify"])
  /\ UNCHANGED <<drives, alerts, audit>>

\* create_and_publish, in a second transaction.
NotifyInterview(w) ==
  /\ req[w].op = "interview" /\ req[w].pc = "notify"
  /\ alerts' = [alerts EXCEPT ![req[w].app] = @ \cup {"INTERVIEW"}]
  /\ Go(w, Idle)
  /\ UNCHANGED <<drives, status, timeline, latest, audit>>

------------------------------------------------------------------------------
(* The recruiter endpoints of jobs.py *)

NotificationColumns == {"id", "user_id", "title", "body", "type", "is_read",
                        "link", "created_at", "user"}

\* advance_applicants_round, release_offer and shortlist_candidates_csv set
\* the status, log the event, and then build Notification(..., message=...):
\* a TypeError before their only COMMIT, so the session is rolled back.
RecruiterUpdate(w, endpoint, a) ==
  /\ req[w] = Idle
  /\ Exists(a)
  /\ ~({"user_id", "type", "title", "message"} \subseteq NotificationColumns)
  /\ Go(w, Reply(endpoint, "500"))
  /\ UNCHANGED <<drives, records, audit>>

------------------------------------------------------------------------------
(* The server *)

Respond(w) ==
  /\ req[w].op = "reply"
  /\ Go(w, Idle)
  /\ UNCHANGED <<drives, records, audit>>

WriteFails_BulkOnly(w) ==
  /\ req[w].op = "bulk" /\ \E a \in req[w].todo : ~Exists(a)
  /\ Go(w, Idle)
  /\ UNCHANGED <<drives, records, audit>>

\* An application deleted under a write makes it fail: StaleDataError on the
\* UPDATE, a foreign-key violation on the event.  The open transaction is
\* rolled back, what bulk_update has already committed stays.
WriteFails(w) ==
  /\ \/ req[w].op = "withdraw" /\ ~Exists(req[w].app)
     \/ req[w].op = "bulk" /\ \E a \in req[w].todo : ~Exists(a)
  /\ Go(w, Idle)
  /\ UNCHANGED <<drives, records, audit>>

\* The process serving w dies, or the connection to the database is lost.
Crash(w) ==
  /\ req[w].op \notin {"idle", "reply"}
  /\ Go(w, Idle)
  /\ UNCHANGED <<drives, records, audit>>

\* The steps of a request that has started.
Proceed(w) ==
  \/ ApplyCheckExisting(w) \/ ApplyCheckPolicy(w)
  \/ ApplyInsert(w) \/ ApplyInsertFails(w)
  \/ CommitWithdraw(w)
  \/ CommitBulkItem(w) \/ CommitBulkAudit(w)
  \/ CommitInterview(w) \/ NotifyInterview(w)
  \/ WriteFails(w) \/ Respond(w)

\* What clients send.
Receive(w) ==
  \/ \E a \in Apps :
       \/ StartApply(w, a) \/ StartWithdraw(w, a) \/ StartInterview(w, a)
       \/ \E e \in {"offer", "rounds", "shortlist"} : RecruiterUpdate(w, e, a)
  \/ \E ids \in SUBSET Apps, st \in Decisions : StartBulk(w, ids, st)

Next ==
  \/ \E j \in Jobs : CreateJob(j) \/ DeleteJob(j) \/ DeadlineNears(j)
  \/ CheckDeadlines
  \/ \E w \in Workers : Receive(w) \/ Proceed(w) \/ Crash(w)

\* A coroutine that can go on is run, and arq runs the nightly cron.
Fairness == /\ (\A w \in Workers : WF_vars(Proceed(w)))
            /\ WF_vars(CheckDeadlines)

Spec == Init /\ [][Next]_vars
FairSpec == Spec /\ Fairness
------------------------------------------------------------------------------
(* What holds however requests interleave, fail and crash *)

\* An application is accounted for by its timeline (README.md:67, "Complete
\* stage timeline auditing"): it was submitted by the student, the status it
\* is in was recorded, by the placement cell for every status a student cannot
\* reach alone; and no event outlives its application.
TimelineExplainsStatus ==
  \A a \in Apps :
    /\ Exists(a) =>
         /\ [status |-> "APPLIED", actor |-> "STUDENT"] \in timeline[a]
         /\ \/ [status |-> status[a], actor |-> "TPO"] \in timeline[a]
            \/ /\ status[a] \in {"APPLIED", "WITHDRAWN"}
               /\ [status |-> status[a], actor |-> "STUDENT"] \in timeline[a]
    /\ ~Exists(a) => timeline[a] = {}

\* delete_job leaves no application behind, not even one whose INSERT was
\* under way (jobs.py:100-110 against application_service.py:209-219).
NoOrphanApplication == \A a \in Apps : Exists(a) => Posted(a[2])

\* An audit row of a bulk update tells the truth: each application it names
\* has the event, unless its job was deleted since.
AuditIsTruthful ==
  \A r \in audit : \A a \in r.application_ids :
    Posted(a[2]) => [status |-> r.new_status, actor |-> "TPO"] \in timeline[a]

\* The alerts a student received tell the truth too, and no decision of a bulk
\* update is committed without its alert (README.md:75, "automated candidate
\* alerts"), even when the update dies half-way.
AlertsMatchDecisions ==
  \A a \in Apps : Exists(a) =>
    /\ \A x \in alerts[a] :
         LET st == IF x = "INTERVIEW" THEN "INTERVIEW_SCHEDULED" ELSE x
         IN  [status |-> st, actor |-> "TPO"] \in timeline[a]
    /\ \A e \in timeline[a] :
         e.actor = "TPO" /\ e.status # "INTERVIEW_SCHEDULED" => e.status \in alerts[a]

\* Two overlapping submissions never reset an application that has moved on:
\* only an officer who asks for it puts one back to APPLIED.
SubmissionNeverResets ==
  [][\A a \in Apps :
       status[a] \notin {NoApplication, "APPLIED"} /\ status'[a] = "APPLIED"
         => \E w \in Workers : req[w].op = "bulk" /\ req[w].to = "APPLIED"]_vars

\* Every request that was accepted ends: no step of one waits for ever.
RequestsEnd == \A w \in Workers : req[w] # Idle ~> req[w] = Idle

\* A drive whose deadline has passed is closed by the cron.
ExpiredDrivesClose ==
  \A j \in Jobs : deadline[j] = "past" ~> ~Posted(j) \/ jobStatus[j] = "CLOSED"

------------------------------------------------------------------------------
(* What the handlers' guards are there for.  The first two hold when        *)
(* requests do not overlap (one worker), none when they do.                 *)

\* The last event of the timeline is the status the application is in.
TimelineEndsInStatus == \A a \in Apps : latest[a] = status[a]

Lifecycle == INSTANCE PlacementLifecycle WITH
  tier   <- [j \in Jobs |-> Rule[j].tier],
  locks  <- TiersLockedByOffer,
  None   <- NoApplication,
  drives <- {j \in Jobs : Posted(j)}

\* The component keeps its promise: each commit is one step of the lifecycle a
\* student and the placement cell reckon with, everything else is invisible.
ImplementsLifecycle == Lifecycle!Spec

\* "Withdraw an active application", else "Cannot withdraw an application in
\* status ..." (application_service.py:228 and 234): a student does not undo an
\* offer or a rejection.
DecisionsStand ==
  [][\A a \in Apps :
       status[a] \in {"OFFERED", "REJECTED"} /\ status'[a] = "WITHDRAWN"
         => [status |-> "WITHDRAWN", actor |-> "TPO"] \in timeline'[a]]_vars

\* "You have secured a Super Dream offer and are restricted from applying to
\* further placement drives" (application_service.py:121) and its two siblings:
\* no application is created that an offer of the student locks.
OffersLockDrives ==
  [][\A a \in Apps :
       ~Exists(a) /\ status'[a] # NoApplication
         => ~PolicyLocked(OfferTiers(a[1]), Rule[a[2]].tier)]_vars
==============================================================================
