-------------------------- MODULE ApplicationsProofs --------------------------
(***************************************************************************)
(* Proofs about Applications, for any students, jobs, rules, decisions and *)
(* any number of requests in flight.                                       *)
(***************************************************************************)
EXTENDS Applications, TLAPS

\* The `op` of a request tells which kind of record it is.
LEMMA RequestKinds ==
  ASSUME NEW r \in Request
  PROVE  /\ r.op = "apply" => r \in ApplyRequest
         /\ r.op = "withdraw" => r \in WithdrawRequest
         /\ r.op = "bulk" => r \in BulkRequest
         /\ r.op = "interview" => r \in InterviewRequest
         /\ r.op = "reply" => r \in Response
  BY DEF Request, ApplyRequest, WithdrawRequest, BulkRequest, InterviewRequest,
         Response, Idle

\* Record keeps the types of the three records it writes.
LEMMA RecordType ==
  ASSUME TypeOK, NEW a \in Apps, NEW st \in ApplicationStatus,
         NEW actor \in {"STUDENT", "TPO"}, NEW same \in BOOLEAN,
         Record(a, st, actor, same)
  PROVE  /\ status' \in [Apps -> ApplicationStatus \cup {NoApplication}]
         /\ timeline' \in [Apps -> SUBSET Event]
         /\ latest' \in [Apps -> ApplicationStatus \cup {NoApplication}]
<1>1. [status |-> st, actor |-> actor] \in Event
  BY DEF Event
<1>2. QED
  BY <1>1 DEF TypeOK, Record

\* Go keeps the type of req.
LEMMA GoType ==
  ASSUME TypeOK, NEW w \in Workers, NEW r \in Request, Go(w, r)
  PROVE  req' \in [Workers -> Request]
  BY DEF TypeOK, Go

LEMMA TypeInit == Init => TypeOK
  BY DEF Init, TypeOK, Request, Event

LEMMA TypeStep == TypeOK /\ [Next]_vars => TypeOK'
<1> SUFFICES ASSUME TypeOK, [Next]_vars PROVE TypeOK'
  OBVIOUS
<1>1. ASSUME NEW j \in Jobs, CreateJob(j) PROVE TypeOK'
  BY <1>1 DEF CreateJob, TypeOK, records
<1>2. ASSUME NEW j \in Jobs, DeleteJob(j) PROVE TypeOK'
  BY <1>2 DEF DeleteJob, TypeOK
<1>3. ASSUME NEW j \in Jobs, DeadlineNears(j) PROVE TypeOK'
  BY <1>3 DEF DeadlineNears, TypeOK, records
<1>4. ASSUME CheckDeadlines PROVE TypeOK'
  BY <1>4 DEF CheckDeadlines, TypeOK, records
<1>5. ASSUME NEW w \in Workers, NEW a \in Apps, StartApply(w, a) PROVE TypeOK'
  <2>1. [op |-> "apply", pc |-> "existing", app |-> a] \in Request
    BY DEF Request, ApplyRequest
  <2>2. QED
    BY <1>5, <2>1, GoType DEF StartApply, TypeOK, drives, records
<1>6. ASSUME NEW w \in Workers, NEW a \in Apps, StartWithdraw(w, a) PROVE TypeOK'
  <2>1. [op |-> "withdraw", app |-> a] \in Request
    BY DEF Request, WithdrawRequest
  <2>2. QED
    BY <1>6, <2>1, GoType DEF StartWithdraw, TypeOK, drives, records
<1>7. ASSUME NEW w \in Workers, NEW a \in Apps, StartInterview(w, a) PROVE TypeOK'
  <2>1. [op |-> "interview", pc |-> "commit", app |-> a,
         same |-> status[a] = "INTERVIEW_SCHEDULED"] \in Request
    BY DEF Request, InterviewRequest
  <2>2. QED
    BY <1>7, <2>1, GoType DEF StartInterview, TypeOK, drives, records
<1>8. ASSUME NEW w \in Workers, NEW a \in Apps,
             NEW e \in {"offer", "rounds", "shortlist"}, RecruiterUpdate(w, e, a)
      PROVE TypeOK'
  <2>1. Reply(e, "500") \in Request
    BY DEF Request, Response, Reply
  <2>2. QED
    BY <1>8, <2>1, GoType DEF RecruiterUpdate, TypeOK, drives, records
<1>9. ASSUME NEW w \in Workers, NEW ids \in SUBSET Apps, NEW st \in Decisions,
             StartBulk(w, ids, st)
      PROVE TypeOK'
  <2> DEFINE found == {a \in ids : Exists(a)}
             r == [op |-> "bulk", to |-> st, ids |-> found, todo |-> found,
                   same |-> {a \in found : status[a] = st}]
  <2>1. r \in Request
    BY ApplicationsAssumption DEF Request, BulkRequest
  <2>2. Go(w, r) /\ UNCHANGED <<drives, records, audit>>
    BY <1>9 DEF StartBulk
  <2> HIDE DEF r
  <2>3. QED
    BY <2>1, <2>2, GoType DEF TypeOK, drives, records
<1>10. ASSUME NEW w \in Workers, ApplyCheckExisting(w) PROVE TypeOK'
  <2>1. req[w] \in ApplyRequest
    BY <1>10, RequestKinds DEF TypeOK, ApplyCheckExisting
  <2>2. Reply("apply", "201") \in Request /\ [req[w] EXCEPT !.pc = "policy"] \in Request
    BY <2>1 DEF Request, Response, Reply, ApplyRequest
  <2>3. QED
    BY <1>10, <2>2, GoType DEF ApplyCheckExisting, TypeOK, drives, records
<1>11. ASSUME NEW w \in Workers, ApplyCheckPolicy(w) PROVE TypeOK'
  <2>1. req[w] \in ApplyRequest
    BY <1>11, RequestKinds DEF TypeOK, ApplyCheckPolicy
  <2>2. Idle \in Request /\ [req[w] EXCEPT !.pc = "insert"] \in Request
    BY <2>1 DEF Request, ApplyRequest
  <2>3. QED
    BY <1>11, <2>2, GoType DEF ApplyCheckPolicy, TypeOK, drives, records
<1>12. ASSUME NEW w \in Workers, ApplyInsert(w) PROVE TypeOK'
  <2>1. req[w] \in ApplyRequest
    BY <1>12, RequestKinds DEF TypeOK, ApplyInsert
  <2>2. Reply("apply", "201") \in Request /\ req[w].app \in Apps
    BY <2>1 DEF Request, Response, Reply, ApplyRequest
  <2>3. QED
    BY <1>12, <2>2, GoType, RecordType DEF ApplyInsert, TypeOK, drives, ApplicationStatus
<1>13. ASSUME NEW w \in Workers, ApplyInsertFails(w) PROVE TypeOK'
  <2>1. Reply("apply", "500") \in Request
    BY DEF Request, Response, Reply
  <2>2. QED
    BY <1>13, <2>1, GoType DEF ApplyInsertFails, TypeOK, drives, records
<1>14. ASSUME NEW w \in Workers, CommitWithdraw(w) PROVE TypeOK'
  <2>1. req[w] \in WithdrawRequest
    BY <1>14, RequestKinds DEF TypeOK, CommitWithdraw
  <2>2. Idle \in Request /\ req[w].app \in Apps
    BY <2>1 DEF Request, WithdrawRequest
  <2>3. QED
    BY <1>14, <2>2, GoType, RecordType DEF CommitWithdraw, TypeOK, drives, ApplicationStatus
<1>15. ASSUME NEW w \in Workers, CommitBulkItem(w) PROVE TypeOK'
  <2>1. req[w] \in BulkRequest
    BY <1>15, RequestKinds DEF TypeOK, CommitBulkItem
  <2>2. PICK a \in req[w].todo :
          /\ Record(a, req[w].to, "TPO", a \in req[w].same)
          /\ alerts' = [alerts EXCEPT ![a] = @ \cup {req[w].to}]
          /\ Go(w, [req[w] EXCEPT !.todo = @ \ {a}])
    BY <1>15 DEF CommitBulkItem
  <2>3. a \in Apps /\ req[w].to \in ApplicationStatus
    BY <2>1 DEF BulkRequest
  <2>4. [req[w] EXCEPT !.todo = @ \ {a}] \in Request
    BY <2>1 DEF Request, BulkRequest
  <2>5. alerts' \in [Apps -> SUBSET Alert]
    BY <2>2, <2>3 DEF TypeOK, Alert
  <2>6. UNCHANGED <<drives, audit>>
    BY <1>15 DEF CommitBulkItem
  <2>7. req' \in [Workers -> Request]
    BY <2>2, <2>4, GoType
  <2>8. (a \in req[w].same) \in BOOLEAN
    OBVIOUS
  <2>9. /\ status' \in [Apps -> ApplicationStatus \cup {NoApplication}]
        /\ timeline' \in [Apps -> SUBSET Event]
        /\ latest' \in [Apps -> ApplicationStatus \cup {NoApplication}]
    BY <2>2, <2>3, <2>8, RecordType
  <2>10. QED
    BY <2>5, <2>6, <2>7, <2>9 DEF TypeOK, drives
<1>16. ASSUME NEW w \in Workers, CommitBulkAudit(w) PROVE TypeOK'
  <2>1. req[w] \in BulkRequest
    BY <1>16, RequestKinds DEF TypeOK, CommitBulkAudit
  <2>2. [new_status |-> req[w].to, application_ids |-> req[w].ids] \in AuditRow
    BY <2>1 DEF BulkRequest, AuditRow
  <2>3. Idle \in Request
    BY DEF Request
  <2>4. QED
    BY <1>16, <2>2, <2>3, GoType DEF CommitBulkAudit, TypeOK, drives, records
<1>17. ASSUME NEW w \in Workers, CommitInterview(w) PROVE TypeOK'
  <2>1. req[w] \in InterviewRequest
    BY <1>17, RequestKinds DEF TypeOK, CommitInterview
  <2>2. /\ [req[w] EXCEPT !.pc = "notify"] \in Request
        /\ req[w].app \in Apps /\ req[w].same \in BOOLEAN
    BY <2>1 DEF Request, InterviewRequest
  <2>3. QED
    BY <1>17, <2>2, GoType, RecordType DEF CommitInterview, TypeOK, drives, ApplicationStatus
<1>18. ASSUME NEW w \in Workers, NotifyInterview(w) PROVE TypeOK'
  <2>1. req[w] \in InterviewRequest
    BY <1>18, RequestKinds DEF TypeOK, NotifyInterview
  <2>2. Idle \in Request /\ req[w].app \in Apps
    BY <2>1 DEF Request, InterviewRequest
  <2>3. alerts' \in [Apps -> SUBSET Alert]
    BY <1>18, <2>2 DEF NotifyInterview, TypeOK, Alert
  <2>4. QED
    BY <1>18, <2>2, <2>3, GoType DEF NotifyInterview, TypeOK, drives
<1>19. ASSUME NEW w \in Workers, WriteFails(w) \/ Respond(w) \/ Crash(w) PROVE TypeOK'
  <2>1. Idle \in Request
    BY DEF Request
  <2>2. QED
    BY <1>19, <2>1, GoType DEF WriteFails, Respond, Crash, TypeOK, drives, records
<1>20. CASE UNCHANGED vars
  BY <1>20 DEF vars, drives, records, TypeOK
<1>21. QED
  BY <1>1, <1>2, <1>3, <1>4, <1>5, <1>6, <1>7, <1>8, <1>9, <1>10, <1>11, <1>12,
     <1>13, <1>14, <1>15, <1>16, <1>17, <1>18, <1>19, <1>20
     DEF Next, Receive, Proceed

\* Every variable keeps its type, whatever the interleaving of requests.
THEOREM TypeCorrect == Spec => []TypeOK
  BY TypeInit, TypeStep, PTL DEF Spec

------------------------------------------------------------------------------
(* Safety.  Two facts carry the argument.                                   *)
(*                                                                          *)
(* A pending schedule_interview keeps its application from being deleted    *)
(* (InterviewsLock), so every event is logged on an application that        *)
(* exists.  Without it TimelineExplainsStatus is not inductive.             *)
(*                                                                          *)
(* A decision once logged stays logged until the drive is deleted, and a    *)
(* deleted drive never returns (Kept, KeptStays).  What a request relies on *)
(* between two of its commits, what an audit row says and what an alert     *)
(* says are all of this form, so no interleaving can falsify them.          *)

TpoEvent(st) == [status |-> st, actor |-> "TPO"]
AlertEvent(x) == TpoEvent(IF x = "INTERVIEW" THEN "INTERVIEW_SCHEDULED" ELSE x)

Kept(a, e) == jobStatus[a[2]] = "deleted" \/ e \in timeline[a]

Pending(w, pc) == req[w].op = "interview" /\ req[w].pc = pc

InterviewsLock == \A w \in Workers : Pending(w, "commit") => Exists(req[w].app)

CoreInv == TypeOK /\ InterviewsLock /\ NoOrphanApplication /\ TimelineExplainsStatus

InterviewsKept ==
  \A w \in Workers :
    Pending(w, "notify") => Kept(req[w].app, TpoEvent("INTERVIEW_SCHEDULED"))

BulkKept ==
  \A w \in Workers : req[w].op = "bulk" =>
    \A a \in req[w].ids \ req[w].todo : Kept(a, TpoEvent(req[w].to))

AuditKept ==
  \A r \in audit : \A a \in r.application_ids : Kept(a, TpoEvent(r.new_status))

AlertsKept == \A a \in Apps : \A x \in alerts[a] : Kept(a, AlertEvent(x))

DecisionsAlerted ==
  \A a \in Apps : \A e \in timeline[a] :
    e.actor = "TPO" /\ e.status # "INTERVIEW_SCHEDULED" => e.status \in alerts[a]

KeptInv == InterviewsKept /\ BulkKept /\ AuditKept /\ AlertsKept /\ DecisionsAlerted

\* The applications a request is about.
LEMMA RequestFields ==
  ASSUME TypeOK, NEW w \in Workers
  PROVE  /\ req[w].op \in {"apply", "withdraw", "interview"} => req[w].app \in Apps
         /\ req[w].op = "bulk" => /\ req[w].ids \subseteq Apps
                                  /\ req[w].todo \subseteq Apps
                                  /\ req[w].to \in ApplicationStatus
<1>1. req[w] \in Request
  BY DEF TypeOK
<1>2. QED
  BY <1>1, RequestKinds
     DEF ApplyRequest, WithdrawRequest, BulkRequest, InterviewRequest

\* A step that changes nothing but a request in flight, which is then neither
\* a bulk update nor an interview.
Quiet(w) ==
  /\ UNCHANGED <<drives, records, audit>>
  /\ \E r \in Request : r.op \notin {"bulk", "interview"} /\ Go(w, r)

\* The steps without an effect on the database.
LEMMA QuietSteps ==
  ASSUME TypeOK, NEW w \in Workers
  PROVE  /\ \A a \in Apps : StartApply(w, a) \/ StartWithdraw(w, a) => Quiet(w)
         /\ \A a \in Apps, e \in {"offer", "rounds", "shortlist"} :
              RecruiterUpdate(w, e, a) => Quiet(w)
         /\ \/ ApplyCheckExisting(w) \/ ApplyCheckPolicy(w) \/ ApplyInsertFails(w)
            \/ WriteFails(w) \/ Respond(w) \/ Crash(w)
            => Quiet(w)
<1>1. /\ Idle \in Request /\ Idle.op = "idle"
      /\ \A to \in {"apply", "offer", "rounds", "shortlist"}, code \in {"201", "500"} :
           Reply(to, code) \in Request /\ Reply(to, code).op = "reply"
  BY DEF Request, Response, Reply, Idle
<1>2. ASSUME NEW a \in Apps, StartApply(w, a) PROVE Quiet(w)
  <2> DEFINE r == [op |-> "apply", pc |-> "existing", app |-> a]
  <2>1. r \in Request /\ r.op = "apply"
    BY DEF Request, ApplyRequest
  <2>2. QED
    BY <1>2, <2>1 DEF StartApply, Quiet
<1>3. ASSUME NEW a \in Apps, StartWithdraw(w, a) PROVE Quiet(w)
  <2> DEFINE r == [op |-> "withdraw", app |-> a]
  <2>1. r \in Request /\ r.op = "withdraw"
    BY DEF Request, WithdrawRequest
  <2>2. QED
    BY <1>3, <2>1 DEF StartWithdraw, Quiet
<1>4. ASSUME NEW pc \in {"policy", "insert"}, req[w].op = "apply"
      PROVE  /\ [req[w] EXCEPT !.pc = pc] \in Request
             /\ [req[w] EXCEPT !.pc = pc].op = "apply"
  <2>1. req[w] \in ApplyRequest
    BY <1>4, RequestKinds DEF TypeOK
  <2>2. QED
    BY <2>1 DEF Request, ApplyRequest
<1>5. ApplyCheckExisting(w) => Quiet(w)
  BY <1>1, <1>4 DEF ApplyCheckExisting, Quiet
<1>6. ApplyCheckPolicy(w) => Quiet(w)
  BY <1>1, <1>4 DEF ApplyCheckPolicy, Quiet
<1>7. \A a \in Apps, e \in {"offer", "rounds", "shortlist"} :
        RecruiterUpdate(w, e, a) => Quiet(w)
  BY <1>1 DEF RecruiterUpdate, Quiet
<1>8. ApplyInsertFails(w) \/ WriteFails(w) \/ Respond(w) \/ Crash(w) => Quiet(w)
  BY <1>1 DEF ApplyInsertFails, WriteFails, Respond, Crash, Quiet
<1>9. QED
  BY <1>2, <1>3, <1>5, <1>6, <1>7, <1>8

\* The cases of a step, as the proofs below go through them.
LEMMA StepCases ==
  ASSUME TypeOK, [Next]_vars
  PROVE  \/ \E j \in Jobs : CreateJob(j) \/ DeleteJob(j) \/ DeadlineNears(j)
         \/ CheckDeadlines
         \/ \E w \in Workers :
              \/ Quiet(w)
              \/ \E a \in Apps : StartInterview(w, a)
              \/ \E ids \in SUBSET Apps, st \in Decisions : StartBulk(w, ids, st)
              \/ ApplyInsert(w) \/ CommitWithdraw(w)
              \/ CommitBulkItem(w) \/ CommitBulkAudit(w)
              \/ CommitInterview(w) \/ NotifyInterview(w)
         \/ UNCHANGED vars
  BY QuietSteps DEF Next, Receive, Proceed

\* What is logged stays logged until the drive goes, and a drive goes for good.
LEMMA KeptStays ==
  ASSUME TypeOK, [Next]_vars, NEW a \in Apps, NEW e, Kept(a, e)
  PROVE  Kept(a, e)'
<1>0. a[2] \in Jobs
  BY DEF Apps
<1>1. CASE \E j \in Jobs : CreateJob(j)
  BY <1>0, <1>1 DEF CreateJob, Kept, TypeOK, records
<1>2. CASE \E j \in Jobs : DeleteJob(j)
  BY <1>0, <1>2 DEF DeleteJob, Kept, TypeOK, Posted
<1>3. CASE \E j \in Jobs : DeadlineNears(j)
  BY <1>3 DEF DeadlineNears, Kept, records
<1>4. CASE CheckDeadlines
  BY <1>0, <1>4 DEF CheckDeadlines, Kept, TypeOK, Posted, records
<1>5. CASE UNCHANGED <<jobStatus, timeline>>
  BY <1>5 DEF Kept
<1>6. ASSUME NEW b \in Apps, NEW st, NEW actor, NEW same,
             Record(b, st, actor, same), UNCHANGED jobStatus
      PROVE  Kept(a, e)'
  BY <1>6 DEF Record, Kept, TypeOK
<1>7. ASSUME NEW w \in Workers,
             ApplyInsert(w) \/ CommitWithdraw(w) \/ CommitInterview(w)
      PROVE  Kept(a, e)'
  <2>1. req[w].app \in Apps
    BY <1>7, RequestFields DEF ApplyInsert, CommitWithdraw, CommitInterview
  <2>2. QED
    BY <1>6, <1>7, <2>1 DEF ApplyInsert, CommitWithdraw, CommitInterview, drives
<1>8. ASSUME NEW w \in Workers, CommitBulkItem(w) PROVE Kept(a, e)'
  <2>1. req[w].todo \subseteq Apps
    BY <1>8, RequestFields DEF CommitBulkItem
  <2>2. QED
    BY <1>6, <1>8, <2>1 DEF CommitBulkItem, drives
<1>9. QED
  BY <1>1, <1>2, <1>3, <1>4, <1>5, <1>7, <1>8, StepCases
     DEF Quiet, StartInterview, StartBulk, CommitBulkAudit, NotifyInterview,
         vars, drives, records

------------------------------------------------------------------------------
(* The core invariant *)

LEMMA CoreInit == Init => CoreInv
  BY TypeInit DEF Init, CoreInv, InterviewsLock, Pending, Idle, NoOrphanApplication,
     TimelineExplainsStatus, Exists, NoApplication

\* What logging a status on an existing application preserves.
LEMMA RecordExplains ==
  ASSUME CoreInv, NEW a \in Apps, Exists(a), UNCHANGED jobStatus,
         NEW st \in ApplicationStatus, NEW actor \in {"STUDENT", "TPO"},
         actor = "STUDENT" => st = "WITHDRAWN",
         NEW same \in BOOLEAN, Record(a, st, actor, same)
  PROVE  /\ TimelineExplainsStatus' /\ NoOrphanApplication'
         /\ \A b \in Apps : Exists(b) => Exists(b)'
<1>1. /\ status' = [status EXCEPT ![a] = status'[a]]
      /\ status'[a] \in {status[a], st}
      /\ timeline' = [timeline EXCEPT ![a] = @ \cup {[status |-> st, actor |-> actor]}]
  BY DEF Record, CoreInv, TypeOK
<1>2. /\ status \in [Apps -> ApplicationStatus \cup {NoApplication}]
      /\ timeline \in [Apps -> SUBSET Event]
      /\ "none" \notin ApplicationStatus
  BY DEF CoreInv, TypeOK, ApplicationStatus
<1>3. \A b \in Apps : Exists(b)' <=> Exists(b)
  BY <1>1, <1>2 DEF Exists, NoApplication
<1>4. NoOrphanApplication'
  BY <1>3 DEF CoreInv, NoOrphanApplication, Posted
<1>5. TimelineExplainsStatus'
  <2> SUFFICES ASSUME NEW b \in Apps
               PROVE  /\ Exists(b) =>
                           /\ [status |-> "APPLIED", actor |-> "STUDENT"] \in timeline'[b]
                           /\ \/ [status |-> status'[b], actor |-> "TPO"] \in timeline'[b]
                              \/ /\ status'[b] \in {"APPLIED", "WITHDRAWN"}
                                 /\ [status |-> status'[b], actor |-> "STUDENT"]
                                      \in timeline'[b]
                      /\ ~Exists(b) => timeline'[b] = {}
    BY <1>3 DEF TimelineExplainsStatus
  <2>1. CASE b # a
    BY <1>1, <1>2, <2>1 DEF CoreInv, TimelineExplainsStatus
  <2>2. CASE b = a
    BY <1>1, <1>2, <2>2 DEF CoreInv, TimelineExplainsStatus
  <2>3. QED
    BY <2>1, <2>2
<1>6. QED
  BY <1>3, <1>4, <1>5

LEMMA CoreStep == CoreInv /\ [Next]_vars => CoreInv'
<1> SUFFICES ASSUME CoreInv, [Next]_vars PROVE CoreInv'
  OBVIOUS
<1>0. TypeOK /\ TypeOK'
  BY TypeStep DEF CoreInv
<1>a. \A a \in Apps : a[2] \in Jobs
  BY DEF Apps
<1>1. ASSUME NEW j \in Jobs, CreateJob(j) PROVE CoreInv'
  <2>1. InterviewsLock' /\ TimelineExplainsStatus'
    BY <1>1 DEF CreateJob, records, CoreInv, InterviewsLock, Pending,
       TimelineExplainsStatus, Exists
  <2>2. NoOrphanApplication'
    BY <1>0, <1>1, <1>a DEF CreateJob, records, CoreInv, TypeOK, NoOrphanApplication,
       Exists, Posted
  <2>3. QED
    BY <1>0, <2>1, <2>2 DEF CoreInv
<1>2. ASSUME NEW j \in Jobs, DeleteJob(j) PROVE CoreInv'
  <2>1. InterviewsLock'
    BY <1>0, <1>2, RequestFields DEF DeleteJob, CoreInv, InterviewsLock, Pending, Exists
  <2>2. NoOrphanApplication'
    BY <1>0, <1>2, <1>a DEF DeleteJob, CoreInv, TypeOK, NoOrphanApplication, Exists, Posted
  <2>3. TimelineExplainsStatus'
    BY <1>2 DEF DeleteJob, CoreInv, TimelineExplainsStatus, Exists
  <2>4. QED
    BY <1>0, <2>1, <2>2, <2>3 DEF CoreInv
<1>3. CASE \E j \in Jobs : DeadlineNears(j)
  BY <1>0, <1>3 DEF DeadlineNears, records, CoreInv, InterviewsLock, Pending,
     NoOrphanApplication, TimelineExplainsStatus, Exists, Posted
<1>4. CASE CheckDeadlines
  BY <1>0, <1>4, <1>a DEF CheckDeadlines, records, CoreInv, TypeOK, InterviewsLock, Pending,
     NoOrphanApplication, TimelineExplainsStatus, Exists, Posted
<1>5. ASSUME NEW w \in Workers, NEW r \in Request, Go(w, r),
             UNCHANGED <<jobStatus, status, timeline>>,
             r.op = "interview" /\ r.pc = "commit" => Exists(r.app)
      PROVE CoreInv'
  <2>1. InterviewsLock'
    BY <1>0, <1>5 DEF Go, CoreInv, TypeOK, InterviewsLock, Pending, Exists
  <2>2. NoOrphanApplication' /\ TimelineExplainsStatus'
    BY <1>5 DEF CoreInv, NoOrphanApplication, TimelineExplainsStatus, Exists, Posted
  <2>3. QED
    BY <1>0, <2>1, <2>2 DEF CoreInv
<1>6. ASSUME NEW w \in Workers,
             Quiet(w) \/ CommitBulkAudit(w) \/ NotifyInterview(w)
      PROVE CoreInv'
  <2>1. Idle \in Request /\ Idle.op = "idle"
    BY DEF Request, Idle
  <2>2. QED
    BY <1>5, <1>6, <2>1
       DEF Quiet, CommitBulkAudit, NotifyInterview, drives, records
<1>7. ASSUME NEW w \in Workers, NEW a \in Apps, StartInterview(w, a) PROVE CoreInv'
  <2> DEFINE r == [op |-> "interview", pc |-> "commit", app |-> a,
                   same |-> status[a] = "INTERVIEW_SCHEDULED"]
  <2>1. r \in Request
    BY DEF Request, InterviewRequest
  <2>2. QED
    BY <1>5, <1>7, <2>1 DEF StartInterview, drives, records
<1>8. ASSUME NEW w \in Workers, NEW ids \in SUBSET Apps, NEW st \in Decisions,
             StartBulk(w, ids, st)
      PROVE CoreInv'
  <2>1. req'[w].op = "bulk" /\ req'[w] \in Request /\ Go(w, req'[w])
    BY <1>0, <1>8 DEF StartBulk, Go, TypeOK
  <2>2. QED
    BY <1>5, <1>8, <2>1 DEF StartBulk, drives, records
<1>9. ASSUME NEW w \in Workers, ApplyInsert(w) PROVE CoreInv'
  <2>1. /\ req[w].app \in Apps /\ ~Exists(req[w].app) /\ Posted(req[w].app[2])
        /\ status' = [status EXCEPT ![req[w].app] = "APPLIED"]
        /\ timeline' = [timeline EXCEPT ![req[w].app] =
                          @ \cup {[status |-> "APPLIED", actor |-> "STUDENT"]}]
        /\ req' = [req EXCEPT ![w] = Reply("apply", "201")]
        /\ UNCHANGED jobStatus
    BY <1>0, <1>9, RequestFields DEF ApplyInsert, Record, Go, drives
  <2>2. InterviewsLock'
    BY <1>0, <2>1, RequestFields DEF CoreInv, TypeOK, InterviewsLock, Pending, Exists, Reply,
       NoApplication
  <2>3. NoOrphanApplication'
    BY <1>0, <2>1 DEF CoreInv, TypeOK, NoOrphanApplication, Exists, Posted
  <2>4. ASSUME NEW b \in Apps
        PROVE  IF b = req[w].app
               THEN /\ status'[b] = "APPLIED"
                    /\ [status |-> "APPLIED", actor |-> "STUDENT"] \in timeline'[b]
               ELSE UNCHANGED <<status[b], timeline[b]>>
    BY <1>0, <2>1 DEF TypeOK
  <2>5. TimelineExplainsStatus'
    BY <2>4 DEF CoreInv, TimelineExplainsStatus, Exists, NoApplication
  <2>6. QED
    BY <1>0, <2>2, <2>3, <2>5 DEF CoreInv
<1>10. ASSUME NEW w \in Workers, NEW r, Go(w, r), UNCHANGED jobStatus,
              NEW a \in Apps, Exists(a), NEW st \in ApplicationStatus,
              NEW actor \in {"STUDENT", "TPO"}, actor = "STUDENT" => st = "WITHDRAWN",
              NEW same \in BOOLEAN, Record(a, st, actor, same),
              r.op # "interview" \/ r.pc # "commit"
       PROVE CoreInv'
  <2>1. /\ TimelineExplainsStatus' /\ NoOrphanApplication'
        /\ \A b \in Apps : Exists(b) => Exists(b)'
    BY <1>10, RecordExplains
  <2>2. InterviewsLock'
    BY <1>0, <1>10, <2>1, RequestFields DEF Go, CoreInv, TypeOK, InterviewsLock, Pending, Exists
  <2>3. QED
    BY <1>0, <2>1, <2>2 DEF CoreInv
<1>11. ASSUME NEW w \in Workers, CommitWithdraw(w) PROVE CoreInv'
  <2>1. /\ Go(w, Idle) /\ Idle.op = "idle"
        /\ req[w].app \in Apps /\ Exists(req[w].app)
        /\ Record(req[w].app, "WITHDRAWN", "STUDENT", FALSE)
        /\ UNCHANGED jobStatus
    BY <1>0, <1>11, RequestFields DEF CommitWithdraw, drives, Idle
  <2>2. "WITHDRAWN" \in ApplicationStatus
    BY DEF ApplicationStatus
  <2>3. QED
    BY <1>10, <2>1, <2>2
<1>12. ASSUME NEW w \in Workers, CommitBulkItem(w) PROVE CoreInv'
  <2>1. req[w] \in BulkRequest
    BY <1>0, <1>12, RequestKinds DEF TypeOK, CommitBulkItem
  <2>2. PICK a \in req[w].todo :
          /\ Exists(a)
          /\ Record(a, req[w].to, "TPO", a \in req[w].same)
          /\ Go(w, [req[w] EXCEPT !.todo = @ \ {a}])
    BY <1>12 DEF CommitBulkItem
  <2>3. /\ a \in Apps /\ req[w].to \in ApplicationStatus
        /\ (a \in req[w].same) \in BOOLEAN
        /\ [req[w] EXCEPT !.todo = @ \ {a}].op = "bulk"
    BY <2>1 DEF BulkRequest
  <2>4. UNCHANGED jobStatus
    BY <1>12 DEF CommitBulkItem, drives
  <2>5. QED
    BY <1>10, <2>2, <2>3, <2>4
<1>13. ASSUME NEW w \in Workers, CommitInterview(w) PROVE CoreInv'
  <2>1. req[w] \in InterviewRequest
    BY <1>0, <1>13, RequestKinds DEF TypeOK, CommitInterview
  <2>2. /\ req[w].app \in Apps /\ Exists(req[w].app) /\ req[w].same \in BOOLEAN
        /\ [req[w] EXCEPT !.pc = "notify"].pc = "notify"
    BY <1>13, <2>1 DEF InterviewRequest, CommitInterview, CoreInv, InterviewsLock, Pending
  <2>3. QED
    BY <1>10, <1>13, <2>2 DEF CommitInterview, drives, ApplicationStatus
<1>14. CASE UNCHANGED vars
  BY <1>0, <1>14 DEF vars, drives, records, CoreInv, InterviewsLock, Pending,
     NoOrphanApplication, TimelineExplainsStatus, Exists, Posted
<1>15. QED
  BY <1>0, <1>1, <1>2, <1>3, <1>4, <1>6, <1>7, <1>8, <1>9, <1>11, <1>12, <1>13, <1>14,
     StepCases

------------------------------------------------------------------------------
(* What requests, audit rows and alerts rely on *)

LEMMA KeptInit == Init => KeptInv
  BY DEF Init, KeptInv, InterviewsKept, BulkKept, AuditKept, AlertsKept,
     DecisionsAlerted, Pending, Idle

\* The three commits that these facts are about, taken apart.
LEMMA BulkItemEffect ==
  ASSUME TypeOK, NEW w \in Workers, CommitBulkItem(w)
  PROVE  \E a \in req[w].todo :
           /\ a \in Apps
           /\ timeline' = [timeline EXCEPT ![a] = @ \cup {TpoEvent(req[w].to)}]
           /\ alerts' = [alerts EXCEPT ![a] = @ \cup {req[w].to}]
           /\ req' = [req EXCEPT ![w] = req'[w]]
           /\ req'[w].op = "bulk" /\ req'[w].to = req[w].to
           /\ req'[w].ids = req[w].ids /\ req'[w].todo = req[w].todo \ {a}
           /\ UNCHANGED audit
<1>1. req[w] \in BulkRequest /\ req \in [Workers -> Request]
  BY RequestKinds DEF TypeOK, CommitBulkItem
<1>2. PICK a \in req[w].todo :
        /\ Record(a, req[w].to, "TPO", a \in req[w].same)
        /\ alerts' = [alerts EXCEPT ![a] = @ \cup {req[w].to}]
        /\ Go(w, [req[w] EXCEPT !.todo = @ \ {a}])
  BY DEF CommitBulkItem
<1>3. a \in Apps
  BY <1>1 DEF BulkRequest
<1>4. UNCHANGED audit
  BY DEF CommitBulkItem
<1>5. req'[w] = [req[w] EXCEPT !.todo = @ \ {a}] /\ req' = [req EXCEPT ![w] = req'[w]]
  BY <1>1, <1>2 DEF Go
<1>6. /\ req'[w].op = "bulk" /\ req'[w].to = req[w].to
      /\ req'[w].ids = req[w].ids /\ req'[w].todo = req[w].todo \ {a}
  BY <1>1, <1>5 DEF BulkRequest
<1>7. timeline' = [timeline EXCEPT ![a] = @ \cup {TpoEvent(req[w].to)}]
  BY <1>2 DEF Record, TpoEvent
<1>8. QED
  BY <1>2, <1>3, <1>4, <1>5, <1>6, <1>7

LEMMA InterviewEffect ==
  ASSUME TypeOK, NEW w \in Workers, CommitInterview(w)
  PROVE  /\ req[w].app \in Apps
         /\ timeline' = [timeline EXCEPT ![req[w].app] =
                           @ \cup {TpoEvent("INTERVIEW_SCHEDULED")}]
         /\ req' = [req EXCEPT ![w] = req'[w]]
         /\ req'[w].op = "interview" /\ req'[w].app = req[w].app
         /\ UNCHANGED <<alerts, audit>>
<1>1. req[w] \in InterviewRequest /\ req \in [Workers -> Request]
  BY RequestKinds DEF TypeOK, CommitInterview
<1>2. req'[w] = [req[w] EXCEPT !.pc = "notify"] /\ req' = [req EXCEPT ![w] = req'[w]]
  BY <1>1 DEF Go, CommitInterview
<1>3. req'[w].op = "interview" /\ req'[w].app = req[w].app /\ req[w].app \in Apps
  BY <1>1, <1>2 DEF InterviewRequest
<1>4. QED
  BY <1>2, <1>3 DEF CommitInterview, Record, TpoEvent

\* A step that starts a request, or ends one without a decision.
LEMMA RequestEffect ==
  ASSUME TypeOK, [Next]_vars, NEW w \in Workers,
         ~CommitBulkItem(w), ~CommitInterview(w)
  PROVE  \/ req'[w] = req[w]
         \/ req'[w].op \notin {"bulk", "interview"}
         \/ req'[w].op = "interview" /\ req'[w].pc = "commit"
         \/ req'[w].op = "bulk" /\ req'[w].ids = req'[w].todo
<1>1. req \in [Workers -> Request]
  BY DEF TypeOK
<1>2. CASE \E j \in Jobs : CreateJob(j) \/ DeleteJob(j) \/ DeadlineNears(j)
  BY <1>2 DEF CreateJob, DeleteJob, DeadlineNears
<1>3. CASE CheckDeadlines \/ UNCHANGED vars
  BY <1>3 DEF CheckDeadlines, vars
<1>4. ASSUME NEW v \in Workers, NEW r, Go(v, r)
      PROVE  req'[w] = req[w] \/ (v = w /\ req'[w] = r)
  BY <1>1, <1>4 DEF Go
<1>5. ASSUME NEW v \in Workers, Quiet(v) PROVE req'[w] = req[w]
                                               \/ req'[w].op \notin {"bulk", "interview"}
  BY <1>1, <1>5 DEF Quiet, Go
<1>6. ASSUME NEW v \in Workers, NEW a \in Apps, StartInterview(v, a)
      PROVE  req'[w] = req[w] \/ (req'[w].op = "interview" /\ req'[w].pc = "commit")
  <2> DEFINE r == [op |-> "interview", pc |-> "commit", app |-> a,
                   same |-> status[a] = "INTERVIEW_SCHEDULED"]
  <2>1. r.op = "interview" /\ r.pc = "commit"
    OBVIOUS
  <2>2. Go(v, r)
    BY <1>6 DEF StartInterview
  <2> HIDE DEF r
  <2>3. QED
    BY <1>4, <2>1, <2>2
<1>7. ASSUME NEW v \in Workers, NEW ids \in SUBSET Apps, NEW st \in Decisions,
             StartBulk(v, ids, st)
      PROVE  req'[w] = req[w] \/ (req'[w].op = "bulk" /\ req'[w].ids = req'[w].todo)
  <2> DEFINE found == {a \in ids : Exists(a)}
             r == [op |-> "bulk", to |-> st, ids |-> found, todo |-> found,
                   same |-> {a \in found : status[a] = st}]
  <2>1. r.op = "bulk" /\ r.ids = r.todo
    OBVIOUS
  <2>2. Go(v, r)
    BY <1>7 DEF StartBulk
  <2> HIDE DEF r
  <2>3. QED
    BY <1>4, <2>1, <2>2
<1>8. ASSUME NEW v \in Workers, ApplyInsert(v) \/ CommitWithdraw(v)
                                \/ CommitBulkAudit(v) \/ NotifyInterview(v)
      PROVE  req'[w] = req[w] \/ req'[w].op \notin {"bulk", "interview"}
  <2>1. Go(v, Idle) \/ Go(v, Reply("apply", "201"))
    BY <1>8 DEF ApplyInsert, CommitWithdraw, CommitBulkAudit, NotifyInterview
  <2>2. Idle.op = "idle" /\ Reply("apply", "201").op = "reply"
    BY DEF Idle, Reply
  <2>3. QED
    BY <1>4, <2>1, <2>2
<1>9. ASSUME NEW v \in Workers, CommitBulkItem(v) PROVE req'[w] = req[w]
  BY <1>4, <1>9 DEF CommitBulkItem
<1>10. ASSUME NEW v \in Workers, CommitInterview(v) PROVE req'[w] = req[w]
  BY <1>4, <1>10 DEF CommitInterview
<1>11. QED
  BY <1>2, <1>3, <1>5, <1>6, <1>7, <1>8, <1>9, <1>10, StepCases

LEMMA InterviewsKeptStep ==
  ASSUME TypeOK, [Next]_vars, InterviewsKept PROVE InterviewsKept'
<1> DEFINE e == TpoEvent("INTERVIEW_SCHEDULED")
<1> SUFFICES ASSUME NEW w \in Workers, Pending(w, "notify")',
                    NEW a, a = req'[w].app
             PROVE  Kept(a, e)'
  BY DEF InterviewsKept, Kept, TpoEvent
<1>1. CASE CommitInterview(w)
  BY <1>1, InterviewEffect DEF TypeOK, Kept
<1>2. CASE CommitBulkItem(w)
  BY <1>2, BulkItemEffect DEF Pending
<1>3. CASE ~CommitBulkItem(w) /\ ~CommitInterview(w)
  <2>1. req'[w] = req[w]
    BY <1>3, RequestEffect DEF Pending
  <2>2. Pending(w, "notify") /\ req[w].app \in Apps
    BY <2>1, RequestFields DEF Pending
  <2>3. QED
    BY <2>1, <2>2, KeptStays DEF InterviewsKept
<1>4. QED
  BY <1>1, <1>2, <1>3

LEMMA BulkKeptStep ==
  ASSUME TypeOK, [Next]_vars, BulkKept PROVE BulkKept'
<1> SUFFICES ASSUME NEW w \in Workers, req'[w].op = "bulk",
                    NEW a \in req'[w].ids \ req'[w].todo,
                    NEW e, e = TpoEvent(req'[w].to)
             PROVE  Kept(a, e)'
  BY DEF BulkKept, Kept, TpoEvent
<1>1. CASE CommitBulkItem(w)
  <2>1. PICK b \in req[w].todo :
          /\ b \in Apps
          /\ timeline' = [timeline EXCEPT ![b] = @ \cup {TpoEvent(req[w].to)}]
          /\ req'[w].to = req[w].to
          /\ req'[w].ids = req[w].ids /\ req'[w].todo = req[w].todo \ {b}
    BY <1>1, BulkItemEffect
  <2>2. CASE a = b
    BY <2>1, <2>2 DEF TypeOK, Kept
  <2>3. CASE a # b
    <3>1. a \in req[w].ids \ req[w].todo /\ a \in Apps /\ req[w].op = "bulk"
      BY <1>1, <2>1, <2>3, RequestFields DEF CommitBulkItem
    <3>2. QED
      BY <2>1, <3>1, KeptStays DEF BulkKept
  <2>4. QED
    BY <2>2, <2>3
<1>2. CASE CommitInterview(w)
  BY <1>2, InterviewEffect
<1>3. CASE ~CommitBulkItem(w) /\ ~CommitInterview(w)
  <2>1. req'[w] = req[w]
    BY <1>3, RequestEffect
  <2>2. a \in Apps
    BY <2>1, RequestFields
  <2>3. QED
    BY <2>1, <2>2, KeptStays DEF BulkKept
<1>4. QED
  BY <1>1, <1>2, <1>3

\* What the other steps do to the audit log and the alerts.
LEMMA NoOtherNews ==
  ASSUME TypeOK, [Next]_vars
  PROVE  /\ (\E w \in Workers : CommitBulkAudit(w)) \/ UNCHANGED audit
         /\ \/ \E w \in Workers : CommitBulkItem(w) \/ NotifyInterview(w)
            \/ UNCHANGED alerts
  BY StepCases
     DEF CreateJob, DeleteJob, DeadlineNears, CheckDeadlines, Quiet, StartInterview,
         StartBulk, ApplyInsert, CommitWithdraw, CommitBulkItem, CommitBulkAudit,
         CommitInterview, NotifyInterview, vars, records

LEMMA AuditKeptStep ==
  ASSUME TypeOK, [Next]_vars, BulkKept, AuditKept PROVE AuditKept'
<1> SUFFICES ASSUME NEW r \in audit', NEW a \in r.application_ids
             PROVE  Kept(a, TpoEvent(r.new_status))'
  BY DEF AuditKept
<1>1. Kept(a, TpoEvent(r.new_status)) /\ a \in Apps
  <2>1. CASE r \in audit
    BY <2>1 DEF AuditKept, TypeOK, AuditRow
  <2>2. CASE r \notin audit
    <3>1. PICK w \in Workers : CommitBulkAudit(w)
      BY <2>2, NoOtherNews
    <3>2. /\ req[w].op = "bulk" /\ req[w].todo = {}
          /\ r.new_status = req[w].to /\ r.application_ids = req[w].ids
      BY <2>2, <3>1 DEF CommitBulkAudit
    <3>3. QED
      BY <3>2, RequestFields DEF BulkKept
  <2>3. QED
    BY <2>1, <2>2
<1>2. QED
  BY <1>1, KeptStays

LEMMA AlertsKeptStep ==
  ASSUME TypeOK, [Next]_vars, InterviewsKept, AlertsKept PROVE AlertsKept'
<1> SUFFICES ASSUME NEW a \in Apps, NEW x \in alerts'[a]
             PROVE  Kept(a, AlertEvent(x))'
  BY DEF AlertsKept
<1>1. CASE x \in alerts[a]
  BY <1>1, KeptStays DEF AlertsKept
<1>2. CASE x \notin alerts[a]
  <2>1. PICK w \in Workers : CommitBulkItem(w) \/ NotifyInterview(w)
    BY <1>2, NoOtherNews
  <2>2. CASE CommitBulkItem(w)
    <3>1. x = req[w].to /\ TpoEvent(req[w].to) \in timeline'[a]
      <4>1. PICK b \in Apps :
              /\ timeline' = [timeline EXCEPT ![b] = @ \cup {TpoEvent(req[w].to)}]
              /\ alerts' = [alerts EXCEPT ![b] = @ \cup {req[w].to}]
        BY <2>2, BulkItemEffect
      <4>2. a = b /\ x = req[w].to
        BY <1>2, <4>1 DEF TypeOK
      <4>3. QED
        BY <4>1, <4>2 DEF TypeOK
    <3>2. x # "INTERVIEW"
      BY <2>2, <3>1, RequestFields DEF CommitBulkItem, ApplicationStatus
    <3>3. QED
      BY <3>1, <3>2 DEF Kept, AlertEvent
  <2>3. CASE NotifyInterview(w)
    <3>1. x = "INTERVIEW" /\ a = req[w].app
      <4>1. /\ alerts \in [Apps -> SUBSET Alert]
            /\ alerts' = [alerts EXCEPT ![req[w].app] = @ \cup {"INTERVIEW"}]
        BY <2>3 DEF NotifyInterview, TypeOK
      <4>2. QED
        BY <1>2, <4>1
    <3>2. Kept(a, AlertEvent(x))
      BY <2>3, <3>1 DEF NotifyInterview, InterviewsKept, Pending, AlertEvent
    <3>3. QED
      BY <3>2, KeptStays
  <2>4. QED
    BY <2>1, <2>2, <2>3
<1>3. QED
  BY <1>1, <1>2

LEMMA DecisionsAlertedStep ==
  ASSUME TypeOK, [Next]_vars, DecisionsAlerted PROVE DecisionsAlerted'
<1> SUFFICES ASSUME NEW a \in Apps, NEW e \in timeline'[a],
                    e.actor = "TPO", e.status # "INTERVIEW_SCHEDULED"
             PROVE  e.status \in alerts'[a]
  BY DEF DecisionsAlerted
<1>1. alerts[a] \subseteq alerts'[a]
  <2>1. CASE UNCHANGED alerts
    BY <2>1
  <2>2. ASSUME NEW w \in Workers, CommitBulkItem(w) PROVE alerts[a] \subseteq alerts'[a]
    BY <2>2, BulkItemEffect DEF TypeOK
  <2>3. ASSUME NEW w \in Workers, NotifyInterview(w) PROVE alerts[a] \subseteq alerts'[a]
    BY <2>3 DEF NotifyInterview, TypeOK
  <2>4. QED
    BY <2>1, <2>2, <2>3, NoOtherNews
<1>2. CASE e \in timeline[a]
  BY <1>1, <1>2 DEF DecisionsAlerted
<1>3. CASE e \notin timeline[a]
  <2>1. ~(\E j \in Jobs : CreateJob(j) \/ DeleteJob(j) \/ DeadlineNears(j))
    BY <1>3 DEF CreateJob, DeleteJob, DeadlineNears, records
  <2>2. ASSUME NEW w \in Workers, CommitBulkItem(w) PROVE e.status \in alerts'[a]
    BY <1>3, <2>2, BulkItemEffect DEF TypeOK, TpoEvent
  <2>3. ASSUME NEW w \in Workers, CommitInterview(w) PROVE FALSE
    BY <1>3, <2>3, InterviewEffect DEF TypeOK, TpoEvent
  <2>4. ASSUME NEW w \in Workers, ApplyInsert(w) \/ CommitWithdraw(w) PROVE FALSE
    <3>1. PICK st : timeline' = [timeline EXCEPT ![req[w].app] =
                                   @ \cup {[status |-> st, actor |-> "STUDENT"]}]
      BY <2>4 DEF ApplyInsert, CommitWithdraw, Record
    <3>2. QED
      BY <1>3, <3>1 DEF TypeOK
  <2>5. timeline' # timeline
    BY <1>3
  <2>6. QED
    BY <2>1, <2>2, <2>3, <2>4, <2>5, StepCases
       DEF CheckDeadlines, Quiet, StartInterview, StartBulk, CommitBulkAudit,
           NotifyInterview, vars, records
<1>4. QED
  BY <1>2, <1>3

LEMMA KeptStep == CoreInv /\ KeptInv /\ [Next]_vars => KeptInv'
  BY InterviewsKeptStep, BulkKeptStep, AuditKeptStep, AlertsKeptStep,
     DecisionsAlertedStep DEF CoreInv, KeptInv

------------------------------------------------------------------------------
(* The properties *)

LEMMA Invariance == Spec => [](CoreInv /\ KeptInv)
<1>1. Init => CoreInv /\ KeptInv
  BY CoreInit, KeptInit
<1>2. CoreInv /\ KeptInv /\ [Next]_vars => (CoreInv /\ KeptInv)'
  BY CoreStep, KeptStep
<1>3. QED
  BY <1>1, <1>2, PTL DEF Spec

\* However apply, withdraw, bulk decisions, interviews and deletions
\* interleave, every application's status is accounted for by its timeline.
THEOREM TimelineIsComplete == Spec => []TimelineExplainsStatus
  BY Invariance, PTL DEF CoreInv

\* No application outlives its drive, nor is inserted after its deletion.
THEOREM NoOrphans == Spec => []NoOrphanApplication
  BY Invariance, PTL DEF CoreInv

\* What an audit row of a bulk update claims was committed before it.
THEOREM AuditTruth == Spec => []AuditIsTruthful
<1>1. CoreInv /\ KeptInv => AuditIsTruthful
  BY DEF KeptInv, AuditKept, Kept, TpoEvent, AuditIsTruthful, Posted
<1>2. QED
  BY <1>1, Invariance, PTL

\* A student is alerted of what was decided, and of nothing else.
THEOREM AlertsTruth == Spec => []AlertsMatchDecisions
<1>1. ASSUME CoreInv, KeptInv PROVE AlertsMatchDecisions
  <2>1. ASSUME NEW a \in Apps, Exists(a) PROVE jobStatus[a[2]] # "deleted"
    BY <1>1, <2>1 DEF CoreInv, NoOrphanApplication, Posted
  <2>2. ASSUME NEW a \in Apps, Exists(a), NEW x \in alerts[a]
        PROVE AlertEvent(x) \in timeline[a]
    BY <1>1, <2>1, <2>2 DEF KeptInv, AlertsKept, Kept
  <2>3. ASSUME NEW a \in Apps, NEW e \in timeline[a], e.actor = "TPO",
               e.status # "INTERVIEW_SCHEDULED"
        PROVE  e.status \in alerts[a]
    BY <1>1, <2>3 DEF KeptInv, DecisionsAlerted
  <2>4. QED
    BY <2>2, <2>3 DEF AlertsMatchDecisions, AlertEvent, TpoEvent
<1>2. QED
  BY <1>1, Invariance, PTL

\* A submission never puts an application that has moved on back to APPLIED.
THEOREM SubmissionIsHarmless == Spec => SubmissionNeverResets
<1> DEFINE Harmless == \A a \in Apps :
             status[a] \notin {NoApplication, "APPLIED"} /\ status'[a] = "APPLIED"
               => \E w \in Workers : req[w].op = "bulk" /\ req[w].to = "APPLIED"
<1>1. ASSUME TypeOK, [Next]_vars, NEW a \in Apps,
             status[a] \notin {NoApplication, "APPLIED"}, status'[a] = "APPLIED"
      PROVE  \E w \in Workers : req[w].op = "bulk" /\ req[w].to = "APPLIED"
  <2>1. ASSUME NEW b \in Apps, NEW st, NEW actor, NEW same, Record(b, st, actor, same)
        PROVE  a = b /\ st = "APPLIED"
    BY <1>1, <2>1 DEF Record, TypeOK
  <2>2. ASSUME NEW w \in Workers, ApplyInsert(w) PROVE FALSE
    BY <1>1, <2>1, <2>2, RequestFields DEF ApplyInsert, Exists
  <2>3. ASSUME NEW w \in Workers, CommitWithdraw(w) \/ CommitInterview(w) PROVE FALSE
    <3>1. \/ status' = status
          \/ \E st \in {"WITHDRAWN", "INTERVIEW_SCHEDULED"} :
               status' = [status EXCEPT ![req[w].app] = st]
      BY <2>3 DEF CommitWithdraw, CommitInterview, Record
    <3>2. QED
      BY <1>1, <3>1 DEF TypeOK
  <2>4. ASSUME NEW w \in Workers, CommitBulkItem(w)
        PROVE  req[w].op = "bulk" /\ req[w].to = "APPLIED"
    BY <1>1, <2>1, <2>4, RequestFields DEF CommitBulkItem
  <2>5. ~(\E j \in Jobs : CreateJob(j) \/ DeleteJob(j) \/ DeadlineNears(j))
    BY <1>1 DEF CreateJob, DeleteJob, DeadlineNears, records, NoApplication
  <2>6. status' # status
    BY <1>1
  <2>7. QED
    BY <1>1, <2>2, <2>3, <2>4, <2>5, <2>6, StepCases
       DEF CheckDeadlines, Quiet, StartInterview, StartBulk, CommitBulkAudit,
           NotifyInterview, vars, records
<1>2. TypeOK /\ [Next]_vars => [Harmless]_vars
  BY <1>1
<1>3. QED
  BY <1>2, TypeCorrect, PTL DEF Spec, SubmissionNeverResets

------------------------------------------------------------------------------
(* One request at a time.  Applications implements PlacementLifecycle when    *)
(* no two requests overlap, although drives still come, go and close while    *)
(* one is served.  The proof shows what the handlers' reads are good for: as  *)
(* long as nobody else writes, what a request has read still holds when it    *)
(* commits.                                                                   *)

OneRequest == \A v, w \in Workers : v = w

Locked(a) == PolicyLocked(OfferTiers(a[1]), Rule[a[2]].tier)

\* What the request in flight has read and relies on.
ReadsHold(r) ==
  /\ r.op = "apply" /\ r.pc = "insert" => ~Locked(r.app)
  /\ r.op = "withdraw" /\ Exists(r.app) =>
       status[r.app] \notin {"OFFERED", "REJECTED", "WITHDRAWN"}
  /\ r.op = "bulk" => \A a \in r.todo \cap r.same : Exists(a) => status[a] = r.to
  /\ r.op = "interview" /\ r.pc = "commit" /\ r.same =>
       status[r.app] = "INTERVIEW_SCHEDULED"

SerialInv == CoreInv /\ \A w \in Workers : ReadsHold(req[w])

LEMMA SerialInit == Init => SerialInv
  BY CoreInit DEF Init, SerialInv, ReadsHold, Idle

\* A drive that goes takes offers away, it adds none.
LEMMA LocksOnlyShrink ==
  ASSUME NEW a \in Apps, Locked(a)',
         \A b \in Apps : status'[b] = "OFFERED" => status[b] = "OFFERED"
  PROVE  Locked(a)
<1>1. a[1] \in Students
  BY DEF Apps
<1>2. \A j \in Jobs : <<a[1], j>> \in Apps
  BY <1>1 DEF Apps
<1>3. OfferTiers(a[1])' \subseteq OfferTiers(a[1])
  BY <1>2 DEF OfferTiers
<1>4. QED
  BY <1>3 DEF Locked, PolicyLocked

LEMMA SerialStep ==
  ASSUME OneRequest, SerialInv, [Next]_vars
  PROVE  SerialInv'
<1>0. TypeOK /\ CoreInv'
  BY CoreStep DEF SerialInv, CoreInv
<1>1. SUFFICES ASSUME NEW w \in Workers PROVE ReadsHold(req[w])'
  BY <1>0 DEF SerialInv
<1>2. ReadsHold(req[w])
  BY DEF SerialInv
<1>3. CASE UNCHANGED <<status, req>>
  BY <1>2, <1>3 DEF ReadsHold, Locked, OfferTiers, Exists
<1>4. ASSUME NEW j \in Jobs, DeleteJob(j) PROVE ReadsHold(req[w])'
  <2>1. \A b \in Apps : status'[b] \in {status[b], NoApplication}
    BY <1>4 DEF DeleteJob
  <2>2. req' = req
    BY <1>4 DEF DeleteJob
  <2>3. req[w].op = "apply" /\ req[w].pc = "insert" => ~Locked(req[w].app)'
    <3>1. ASSUME req[w].op = "apply", req[w].pc = "insert" PROVE ~Locked(req[w].app)'
      <4>1. req[w].app \in Apps /\ ~Locked(req[w].app)
        BY <1>0, <1>2, <3>1, RequestFields DEF ReadsHold
      <4>2. \A b \in Apps : status'[b] = "OFFERED" => status[b] = "OFFERED"
        BY <2>1 DEF NoApplication
      <4>3. (req[w].app)' = req[w].app
        BY <2>2
      <4>4. QED
        BY <4>1, <4>2, <4>3, LocksOnlyShrink
    <3>2. QED
      BY <3>1
  <2>4. req[w].op = "withdraw" /\ Exists(req[w].app)' =>
          status'[req[w].app] \notin {"OFFERED", "REJECTED", "WITHDRAWN"}
    BY <1>0, <1>2, <2>1, <2>2, RequestFields DEF ReadsHold, Exists
  <2>5. req[w].op = "bulk" =>
          \A a \in req[w].todo \cap req[w].same : Exists(a)' => status'[a] = req[w].to
    BY <1>0, <1>2, <2>1, RequestFields DEF ReadsHold, Exists
  <2>6. ASSUME req[w].op = "interview", req[w].pc = "commit", req[w].same
        PROVE  status'[req[w].app] = "INTERVIEW_SCHEDULED"
    <3>1. status[req[w].app] = "INTERVIEW_SCHEDULED" /\ req[w].app \in Apps
      BY <1>0, <1>2, <2>6, RequestFields DEF ReadsHold
    <3>2. status'[req[w].app] # NoApplication
      BY <1>0, <2>2, <2>6 DEF CoreInv, InterviewsLock, Pending, Exists
    <3>3. QED
      BY <2>1, <3>1, <3>2
  <2>7. QED
    BY <2>2, <2>3, <2>4, <2>5, <2>6 DEF ReadsHold
<1>5. ASSUME NEW r, Go(w, r), r.op \in {"idle", "reply"} PROVE ReadsHold(req[w])'
  BY <1>0, <1>5 DEF Go, TypeOK, ReadsHold
<1>6. ASSUME NEW a \in Apps, StartApply(w, a) PROVE ReadsHold(req[w])'
  BY <1>0, <1>6 DEF StartApply, Go, TypeOK, ReadsHold
<1>7. ASSUME NEW a \in Apps, StartWithdraw(w, a) PROVE ReadsHold(req[w])'
  BY <1>0, <1>7 DEF StartWithdraw, Go, TypeOK, ReadsHold, records
<1>8. ASSUME NEW a \in Apps, StartInterview(w, a) PROVE ReadsHold(req[w])'
  <2>1. /\ req'[w].op = "interview" /\ req'[w].app = a
        /\ req'[w].same <=> status[a] = "INTERVIEW_SCHEDULED"
        /\ status' = status
    BY <1>0, <1>8 DEF StartInterview, Go, TypeOK, records
  <2>2. QED
    BY <2>1 DEF ReadsHold
<1>9. ASSUME NEW a \in Apps, NEW e \in {"offer", "rounds", "shortlist"},
             RecruiterUpdate(w, e, a)
      PROVE  ReadsHold(req[w])'
  BY <1>5, <1>9 DEF RecruiterUpdate, Reply
<1>10. ASSUME NEW ids \in SUBSET Apps, NEW st \in Decisions, StartBulk(w, ids, st)
       PROVE  ReadsHold(req[w])'
  <2>1. /\ req'[w].op = "bulk" /\ req'[w].to = st
        /\ \A a \in req'[w].same : status[a] = st
        /\ status' = status
    BY <1>0, <1>10 DEF StartBulk, Go, TypeOK, records
  <2>2. QED
    BY <2>1 DEF ReadsHold
<1>11. CASE ApplyCheckExisting(w) \/ ApplyCheckPolicy(w)
  <2>1. req[w] \in ApplyRequest
    BY <1>0, <1>11, RequestKinds DEF TypeOK, ApplyCheckExisting, ApplyCheckPolicy
  <2>2. CASE ApplyCheckExisting(w)
    <3>1. req'[w].op \in {"apply", "reply"} /\ (req'[w].op = "apply" => req'[w].pc = "policy")
      BY <1>0, <2>1, <2>2 DEF ApplyCheckExisting, Go, Reply, TypeOK, ApplyRequest
    <3>2. QED
      BY <3>1 DEF ReadsHold
  <2>3. CASE ApplyCheckPolicy(w)
    <3>1. \/ req'[w].op = "idle"
          \/ req'[w].op = "apply" /\ req'[w].app = req[w].app /\ ~Locked(req[w].app)
      BY <1>0, <2>1, <2>3
         DEF ApplyCheckPolicy, Go, Idle, TypeOK, ApplyRequest, Admissible, MayApply, Locked
    <3>2. status' = status
      BY <2>3 DEF ApplyCheckPolicy, records
    <3>3. QED
      BY <3>1, <3>2 DEF ReadsHold, Locked, OfferTiers
  <2>4. QED
    BY <1>11, <2>2, <2>3
<1>12. CASE \/ ApplyInsert(w) \/ ApplyInsertFails(w) \/ CommitWithdraw(w)
            \/ CommitBulkAudit(w) \/ NotifyInterview(w)
            \/ WriteFails(w) \/ Respond(w) \/ Crash(w)
  <2>1. Go(w, Idle) \/ Go(w, Reply("apply", "201")) \/ Go(w, Reply("apply", "500"))
    BY <1>12 DEF ApplyInsert, ApplyInsertFails, CommitWithdraw, CommitBulkAudit,
       NotifyInterview, WriteFails, Respond, Crash
  <2>2. QED
    BY <1>5, <2>1 DEF Idle, Reply
<1>13. CASE CommitBulkItem(w)
  <2>1. req[w] \in BulkRequest
    BY <1>0, <1>13, RequestKinds DEF TypeOK, CommitBulkItem
  <2>2. PICK a \in req[w].todo :
          /\ Record(a, req[w].to, "TPO", a \in req[w].same)
          /\ Go(w, [req[w] EXCEPT !.todo = @ \ {a}])
    BY <1>13 DEF CommitBulkItem
  <2>3. /\ req'[w].op = "bulk" /\ req'[w].to = req[w].to
        /\ req'[w].same = req[w].same /\ req'[w].todo = req[w].todo \ {a}
    BY <1>0, <2>1, <2>2 DEF Go, TypeOK, BulkRequest
  <2>4. \A b \in req'[w].todo : status'[b] = status[b]
    BY <1>0, <2>1, <2>2, <2>3 DEF Record, TypeOK, BulkRequest
  <2>5. QED
    BY <1>2, <2>1, <2>3, <2>4 DEF ReadsHold, Exists, BulkRequest
<1>14. CASE CommitInterview(w)
  <2>1. req[w] \in InterviewRequest
    BY <1>0, <1>14, RequestKinds DEF TypeOK, CommitInterview
  <2>2. req'[w].op = "interview" /\ req'[w].pc = "notify"
    BY <1>0, <1>14, <2>1 DEF CommitInterview, Go, TypeOK, InterviewRequest
  <2>3. QED
    BY <2>2 DEF ReadsHold
<1>15. ASSUME NEW v \in Workers, Receive(v) \/ Proceed(v) \/ Crash(v)
       PROVE  ReadsHold(req[w])'
  <2>1. v = w
    BY DEF OneRequest
  <2>2. QED
    BY <1>15, <2>1, <1>6, <1>7, <1>8, <1>9, <1>10, <1>11, <1>12, <1>13, <1>14
       DEF Receive, Proceed
<1>16. CASE CheckDeadlines \/ UNCHANGED vars
            \/ \E j \in Jobs : CreateJob(j) \/ DeadlineNears(j)
  BY <1>3, <1>16 DEF CheckDeadlines, vars, records, CreateJob, DeadlineNears
<1>17. QED
  BY <1>4, <1>15, <1>16 DEF Next

\* The refinement mapping is the substitution of Lifecycle: the initial states
\* map to its initial state, every step to a step of it or to a stutter.
LEMMA LifecycleInit == Init => Lifecycle!Init
  BY DEF Init, Lifecycle!Init, Posted, Apps

LEMMA LifecycleStep ==
  ASSUME OneRequest, SerialInv, [Next]_vars
  PROVE  [Lifecycle!Next]_(Lifecycle!vars)
<1> DEFINE posted == {j \in Jobs : Posted(j)}
<1>0. /\ TypeOK
      /\ jobStatus \in [Jobs -> {"unposted", "OPEN", "CLOSING_SOON", "CLOSED", "deleted"}]
      /\ status \in [Apps -> ApplicationStatus \cup {NoApplication}]
  BY DEF SerialInv, CoreInv, TypeOK
<1>a. ApplicationStatus = Lifecycle!Active \cup Lifecycle!Decided
  BY DEF ApplicationStatus, Lifecycle!Active, Lifecycle!Decided
<1>1. ASSUME NEW j \in Jobs, CreateJob(j) PROVE Lifecycle!Post(j)
  BY <1>0, <1>1 DEF CreateJob, Posted, records, Lifecycle!Post
<1>2. ASSUME NEW j \in Jobs, DeleteJob(j) PROVE Lifecycle!Remove(j)
  BY <1>0, <1>2 DEF DeleteJob, Posted, Lifecycle!Remove, Apps
<1>3. CASE UNCHANGED <<jobStatus, status>>
  BY <1>3 DEF Lifecycle!vars, Posted
<1>4. CASE CheckDeadlines
  BY <1>0, <1>4 DEF CheckDeadlines, Posted, records, Lifecycle!vars
<1>5. ASSUME NEW w \in Workers, ApplyInsert(w)
      PROVE  \E s \in Students, j \in Jobs : Lifecycle!Apply(s, j)
  <2>1. PICK s \in Students, j \in Jobs : req[w].app = <<s, j>>
    BY <1>0, <1>5, RequestFields DEF ApplyInsert, Apps
  <2>2. /\ Posted(j) /\ status[<<s, j>>] = NoApplication
        /\ status' = [status EXCEPT ![<<s, j>>] = "APPLIED"]
        /\ UNCHANGED jobStatus
    BY <1>5, <2>1 DEF ApplyInsert, Record, Exists, drives
  <2>3. ~PolicyLocked(OfferTiers(s), Rule[j].tier)
    BY <1>5, <2>1 DEF ApplyInsert, SerialInv, ReadsHold, Locked
  <2>4. ~Lifecycle!Locked(s, j)
    BY <2>3 DEF PolicyLocked, OfferTiers, Lifecycle!Locked
  <2>5. QED
    BY <2>2, <2>4 DEF Lifecycle!Apply, Posted
<1>6. ASSUME NEW w \in Workers, CommitWithdraw(w)
      PROVE  \E a \in Students \X Jobs : Lifecycle!Withdraw(a)
  <2>1. /\ req[w].app \in Apps /\ Exists(req[w].app)
        /\ status' = [status EXCEPT ![req[w].app] = "WITHDRAWN"]
        /\ UNCHANGED jobStatus
    BY <1>0, <1>6, RequestFields DEF CommitWithdraw, Record, drives
  <2>2. status[req[w].app] \notin {"OFFERED", "REJECTED", "WITHDRAWN"}
    BY <1>6, <2>1 DEF CommitWithdraw, SerialInv, ReadsHold
  <2>3. status[req[w].app] \in Lifecycle!Active
    BY <1>0, <1>a, <2>1, <2>2 DEF Exists, Lifecycle!Decided
  <2>4. QED
    BY <2>1, <2>3 DEF Lifecycle!Withdraw, Apps, Posted
<1>7. ASSUME NEW a \in Apps, Exists(a), NEW st \in ApplicationStatus, NEW actor,
             NEW same \in BOOLEAN, same => status[a] = st,
             Record(a, st, actor, same), UNCHANGED jobStatus
      PROVE  Lifecycle!Decide(a, st)
  <2>1. status' = [status EXCEPT ![a] = st]
    BY <1>0, <1>7 DEF Record
  <2>2. QED
    BY <1>7, <2>1 DEF Lifecycle!Decide, Exists, Posted
<1>8. ASSUME NEW w \in Workers, CommitBulkItem(w)
      PROVE  \E a \in Students \X Jobs, st \in Lifecycle!Active \cup Lifecycle!Decided :
               Lifecycle!Decide(a, st)
  <2>1. req[w] \in BulkRequest
    BY <1>0, <1>8, RequestKinds DEF TypeOK, CommitBulkItem
  <2>2. PICK a \in req[w].todo :
          Exists(a) /\ Record(a, req[w].to, "TPO", a \in req[w].same)
    BY <1>8 DEF CommitBulkItem
  <2>3. /\ a \in Apps /\ req[w].to \in ApplicationStatus
        /\ (a \in req[w].same) \in BOOLEAN
        /\ UNCHANGED jobStatus
    BY <1>8, <2>1 DEF BulkRequest, CommitBulkItem, drives
  <2>4. a \in req[w].same => status[a] = req[w].to
    BY <1>8, <2>2 DEF CommitBulkItem, SerialInv, ReadsHold
  <2>5. Lifecycle!Decide(a, req[w].to)
    BY <1>7, <2>2, <2>3, <2>4
  <2>6. QED
    BY <1>a, <2>3, <2>5 DEF Apps
<1>9. ASSUME NEW w \in Workers, CommitInterview(w)
      PROVE  \E a \in Students \X Jobs, st \in Lifecycle!Active \cup Lifecycle!Decided :
               Lifecycle!Decide(a, st)
  <2>1. req[w] \in InterviewRequest
    BY <1>0, <1>9, RequestKinds DEF TypeOK, CommitInterview
  <2>2. /\ req[w].app \in Apps /\ Exists(req[w].app) /\ req[w].same \in BOOLEAN
        /\ req[w].same => status[req[w].app] = "INTERVIEW_SCHEDULED"
    BY <1>9, <2>1 DEF InterviewRequest, CommitInterview, SerialInv, ReadsHold,
       CoreInv, InterviewsLock, Pending
  <2>3. "INTERVIEW_SCHEDULED" \in ApplicationStatus
    BY DEF ApplicationStatus
  <2>4. Lifecycle!Decide(req[w].app, "INTERVIEW_SCHEDULED")
    BY <1>7, <1>9, <2>2, <2>3 DEF CommitInterview, drives
  <2>5. QED
    BY <1>a, <2>2, <2>3, <2>4 DEF Apps
<1>10. QED
  BY <1>0, <1>1, <1>2, <1>3, <1>4, <1>5, <1>6, <1>8, <1>9, StepCases
     DEF Lifecycle!Next, DeadlineNears, Quiet, StartInterview, StartBulk,
         CommitBulkAudit, NotifyInterview, vars, drives, records

\* Without overlapping requests the component is the lifecycle it promises:
\* nobody applies to a drive an offer locks, and nobody withdraws from a
\* decision.
THEOREM SerialRefinement == ASSUME OneRequest PROVE Spec => ImplementsLifecycle
<1>1. SerialInv /\ [Next]_vars => SerialInv'
  BY SerialStep
<1>2. SerialInv /\ [Next]_vars => [Lifecycle!Next]_(Lifecycle!vars)
  BY LifecycleStep
<1>3. QED
  BY <1>1, <1>2, SerialInit, LifecycleInit, PTL DEF Spec, ImplementsLifecycle, Lifecycle!Spec

\* Nor does the timeline ever disagree with the status: a status that was
\* loaded before the request's own commit is still the one in the row.
LEMMA LatestStep ==
  ASSUME SerialInv, TimelineEndsInStatus, [Next]_vars
  PROVE  TimelineEndsInStatus'
<1>0. /\ TypeOK
      /\ status \in [Apps -> ApplicationStatus \cup {NoApplication}]
      /\ latest \in [Apps -> ApplicationStatus \cup {NoApplication}]
  BY DEF SerialInv, CoreInv, TypeOK
<1>1. CASE UNCHANGED <<status, latest>>
  BY <1>1 DEF TimelineEndsInStatus
<1>2. ASSUME NEW j \in Jobs, DeleteJob(j) PROVE TimelineEndsInStatus'
  BY <1>2 DEF DeleteJob, TimelineEndsInStatus
<1>3. ASSUME NEW a \in Apps, NEW st, NEW actor, NEW same \in BOOLEAN,
             same => status[a] = st, Record(a, st, actor, same)
      PROVE  TimelineEndsInStatus'
  BY <1>0, <1>3 DEF Record, TimelineEndsInStatus
<1>4. ASSUME NEW w \in Workers, ApplyInsert(w) \/ CommitWithdraw(w)
      PROVE  TimelineEndsInStatus'
  <2>1. req[w].app \in Apps
    BY <1>0, <1>4, RequestFields DEF ApplyInsert, CommitWithdraw
  <2>2. PICK st, actor : Record(req[w].app, st, actor, FALSE)
    BY <1>4, Zenon DEF ApplyInsert, CommitWithdraw
  <2>3. status' = [status EXCEPT ![req[w].app] = st]
        /\ latest' = [latest EXCEPT ![req[w].app] = st]
    BY <2>2 DEF Record
  <2>4. QED
    BY <1>0, <2>1, <2>3 DEF TimelineEndsInStatus
<1>5. ASSUME NEW w \in Workers, CommitInterview(w) PROVE TimelineEndsInStatus'
  <2>1. req[w] \in InterviewRequest
    BY <1>0, <1>5, RequestKinds DEF TypeOK, CommitInterview
  <2>2. QED
    BY <1>3, <1>5, <2>1 DEF InterviewRequest, CommitInterview, SerialInv, ReadsHold
<1>6. ASSUME NEW w \in Workers, CommitBulkItem(w) PROVE TimelineEndsInStatus'
  <2>1. req[w] \in BulkRequest
    BY <1>0, <1>6, RequestKinds DEF TypeOK, CommitBulkItem
  <2>2. PICK a \in req[w].todo :
          Exists(a) /\ Record(a, req[w].to, "TPO", a \in req[w].same)
    BY <1>6 DEF CommitBulkItem
  <2>3. /\ a \in Apps /\ (a \in req[w].same => status[a] = req[w].to)
        /\ (a \in req[w].same) \in BOOLEAN
    BY <1>6, <2>1, <2>2 DEF BulkRequest, CommitBulkItem, SerialInv, ReadsHold
  <2>4. QED
    BY <1>3, <2>2, <2>3
<1>7. QED
  BY <1>0, <1>1, <1>2, <1>4, <1>5, <1>6, StepCases
     DEF CreateJob, DeadlineNears, CheckDeadlines, Quiet, StartInterview, StartBulk,
         CommitBulkAudit, NotifyInterview, vars, records

THEOREM SerialTimeline == ASSUME OneRequest PROVE Spec => []TimelineEndsInStatus
<1>1. Init => SerialInv /\ TimelineEndsInStatus
  BY SerialInit DEF Init, TimelineEndsInStatus
<1>2. SerialInv /\ TimelineEndsInStatus /\ [Next]_vars => (SerialInv /\ TimelineEndsInStatus)'
  BY SerialStep, LatestStep
<1>3. QED
  BY <1>1, <1>2, PTL DEF Spec
==============================================================================
