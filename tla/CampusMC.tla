------------------------------ MODULE CampusMC ------------------------------
(***************************************************************************)
(* The components of student life around the applications, on small        *)
(* instances.  They share no state, so one run takes them one by one:      *)
(* `part` names the one that runs, and with `serial` at most one request   *)
(* of it is between its read and its write.  Both are chosen once.         *)
(***************************************************************************)
EXTENDS EligibilityMC, AtsScoring, Leaderboard, Registrations, Submissions, Feed,
        LiveAlerts, Resumes

VARIABLES part, serial

CONSTANTS c1, c2, a1, a2, b1, e1, k1

VerdictsMC == [c \in Texts |-> IF c = c1 THEN {1} ELSE {2}]
OwnerOfMC == [r \in Ranked |-> IF r = b1 THEN "t" ELSE "s"]
MemberOrderMC == [s \in Students |-> IF s = "s" THEN 1 ELSE 2]

studentVars == <<eligibilityVars, scoringVars, boardVars>>
deskVars == <<registrationVars, submissionVars>>
newsVars == <<feedVars, alertVars, resumeVars>>
campusVars == <<studentVars, deskVars, newsVars, part, serial>>

Init ==
  /\ EligibilityInit /\ ScoringInit /\ LeaderboardInit
  /\ RegistrationsInit /\ SubmissionsInit
  /\ FeedInit /\ AlertsInit /\ ResumesInit
  /\ part \in {"eligibility", "ats", "leaderboard", "registrations", "submissions",
               "feed", "comments", "alerts", "resumes"}
  /\ serial \in BOOLEAN
  /\ serial => part \in {"registrations", "submissions", "comments"}
  /\ part # "eligibility" => drive = CHOOSE d \in Drives : TRUE
  /\ part # "ats" => papers[a1].text = c1

\* What keeps the instance small beyond that: one event or one competition; one
\* resume that is deleted, and one that gets one score only; one post that is gone;
\* pins that change while no other request of the feed's officers is under way;
\* of the resumes one upload and one tab (ResumesMC has the rest).
Steps ==
  \/ /\ part = "eligibility" /\ EligibilityNext
     /\ UNCHANGED <<scoringVars, boardVars, deskVars, newsVars>>
  \/ /\ part = "ats" /\ ScoringNext
     /\ UNCHANGED <<eligibilityVars, boardVars, deskVars, newsVars>>
  \/ /\ part = "leaderboard" /\ LeaderboardNext
     /\ \A r \in {a2, b1} : ~marks'[r].is_deleted
     /\ marks'[b1].ats_score # 2
     /\ UNCHANGED <<eligibilityVars, scoringVars, deskVars, newsVars>>
  \/ /\ part = "registrations" /\ RegistrationsNext
     /\ serial => NoOverlap(desk')
     /\ gatherings'[e1].state = "absent" \/ gatherings'[k1].state = "absent"
     /\ UNCHANGED <<studentVars, submissionVars, newsVars>>
  \/ /\ part = "submissions" /\ SubmissionsNext
     /\ serial => NoOverlap(hand')
     /\ UNCHANGED <<studentVars, registrationVars, newsVars>>
  \/ /\ part \in {"feed", "comments"} /\ FeedNext
     /\ serial => NoOverlap(office')
     /\ Cardinality({p \in Posts : posts'[p].state = "gone"}) <= 1
     /\ IF part = "feed"
        THEN /\ \A q \in Requests : office'[q].op # "comment"
             /\ (\E q \in Requests : office'[q].op = "toggle") => NoOverlap(office')
        ELSE cursor' = End /\ posts'[2].state = "unused"
     /\ UNCHANGED <<studentVars, deskVars, alertVars, resumeVars>>
  \/ /\ part = "alerts" /\ AlertsNext
     /\ UNCHANGED <<studentVars, deskVars, feedVars, resumeVars>>
  \/ /\ part = "resumes" /\ ResumesNext
     /\ UNCHANGED <<studentVars, deskVars, feedVars, alertVars>>

Next == Steps /\ UNCHANGED <<part, serial>>

Spec == Init /\ [][Next]_campusVars /\ LeaderboardFairness /\ AlertsFairness
        /\ ResumesFairness
------------------------------------------------------------------------------

\* Every variable has its type.
CampusTypeOK ==
  /\ ScoringTypeOK /\ LeaderboardTypeOK
  /\ RegistrationsTypeOK /\ SubmissionsTypeOK
  /\ FeedTypeOK /\ AlertsTypeOK /\ ResumesTypeOK

\* When requests do not overlap, what is counted and what is there agree: the
\* number of registrations of an event, one for each student; the file handed in
\* last; the number of comments.
CountsAreExactWhenSerial ==
  serial => CountIsExact /\ OneRowEach /\ LastSubmissionCounts /\ CommentsAreCounted
==============================================================================
