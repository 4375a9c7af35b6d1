---------------------------- MODULE Submissions ----------------------------
(***************************************************************************)
(* Assignments handed in by one student: an upsert without a unique        *)
(* constraint, against a due date.                                         *)
(*                                                                         *)
(* `last` and `overdue` are history: the file handed in last, and the      *)
(* files whose request came after the due date.                            *)
(***************************************************************************)
EXTENDS Requests

CONSTANTS Files,  \* file_url of successive submissions, each used once
          NoFile,
          Sheets  \* ids of rows of assignment_submissions

ASSUME FilesAssumption == NoFile \notin Files

VARIABLES
  due,    \* "unset", "open" or "over": the assignment, its clock against due_at
  sheets, \* the rows of the student for the assignment
  hand,   \* submit requests in flight
  last,
  overdue

submissionVars == <<due, sheets, hand, last, overdue>>

Sheet == [file_url: Files \cup {NoFile}, status: {"none", "submitted", "late"}]
NoSheet == [file_url |-> NoFile, status |-> "none"]
SubmitRequest == [op: {"submit"}, file: Files, late: BOOLEAN,
                  found: SUBSET Sheets, was: {"none", "submitted", "late"}]

SubmissionsTypeOK ==
  /\ due \in {"unset", "open", "over"}
  /\ sheets \in [Sheets -> Sheet]
  /\ hand \in [Requests -> {Free} \cup SubmitRequest]
  /\ last \in Files \cup {NoFile}
  /\ overdue \subseteq Files

SubmissionsInit ==
  /\ due = "unset"
  /\ sheets = [k \in Sheets |-> NoSheet]
  /\ hand = NoRequests
  /\ last = NoFile
  /\ overdue = {}

\* What list_assignments joins to the assignment.
Handed == {k \in Sheets : sheets[k] # NoSheet}

FilesInFlight == {hand[q].file : q \in {p \in Requests : hand[p] # Free}}
NewFiles == Files \ (FilesInFlight \cup {last} \cup {sheets[k].file_url : k \in Sheets})

------------------------------------------------------------------------------

\* create_assignment: nothing keeps due_at out of the past.
CreateAssignment ==
  /\ due = "unset"
  /\ due' \in {"open", "over"}
  /\ UNCHANGED <<sheets, hand, last, overdue>>

DueDatePasses ==
  /\ due = "open"
  /\ due' = "over"
  /\ UNCHANGED <<sheets, hand, last, overdue>>

\* submit_assignment looks for the student's row (two make scalar_one_or_none
\* raise), then takes the time, ...
StartSubmit(q, f) ==
  /\ hand[q] = Free
  /\ due # "unset"
  /\ \A k, l \in Handed : k = l
  /\ \E was \in IF Handed = {} THEN {"none"} ELSE {sheets[k].status : k \in Handed} :
       hand' = [hand EXCEPT ![q] =
         [op |-> "submit", file |-> f, late |-> due = "over", found |-> Handed, was |-> was]]
  /\ UNCHANGED <<due, sheets, last, overdue>>

CommitSubmit_StatusKept(q) ==
  LET status == IF hand[q].late THEN "late" ELSE "submitted" IN
  /\ hand[q] # Free
  /\ \/ \E k \in hand[q].found : sheets' = [sheets EXCEPT ![k].file_url = hand[q].file]
     \/ /\ hand[q].found = {}
        /\ \E k \in Sheets \ Handed :
             sheets' = [sheets EXCEPT ![k] = [file_url |-> hand[q].file, status |-> status]]
  /\ last' = hand[q].file
  /\ overdue' = IF hand[q].late THEN overdue \cup {hand[q].file} ELSE overdue
  /\ hand' = [hand EXCEPT ![q] = Free]
  /\ UNCHANGED due

\* ... and updates the row it found (the status only if it is not the one it
\* read) or inserts one, COMMIT.
CommitSubmit(q) ==
  LET status == IF hand[q].late THEN "late" ELSE "submitted" IN
  /\ hand[q] # Free
  /\ \/ \E k \in hand[q].found :
          sheets' = [sheets EXCEPT ![k].file_url = hand[q].file,
                                   ![k].status = IF status = hand[q].was THEN @ ELSE status]
     \/ /\ hand[q].found = {}
        /\ \E k \in Sheets \ Handed :
             sheets' = [sheets EXCEPT ![k] = [file_url |-> hand[q].file, status |-> status]]
  /\ last' = hand[q].file
  /\ overdue' = IF hand[q].late THEN overdue \cup {hand[q].file} ELSE overdue
  /\ hand' = [hand EXCEPT ![q] = Free]
  /\ UNCHANGED due

SubmitFails(q) ==
  /\ hand[q] # Free
  /\ hand' = [hand EXCEPT ![q] = Free]
  /\ UNCHANGED <<due, sheets, last, overdue>>

SubmissionsNext ==
  \/ CreateAssignment \/ DueDatePasses
  \/ \E q \in Requests :
       (\E f \in NewFiles : StartSubmit(q, f)) \/ CommitSubmit(q) \/ SubmitFails(q)

SubmissionsSpec == SubmissionsInit /\ [][SubmissionsNext]_submissionVars
------------------------------------------------------------------------------

\* However submissions overlap each other and the due date, a file handed in
\* late never passes for one handed in on time.
NoLateFileOnTime ==
  \A k \in Handed : sheets[k].status = "submitted" => sheets[k].file_url \notin overdue

\* With one submission at a time there is one row, with the file handed in last.
LastSubmissionCounts == \A k \in Handed : Handed = {k} /\ sheets[k].file_url = last
==============================================================================
