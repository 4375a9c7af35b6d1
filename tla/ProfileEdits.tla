---------------------------- MODULE ProfileEdits ----------------------------
(***************************************************************************)
(* What a student edits as a whole: the answers in users.additional_info,  *)
(* where the LinkedIn audit is kept too, the responsibilities of one       *)
(* experience, and the settings row.                                       *)
(*                                                                         *)
(* `given`, `listed` and `chosen` are history: the answer to each question,*)
(* the list of responsibilities and the settings last acknowledged.        *)
(***************************************************************************)
EXTENDS Requests

CONSTANTS Questions, Answers, NoAnswer,
          LinkedInAudit, \* of the questions, the key of the audit
          Lists,    \* lists of responsibilities of two lines, each sent once
          NoList,
          Choices,  \* the settings a student may choose
          Defaults, \* of these, the column defaults
          NoRow

ASSUME EditsAssumption ==
  /\ NoAnswer \notin Answers /\ NoList \notin Lists /\ NoRow \notin Choices
  /\ Defaults \in Choices
  /\ LinkedInAudit \in Questions

VARIABLES
  additional_info, \* users.additional_info
  duties,          \* the rows of responsibilities of the experience
  settings,        \* the row of user_settings
  edit,            \* requests in flight
  given, listed, chosen

editVars == <<additional_info, duties, settings, edit, given, listed, chosen>>

Info == [Questions -> Answers \cup {NoAnswer}]
Lines(l) == {l} \X {1, 2}
Duties == Lists \X {1, 2}

PatchRequest == [op: {"patch", "audit"}, read: Info, question: Questions, answer: Answers]
ReplaceRequest == [op: {"replace"}, seen: SUBSET Duties, list: Lists]
SettingsRequest ==
  [op: {"get settings", "put settings"}, read: Choices \cup {NoRow}, choice: Choices]

EditsTypeOK ==
  /\ additional_info \in Info /\ given \in Info
  /\ duties \in SUBSET Duties /\ listed \in Lists \cup {NoList}
  /\ settings \in Choices \cup {NoRow} /\ chosen \in Choices \cup {NoRow}
  /\ edit \in [Requests -> {Free} \cup PatchRequest \cup ReplaceRequest \cup SettingsRequest]

EditsInit ==
  /\ additional_info = [n \in Questions |-> NoAnswer] /\ given = additional_info
  /\ duties = {} /\ listed = NoList
  /\ settings \in {NoRow, Defaults} /\ chosen = settings
  /\ edit = NoRequests

Editing(q, op) == edit[q] # Free /\ edit[q].op = op
Starts(q, request) ==
  /\ edit[q] = Free
  /\ edit' = [edit EXCEPT ![q] = request]
  /\ UNCHANGED <<additional_info, duties, settings, given, listed, chosen>>
Ends(q) == edit' = [edit EXCEPT ![q] = Free]

------------------------------------------------------------------------------
(* PATCH /profile/additional-info *)

\* The user is loaded, with the answers, when the token is checked, ...
StartPatch(q, n, a) ==
  Starts(q, [op |-> "patch", read |-> additional_info, question |-> n, answer |-> a])

\* ... and update_additional_info writes that copy with the new answers, unless
\* it came out as it was read.
CommitPatch(q) ==
  LET n == edit[q].question
      merged == [edit[q].read EXCEPT ![n] = edit[q].answer] IN
  /\ Editing(q, "patch")
  /\ additional_info' = IF merged = edit[q].read THEN additional_info ELSE merged
  /\ given' = [given EXCEPT ![n] = edit[q].answer]
  /\ Ends(q)
  /\ UNCHANGED <<duties, settings, listed, chosen>>

------------------------------------------------------------------------------
(* POST /linkedin/upload-pdf and /linkedin/audit-text *)

\* The same copy of the answers is kept while a model, or the rules, audit.
StartAudit(q, a) ==
  Starts(q, [op |-> "audit", read |-> additional_info,
             question |-> LinkedInAudit, answer |-> a])

\* flag_modified: the copy is written whatever it holds.
CommitAudit(q) ==
  /\ Editing(q, "audit")
  /\ additional_info' = [edit[q].read EXCEPT ![LinkedInAudit] = edit[q].answer]
  /\ given' = [given EXCEPT ![LinkedInAudit] = edit[q].answer]
  /\ Ends(q)
  /\ UNCHANGED <<duties, settings, listed, chosen>>

------------------------------------------------------------------------------
(* PUT /profile/experiences/{id} with responsibilities *)

\* update_experience executes DELETE for the rows committed so far, ...
StartReplace(q, l) == Starts(q, [op |-> "replace", seen |-> duties, list |-> l])

\* ... and INSERT for the new ones, COMMIT.
CommitReplace(q) ==
  /\ Editing(q, "replace")
  /\ duties' = (duties \ edit[q].seen) \cup Lines(edit[q].list)
  /\ listed' = edit[q].list
  /\ Ends(q)
  /\ UNCHANGED <<additional_info, settings, given, chosen>>

------------------------------------------------------------------------------
(* GET and PUT /settings *)

StartGetSettings(q) ==
  /\ settings = NoRow
  /\ Starts(q, [op |-> "get settings", read |-> NoRow, choice |-> Defaults])

StartPutSettings(q, c) ==
  Starts(q, [op |-> "put settings", read |-> settings, choice |-> c])

\* get_settings inserts a missing row; user_id is unique.
CommitGetSettings(q) ==
  /\ Editing(q, "get settings")
  /\ settings = NoRow
  /\ settings' = Defaults
  /\ chosen' = Defaults
  /\ Ends(q)
  /\ UNCHANGED <<additional_info, duties, given, listed>>

\* update_settings inserts a missing row, or updates what it read as different.
CommitPutSettings(q) ==
  /\ Editing(q, "put settings")
  /\ edit[q].read = NoRow => settings = NoRow
  /\ settings' = IF edit[q].choice = edit[q].read THEN settings ELSE edit[q].choice
  /\ chosen' = edit[q].choice
  /\ Ends(q)
  /\ UNCHANGED <<additional_info, duties, given, listed>>

------------------------------------------------------------------------------
\* A constraint, a lost connection, a crash.
EditFails(q) ==
  /\ edit[q] # Free
  /\ Ends(q)
  /\ UNCHANGED <<additional_info, duties, settings, given, listed, chosen>>

ListsInFlight == {edit[q].list : q \in {p \in Requests : Editing(p, "replace")}}
NewLists == Lists \ (ListsInFlight \cup {listed} \cup {d[1] : d \in duties})

EditNext(q) ==
  \/ \E n \in Questions, a \in Answers : StartPatch(q, n, a)
  \/ \E a \in Answers : StartAudit(q, a)
  \/ \E l \in NewLists : StartReplace(q, l)
  \/ StartGetSettings(q) \/ \E c \in Choices : StartPutSettings(q, c)
  \/ CommitPatch(q) \/ CommitAudit(q) \/ CommitReplace(q) \/ CommitGetSettings(q) \/ CommitPutSettings(q)
  \/ EditFails(q)

EditsNext == \E q \in Requests : EditNext(q)

EditsSpec == EditsInit /\ [][EditsNext]_editVars
------------------------------------------------------------------------------

\* With one request at a time every edit stands until the next one of its kind.
EditsStand ==
  /\ additional_info = given
  /\ listed # NoList => duties = Lines(listed)
  /\ settings = chosen
==============================================================================
