------------------------------- MODULE Resumes -------------------------------
(***************************************************************************)
(* The resumes of one student: rows of `resumes`, the editor tabs that     *)
(* load and save them, and the background transcription of an uploaded     *)
(* PDF.  A request reads its row in one step and writes it in another; a   *)
(* refused request (404, 409, 400) changes nothing and is not a step.      *)
(*                                                                         *)
(* Content is the set of the edits it contains; those of LatexEdits are in *)
(* its latex_source, which a compilation and a transcription replace by    *)
(* their own.  Transcript stands for llm_processing = False.               *)
(*                                                                         *)
(* updated_at is the time at which the UPDATE was prepared.  It is only    *)
(* ever compared with the value a tab was given with the content: the test *)
(* refuses a tab that is "old", and lets pass one that has the "latest"    *)
(* version, or one that was "overtaken" by an UPDATE prepared earlier and  *)
(* committed later than the version it has.                                *)
(*                                                                         *)
(* `overrun`, and the `read` and `base` of a save (the content that it     *)
(* read, the version its tab had) and the `base` of a compilation, are     *)
(* history the code does not keep.  A definition named X_<fault> is X with *)
(* one slip, to be put in its place to see a property fail.                *)
(***************************************************************************)
EXTENDS Integers, FiniteSets

CONSTANTS ResumeIds,
          UploadIds,  \* of these, the ones that uploads will draw
          NoResume,
          Edits,      \* what students type into resumes
          LatexEdits, \* of these, the ones to the LaTeX source
          Transcript, \* the mark of a transcription that has ended
          Tabs,       \* the student's tabs and devices, one request each
          MaxResumes  \* MAX_RESUMES_PER_USER

ASSUME ResumesAssumption ==
  /\ UploadIds \subseteq ResumeIds
  /\ NoResume \notin ResumeIds
  /\ LatexEdits \subseteq Edits
  /\ Transcript \notin Edits
  /\ MaxResumes \in Nat \ {0}
  /\ IsFiniteSet(Tabs) /\ IsFiniteSet(ResumeIds)

VARIABLES
  resumes, \* the rows
  job,     \* process_pdf_transcription_background, one per uploaded resume
  tab,     \* what each tab has loaded
  call,    \* the request each tab has in flight
  overrun  \* the requests and transcriptions that read a row stamped since

resumeVars == <<resumes, job, tab, call, overrun>>

Contents == SUBSET (Edits \cup {Transcript})
ResumeRow == [state: {"absent", "active", "deleted"}, is_primary: BOOLEAN,
              content: Contents]
NoJob == [phase |-> "none", handler |-> FALSE, copy |-> {}]
Job == [phase: {"none", "queued", "read", "done", "dead"}, handler: BOOLEAN,
        copy: Contents]
Versions == {"latest", "overtaken", "old"}
Document == [resume: ResumeIds \cup {NoResume}, content: Contents, version: Versions]
Blank == [resume |-> NoResume, content |-> {}, version |-> "old"]

Waiting == [op |-> "none"]
CreateCall == [op: {"create"}, first: BOOLEAN]
SaveCall == [op: {"save"}, resume: ResumeIds, read: Contents, content: Contents,
             checked: BOOLEAN, base: Versions]
PrimaryCall == [op: {"primary"}, resume: ResumeIds, was: BOOLEAN]
CompileCall == [op: {"compile"}, resume: ResumeIds, read: Contents,
                source: SUBSET LatexEdits, base: Versions]
Call == {Waiting} \cup CreateCall \cup SaveCall \cup PrimaryCall \cup CompileCall

ResumesTypeOK ==
  /\ resumes \in [ResumeIds -> ResumeRow]
  /\ job \in [ResumeIds -> Job]
  /\ tab \in [Tabs -> Document]
  /\ call \in [Tabs -> Call]
  /\ overrun \in [tabs: SUBSET Tabs, jobs: SUBSET ResumeIds]

ResumesInit ==
  /\ resumes = [r \in ResumeIds |->
                  [state |-> "absent", is_primary |-> FALSE, content |-> {}]]
  /\ job = [r \in ResumeIds |-> NoJob]
  /\ tab = [t \in Tabs |-> Blank]
  /\ call = [t \in Tabs |-> Waiting]
  /\ overrun = [tabs |-> {}, jobs |-> {}]

\* What list_resumes selects and get_resume finds.
ActiveResumes == {r \in ResumeIds : resumes[r].state = "active"}
Existing == {r \in ResumeIds : resumes[r].state # "absent"}

Document_(r, content) == [resume |-> r, content |-> content, version |-> "latest"]
Ask(t, c) == call[t] = Waiting /\ call' = [call EXCEPT ![t] = c]
Answered(t) == call' = [call EXCEPT ![t] = Waiting]

\* updated_at of the rows rs is set: tabs that have them are behind, but for those
\* that an UPDATE prepared before the version they have leaves in place, ...
Outdated(rs, kept) == [t \in Tabs |->
  IF tab[t].resume \notin rs THEN tab[t]
  ELSE [tab[t] EXCEPT !.version = IF t \in kept THEN "overtaken" ELSE "old"]]

\* ... which may be any when somebody else wrote since it was read ...
Kept(isOverrun) == IF isOverrun THEN SUBSET Tabs ELSE {{}}

\* ... and what is in flight has from now on read a row that was stamped since.
Touched(c) == CASE c.op \in {"save", "compile"} -> {c.resume}
                [] c.op = "primary" -> ResumeIds
                [] OTHER -> {}
Stamps(rs) ==
  overrun' = [tabs |-> {t \in Tabs : /\ Touched(call'[t]) # {}
                                     /\ t \in overrun.tabs \/ Touched(call'[t]) \cap rs # {}},
              jobs |-> {r \in ResumeIds : /\ job'[r].phase = "read"
                                          /\ r \in overrun.jobs \cup rs}]

\* UPDATE resumes SET content_json, content_hash WHERE id = r: whatever the row
\* has become since it was read, deleted rows included.
WriteContent(r, content) == resumes' = [resumes EXCEPT ![r].content = content]

------------------------------------------------------------------------------
(* Reading *)

\* GET /resumes/{id}
OpenResume(t, r) ==
  /\ call[t] = Waiting
  /\ r \in ActiveResumes
  /\ tab' = [tab EXCEPT ![t] = Document_(r, resumes[r].content)]
  /\ UNCHANGED <<resumes, job, call, overrun>>

------------------------------------------------------------------------------
(* Creating and deleting *)

StartCreate_OffByOne(t) ==
  LET count == Cardinality(ActiveResumes) IN
  /\ count <= MaxResumes
  /\ Ask(t, [op |-> "create", first |-> count = 0])
  /\ UNCHANGED <<resumes, job, tab, overrun>>

\* ResumeService.create_resume counts the active resumes, ...
StartCreate(t) ==
  LET count == Cardinality(ActiveResumes) IN
  /\ count < MaxResumes
  /\ Ask(t, [op |-> "create", first |-> count = 0])
  /\ UNCHANGED <<resumes, job, tab, overrun>>

\* ... reads the profile and inserts; the answer carries the new resume.
CommitCreate(t) ==
  /\ call[t].op = "create"
  /\ \E r \in ResumeIds \ (UploadIds \cup Existing) :
       /\ resumes' = [resumes EXCEPT
            ![r] = [state |-> "active", is_primary |-> call[t].first, content |-> {}]]
       /\ tab' = [tab EXCEPT ![t] = Document_(r, {})]
  /\ Answered(t)
  /\ UNCHANGED <<job, overrun>>

\* upload_resume_pdf: INSERT, COMMIT, and a background task in this process.
\* It neither counts nor sets is_primary.
Upload(t) ==
  /\ call[t] = Waiting
  /\ \E r \in UploadIds \ Existing :
       /\ resumes' = [resumes EXCEPT
            ![r] = [state |-> "active", is_primary |-> FALSE, content |-> {}]]
       /\ job' = [job EXCEPT ![r].phase = "queued"]
       /\ tab' = [tab EXCEPT ![t] = Document_(r, {})]
  /\ UNCHANGED <<call, overrun>>

\* ResumeService.soft_delete; is_primary stays as it is.
SoftDelete(r) ==
  /\ r \in ActiveResumes
  /\ resumes' = [resumes EXCEPT ![r].state = "deleted"]
  /\ tab' = Outdated({r}, {})
  /\ UNCHANGED <<job, call>>
  /\ Stamps({r})

------------------------------------------------------------------------------
(* Editing *)

\* What the editor of a tab sends, with what was typed last.
Typed(t, typed) == tab' = [tab EXCEPT ![t].content = @ \cup typed]

StartSave_NoVersionTest(t, typed, checked) ==
  LET r == tab[t].resume
      content == tab[t].content \cup typed IN
  /\ r \in ActiveResumes
  /\ Typed(t, typed)
  /\ Ask(t, [op |-> "save", resume |-> r, read |-> resumes[r].content, content |-> content,
             checked |-> checked, base |-> tab[t].version])
  /\ UNCHANGED <<resumes, job, overrun>>

\* ResumeService.update_resume reads the row and, when the client sends
\* last_known_updated_at, compares.
StartSave(t, typed, checked) ==
  LET r == tab[t].resume
      content == tab[t].content \cup typed IN
  /\ r \in ActiveResumes
  /\ checked => tab[t].version # "old"
  /\ Typed(t, typed)
  /\ Ask(t, [op |-> "save", resume |-> r, read |-> resumes[r].content, content |-> content,
             checked |-> checked, base |-> tab[t].version])
  /\ UNCHANGED <<resumes, job, overrun>>

\* It writes the whole content without looking again: equal edits may differ in what
\* is not an edit, in the title or in the results of a compilation.  The answer
\* carries the row as it is then; it may be lost.
CommitSave(t) ==
  LET c == call[t] IN
  /\ c.op = "save"
  /\ WriteContent(c.resume, c.content)
  /\ \E kept \in Kept(t \in overrun.tabs) :
       \/ tab' = [Outdated({c.resume}, kept) EXCEPT ![t] = Document_(c.resume, c.content)]
       \/ tab' = Outdated({c.resume}, kept)
  /\ Answered(t)
  /\ UNCHANGED job
  /\ Stamps({c.resume})

\* compile_resume_latex reads the row, takes the LaTeX source from the request
\* without any test of the version, and spends up to two minutes at the service.
StartCompile(t, typed) ==
  LET r == tab[t].resume IN
  /\ r \in ActiveResumes
  /\ Typed(t, typed)
  /\ Ask(t, [op |-> "compile", resume |-> r, read |-> resumes[r].content,
             source |-> (tab[t].content \cup typed) \cap LatexEdits, base |-> tab[t].version])
  /\ UNCHANGED <<resumes, job, overrun>>

\* Then it writes the content it read with the source it was sent.  The answer
\* carries no updated_at.
CommitCompile(t) ==
  LET c == call[t] IN
  /\ c.op = "compile"
  /\ WriteContent(c.resume, (c.read \ LatexEdits) \cup c.source)
  /\ \E kept \in Kept(t \in overrun.tabs) : tab' = Outdated({c.resume}, kept)
  /\ Answered(t)
  /\ UNCHANGED job
  /\ Stamps({c.resume})

\* score_resume stores ats_score and ats_feedback when they differ.  (What is
\* scored, cached and ranked is the subject of AtsScoring.)
StoreScore(r) ==
  /\ r \in ActiveResumes
  /\ tab' = Outdated({r}, {})
  /\ UNCHANGED <<resumes, job, call>>
  /\ Stamps({r})

------------------------------------------------------------------------------
(* The primary resume *)

\* ResumeService.set_primary reads the resume, ...
StartPrimary(t, r) ==
  /\ r \in ActiveResumes
  /\ Ask(t, [op |-> "primary", resume |-> r, was |-> resumes[r].is_primary])
  /\ UNCHANGED <<resumes, job, tab, overrun>>

CommitPrimary_KeepsOthers(t) ==
  LET r == call[t].resume IN
  /\ call[t].op = "primary"
  /\ resumes' = [resumes EXCEPT ![r].is_primary = TRUE]
  /\ tab' = Outdated({r}, {})
  /\ Answered(t)
  /\ UNCHANGED job
  /\ Stamps({r})

\* ... clears the flag of all the others, deleted ones included, and sends an
\* UPDATE for its own only if it read it as not primary.
CommitPrimary(t) ==
  LET r == call[t].resume
      was == call[t].was
      written == IF was THEN Existing \ {r} ELSE Existing
  IN
  /\ call[t].op = "primary"
  /\ resumes' = [q \in ResumeIds |->
       [resumes[q] EXCEPT !.is_primary = IF q = r THEN was => @ ELSE FALSE]]
  /\ \E kept \in Kept(t \in overrun.tabs) : tab' = Outdated(written, kept)
  /\ Answered(t)
  /\ UNCHANGED job
  /\ Stamps(written)

\* ApplicationService.apply without a resume_id: the primary active resume, or
\* else the active one; scalar_one_or_none raises on two.
PrimaryResumes == {r \in ActiveResumes : resumes[r].is_primary}
ResumesForApply == IF PrimaryResumes # {} THEN PrimaryResumes ELSE ActiveResumes

------------------------------------------------------------------------------
(* Transcription *)

Step(r, phase, handler, copy) ==
  job' = [job EXCEPT ![r] = [phase |-> phase, handler |-> handler, copy |-> copy]]

\* The remote call is over: session.get.  A deleted resume ends the job; the
\* exception handler does not look at is_deleted.
ReadForTranscript(r) ==
  /\ job[r].phase = "queued"
  /\ IF resumes[r].state = "active" \/ job[r].handler
     THEN Step(r, "read", job[r].handler, resumes[r].content)
     ELSE Step(r, "done", FALSE, {})
  /\ UNCHANGED <<resumes, tab, call, overrun>>

\* The copy is written back with llm_processing = False and, but for the handler,
\* with the transcribed LaTeX in the place of the source it had.
WriteTranscript(r) ==
  /\ job[r].phase = "read"
  /\ WriteContent(r, {Transcript} \cup
                     (IF job[r].handler THEN job[r].copy ELSE job[r].copy \ LatexEdits))
  /\ \E kept \in Kept(r \in overrun.jobs) : tab' = Outdated({r}, kept)
  /\ Step(r, "done", FALSE, {})
  /\ UNCHANGED call
  /\ Stamps({r})

TranscriptFails_NoHandler(r) ==
  /\ job[r].phase \in {"queued", "read"}
  /\ Step(r, "done", FALSE, {})
  /\ UNCHANGED <<resumes, tab, call>>
  /\ Stamps({})

\* An exception leads to the handler, which reads and writes once more; an
\* exception in the handler is swallowed.
TranscriptFails(r) ==
  /\ job[r].phase \in {"queued", "read"}
  /\ IF job[r].handler THEN Step(r, "dead", FALSE, {}) ELSE Step(r, "queued", TRUE, {})
  /\ UNCHANGED <<resumes, tab, call>>
  /\ Stamps({})

\* The process ends, and the task with it.
TranscriptDies(r) ==
  /\ job[r].phase \in {"queued", "read"}
  /\ Step(r, "dead", FALSE, {})
  /\ UNCHANGED <<resumes, tab, call>>
  /\ Stamps({})

------------------------------------------------------------------------------
\* A compilation that does not succeed, a save that differs in nothing (there is no
\* UPDATE), a lost connection, a crash: nothing is written.
CallFails(t) ==
  /\ call[t] # Waiting
  /\ Answered(t)
  /\ UNCHANGED <<resumes, job, tab>>
  /\ Stamps({})

\* An editor is not asked to do more than one thing between two requests.
OneEdit == {{}} \cup {{e} : e \in Edits}

TabNext(t) ==
  \/ \E r \in ResumeIds : OpenResume(t, r) \/ StartPrimary(t, r)
  \/ \E typed \in OneEdit : \/ StartCompile(t, typed)
                           \/ \E checked \in BOOLEAN : StartSave(t, typed, checked)
  \/ StartCreate(t) \/ CommitCreate(t) \/ Upload(t)
  \/ CommitSave(t) \/ CommitCompile(t) \/ CommitPrimary(t) \/ CallFails(t)

JobNext(r) ==
  ReadForTranscript(r) \/ WriteTranscript(r) \/ TranscriptFails(r) \/ TranscriptDies(r)

ResumesNext ==
  \/ \E t \in Tabs : TabNext(t)
  \/ \E r \in ResumeIds : SoftDelete(r) \/ StoreScore(r) \/ JobNext(r)

\* The event loop goes on with a task it has started.
ResumesFairness == \A r \in ResumeIds : WF_resumeVars(JobNext(r))

ResumesSpec == ResumesInit /\ [][ResumesNext]_resumeVars
------------------------------------------------------------------------------
(* What holds however requests overlap *)

\* README.md:57, "Optimistic concurrency locking", as far as the code goes: an
\* edit that was committed disappears only when
\*   - a request or a transcription writes that had read the resume before that, or
\*   - a save whose client sent no last_known_updated_at, or whose version had been
\*     overtaken and was let pass, or
\*   - for edits to the LaTeX source, a compilation asked for by a tab that had not
\*     the latest version, or the transcription of the PDF itself.
LossesHaveCauses ==
  [][\A r \in ResumeIds : \A e \in Edits :
       e \in resumes[r].content /\ e \notin resumes'[r].content =>
         \/ \E t \in Tabs : LET c == call[t] IN
              /\ c.op \in {"save", "compile"} /\ c.resume = r /\ call'[t] = Waiting
              /\ \/ e \notin c.read
                 \/ c.op = "save" /\ (~c.checked \/ c.base = "overtaken")
                 \/ c.op = "compile" /\ e \in LatexEdits /\ c.base # "latest"
         \/ /\ job[r].phase = "read"
            /\ e \notin job[r].copy \/ (e \in LatexEdits /\ ~job[r].handler)]_resumeVars

\* The limit of resumes is passed by create_resume only by as many resumes as
\* were being created at once.
Created == {r \in ActiveResumes : job[r].phase = "none"}
Creating == {t \in Tabs : call[t].op = "create"}
OvershootIsBounded ==
  Cardinality(Created) + Cardinality(Creating) < MaxResumes + Cardinality(Tabs)

\* An upload leaves llm_processing only by the transcription or its handler:
\* unless the process dies, or the handler fails too, the flag goes.
Processing(r) == Transcript \notin resumes[r].content
TranscriptionEnds ==
  \A r \in ResumeIds :
    job[r].phase = "queued"
      ~> ~Processing(r) \/ resumes[r].state = "deleted" \/ job[r].phase = "dead"

------------------------------------------------------------------------------
(* What holds when requests do not overlap *)

Busy == {t \in Tabs : call[t] # Waiting}
OneAtATime ==
  /\ \A t, u \in Busy : t = u
  /\ \A q, r \in ResumeIds : job[q].phase = "read" => Busy = {}

\* There are never two primary resumes to choose from.
AtMostOnePrimary == \A q, r \in PrimaryResumes : q = r

------------------------------------------------------------------------------
(* What the documentation says *)

\* README.md:57, "Optimistic concurrency locking (409 Conflict) stops multi-tab
\* edit overwrites": what a tab that sends last_known_updated_at saves keeps
\* the edits saved before it.
NoEditOverwritten ==
  [][\A t \in Tabs :
       call[t].op = "save" /\ call[t].checked /\ call'[t] = Waiting =>
         \A e \in Edits : e \in resumes[call[t].resume].content
                            => e \in resumes'[call[t].resume].content]_resumeVars
==============================================================================
