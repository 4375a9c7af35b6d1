--------------------------- MODULE ResumesProofs ---------------------------
(***************************************************************************)
(* Proofs about Resumes, for any resumes, edits, tabs and limit, and any   *)
(* overlap of requests and transcriptions.                                 *)
(***************************************************************************)
EXTENDS ResumesMC, FiniteSetTheorems, TLAPS

\* The values that steps put into rows and jobs.
LEMMA Values ==
  /\ {} \in Contents
  /\ \A c, d \in Contents : c \cup d \in Contents
  /\ \A e \in Edits : {e} \in Contents
  /\ {Transcript} \in Contents
  /\ NoJob \in Job
  /\ Blank \in Document
  /\ \A r \in ResumeIds, c \in Contents : Document_(r, c) \in Document
BY DEF Contents, NoJob, Job, Blank, Document, Document_, Versions

\* A request in flight, as the type invariant knows it.
LEMMA InFlight ==
  ASSUME ResumesTypeOK, NEW t \in Tabs
  PROVE  /\ call[t].op = "create" => call[t] \in CreateCall
         /\ call[t].op = "save" => call[t] \in SaveCall
         /\ call[t].op = "primary" => call[t] \in PrimaryCall
         /\ call[t].op = "compile" => call[t] \in CompileCall
         /\ call[t] # Waiting => call[t].op \in {"create", "save", "primary", "compile"}
         /\ call[t].op \in {"create", "save", "primary", "compile"} => call[t] # Waiting
BY DEF ResumesTypeOK, Call, Waiting, CreateCall, SaveCall, PrimaryCall, CompileCall

LEMMA AnsweredCall ==
  ASSUME ResumesTypeOK, NEW t \in Tabs, Answered(t)
  PROVE  /\ call' \in [Tabs -> Call]
         /\ call'[t] = Waiting
         /\ \A u \in Tabs \ {t} : call'[u] = call[u]
BY DEF ResumesTypeOK, Answered, Call

LEMMA AskedCall ==
  ASSUME ResumesTypeOK, NEW t \in Tabs, NEW c \in Call, Ask(t, c)
  PROVE  /\ call' \in [Tabs -> Call]
         /\ call[t] = Waiting /\ call'[t] = c
         /\ \A u \in Tabs \ {t} : call'[u] = call[u]
BY DEF ResumesTypeOK, Ask

LEMMA OutdatedTabs ==
  ASSUME ResumesTypeOK, NEW rs, NEW kept
  PROVE  /\ Outdated(rs, kept) \in [Tabs -> Document]
         /\ \A t \in Tabs :
              /\ Outdated(rs, kept)[t].resume = tab[t].resume
              /\ Outdated(rs, kept)[t].content = tab[t].content
              /\ Outdated(rs, kept)[t].version = "latest" =>
                   tab[t].version = "latest" /\ tab[t].resume \notin rs
BY DEF ResumesTypeOK, Outdated, Document, Versions

\* What a tab typed last is the only thing that changes in it.
LEMMA TypedTab ==
  ASSUME ResumesTypeOK, NEW t \in Tabs, NEW typed \in SUBSET Edits, Typed(t, typed)
  PROVE  /\ tab' \in [Tabs -> Document]
         /\ tab[t].content \cup typed \in Contents
         /\ \A u \in Tabs :
              /\ tab'[u].resume = tab[u].resume /\ tab'[u].version = tab[u].version
              /\ tab[u].content \subseteq tab'[u].content
BY DEF ResumesTypeOK, Typed, Document, Contents

LEMMA Stamped ==
  ASSUME NEW rs, Stamps(rs)
  PROVE  overrun' \in [tabs: SUBSET Tabs, jobs: SUBSET ResumeIds]
BY DEF Stamps

LEMMA Written ==
  ASSUME ResumesTypeOK, NEW r \in ResumeIds, NEW c \in Contents, WriteContent(r, c)
  PROVE  /\ resumes' \in [ResumeIds -> ResumeRow]
         /\ \A q \in ResumeIds :
              /\ resumes'[q].state = resumes[q].state
              /\ resumes'[q].is_primary = resumes[q].is_primary
              /\ resumes'[q].content = IF q = r THEN c ELSE resumes[q].content
BY DEF ResumesTypeOK, WriteContent, ResumeRow

\* What makes the version test sound as far as it goes: a tab with the latest
\* version has all that is in the row, so a save that passed the test with it
\* contains what the save read, and a compilation asked for by such a tab is sent
\* all of the LaTeX that it read.
Fits(c) ==
  /\ c.op = "save" /\ c.checked =>
       c.base = "overtaken" \/ (c.base = "latest" /\ c.read \subseteq c.content)
  /\ c.op = "compile" /\ c.base = "latest" => c.read \cap LatexEdits \subseteq c.source

EditInv ==
  /\ ResumesTypeOK
  /\ \A r \in ResumeIds : resumes[r].state = "absent" =>
       resumes[r].content = {} /\ job[r].phase = "none"
  /\ \A t \in Tabs : tab[t].version = "latest" =>
       tab[t].resume \in ResumeIds /\ resumes[tab[t].resume].content \subseteq tab[t].content
  /\ \A t \in Tabs : tab[t].resume \in ResumeIds => resumes[tab[t].resume].state # "absent"
  /\ \A t \in Tabs : call[t].op \in {"save", "compile", "primary"} =>
       resumes[call[t].resume].state # "absent"
  /\ \A t \in Tabs : Fits(call[t])

LEMMA EditInvInit == ResumesInit => EditInv
<1> SUFFICES ASSUME ResumesInit PROVE EditInv
  OBVIOUS
<1>1. ResumesTypeOK
  BY Values DEF ResumesInit, ResumesTypeOK, ResumeRow, Call
<1>2. QED
  BY <1>1, ResumesAssumption
  DEF ResumesInit, EditInv, Fits, Blank, NoJob, Waiting

\* The invariant after a step, from what the step did to rows, tabs and calls.
TabsFit ==
  \A t \in Tabs :
    /\ tab[t].version = "latest" =>
         tab[t].resume \in ResumeIds /\ resumes[tab[t].resume].content \subseteq tab[t].content
    /\ tab[t].resume \in ResumeIds => resumes[tab[t].resume].state # "absent"

LEMMA Preserved ==
  ASSUME EditInv, ResumesTypeOK', TabsFit',
         \A r \in ResumeIds :
           /\ resumes[r].state # "absent" => resumes'[r].state # "absent"
           /\ resumes'[r].state = "absent" =>
                resumes'[r].content = resumes[r].content /\ job'[r].phase = job[r].phase,
         \A t \in Tabs :
           \/ call'[t] = call[t]
           \/ call'[t].op \notin {"save", "compile", "primary"}
           \/ /\ call'[t].resume \in ResumeIds /\ resumes[call'[t].resume].state # "absent"
              /\ Fits(call'[t])
  PROVE  EditInv'
<1>1. ASSUME NEW t \in Tabs, call[t].op \in {"save", "compile", "primary"}
      PROVE  call[t].resume \in ResumeIds
  BY <1>1, InFlight DEF EditInv, SaveCall, CompileCall, PrimaryCall
<1>2. ASSUME NEW r \in ResumeIds, resumes'[r].state = "absent"
      PROVE  resumes'[r].content = {} /\ job'[r].phase = "none"
  BY <1>2 DEF EditInv
<1>3. ASSUME NEW t \in Tabs
      PROVE  /\ call'[t].op \in {"save", "compile", "primary"} =>
                  resumes'[call'[t].resume].state # "absent"
             /\ Fits(call'[t])
  BY <1>1, <1>3 DEF EditInv, Fits
<1>4. QED
  BY <1>2, <1>3 DEF EditInv, TabsFit

\* What LossesHaveCauses says of a step: the request c, or the transcription of r,
\* is a cause for the loss of e.
CallLoses(c, e) ==
  \/ e \notin c.read
  \/ c.op = "save" /\ (~c.checked \/ c.base = "overtaken")
  \/ c.op = "compile" /\ e \in LatexEdits /\ c.base # "latest"
JobLoses(r, e) ==
  job[r].phase = "read" /\ (e \notin job[r].copy \/ (e \in LatexEdits /\ ~job[r].handler))
LossesExplained ==
  \A r \in ResumeIds : \A e \in Edits :
    e \in resumes[r].content /\ e \notin resumes'[r].content =>
      \/ \E t \in Tabs : /\ call[t].op \in {"save", "compile"} /\ call[t].resume = r
                         /\ call'[t] = Waiting
                         /\ CallLoses(call[t], e)
      \/ JobLoses(r, e)

\* What a save or a compilation stores.
Stored(c) == IF c.op = "save" THEN c.content ELSE (c.read \ LatexEdits) \cup c.source

LEMMA StoredContent ==
  ASSUME ResumesTypeOK, NEW t \in Tabs, call[t].op \in {"save", "compile"}
  PROVE  call[t].resume \in ResumeIds /\ Stored(call[t]) \in Contents
<1>1. CASE call[t].op = "save"
  BY <1>1, InFlight DEF Stored, SaveCall
<1>2. CASE call[t].op = "compile"
  <2>1. /\ call[t].resume \in ResumeIds /\ call[t].read \in Contents
        /\ call[t].source \in SUBSET LatexEdits
    BY <1>2, InFlight DEF CompileCall
  <2>2. QED
    BY <1>2, <2>1, ResumesAssumption DEF Stored, Contents
<1>3. QED
  BY <1>1, <1>2

LEMMA OneEditIsEdits == OneEdit \subseteq SUBSET Edits
BY DEF OneEdit

\* The steps of a tab.
LEMMA TabStep ==
  ASSUME EditInv, NEW t \in Tabs, TabNext(t)
  PROVE  EditInv' /\ LossesExplained
<1>0. ResumesTypeOK /\ TabsFit
  BY DEF EditInv, TabsFit
<1>1. ASSUME NEW r \in ResumeIds, OpenResume(t, r) PROVE EditInv' /\ LossesExplained
  <2>1. resumes[r].content \in Contents /\ resumes[r].state = "active"
    BY <1>0, <1>1 DEF OpenResume, ActiveResumes, ResumesTypeOK, ResumeRow
  <2>2. /\ tab' \in [Tabs -> Document]
        /\ \A u \in Tabs : tab'[u] = IF u = t THEN Document_(r, resumes[r].content) ELSE tab[u]
        /\ UNCHANGED <<resumes, job, call, overrun>>
    BY <1>0, <1>1, <2>1, Values DEF OpenResume, ResumesTypeOK
  <2>3. ResumesTypeOK' /\ TabsFit'
    BY <1>0, <2>1, <2>2 DEF ResumesTypeOK, TabsFit, Document_
  <2>4. QED
    BY <2>2, <2>3, Preserved DEF LossesExplained
<1>2. ASSUME NEW c \in Call, Ask(t, c), UNCHANGED <<resumes, job, overrun>>,
             \/ tab' = tab
             \/ \E typed \in SUBSET Edits : Typed(t, typed),
             c.op \in {"save", "compile", "primary"} => c.resume \in ActiveResumes /\ Fits(c)
      PROVE  EditInv' /\ LossesExplained
  <2>1. /\ call' \in [Tabs -> Call]
        /\ call'[t] = c
        /\ \A u \in Tabs \ {t} : call'[u] = call[u]
    BY <1>0, <1>2, AskedCall
  <2>2. /\ tab' \in [Tabs -> Document]
        /\ \A u \in Tabs :
             /\ tab'[u].resume = tab[u].resume /\ tab'[u].version = tab[u].version
             /\ tab[u].content \subseteq tab'[u].content
    BY <1>0, <1>2, TypedTab DEF ResumesTypeOK
  <2>3. ResumesTypeOK'
    BY <1>0, <1>2, <2>1, <2>2 DEF ResumesTypeOK
  <2>4. TabsFit'
    BY <1>0, <1>2, <2>2 DEF TabsFit
  <2>5. \A u \in Tabs :
          \/ call'[u] = call[u]
          \/ call'[u].op \notin {"save", "compile", "primary"}
          \/ /\ call'[u].resume \in ResumeIds /\ resumes[call'[u].resume].state # "absent"
             /\ Fits(call'[u])
    BY <1>2, <2>1 DEF ActiveResumes
  <2>6. QED
    BY <1>2, <2>3, <2>4, <2>5, Preserved DEF LossesExplained
<1>3. ASSUME NEW typed \in SUBSET Edits, StartCompile(t, typed)
      PROVE  EditInv' /\ LossesExplained
  <2> DEFINE r == tab[t].resume
             source == (tab[t].content \cup typed) \cap LatexEdits
             c == [op |-> "compile", resume |-> r, read |-> resumes[r].content,
                   source |-> source, base |-> tab[t].version]
  <2>1. r \in ActiveResumes /\ r \in ResumeIds
    BY <1>3 DEF StartCompile, ActiveResumes
  <2>2. resumes[r].content \in Contents /\ tab[t].version \in Versions
    BY <1>0, <2>1 DEF ResumesTypeOK, ResumeRow, Document
  <2>3. c \in Call
    BY <2>1, <2>2 DEF Call, CompileCall
  <2>4. tab[t].version = "latest" => resumes[r].content \cap LatexEdits \subseteq source
    BY <1>0 DEF TabsFit
  <2>5. c.op = "compile" /\ c.resume = r /\ Fits(c)
    BY <2>4 DEF Fits
  <2>6. Ask(t, c) /\ UNCHANGED <<resumes, job, overrun>> /\ Typed(t, typed)
    BY <1>3 DEF StartCompile
  <2> HIDE DEF c
  <2>7. QED
    BY <1>2, <2>1, <2>3, <2>5, <2>6
<1>4. ASSUME NEW r \in ResumeIds, StartPrimary(t, r) PROVE EditInv' /\ LossesExplained
  <2> DEFINE c == [op |-> "primary", resume |-> r, was |-> resumes[r].is_primary]
  <2>1. c \in Call /\ c.op = "primary" /\ c.resume = r /\ Fits(c)
    BY <1>0 DEF Call, PrimaryCall, ResumesTypeOK, ResumeRow, Fits
  <2>2. Ask(t, c) /\ UNCHANGED <<resumes, job, tab, overrun>> /\ r \in ActiveResumes
    BY <1>4 DEF StartPrimary
  <2>3. QED
    BY <1>2, <2>1, <2>2
<1>5. ASSUME NEW typed \in SUBSET Edits, NEW checked \in BOOLEAN, StartSave(t, typed, checked)
      PROVE  EditInv' /\ LossesExplained
  <2> DEFINE r == tab[t].resume
             content == tab[t].content \cup typed
             c == [op |-> "save", resume |-> r, read |-> resumes[r].content,
                   content |-> content, checked |-> checked, base |-> tab[t].version]
  <2>1. r \in ActiveResumes /\ r \in ResumeIds /\ (checked => tab[t].version # "old")
    BY <1>5 DEF StartSave, ActiveResumes
  <2>2. Ask(t, c) /\ UNCHANGED <<resumes, job, overrun>> /\ Typed(t, typed)
    BY <1>5 DEF StartSave
  <2>3. /\ resumes[r].content \in Contents /\ tab[t].version \in Versions
        /\ content \in Contents
    BY <1>0, <2>1, <2>2, TypedTab DEF ResumesTypeOK, ResumeRow, Document
  <2>4. c \in Call
    BY <2>1, <2>3 DEF Call, SaveCall
  <2>5. tab[t].version = "latest" => resumes[r].content \subseteq content
    BY <1>0 DEF TabsFit
  <2>6. tab[t].version \in {"latest", "overtaken", "old"}
    BY <2>3 DEF Versions
  <2>7. c.op = "save" /\ c.resume = r /\ Fits(c)
    BY <2>1, <2>5, <2>6 DEF Fits
  <2> HIDE DEF c
  <2>8. QED
    BY <1>2, <2>1, <2>2, <2>4, <2>7
<1>6. CASE StartCreate(t)
  <2>1. PICK first \in BOOLEAN :
          /\ Ask(t, [op |-> "create", first |-> first])
          /\ UNCHANGED <<resumes, job, tab, overrun>>
    BY <1>6 DEF StartCreate
  <2> DEFINE c == [op |-> "create", first |-> first]
  <2>2. c \in Call /\ c.op = "create"
    BY DEF Call, CreateCall
  <2>3. QED
    BY <1>2, <2>1, <2>2
<1>7. CASE CommitCreate(t) \/ Upload(t)
  <2>1. PICK r \in ResumeIds \ Existing, first \in BOOLEAN :
          /\ resumes' = [resumes EXCEPT
               ![r] = [state |-> "active", is_primary |-> first, content |-> {}]]
          /\ tab' = [tab EXCEPT ![t] = Document_(r, {})]
          /\ job' \in {job, [job EXCEPT ![r].phase = "queued"]}
    <3>1. CASE CommitCreate(t)
      <4>1. call[t].first \in BOOLEAN
        BY <1>0, <3>1, InFlight DEF CommitCreate, CreateCall
      <4>2. QED
        BY <3>1, <4>1 DEF CommitCreate
    <3>2. CASE Upload(t)
      BY <3>2, ResumesAssumption DEF Upload
    <3>3. QED
      BY <1>7, <3>1, <3>2
  <2>2. /\ resumes' \in [ResumeIds -> ResumeRow]
        /\ \A q \in ResumeIds : q # r => resumes'[q] = resumes[q]
        /\ resumes'[r].state = "active" /\ resumes'[r].content = {}
    BY <1>0, <2>1, Values DEF ResumesTypeOK, ResumeRow
  <2>3. /\ tab' \in [Tabs -> Document]
        /\ \A u \in Tabs : tab'[u] = IF u = t THEN Document_(r, {}) ELSE tab[u]
    BY <1>0, <2>1, Values DEF ResumesTypeOK
  <2>4. /\ job' \in [ResumeIds -> Job]
        /\ \A q \in ResumeIds : q # r => job'[q] = job[q]
    BY <1>0, <2>1 DEF ResumesTypeOK, Job
  <2>5. /\ call' \in [Tabs -> Call] /\ overrun' = overrun
        /\ \A u \in Tabs : call'[u] \in {call[u], Waiting}
    BY <1>0, <1>7, AnsweredCall DEF CommitCreate, Upload, ResumesTypeOK
  <2>6. ResumesTypeOK'
    BY <1>0, <2>2, <2>3, <2>4, <2>5 DEF ResumesTypeOK
  <2>7. resumes[r].state = "absent" /\ resumes[r].content = {}
    BY <2>1 DEF Existing, EditInv
  <2>8. TabsFit'
    <3> SUFFICES ASSUME NEW u \in Tabs
                 PROVE  /\ tab'[u].version = "latest" =>
                             /\ tab'[u].resume \in ResumeIds
                             /\ resumes'[tab'[u].resume].content \subseteq tab'[u].content
                        /\ tab'[u].resume \in ResumeIds =>
                             resumes'[tab'[u].resume].state # "absent"
      BY DEF TabsFit
    <3>1. CASE u = t
      <4>1. tab'[u].resume = r /\ tab'[u].content = {}
        BY <2>3, <3>1 DEF Document_
      <4>2. QED
        BY <2>2, <4>1
    <3>2. CASE u # t
      <4>1. tab'[u] = tab[u] /\ tab[u].resume # r
        BY <1>0, <2>3, <2>7, <3>2 DEF TabsFit
      <4>2. QED
        BY <1>0, <2>2, <4>1 DEF TabsFit
    <3>3. QED
      BY <3>1, <3>2
  <2>9. LossesExplained
    BY <2>2, <2>7 DEF LossesExplained
  <2>10. \A q \in ResumeIds :
           /\ resumes[q].state # "absent" => resumes'[q].state # "absent"
           /\ resumes'[q].state = "absent" =>
                resumes'[q].content = resumes[q].content /\ job'[q].phase = job[q].phase
    BY <2>2, <2>4
  <2>11. QED
    BY <2>5, <2>6, <2>8, <2>9, <2>10, Preserved DEF Waiting
<1>8. CASE CommitSave(t) \/ CommitCompile(t)
  <2> DEFINE r == call[t].resume
             c == Stored(call[t])
  <2>1. call[t].op \in {"save", "compile"} /\ r \in ResumeIds /\ c \in Contents
    BY <1>0, <1>8, StoredContent DEF CommitSave, CommitCompile
  <2>2. WriteContent(r, c) /\ Answered(t) /\ job' = job
    BY <1>8 DEF CommitSave, CommitCompile, Stored
  <2>3. /\ resumes' \in [ResumeIds -> ResumeRow]
        /\ \A q \in ResumeIds :
             /\ resumes'[q].state = resumes[q].state
             /\ resumes'[q].content = IF q = r THEN c ELSE resumes[q].content
    BY <1>0, <2>1, <2>2, Written
  <2>4. /\ call' \in [Tabs -> Call] /\ call'[t] = Waiting
        /\ \A u \in Tabs \ {t} : call'[u] = call[u]
    BY <1>0, <2>2, AnsweredCall
  <2>5. PICK kept \in SUBSET Tabs :
          \/ tab' = Outdated({r}, kept)
          \/ tab' = [Outdated({r}, kept) EXCEPT ![t] = Document_(r, c)]
    BY <1>8 DEF CommitSave, CommitCompile, Kept, Stored
  <2>6. /\ Outdated({r}, kept) \in [Tabs -> Document]
        /\ \A u \in Tabs :
             /\ Outdated({r}, kept)[u].resume = tab[u].resume
             /\ Outdated({r}, kept)[u].content = tab[u].content
             /\ Outdated({r}, kept)[u].version = "latest" =>
                  tab[u].version = "latest" /\ tab[u].resume # r
    BY <1>0, OutdatedTabs
  <2>7. /\ tab' \in [Tabs -> Document]
        /\ \A u \in Tabs : tab'[u] = Outdated({r}, kept)[u] \/ tab'[u] = Document_(r, c)
    BY <2>1, <2>5, <2>6, Values
  <2>8. overrun' \in [tabs: SUBSET Tabs, jobs: SUBSET ResumeIds]
    BY <1>8, Stamped DEF CommitSave, CommitCompile
  <2>9. ResumesTypeOK'
    BY <1>0, <2>2, <2>3, <2>4, <2>7, <2>8 DEF ResumesTypeOK
  <2>10. resumes[r].state # "absent"
    BY <2>1 DEF EditInv
  <2>11. TabsFit'
    <3> SUFFICES ASSUME NEW u \in Tabs
                 PROVE  /\ tab'[u].version = "latest" =>
                             /\ tab'[u].resume \in ResumeIds
                             /\ resumes'[tab'[u].resume].content \subseteq tab'[u].content
                        /\ tab'[u].resume \in ResumeIds =>
                             resumes'[tab'[u].resume].state # "absent"
      BY DEF TabsFit
    <3>1. CASE tab'[u] = Document_(r, c)
      <4>1. tab'[u].resume = r /\ tab'[u].content = c
        BY <3>1 DEF Document_
      <4>2. QED
        BY <2>1, <2>3, <2>10, <4>1
    <3>2. CASE tab'[u] = Outdated({r}, kept)[u]
      <4>1. /\ tab'[u].resume = tab[u].resume /\ tab'[u].content = tab[u].content
            /\ tab'[u].version = "latest" => tab[u].version = "latest" /\ tab[u].resume # r
        BY <2>6, <3>2
      <4>2. QED
        BY <1>0, <2>3, <4>1 DEF TabsFit
    <3>3. QED
      BY <2>7, <3>1, <3>2
  <2>12. LossesExplained
    <3>1. ASSUME NEW e \in Edits, e \notin c PROVE CallLoses(call[t], e)
      <4>1. Fits(call[t])
        BY DEF EditInv
      <4>2. CASE call[t].op = "save"
        BY <3>1, <4>1, <4>2 DEF Fits, CallLoses, Stored
      <4>3. CASE call[t].op = "compile"
        BY <3>1, <4>1, <4>3 DEF Fits, CallLoses, Stored
      <4>4. QED
        BY <2>1, <4>2, <4>3
    <3>2. QED
      BY <2>1, <2>3, <2>4, <3>1 DEF LossesExplained
  <2>13. QED
    <3>1. \A q \in ResumeIds :
            /\ resumes[q].state # "absent" => resumes'[q].state # "absent"
            /\ resumes'[q].state = "absent" =>
                 resumes'[q].content = resumes[q].content /\ job'[q].phase = job[q].phase
      BY <2>2, <2>3, <2>10
    <3>2. \A u \in Tabs : call'[u] = call[u] \/ call'[u].op \notin {"save", "compile", "primary"}
      BY <2>4 DEF Waiting
    <3>3. QED
      BY <2>9, <2>11, <2>12, <3>1, <3>2, Preserved
<1>9. CASE CommitPrimary(t)
  <2> DEFINE r == call[t].resume
             rs == IF call[t].was THEN Existing \ {r} ELSE Existing
  <2>1. r \in ResumeIds /\ call[t].was \in BOOLEAN
    BY <1>0, <1>9, InFlight DEF CommitPrimary, PrimaryCall
  <2>2. /\ resumes' = [q \in ResumeIds |->
             [resumes[q] EXCEPT !.is_primary = IF q = r THEN call[t].was => @ ELSE FALSE]]
        /\ \E kept : tab' = Outdated(rs, kept)
        /\ Answered(t) /\ job' = job /\ Stamps(rs)
    BY <1>9 DEF CommitPrimary
  <2>3. /\ resumes' \in [ResumeIds -> ResumeRow]
        /\ \A q \in ResumeIds : /\ resumes'[q].state = resumes[q].state
                                /\ resumes'[q].content = resumes[q].content
    BY <1>0, <2>1, <2>2 DEF ResumesTypeOK, ResumeRow
  <2>4. /\ tab' \in [Tabs -> Document]
        /\ \A u \in Tabs : /\ tab'[u].resume = tab[u].resume /\ tab'[u].content = tab[u].content
                           /\ tab'[u].version = "latest" => tab[u].version = "latest"
    BY <1>0, <2>2, OutdatedTabs
  <2>5. /\ call' \in [Tabs -> Call] /\ call'[t] = Waiting
        /\ \A u \in Tabs \ {t} : call'[u] = call[u]
    BY <1>0, <2>2, AnsweredCall
  <2>6. ResumesTypeOK' /\ TabsFit'
    <3>1. job' = job /\ overrun' \in [tabs: SUBSET Tabs, jobs: SUBSET ResumeIds]
      BY <2>2, Stamped
    <3>2. ResumesTypeOK'
      BY <1>0, <2>3, <2>4, <2>5, <3>1 DEF ResumesTypeOK
    <3>3. TabsFit'
      BY <1>0, <2>3, <2>4 DEF TabsFit
    <3>4. QED
      BY <3>2, <3>3
  <2>7. job' = job
    BY <2>2
  <2>8. \A u \in Tabs : call'[u] = call[u] \/ call'[u].op \notin {"save", "compile", "primary"}
    BY <2>5 DEF Waiting
  <2>9. QED
    BY <2>3, <2>6, <2>7, <2>8, Preserved DEF LossesExplained
<1>10. CASE CallFails(t)
  <2>1. /\ call' \in [Tabs -> Call] /\ call'[t] = Waiting
        /\ \A u \in Tabs \ {t} : call'[u] = call[u]
        /\ UNCHANGED <<resumes, job, tab>>
        /\ overrun' \in [tabs: SUBSET Tabs, jobs: SUBSET ResumeIds]
    BY <1>0, <1>10, AnsweredCall, Stamped DEF CallFails
  <2>2. ResumesTypeOK' /\ TabsFit'
    BY <1>0, <2>1 DEF ResumesTypeOK, TabsFit
  <2>3. QED
    BY <2>1, <2>2, Preserved DEF LossesExplained, Waiting
<1>11. QED
  BY <1>1, <1>3, <1>4, <1>5, <1>6, <1>7, <1>8, <1>9, <1>10, OneEditIsEdits DEF TabNext

\* What the transcription of r stores.
Transcribed(r) ==
  {Transcript} \cup (IF job[r].handler THEN job[r].copy ELSE job[r].copy \ LatexEdits)

\* The steps that belong to a row: deletion, scoring, and its transcription.
LEMMA RowStep ==
  ASSUME EditInv, NEW r \in ResumeIds, SoftDelete(r) \/ StoreScore(r) \/ JobNext(r)
  PROVE  EditInv' /\ LossesExplained
<1>0. ResumesTypeOK /\ TabsFit
  BY DEF EditInv, TabsFit
<1>1. call' = call
  BY DEF SoftDelete, StoreScore, JobNext, ReadForTranscript, WriteTranscript,
         TranscriptFails, TranscriptDies
<1>2. overrun' \in [tabs: SUBSET Tabs, jobs: SUBSET ResumeIds]
  <2>1. overrun' = overrun \/ \E rs : Stamps(rs)
    BY DEF SoftDelete, StoreScore, JobNext, ReadForTranscript, WriteTranscript,
           TranscriptFails, TranscriptDies
  <2>2. QED
    BY <1>0, <2>1, Stamped DEF ResumesTypeOK
<1>3. ASSUME NEW kept, tab' = Outdated({r}, kept)
      PROVE  /\ tab' \in [Tabs -> Document]
             /\ \A t \in Tabs :
                  /\ tab'[t].resume = tab[t].resume /\ tab'[t].content = tab[t].content
                  /\ tab'[t].version = "latest" => tab[t].version = "latest" /\ tab[t].resume # r
  BY <1>0, <1>3, OutdatedTabs
<1>4. CASE SoftDelete(r)
  <2>1. tab' = Outdated({r}, {}) /\ job' = job /\ resumes[r].state = "active"
    BY <1>4 DEF SoftDelete, ActiveResumes
  <2>2. /\ resumes' \in [ResumeIds -> ResumeRow]
        /\ \A q \in ResumeIds :
             /\ resumes'[q].content = resumes[q].content
             /\ resumes'[q].state = IF q = r THEN "deleted" ELSE resumes[q].state
    BY <1>0, <1>4 DEF SoftDelete, ResumesTypeOK, ResumeRow
  <2>3. /\ tab' \in [Tabs -> Document]
        /\ \A t \in Tabs :
             /\ tab'[t].resume = tab[t].resume /\ tab'[t].content = tab[t].content
             /\ tab'[t].version = "latest" => tab[t].version = "latest" /\ tab[t].resume # r
    BY <1>3, <2>1
  <2>4. ResumesTypeOK'
    BY <1>0, <1>1, <1>2, <2>1, <2>2, <2>3 DEF ResumesTypeOK
  <2>5. TabsFit'
    BY <1>0, <2>2, <2>3 DEF TabsFit
  <2>6. QED
    BY <1>1, <2>1, <2>2, <2>4, <2>5, Preserved DEF LossesExplained
<1>5. CASE StoreScore(r)
  <2>1. tab' = Outdated({r}, {}) /\ job' = job
    BY <1>5 DEF StoreScore
  <2>2. resumes' = resumes
    BY <1>5 DEF StoreScore
  <2>3. /\ tab' \in [Tabs -> Document]
        /\ \A t \in Tabs :
             /\ tab'[t].resume = tab[t].resume /\ tab'[t].content = tab[t].content
             /\ tab'[t].version = "latest" => tab[t].version = "latest" /\ tab[t].resume # r
    BY <1>3, <2>1
  <2>4. ResumesTypeOK'
    BY <1>0, <1>1, <1>2, <2>1, <2>2, <2>3 DEF ResumesTypeOK
  <2>5. TabsFit'
    BY <1>0, <2>2, <2>3 DEF TabsFit
  <2>6. QED
    BY <1>1, <2>1, <2>2, <2>4, <2>5, Preserved DEF LossesExplained
<1>6. CASE JobNext(r)
  <2>1. /\ job[r].phase \in {"queued", "read"}
        /\ resumes[r].state # "absent"
    BY <1>6 DEF JobNext, ReadForTranscript, WriteTranscript, TranscriptFails,
                TranscriptDies, EditInv
  <2>2. resumes[r].content \in Contents /\ job[r] \in Job
    BY <1>0 DEF ResumesTypeOK, ResumeRow
  <2>3. PICK phase \in {"queued", "read", "done", "dead"}, handler \in BOOLEAN,
             copy \in Contents : Step(r, phase, handler, copy)
    BY <1>6, <2>2, Values DEF JobNext, ReadForTranscript, WriteTranscript, TranscriptFails,
                              TranscriptDies, Job
  <2>4. /\ job' \in [ResumeIds -> Job]
        /\ \A q \in ResumeIds \ {r} : job'[q] = job[q]
    BY <1>0, <2>3 DEF Step, ResumesTypeOK, Job
  <2>5. CASE resumes' = resumes /\ tab' = tab
    <3>1. ResumesTypeOK' /\ TabsFit'
      BY <1>0, <1>1, <1>2, <2>4, <2>5 DEF ResumesTypeOK, TabsFit
    <3>2. QED
      BY <1>1, <2>1, <2>4, <2>5, <3>1, Preserved DEF LossesExplained
  <2>6. CASE WriteTranscript(r)
    <3> DEFINE c == Transcribed(r)
    <3>1. /\ job[r].phase = "read" /\ WriteContent(r, c)
          /\ \E kept : tab' = Outdated({r}, kept)
          /\ c \in Contents
      BY <2>2, <2>6, Values DEF WriteTranscript, Transcribed, Job, Contents
    <3>2. /\ resumes' \in [ResumeIds -> ResumeRow]
          /\ \A q \in ResumeIds :
               /\ resumes'[q].state = resumes[q].state
               /\ resumes'[q].content = IF q = r THEN c ELSE resumes[q].content
      BY <1>0, <3>1, Written
    <3>3. ResumesTypeOK' /\ TabsFit'
      <4>1. /\ tab' \in [Tabs -> Document]
            /\ \A t \in Tabs :
                 /\ tab'[t].resume = tab[t].resume /\ tab'[t].content = tab[t].content
                 /\ tab'[t].version = "latest" => tab[t].version = "latest" /\ tab[t].resume # r
        BY <1>3, <3>1
      <4>2. ResumesTypeOK'
        BY <1>0, <1>1, <1>2, <2>4, <3>2, <4>1 DEF ResumesTypeOK
      <4>3. TabsFit'
        BY <1>0, <3>2, <4>1 DEF TabsFit
      <4>4. QED
        BY <4>2, <4>3
    <3>4. LossesExplained
      BY <3>1, <3>2 DEF LossesExplained, JobLoses, Transcribed
    <3>5. \A q \in ResumeIds :
            /\ resumes[q].state # "absent" => resumes'[q].state # "absent"
            /\ resumes'[q].state = "absent" =>
                 resumes'[q].content = resumes[q].content /\ job'[q].phase = job[q].phase
      BY <2>1, <2>4, <3>2
    <3>6. QED
      BY <1>1, <3>3, <3>4, <3>5, Preserved
  <2>7. QED
    BY <1>6, <2>5, <2>6 DEF JobNext, ReadForTranscript, TranscriptFails, TranscriptDies
<1>7. QED
  BY <1>4, <1>5, <1>6

LEMMA EditInvStep ==
  ASSUME EditInv, [ResumesNext]_resumeVars
  PROVE  EditInv' /\ [LossesExplained]_resumeVars
<1>1. CASE UNCHANGED resumeVars
  BY <1>1 DEF resumeVars, EditInv, ResumesTypeOK
<1>2. CASE ResumesNext
  BY <1>2, TabStep, RowStep DEF ResumesNext
<1>3. QED
  BY <1>1, <1>2

LEMMA EditInvariance == ResumesSpec => []EditInv
<1>1. EditInv /\ [ResumesNext]_resumeVars => EditInv'
  BY EditInvStep
<1>2. QED
  BY <1>1, EditInvInit, PTL DEF ResumesSpec

\* Whatever overlaps, resumes, jobs, tabs and requests keep their type.
THEOREM ResumesTypeCorrect == ResumesSpec => []ResumesTypeOK
<1>1. EditInv => ResumesTypeOK
  BY DEF EditInv
<1>2. QED
  BY <1>1, EditInvariance, PTL

\* A saved edit disappears only by a writer that had read the resume before, by a
\* save that was not compared with the version it was made from, and, from the
\* LaTeX source, by a compilation for a tab without the latest version or by the
\* transcription of the PDF.
THEOREM LossesAreExplained == ResumesSpec => LossesHaveCauses
<1>1. EditInv /\ [ResumesNext]_resumeVars => [LossesExplained]_resumeVars
  BY EditInvStep
<1>2. [LossesExplained]_resumeVars =>
        [\A r \in ResumeIds : \A e \in Edits :
           e \in resumes[r].content /\ e \notin resumes'[r].content =>
             \/ \E t \in Tabs : LET c == call[t] IN
                  /\ c.op \in {"save", "compile"} /\ c.resume = r /\ call'[t] = Waiting
                  /\ \/ e \notin c.read
                     \/ c.op = "save" /\ (~c.checked \/ c.base = "overtaken")
                     \/ c.op = "compile" /\ e \in LatexEdits /\ c.base # "latest"
             \/ /\ job[r].phase = "read"
                /\ e \notin job[r].copy \/ (e \in LatexEdits /\ ~job[r].handler)]_resumeVars
  BY DEF LossesExplained, CallLoses, JobLoses
<1>3. QED
  BY <1>1, <1>2, EditInvariance, PTL DEF ResumesSpec, LossesHaveCauses

------------------------------------------------------------------------------
(* The limit *)

\* What a step does to the resumes counted and to the requests about to add one.
LEMMA CountsChange ==
  ASSUME EditInv, [ResumesNext]_resumeVars
  PROVE  \/ Created' \subseteq Created /\ Creating' \subseteq Creating
         \/ Created' = Created /\ Cardinality(ActiveResumes) < MaxResumes
         \/ \E r \in ResumeIds, t \in Creating :
              Created' \subseteq Created \cup {r} /\ Creating' \subseteq Creating \ {t}
<1>0. ResumesTypeOK
  BY DEF EditInv
<1>1. CASE UNCHANGED resumeVars
  BY <1>1 DEF resumeVars, Created, Creating, ActiveResumes
<1>2. ASSUME NEW t \in Tabs, UNCHANGED <<resumes, job>>, NEW c \in Call, Ask(t, c),
             c.op # "create"
      PROVE  Created' \subseteq Created /\ Creating' \subseteq Creating
  <2>1. call'[t] = c /\ \A u \in Tabs \ {t} : call'[u] = call[u]
    BY <1>0, <1>2, AskedCall
  <2>2. QED
    BY <1>2, <2>1 DEF Created, Creating, ActiveResumes
<1>3. ASSUME NEW t \in Tabs, Answered(t)
      PROVE  Creating' \subseteq Creating \ {t}
  <2>1. call'[t] = Waiting /\ \A u \in Tabs \ {t} : call'[u] = call[u]
    BY <1>0, <1>3, AnsweredCall
  <2>2. QED
    BY <2>1 DEF Creating, Waiting
<1>4. ASSUME job' = job, resumes' \in [ResumeIds -> ResumeRow],
             \A q \in ResumeIds : resumes'[q].state = "active" => resumes[q].state = "active"
      PROVE  Created' \subseteq Created
  BY <1>4 DEF Created, ActiveResumes
<1>5. ASSUME NEW t \in Tabs, TabNext(t)
      PROVE  \/ Created' \subseteq Created /\ Creating' \subseteq Creating
             \/ Created' = Created /\ Cardinality(ActiveResumes) < MaxResumes
             \/ \E r \in ResumeIds, u \in Creating :
                  Created' \subseteq Created \cup {r} /\ Creating' \subseteq Creating \ {u}
  <2>1. CASE \/ \E r \in ResumeIds : OpenResume(t, r) \/ StartPrimary(t, r)
             \/ \E typed \in OneEdit :
                  StartCompile(t, typed) \/ \E checked \in BOOLEAN : StartSave(t, typed, checked)
    <3>1. CASE \E r \in ResumeIds : OpenResume(t, r)
      BY <3>1 DEF OpenResume, Created, Creating, ActiveResumes
    <3>2. CASE \/ \E r \in ResumeIds : StartPrimary(t, r)
               \/ \E typed \in OneEdit :
                    StartCompile(t, typed) \/ \E checked \in BOOLEAN : StartSave(t, typed, checked)
      <4>1. /\ resumes' = resumes /\ job' = job
            /\ \A u \in Tabs : call'[u] = call[u] \/ call'[u].op # "create"
        <5>1. CASE \E typed \in OneEdit : StartCompile(t, typed)
          BY <1>0, <5>1 DEF StartCompile, Ask, ResumesTypeOK
        <5>2. CASE \E r \in ResumeIds : StartPrimary(t, r)
          BY <1>0, <5>2 DEF StartPrimary, Ask, ResumesTypeOK
        <5>3. CASE \E typed \in OneEdit, checked \in BOOLEAN : StartSave(t, typed, checked)
          BY <1>0, <5>3 DEF StartSave, Ask, ResumesTypeOK
        <5>4. QED
          BY <3>2, <5>1, <5>2, <5>3
      <4>2. QED
        BY <4>1 DEF Created, Creating, ActiveResumes
    <3>3. QED
      BY <2>1, <3>1, <3>2
  <2>2. CASE StartCreate(t)
    BY <2>2 DEF StartCreate, Created, ActiveResumes
  <2>3. CASE CommitCreate(t)
    <3>1. PICK r \in ResumeIds :
            resumes' = [resumes EXCEPT
              ![r] = [state |-> "active", is_primary |-> call[t].first, content |-> {}]]
      BY <2>3 DEF CommitCreate
    <3>2. Created' \subseteq Created \cup {r}
      BY <1>0, <2>3, <3>1 DEF CommitCreate, Created, ActiveResumes, ResumesTypeOK
    <3>3. t \in Creating /\ Creating' \subseteq Creating \ {t}
      BY <1>3, <2>3 DEF CommitCreate, Creating
    <3>4. QED
      BY <3>2, <3>3
  <2>4. CASE Upload(t)
    <3>1. PICK r \in ResumeIds \ Existing :
            /\ resumes' = [resumes EXCEPT
                 ![r] = [state |-> "active", is_primary |-> FALSE, content |-> {}]]
            /\ job' = [job EXCEPT ![r].phase = "queued"]
      BY <2>4, ResumesAssumption DEF Upload
    <3>2. \A q \in ResumeIds \ {r} : resumes'[q] = resumes[q] /\ job'[q] = job[q]
      BY <1>0, <3>1 DEF ResumesTypeOK
    <3>3. job'[r].phase # "none"
      BY <1>0, <3>1 DEF ResumesTypeOK, Job
    <3>4. Created' \subseteq Created
      BY <3>2, <3>3 DEF Created, ActiveResumes
    <3>5. Creating' = Creating
      BY <2>4 DEF Upload, Creating
    <3>6. QED
      BY <3>4, <3>5
  <2>5. CASE CommitSave(t) \/ CommitCompile(t)
    <3> DEFINE r == call[t].resume
               c == Stored(call[t])
    <3>1. r \in ResumeIds /\ c \in Contents
      BY <1>0, <2>5, StoredContent DEF CommitSave, CommitCompile
    <3>2. WriteContent(r, c) /\ Answered(t) /\ job' = job
      BY <2>5 DEF CommitSave, CommitCompile, Stored
    <3>3. Created' \subseteq Created
      BY <1>0, <1>4, <3>1, <3>2, Written
    <3>4. QED
      BY <1>3, <3>2, <3>3
  <2>6. CASE CommitPrimary(t)
    <3>1. resumes' \in [ResumeIds -> ResumeRow] /\ job' = job /\ Answered(t)
      BY <1>0, <2>6 DEF CommitPrimary, ResumesTypeOK, ResumeRow
    <3>2. \A q \in ResumeIds : resumes'[q].state = resumes[q].state
      BY <1>0, <2>6 DEF CommitPrimary, ResumesTypeOK, ResumeRow
    <3>3. QED
      BY <1>3, <1>4, <3>1, <3>2
  <2>7. CASE CallFails(t)
    BY <1>3, <2>7 DEF CallFails, Created, ActiveResumes
  <2>8. QED
    BY <1>5, <2>1, <2>2, <2>3, <2>4, <2>5, <2>6, <2>7 DEF TabNext
<1>6. ASSUME NEW r \in ResumeIds, SoftDelete(r) \/ StoreScore(r) \/ JobNext(r)
      PROVE  Created' \subseteq Created /\ Creating' \subseteq Creating
  <2>1. Creating' = Creating
    BY <1>6 DEF Creating, SoftDelete, StoreScore, JobNext, ReadForTranscript, WriteTranscript,
                TranscriptFails, TranscriptDies
  <2>2. CASE SoftDelete(r) \/ StoreScore(r)
    BY <1>0, <2>1, <2>2 DEF SoftDelete, StoreScore, Created, ActiveResumes, ResumesTypeOK, ResumeRow
  <2>3. CASE JobNext(r)
    <3>1. job[r].phase # "none"
      BY <2>3 DEF JobNext, ReadForTranscript, WriteTranscript, TranscriptFails, TranscriptDies
    <3>2. \A q \in ResumeIds \ {r} : job'[q] = job[q]
      BY <1>0, <2>3 DEF JobNext, ReadForTranscript, WriteTranscript, TranscriptFails,
                        TranscriptDies, Step, ResumesTypeOK
    <3>3. job'[r].phase # "none"
      BY <1>0, <2>3 DEF JobNext, ReadForTranscript, WriteTranscript, TranscriptFails,
                        TranscriptDies, Step, ResumesTypeOK
    <3>4. \A q \in ResumeIds : resumes'[q].state = resumes[q].state
      <4>1. CASE resumes' = resumes
        BY <4>1
      <4>2. CASE WriteTranscript(r)
        <5>1. resumes' = [resumes EXCEPT ![r].content = Transcribed(r)]
          BY <4>2 DEF WriteTranscript, WriteContent, Transcribed
        <5>2. resumes \in [ResumeIds -> ResumeRow]
          BY <1>0 DEF ResumesTypeOK
        <5>3. QED
          BY <5>1, <5>2 DEF ResumeRow
      <4>3. QED
        BY <2>3, <4>1, <4>2 DEF JobNext, ReadForTranscript, TranscriptFails, TranscriptDies
    <3>5. QED
      BY <2>1, <3>1, <3>2, <3>3, <3>4 DEF Created, ActiveResumes
  <2>4. QED
    BY <1>6, <2>2, <2>3
<1>7. QED
  BY <1>1, <1>5, <1>6 DEF ResumesNext

LEMMA LimitStep ==
  EditInv /\ OvershootIsBounded /\ [ResumesNext]_resumeVars => OvershootIsBounded'
<1> SUFFICES ASSUME EditInv, OvershootIsBounded, [ResumesNext]_resumeVars
             PROVE  OvershootIsBounded'
  OBVIOUS
<1>1. /\ Created \subseteq ResumeIds /\ Created' \subseteq ResumeIds
      /\ Creating \subseteq Tabs /\ Creating' \subseteq Tabs
      /\ Created \subseteq ActiveResumes /\ ActiveResumes \subseteq ResumeIds
  BY DEF Created, Creating, ActiveResumes
<1>2. /\ IsFiniteSet(Created) /\ IsFiniteSet(Created') /\ IsFiniteSet(ActiveResumes)
      /\ IsFiniteSet(Creating) /\ IsFiniteSet(Creating') /\ IsFiniteSet(Tabs)
  BY <1>1, ResumesAssumption, FS_Subset
<1>3. /\ Cardinality(Created) \in Nat /\ Cardinality(Created') \in Nat
      /\ Cardinality(Creating) \in Nat /\ Cardinality(Creating') \in Nat
      /\ Cardinality(ActiveResumes) \in Nat /\ Cardinality(Tabs) \in Nat
      /\ MaxResumes \in Nat
  BY <1>2, FS_CardinalityType, ResumesAssumption
<1>4. Cardinality(Created) + Cardinality(Creating) < MaxResumes + Cardinality(Tabs)
  BY DEF OvershootIsBounded
<1>5. CASE Created' \subseteq Created /\ Creating' \subseteq Creating
  <2>1. /\ Cardinality(Created') <= Cardinality(Created)
        /\ Cardinality(Creating') <= Cardinality(Creating)
    BY <1>2, <1>5, FS_Subset
  <2>2. QED
    BY <1>3, <1>4, <2>1 DEF OvershootIsBounded
<1>6. CASE Created' = Created /\ Cardinality(ActiveResumes) < MaxResumes
  <2>1. /\ Cardinality(Created) <= Cardinality(ActiveResumes)
        /\ Cardinality(Creating') <= Cardinality(Tabs)
    BY <1>1, <1>2, FS_Subset
  <2>2. QED
    BY <1>3, <1>6, <2>1 DEF OvershootIsBounded
<1>7. ASSUME NEW r \in ResumeIds, NEW t \in Creating,
             Created' \subseteq Created \cup {r}, Creating' \subseteq Creating \ {t}
      PROVE  OvershootIsBounded'
  <2>1. /\ IsFiniteSet(Created \cup {r})
        /\ \/ Cardinality(Created \cup {r}) = Cardinality(Created)
           \/ Cardinality(Created \cup {r}) = Cardinality(Created) + 1
    BY <1>2, FS_AddElement
  <2>2. /\ IsFiniteSet(Creating \ {t})
        /\ Cardinality(Creating \ {t}) = Cardinality(Creating) - 1
    BY <1>2, FS_RemoveElement
  <2>3. /\ Cardinality(Created') <= Cardinality(Created \cup {r})
        /\ Cardinality(Creating') <= Cardinality(Creating \ {t})
    BY <1>7, <2>1, <2>2, FS_Subset
  <2>4. QED
    BY <1>3, <1>4, <2>1, <2>2, <2>3 DEF OvershootIsBounded
<1>8. QED
  BY <1>5, <1>6, <1>7, CountsChange

\* create_resume passes the limit by no more than the requests in flight.
THEOREM LimitHolds == ResumesSpec => []OvershootIsBounded
<1>1. ResumesInit => OvershootIsBounded
  <2> SUFFICES ASSUME ResumesInit PROVE OvershootIsBounded
    OBVIOUS
  <2>1. Created = {} /\ Creating = {}
    BY DEF ResumesInit, Created, Creating, ActiveResumes, Waiting
  <2>2. Cardinality({}) = 0
    BY FS_EmptySet
  <2>3. Cardinality(Tabs) \in Nat
    BY FS_CardinalityType, ResumesAssumption
  <2>4. QED
    BY <2>1, <2>2, <2>3, ResumesAssumption DEF OvershootIsBounded
<1>2. QED
  BY <1>1, LimitStep, EditInvariance, PTL DEF ResumesSpec

------------------------------------------------------------------------------
(* The primary resume, one request at a time *)

\* A request that is to create the first resume found none that is active, and
\* no request that could set a flag runs beside it.
PrimaryInv ==
  /\ AtMostOnePrimary
  /\ \A t \in Tabs : call[t].op = "create" /\ call[t].first => PrimaryResumes = {}

\* A step that flags no resume and asks for no first one keeps the invariant.
LEMMA FlagsOnlyFall ==
  ASSUME PrimaryInv, PrimaryResumes' \subseteq PrimaryResumes,
         \A t \in Tabs : call'[t] = call[t] \/ call'[t].op # "create"
                           \/ ~call'[t].first \/ ActiveResumes' = {}
  PROVE  PrimaryInv'
BY DEF PrimaryInv, AtMostOnePrimary, PrimaryResumes

LEMMA PrimaryStep ==
  ASSUME EditInv, PrimaryInv, OneAtATime, [ResumesNext]_resumeVars
  PROVE  PrimaryInv'
<1>0. ResumesTypeOK
  BY DEF EditInv
<1>1. CASE UNCHANGED resumeVars
  BY <1>1 DEF resumeVars, PrimaryInv, AtMostOnePrimary, PrimaryResumes, ActiveResumes
<1>2. ASSUME NEW t \in Tabs, NEW c, Ask(t, c), resumes' = resumes,
             c.op = "create" => (c.first => ActiveResumes = {})
      PROVE  PrimaryInv'
  <2>1. \A u \in Tabs : call'[u] = IF u = t THEN c ELSE call[u]
    BY <1>0, <1>2 DEF Ask, ResumesTypeOK
  <2>2. PrimaryResumes' = PrimaryResumes /\ ActiveResumes' = ActiveResumes
    BY <1>2 DEF PrimaryResumes, ActiveResumes
  <2>3. QED
    BY <1>2, <2>1, <2>2, FlagsOnlyFall
<1>3. ASSUME NEW t \in Tabs, Answered(t) \/ call' = call, PrimaryResumes' \subseteq PrimaryResumes
      PROVE  PrimaryInv'
  <2>1. \A u \in Tabs : call'[u] = call[u] \/ call'[u].op # "create"
    BY <1>0, <1>3, AnsweredCall DEF Waiting
  <2>2. QED
    BY <1>3, <2>1, FlagsOnlyFall
<1>4. ASSUME NEW r \in ResumeIds, NEW c \in Contents, WriteContent(r, c)
      PROVE  PrimaryResumes' = PrimaryResumes
  BY <1>0, <1>4, Written DEF PrimaryResumes, ActiveResumes
<1>5. ASSUME NEW t \in Tabs, TabNext(t) PROVE PrimaryInv'
  <2>1. ASSUME NEW r \in ResumeIds, OpenResume(t, r) PROVE PrimaryInv'
    BY <1>3, <2>1 DEF OpenResume, PrimaryResumes, ActiveResumes
  <2>2. ASSUME NEW typed \in SUBSET Edits, StartCompile(t, typed) PROVE PrimaryInv'
    BY <1>2, <2>2 DEF StartCompile
  <2>3. ASSUME NEW r \in ResumeIds, StartPrimary(t, r) PROVE PrimaryInv'
    BY <1>2, <2>3 DEF StartPrimary
  <2>4. ASSUME NEW typed \in SUBSET Edits, NEW checked \in BOOLEAN, StartSave(t, typed, checked)
        PROVE  PrimaryInv'
    BY <1>2, <2>4 DEF StartSave
  <2>5. CASE StartCreate(t)
    <3>1. IsFiniteSet(ActiveResumes)
      BY ResumesAssumption, FS_Subset DEF ActiveResumes
    <3>2. Cardinality(ActiveResumes) = 0 => ActiveResumes = {}
      BY <3>1, FS_EmptySet
    <3>3. QED
      BY <1>2, <2>5, <3>2 DEF StartCreate
  <2>6. CASE CommitCreate(t)
    <3>1. PICK r \in ResumeIds : 
            resumes' = [resumes EXCEPT
              ![r] = [state |-> "active", is_primary |-> call[t].first, content |-> {}]]
      BY <2>6 DEF CommitCreate
    <3>2. call[t].first \in BOOLEAN /\ call[t] # Waiting
      BY <1>0, <2>6, InFlight DEF CommitCreate, CreateCall
    <3>3. CASE call[t].first
      <4>1. PrimaryResumes = {}
        BY <2>6, <3>3 DEF CommitCreate, PrimaryInv
      <4>2. PrimaryResumes' \subseteq {r}
        BY <1>0, <3>1, <4>1 DEF PrimaryResumes, ActiveResumes, ResumesTypeOK
      <4>3. \A u \in Tabs : call'[u].op # "create"
        <5>1. \A u \in Tabs \ {t} : call[u] = Waiting
          BY <3>2 DEF OneAtATime, Busy
        <5>2. QED
          BY <1>0, <2>6, <5>1, AnsweredCall DEF CommitCreate, Waiting
      <4>4. QED
        BY <4>2, <4>3 DEF PrimaryInv, AtMostOnePrimary
    <3>4. CASE ~call[t].first
      <4>1. PrimaryResumes' \subseteq PrimaryResumes
        BY <1>0, <3>1, <3>4 DEF PrimaryResumes, ActiveResumes, ResumesTypeOK
      <4>2. QED
        BY <1>3, <2>6, <4>1 DEF CommitCreate
    <3>5. QED
      BY <3>3, <3>4
  <2>7. CASE Upload(t)
    <3>1. PICK r \in ResumeIds :
            resumes' = [resumes EXCEPT
              ![r] = [state |-> "active", is_primary |-> FALSE, content |-> {}]]
      BY <2>7, ResumesAssumption DEF Upload
    <3>2. PrimaryResumes' \subseteq PrimaryResumes
      BY <1>0, <3>1 DEF PrimaryResumes, ActiveResumes, ResumesTypeOK
    <3>3. QED
      BY <1>3, <2>7, <3>2 DEF Upload
  <2>8. CASE CommitSave(t) \/ CommitCompile(t)
    <3> DEFINE r == call[t].resume
               c == Stored(call[t])
    <3>1. r \in ResumeIds /\ c \in Contents
      BY <1>0, <2>8, StoredContent DEF CommitSave, CommitCompile
    <3>2. WriteContent(r, c) /\ Answered(t)
      BY <2>8 DEF CommitSave, CommitCompile, Stored
    <3>3. QED
      BY <1>3, <1>4, <3>1, <3>2
  <2>9. CASE CommitPrimary(t)
    <3>1. call[t] # Waiting
      BY <1>0, <2>9, InFlight DEF CommitPrimary
    <3>2. PrimaryResumes' \subseteq {call[t].resume}
      BY <1>0, <2>9 DEF CommitPrimary, PrimaryResumes, ActiveResumes, ResumesTypeOK, ResumeRow
    <3>3. \A u \in Tabs : call'[u].op # "create"
      <4>1. \A u \in Tabs \ {t} : call[u] = Waiting
        BY <3>1 DEF OneAtATime, Busy
      <4>2. QED
        BY <1>0, <2>9, <4>1, AnsweredCall DEF CommitPrimary, Waiting
    <3>4. QED
      BY <3>2, <3>3 DEF PrimaryInv, AtMostOnePrimary
  <2>10. CASE CallFails(t)
    BY <1>3, <2>10 DEF CallFails, PrimaryResumes, ActiveResumes
  <2>11. QED
    BY <1>5, <2>1, <2>2, <2>3, <2>4, <2>5, <2>6, <2>7, <2>8, <2>9, <2>10, OneEditIsEdits
       DEF TabNext
<1>6. ASSUME NEW r \in ResumeIds, SoftDelete(r) \/ StoreScore(r) \/ JobNext(r)
      PROVE  PrimaryInv'
  <2>1. call' = call
    BY <1>6 DEF SoftDelete, StoreScore, JobNext, ReadForTranscript, WriteTranscript,
                TranscriptFails, TranscriptDies
  <2>2. CASE SoftDelete(r)
    BY <1>0, <2>1, <2>2, FlagsOnlyFall
       DEF SoftDelete, PrimaryResumes, ActiveResumes, ResumesTypeOK, ResumeRow
  <2>3. CASE WriteTranscript(r)
    <3>1. Transcribed(r) \in Contents /\ WriteContent(r, Transcribed(r))
      BY <1>0, <2>3, Values DEF ResumesTypeOK, Job, Contents, Transcribed, WriteTranscript
    <3>2. QED
      BY <1>4, <2>1, <3>1, FlagsOnlyFall
  <2>4. CASE resumes' = resumes
    BY <2>1, <2>4, FlagsOnlyFall DEF PrimaryResumes, ActiveResumes
  <2>5. QED
    BY <1>6, <2>2, <2>3, <2>4
       DEF StoreScore, JobNext, ReadForTranscript, TranscriptFails, TranscriptDies
<1>7. QED
  BY <1>1, <1>5, <1>6 DEF ResumesNext

\* Where requests do not overlap there is never more than one primary resume,
\* whatever is created, uploaded, chosen and deleted, and whatever fails.
THEOREM OnePrimary == MCSpec => []OnePrimaryWhenSerial
<1> DEFINE Inv == EditInv /\ (focus = "serial" => PrimaryInv /\ OneAtATime)
<1>1. MCInit => Inv
  BY EditInvInit
     DEF MCInit, ResumesInit, PrimaryInv, AtMostOnePrimary, PrimaryResumes, ActiveResumes,
         OneAtATime, Busy, Waiting, NoJob
<1>2. Inv /\ [MCNext]_mcVars => Inv'
  <2> SUFFICES ASSUME Inv, [MCNext]_mcVars PROVE Inv'
    OBVIOUS
  <2>1. CASE MCNext
    BY <2>1, EditInvStep, PrimaryStep DEF MCNext
  <2>2. CASE UNCHANGED mcVars
    <3>1. UNCHANGED resumeVars /\ UNCHANGED focus
      BY <2>2 DEF mcVars
    <3>2. OneAtATime' = OneAtATime
      BY <3>1 DEF resumeVars, OneAtATime, Busy
    <3>3. QED
      BY <3>1, <3>2, EditInvStep, PrimaryStep
  <2>3. QED
    BY <2>1, <2>2
<1>3. Inv => OnePrimaryWhenSerial
  BY DEF OnePrimaryWhenSerial, PrimaryInv
<1>4. QED
  BY <1>1, <1>2, <1>3, PTL DEF MCSpec
==============================================================================
