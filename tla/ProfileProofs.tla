---------------------------- MODULE ProfileProofs ----------------------------
(***************************************************************************)
(* Proofs about ProfileSections, ProfileEdits and Scores, for any ids,     *)
(* names, caps, answers, lists and number of overlapping requests.         *)
(***************************************************************************)
EXTENDS ProfileSections, ProfileEdits, Scores, FiniteSetTheorems, TLAPS

(* ProfileSections *)

\* The operations, by what they begin.
StartsEntry(q) ==
  \E s \in Sections :
    StartCreateEntry(q, s) \/ StartUpdateEntry(q, s) \/ StartDeleteEntry(q, s)

LEMMA Operations ==
  ASSUME SectionsNext
  PROVE  \E q \in Requests :
           StartsEntry(q) \/ CommitCreateEntry(q) \/ CommitUpdateEntry(q) \/ CommitDeleteEntry(q)
             \/ ShelfFails(q)
<1>1. PICK q \in Requests :
        \/ CreateEducation(q) \/ UpdateEducation(q) \/ DeleteEducation(q)
        \/ CreateExperience(q) \/ UpdateExperience(q) \/ DeleteExperience(q)
        \/ CreateSkill(q) \/ UpdateSkill(q) \/ DeleteSkill(q)
        \/ CreateProject(q) \/ UpdateProject(q) \/ DeleteProject(q)
        \/ CreateAccomplishment(q) \/ UpdateAccomplishment(q) \/ DeleteAccomplishment(q)
        \/ CreateGuardian(q) \/ UpdateGuardian(q) \/ DeleteGuardian(q)
        \/ CreateSocialLink(q) \/ DeleteSocialLink(q) \/ ConfirmUpload(q)
        \/ CommitCreateEntry(q) \/ CommitUpdateEntry(q) \/ CommitDeleteEntry(q)
        \/ ShelfFails(q)
  BY DEF SectionsNext
<1>2. QED
  BY <1>1
  DEF StartsEntry, Sections, CreateEducation, UpdateEducation, DeleteEducation, CreateExperience,
      UpdateExperience, DeleteExperience, CreateSkill, UpdateSkill, DeleteSkill, CreateProject,
      UpdateProject, DeleteProject, CreateAccomplishment, UpdateAccomplishment,
      DeleteAccomplishment, CreateGuardian, UpdateGuardian, DeleteGuardian, CreateSocialLink,
      DeleteSocialLink, ConfirmUpload

\* What the steps do to the shelf and the rows, whatever the section.
LEMMA OnTheShelf ==
  ASSUME SectionsTypeOK, NEW q \in Requests, shelf[q] # Free
  PROVE  /\ shelf[q].op \in {"create", "update", "delete"}
         /\ shelf[q].section \in Sections /\ shelf[q].key \in Keys
BY DEF SectionsTypeOK, SectionRequest

LEMMA Begun ==
  ASSUME SectionsTypeOK, NEW q \in Requests, NEW op \in {"create", "update", "delete"},
         NEW s \in Sections, NEW k \in Keys, Begin(q, op, s, k)
  PROVE  /\ entries' = entries
         /\ shelf[q] = Free /\ shelf'[q] # Free
         /\ shelf'[q].op = op /\ shelf'[q].section = s /\ shelf'[q].key = k
         /\ \A r \in Requests \ {q} : shelf'[r] = shelf[r]
         /\ SectionsTypeOK'
<1>1. [op |-> op, section |-> s, key |-> k] # Free
  BY DEF Free
<1>2. QED
  BY <1>1 DEF Begin, SectionsTypeOK, SectionRequest

LEMMA Ended ==
  ASSUME SectionsTypeOK, NEW q \in Requests, shelf[q] # Free, NEW e \in Entry, Becomes(q, e)
  PROVE  /\ \A s \in Sections, k \in Keys :
              entries'[s][k] = IF s = shelf[q].section /\ k = shelf[q].key THEN e
                               ELSE entries[s][k]
         /\ shelf'[q] = Free
         /\ \A r \in Requests \ {q} : shelf'[r] = shelf[r]
         /\ SectionsTypeOK'
<1>1. shelf[q].section \in Sections /\ shelf[q].key \in Keys
  BY OnTheShelf
<1>2. QED
  BY <1>1 DEF Becomes, SectionsTypeOK

\* Ids are drawn once: the id of a row that is being created is unused, and no
\* other request creates a row with it.  Hence a COMMIT can only bring back a
\* row by an UPDATE, and that of a row which is gone fails.
ShelfInv ==
  /\ SectionsTypeOK
  /\ \A q \in Requests : shelf[q] # Free =>
       /\ entries[shelf[q].section][shelf[q].key] = "unused" <=> shelf[q].op = "create"
       /\ shelf[q].op = "create" => \A r \in Requests \ {q} :
            shelf[r] # Free /\ shelf[r].op = "create" /\ shelf[r].section = shelf[q].section =>
              shelf[r].key # shelf[q].key
  /\ OneSkillOfAName

LEMMA ShelfInvInit == SectionsInit => ShelfInv
BY DEF SectionsInit, ShelfInv, SectionsTypeOK, Entry, NoRequests, OneSkillOfAName, Skills, There,
       Sections

\* A step keeps the invariant, and no row that is gone comes back.
LEMMA ShelfInvStep ==
  ShelfInv /\ [SectionsNext]_sectionVars =>
    /\ ShelfInv'
    /\ \A s \in Sections, k \in Keys : entries[s][k] = "gone" => entries'[s][k] = "gone"
<1> SUFFICES ASSUME ShelfInv, [SectionsNext]_sectionVars
             PROVE  /\ ShelfInv'
                    /\ \A s \in Sections, k \in Keys :
                         entries[s][k] = "gone" => entries'[s][k] = "gone"
  OBVIOUS
<1>0. SectionsTypeOK /\ "skills" \in Sections
  BY DEF ShelfInv, Sections
<1>1. CASE UNCHANGED sectionVars
  BY <1>1 DEF sectionVars, ShelfInv, SectionsTypeOK, OneSkillOfAName, Skills, There
<1>2. ASSUME NEW q \in Requests, StartsEntry(q)
      PROVE  ShelfInv' /\ entries' = entries
  <2>1. PICK s \in Sections :
          StartCreateEntry(q, s) \/ StartUpdateEntry(q, s) \/ StartDeleteEntry(q, s)
    BY <1>2 DEF StartsEntry
  <2>2. PICK op \in {"create", "update", "delete"}, k \in Keys :
          /\ Begin(q, op, s, k)
          /\ IF op = "create" THEN k \in NewKeys(s) ELSE k \in There(s)
    BY <2>1 DEF StartCreateEntry, StartUpdateEntry, StartDeleteEntry, NewKeys, There
  <2>3. /\ entries' = entries
        /\ shelf[q] = Free /\ shelf'[q] # Free
        /\ shelf'[q].op = op /\ shelf'[q].section = s /\ shelf'[q].key = k
        /\ \A r \in Requests \ {q} : shelf'[r] = shelf[r]
        /\ SectionsTypeOK'
    BY <1>0, <2>2, Begun
  <2>4. op = "create" =>
          /\ entries[s][k] = "unused"
          /\ \A r \in Requests : shelf[r] # Free /\ shelf[r].op = "create" /\ shelf[r].section = s =>
               shelf[r].key # k
    BY <2>2 DEF NewKeys, Drawn, Serving
  <2>4a. op # "create" => entries[s][k] = "there"
    BY <2>2 DEF There
  <2>5. OneSkillOfAName'
    BY <2>3 DEF ShelfInv, OneSkillOfAName, Skills, There
  <2>6. QED
    BY <2>3, <2>4, <2>4a, <2>5 DEF ShelfInv
<1>3. ASSUME NEW q \in Requests, CommitCreateEntry(q)
      PROVE  /\ ShelfInv'
             /\ \A s \in Sections, k \in Keys : entries[s][k] = "gone" => entries'[s][k] = "gone"
  <2> DEFINE t == shelf[q].section
             l == shelf[q].key
  <2>1. t \in Sections /\ l \in Keys /\ shelf[q] # Free /\ entries[t][l] = "unused"
    BY <1>0, <1>3, OnTheShelf DEF CommitCreateEntry, ShelfInv
  <2>2. /\ \A s \in Sections, k \in Keys :
             entries'[s][k] = IF s = t /\ k = l THEN "there" ELSE entries[s][k]
        /\ shelf'[q] = Free
        /\ \A r \in Requests \ {q} : shelf'[r] = shelf[r]
        /\ SectionsTypeOK'
    BY <1>0, <1>3, <2>1, Ended DEF CommitCreateEntry, Entry
  <2>3. OneSkillOfAName'
    <3>1. \A k \in Keys : k \in Skills' <=> k \in Skills \/ (t = "skills" /\ k = l)
      BY <1>0, <2>1, <2>2 DEF Skills, There
    <3>2. t = "skills" => \A k \in Skills : NameOf[k] # NameOf[l]
      BY <1>3 DEF CommitCreateEntry, Namesakes
    <3>3. Skills' \subseteq Keys
      BY DEF Skills, There
    <3>4. QED
      BY <3>1, <3>2, <3>3 DEF ShelfInv, OneSkillOfAName
  <2>4. ASSUME NEW r \in Requests, shelf'[r] # Free
        PROVE  /\ r # q /\ shelf'[r] = shelf[r]
               /\ shelf[r].section \in Sections /\ shelf[r].key \in Keys
               /\ shelf[r].op = "create" => ~(shelf[r].section = t /\ shelf[r].key = l)
    <3>1. r # q /\ shelf'[r] = shelf[r]
      BY <2>2, <2>4
    <3>2. QED
      BY <1>0, <1>3, <2>4, <3>1, OnTheShelf DEF ShelfInv, CommitCreateEntry
  <2>5. QED
    BY <2>1, <2>2, <2>3, <2>4 DEF ShelfInv
<1>4. ASSUME NEW q \in Requests, CommitUpdateEntry(q)
      PROVE  /\ ShelfInv'
             /\ \A s \in Sections, k \in Keys : entries'[s][k] = entries[s][k]
  <2>1. /\ shelf[q] # Free /\ shelf[q].op = "update"
        /\ entries[shelf[q].section][shelf[q].key] = "there"
    BY <1>4 DEF CommitUpdateEntry, There
  <2>2. /\ \A s \in Sections, k \in Keys : entries'[s][k] = entries[s][k]
        /\ shelf'[q] = Free
        /\ \A r \in Requests \ {q} : shelf'[r] = shelf[r]
        /\ SectionsTypeOK'
    BY <1>0, <1>4, <2>1, Ended DEF CommitUpdateEntry, Entry
  <2>3. OneSkillOfAName'
    BY <1>0, <2>2 DEF ShelfInv, OneSkillOfAName, Skills, There
  <2>4. QED
    BY <1>0, <2>2, <2>3, OnTheShelf DEF ShelfInv
<1>5. ASSUME NEW q \in Requests, CommitDeleteEntry(q)
      PROVE  /\ ShelfInv'
             /\ \A s \in Sections, k \in Keys : entries[s][k] = "gone" => entries'[s][k] = "gone"
  <2>1. shelf[q] # Free /\ shelf[q].op = "delete"
    BY <1>5 DEF CommitDeleteEntry
  <2>2. /\ \A s \in Sections, k \in Keys :
             entries'[s][k] = IF s = shelf[q].section /\ k = shelf[q].key THEN "gone"
                              ELSE entries[s][k]
        /\ shelf'[q] = Free
        /\ \A r \in Requests \ {q} : shelf'[r] = shelf[r]
        /\ SectionsTypeOK'
    BY <1>0, <1>5, <2>1, Ended DEF CommitDeleteEntry, Entry
  <2>3. OneSkillOfAName'
    BY <1>0, <2>2 DEF ShelfInv, OneSkillOfAName, Skills, There
  <2>4. ASSUME NEW r \in Requests, shelf'[r] # Free
        PROVE  /\ r # q /\ shelf'[r] = shelf[r]
               /\ shelf[r].section \in Sections /\ shelf[r].key \in Keys
               /\ shelf[r].op = "create" =>
                    ~(shelf[r].section = shelf[q].section /\ shelf[r].key = shelf[q].key)
    <3>1. r # q /\ shelf'[r] = shelf[r]
      BY <2>2, <2>4
    <3>2. entries[shelf[q].section][shelf[q].key] # "unused"
      BY <2>1 DEF ShelfInv
    <3>3. QED
      BY <1>0, <2>4, <3>1, <3>2, OnTheShelf DEF ShelfInv
  <2>5. \A s \in Sections, k \in Keys : entries[s][k] = "gone" => entries'[s][k] = "gone"
    BY <2>2
  <2>6. QED
    BY <2>2, <2>3, <2>4, <2>5 DEF ShelfInv
<1>6. ASSUME NEW q \in Requests, ShelfFails(q)
      PROVE  ShelfInv' /\ entries' = entries
  <2>1. /\ entries' = entries
        /\ shelf'[q] = Free
        /\ \A r \in Requests \ {q} : shelf'[r] = shelf[r]
    BY <1>0, <1>6 DEF ShelfFails, SectionsTypeOK
  <2>2. SectionsTypeOK'
    BY <1>0, <1>6 DEF ShelfFails, SectionsTypeOK
  <2>3. OneSkillOfAName'
    BY <2>1 DEF ShelfInv, OneSkillOfAName, Skills, There
  <2>4. QED
    BY <2>1, <2>2, <2>3 DEF ShelfInv
<1>7. QED
  BY <1>1, <1>2, <1>3, <1>4, <1>5, <1>6, Operations DEF sectionVars

LEMMA ShelfInvariance == SectionsSpec => []ShelfInv
BY ShelfInvInit, ShelfInvStep, PTL DEF SectionsSpec

\* A step adds a row only in place of a request that was creating it, and a
\* request begins to create one only below the cap.
LEMMA CapsStep ==
  ShelfInv /\ CapsHold /\ [SectionsNext]_sectionVars => CapsHold'
<1> SUFFICES ASSUME ShelfInv, CapsHold, [SectionsNext]_sectionVars, NEW s \in Sections
             PROVE  Cardinality(There(s)') + Cardinality(Serving("create", s)')
                      < Cap[s] + Cardinality(Requests)
  BY DEF CapsHold
<1> DEFINE Rows == There(s)
           Creating == Serving("create", s)
<1>1. /\ IsFiniteSet(Rows) /\ IsFiniteSet(Rows') /\ IsFiniteSet(Creating)
      /\ IsFiniteSet(Creating') /\ Creating \subseteq Requests /\ Creating' \subseteq Requests
  <2>1. Rows \subseteq Keys /\ Rows' \subseteq Keys /\ Creating \subseteq Requests
        /\ Creating' \subseteq Requests
    BY DEF There, Serving
  <2>2. QED
    BY <2>1, SectionsAssumption, FS_Subset
<1>2. /\ Cardinality(Rows) \in Nat /\ Cardinality(Rows') \in Nat
      /\ Cardinality(Creating) \in Nat /\ Cardinality(Creating') \in Nat
      /\ Cardinality(Requests) \in Nat /\ Cap[s] \in Nat
      /\ Cardinality(Creating') <= Cardinality(Requests)
  BY <1>1, SectionsAssumption, FS_CardinalityType, FS_Subset
<1>3. Cardinality(Rows) + Cardinality(Creating) < Cap[s] + Cardinality(Requests)
  BY DEF CapsHold
<1>4. SectionsTypeOK
  BY DEF ShelfInv
<1>5. CASE UNCHANGED sectionVars
  <2>1. Rows' = Rows /\ Creating' = Creating
    BY <1>5 DEF sectionVars, There, Serving
  <2>2. QED
    BY <1>3, <2>1
<1>6. ASSUME NEW q \in Requests, StartsEntry(q)
      PROVE  Cardinality(Rows') + Cardinality(Creating') < Cap[s] + Cardinality(Requests)
  <2>1. PICK t \in Sections :
          StartCreateEntry(q, t) \/ StartUpdateEntry(q, t) \/ StartDeleteEntry(q, t)
    BY <1>6 DEF StartsEntry
  <2>2. PICK op \in {"create", "update", "delete"}, k \in Keys :
          /\ Begin(q, op, t, k)
          /\ op = "create" => Cardinality(There(t)) < Cap[t]
    BY <2>1 DEF StartCreateEntry, StartUpdateEntry, StartDeleteEntry, NewKeys, There
  <2>3. /\ entries' = entries
        /\ shelf[q] = Free /\ shelf'[q] # Free
        /\ shelf'[q].op = op /\ shelf'[q].section = t
        /\ \A r \in Requests \ {q} : shelf'[r] = shelf[r]
    BY <1>4, <2>2, Begun
  <2>4. Rows' = Rows
    BY <2>3 DEF There
  <2>5. CASE op = "create" /\ t = s
    BY <1>2, <2>2, <2>4, <2>5
  <2>6. CASE ~(op = "create" /\ t = s)
    <3>1. Creating' = Creating
      BY <2>3, <2>6 DEF Serving
    <3>2. QED
      BY <1>3, <2>4, <3>1
  <2>7. QED
    BY <2>5, <2>6
<1>7. ASSUME NEW q \in Requests, shelf[q] # Free, shelf[q].section = s, CommitCreateEntry(q)
      PROVE  Cardinality(Rows') + Cardinality(Creating') < Cap[s] + Cardinality(Requests)
  <2>1. shelf[q].key \in Keys
    BY <1>4, <1>7, OnTheShelf
  <2>2. /\ \A t \in Sections, k \in Keys :
             entries'[t][k] = IF t = s /\ k = shelf[q].key THEN "there" ELSE entries[t][k]
        /\ shelf'[q] = Free
        /\ \A r \in Requests \ {q} : shelf'[r] = shelf[r]
    BY <1>4, <1>7, Ended DEF CommitCreateEntry, Entry
  <2>3. Rows' = Rows \cup {shelf[q].key} /\ shelf[q].key \notin Rows
    BY <1>7, <2>1, <2>2 DEF There, ShelfInv, CommitCreateEntry
  <2>4. Creating' = Creating \ {q} /\ q \in Creating
    BY <1>7, <2>2 DEF Serving, CommitCreateEntry
  <2>5. /\ Cardinality(Rows') = Cardinality(Rows) + 1
        /\ Cardinality(Creating') = Cardinality(Creating) - 1
    BY <1>1, <2>3, <2>4, FS_AddElement, FS_RemoveElement
  <2>6. QED
    BY <1>2, <1>3, <2>5
<1>8. ASSUME NEW q \in Requests, shelf[q] # Free,
             \/ CommitCreateEntry(q) /\ shelf[q].section # s
             \/ CommitUpdateEntry(q) \/ CommitDeleteEntry(q) \/ ShelfFails(q)
      PROVE  Cardinality(Rows') + Cardinality(Creating') < Cap[s] + Cardinality(Requests)
  <2>1. shelf[q].section \in Sections /\ shelf[q].key \in Keys
    BY <1>4, <1>8, OnTheShelf
  <2>2. shelf'[q] = Free /\ \A r \in Requests \ {q} : shelf'[r] = shelf[r]
    BY <1>4, <1>8, Ended
    DEF CommitCreateEntry, CommitUpdateEntry, CommitDeleteEntry, ShelfFails, Entry, SectionsTypeOK
  <2>3. \A k \in Keys : entries'[s][k] = "there" => entries[s][k] = "there"
    <3>1. CASE CommitCreateEntry(q) /\ shelf[q].section # s
      BY <1>4, <1>8, <3>1, Ended DEF CommitCreateEntry, Entry
    <3>2. CASE CommitUpdateEntry(q)
      BY <1>4, <1>8, <2>1, <3>2, Ended DEF CommitUpdateEntry, Entry, There
    <3>3. CASE CommitDeleteEntry(q)
      BY <1>4, <1>8, <3>3, Ended DEF CommitDeleteEntry, Entry
    <3>4. CASE ShelfFails(q)
      BY <3>4 DEF ShelfFails
    <3>5. QED
      BY <1>8, <3>1, <3>2, <3>3, <3>4
  <2>4. Rows' \subseteq Rows
    BY <2>3 DEF There
  <2>5. Creating' \subseteq Creating
    BY <2>2 DEF Serving
  <2>6. Cardinality(Rows') <= Cardinality(Rows) /\ Cardinality(Creating') <= Cardinality(Creating)
    BY <1>1, <2>4, <2>5, FS_Subset
  <2>7. QED
    BY <1>2, <1>3, <2>6
<1>9. QED
  <2>1. CASE SectionsNext
    <3>1. PICK q \in Requests :
            StartsEntry(q) \/ CommitCreateEntry(q) \/ CommitUpdateEntry(q) \/ CommitDeleteEntry(q)
              \/ ShelfFails(q)
      BY <2>1, Operations
    <3>2. StartsEntry(q) \/ shelf[q] # Free
      BY <3>1 DEF CommitCreateEntry, CommitUpdateEntry, CommitDeleteEntry, ShelfFails
    <3>3. QED
      BY <1>6, <1>7, <1>8, <3>1, <3>2
  <2>2. QED
    BY <1>5, <2>1

\* The caps of the profile are passed by fewer rows than requests overlap.
THEOREM CapsAreKept == SectionsSpec => []CapsHold
<1>1. SectionsInit => CapsHold
  <2> SUFFICES ASSUME SectionsInit, NEW s \in Sections
               PROVE  Cardinality(There(s)) + Cardinality(Serving("create", s))
                        < Cap[s] + Cardinality(Requests)
    BY DEF CapsHold
  <2>1. There(s) = {} /\ Serving("create", s) = {}
    BY DEF SectionsInit, There, Serving, NoRequests
  <2>2. Cardinality(Requests) \in Nat /\ Cap[s] \in Nat \ {0}
    BY SectionsAssumption, FS_CardinalityType
  <2>3. QED
    BY <2>1, <2>2, FS_EmptySet
<1>2. QED
  BY <1>1, CapsStep, ShelfInvariance, PTL DEF SectionsSpec

\* Whatever overlaps, the tables of the profile keep their type.
THEOREM SectionsTypeCorrect == SectionsSpec => []SectionsTypeOK
<1>1. ShelfInv => SectionsTypeOK
  BY DEF ShelfInv
<1>2. QED
  BY <1>1, ShelfInvariance, PTL

\* No request brings back a row of the profile that another one deleted.
THEOREM DeletedForGood == SectionsSpec => GoneStaysGone
<1>1. ShelfInv /\ [SectionsNext]_sectionVars =>
        [\A s \in Sections, k \in Keys : entries[s][k] = "gone" => entries'[s][k] = "gone"]_sectionVars
  BY ShelfInvStep
<1>2. QED
  BY <1>1, ShelfInvariance, PTL DEF SectionsSpec, GoneStaysGone

\* No student lists a skill twice, however many requests add it at once.
THEOREM SkillsAreDistinct == SectionsSpec => []OneSkillOfAName
<1>1. ShelfInv => OneSkillOfAName
  BY DEF ShelfInv
<1>2. QED
  BY <1>1, ShelfInvariance, PTL

------------------------------------------------------------------------------
(* ProfileEdits *)

EditRequest == {Free} \cup PatchRequest \cup ReplaceRequest \cup SettingsRequest

LEMMA EditInFlight ==
  ASSUME EditsTypeOK, NEW q \in Requests, edit[q] # Free
  PROVE  /\ edit[q].op \in {"patch", "audit"} => edit[q] \in PatchRequest
         /\ edit[q].op = "replace" => edit[q] \in ReplaceRequest
         /\ edit[q].op \in {"get settings", "put settings"} => edit[q] \in SettingsRequest
BY DEF EditsTypeOK, PatchRequest, ReplaceRequest, SettingsRequest

LEMMA EditsTypeInit == EditsInit => EditsTypeOK
BY EditsAssumption DEF EditsInit, EditsTypeOK, Info, NoRequests

LEMMA EditStarts ==
  ASSUME EditsTypeOK, NEW q \in Requests, NEW r \in EditRequest, Starts(q, r)
  PROVE  EditsTypeOK'
BY DEF EditsTypeOK, EditRequest, Starts

LEMMA Merged ==
  ASSUME NEW i \in Info, NEW n \in Questions, NEW a \in Answers
  PROVE  [i EXCEPT ![n] = a] \in Info
BY DEF Info

LEMMA EditsTypeStep ==
  ASSUME EditsTypeOK, [EditsNext]_editVars
  PROVE  EditsTypeOK'
<1>0. Free \in EditRequest
  BY DEF EditRequest
<1>1. CASE UNCHANGED editVars
  BY <1>1 DEF editVars, EditsTypeOK
<1>2. ASSUME NEW q \in Requests, Ends(q)
      PROVE  edit' \in [Requests -> EditRequest]
  BY <1>2 DEF Ends, EditsTypeOK, EditRequest
<1>3. ASSUME NEW q \in Requests, NEW n \in Questions, NEW a \in Answers,
             StartPatch(q, n, a) \/ (StartAudit(q, a) /\ n = LinkedInAudit)
      PROVE  EditsTypeOK'
  <2>1. PICK op \in {"patch", "audit"} :
          Starts(q, [op |-> op, read |-> additional_info, question |-> n, answer |-> a])
    BY <1>3 DEF StartPatch, StartAudit
  <2>2. [op |-> op, read |-> additional_info, question |-> n, answer |-> a] \in EditRequest
    BY DEF EditRequest, PatchRequest, EditsTypeOK
  <2>3. QED
    BY <2>1, <2>2, EditStarts
<1>4. ASSUME NEW q \in Requests, NEW l \in Lists, StartReplace(q, l) PROVE EditsTypeOK'
  <2>1. [op |-> "replace", seen |-> duties, list |-> l] \in EditRequest
    BY DEF EditRequest, ReplaceRequest, EditsTypeOK
  <2>2. QED
    BY <1>4, <2>1, EditStarts DEF StartReplace
<1>5. ASSUME NEW q \in Requests, NEW c \in Choices, StartPutSettings(q, c) PROVE EditsTypeOK'
  <2>1. [op |-> "put settings", read |-> settings, choice |-> c] \in EditRequest
    BY DEF EditRequest, SettingsRequest, EditsTypeOK
  <2>2. QED
    BY <1>5, <2>1, EditStarts DEF StartPutSettings
<1>6. ASSUME NEW q \in Requests, StartGetSettings(q) PROVE EditsTypeOK'
  <2>1. [op |-> "get settings", read |-> NoRow, choice |-> Defaults] \in EditRequest
    BY EditsAssumption DEF EditRequest, SettingsRequest
  <2>2. QED
    BY <1>6, <2>1, EditStarts DEF StartGetSettings
<1>7. ASSUME NEW q \in Requests, CommitPatch(q) \/ CommitAudit(q) PROVE EditsTypeOK'
  <2>1. edit[q] \in PatchRequest
    BY <1>7, EditInFlight DEF CommitPatch, CommitAudit, Editing
  <2>2. edit[q].read \in Info /\ edit[q].question \in Questions /\ edit[q].answer \in Answers
    BY <2>1 DEF PatchRequest
  <2>3. additional_info \in Info /\ given \in Info
    BY DEF EditsTypeOK
  <2>4. additional_info' \in Info /\ given' \in Info
    BY <1>7, <2>2, <2>3, Merged, EditsAssumption DEF CommitPatch, CommitAudit
  <2>5. Ends(q) /\ UNCHANGED <<duties, settings, listed, chosen>>
    BY <1>7 DEF CommitPatch, CommitAudit
  <2>6. QED
    BY <1>2, <2>4, <2>5 DEF EditsTypeOK, EditRequest
<1>8. ASSUME NEW q \in Requests, CommitReplace(q) PROVE EditsTypeOK'
  <2>1. edit[q] \in ReplaceRequest
    BY <1>8, EditInFlight DEF CommitReplace, Editing
  <2>2. edit[q].list \in Lists /\ Lines(edit[q].list) \subseteq Duties
    BY <2>1 DEF ReplaceRequest, Lines, Duties
  <2>3. Ends(q) /\ UNCHANGED <<additional_info, settings, given, chosen>>
        /\ duties' = (duties \ edit[q].seen) \cup Lines(edit[q].list)
        /\ listed' = edit[q].list
    BY <1>8 DEF CommitReplace
  <2>4. QED
    BY <1>2, <2>2, <2>3 DEF EditsTypeOK, EditRequest
<1>9. ASSUME NEW q \in Requests, CommitGetSettings(q) \/ CommitPutSettings(q) PROVE EditsTypeOK'
  <2>1. edit[q] \in SettingsRequest
    BY <1>9, EditInFlight DEF CommitGetSettings, CommitPutSettings, Editing
  <2>2. edit[q].choice \in Choices
    BY <2>1 DEF SettingsRequest
  <2>3. Ends(q) /\ UNCHANGED <<additional_info, duties, given, listed>>
        /\ settings' \in Choices \cup {NoRow} /\ chosen' \in Choices \cup {NoRow}
    BY <1>9, <2>2, EditsAssumption DEF CommitGetSettings, CommitPutSettings, EditsTypeOK
  <2>4. QED
    BY <1>2, <2>3 DEF EditsTypeOK, EditRequest
<1>10. ASSUME NEW q \in Requests, EditFails(q) PROVE EditsTypeOK'
  BY <1>2, <1>10 DEF EditFails, EditsTypeOK, EditRequest
<1>11. ASSUME NEW q \in Requests, EditNext(q) PROVE EditsTypeOK'
  BY <1>3, <1>4, <1>5, <1>6, <1>7, <1>8, <1>9, <1>10, <1>11, EditsAssumption
     DEF EditNext, NewLists
<1>12. QED
  BY <1>1, <1>11 DEF EditsNext

------------------------------------------------------------------------------
(* One request at a time *)

\* What a request has read is what is there.
EditsRead ==
  \A q \in Requests : edit[q] # Free =>
    /\ edit[q].op \in {"patch", "audit"} => edit[q].read = additional_info
    /\ edit[q].op = "replace" => edit[q].seen = duties
    /\ edit[q].op \in {"get settings", "put settings"} => edit[q].read = settings
    /\ edit[q].op = "audit" => edit[q].question = LinkedInAudit

EditsInv == EditsTypeOK /\ NoOverlap(edit) /\ EditsStand /\ EditsRead

LEMMA EditsInvInit == EditsInit => EditsInv
<1>1. EditsInit => NoOverlap(edit) /\ EditsStand /\ EditsRead
  BY DEF EditsInit, NoRequests, NoOverlap, EditsStand, EditsRead
<1>2. QED
  BY <1>1, EditsTypeInit DEF EditsInv

LEMMA EditsInvStep ==
  ASSUME EditsInv, [EditsNext]_editVars, NoOverlap(edit')
  PROVE  EditsInv'
<1>0. EditsTypeOK /\ EditsTypeOK' /\ EditsStand /\ EditsRead /\ NoOverlap(edit)
  BY EditsTypeStep DEF EditsInv
<1> SUFFICES EditsStand' /\ EditsRead'
  BY <1>0 DEF EditsInv
<1>1. CASE UNCHANGED editVars
  BY <1>0, <1>1 DEF editVars, EditsStand, EditsRead
\* A request begins: what it reads is there.
<1>2. ASSUME NEW q \in Requests, NEW r, Starts(q, r),
             r.op \in {"patch", "audit"} => r.read = additional_info,
             r.op = "replace" => r.seen = duties,
             r.op \in {"get settings", "put settings"} => r.read = settings,
             r.op = "audit" => r.question = LinkedInAudit
      PROVE  EditsStand' /\ EditsRead'
  <2>1. \A s \in Requests : edit'[s] = r \/ edit'[s] = edit[s]
    BY <1>0, <1>2 DEF Starts, EditsTypeOK
  <2>2. QED
    BY <1>0, <1>2, <2>1 DEF Starts, EditsStand, EditsRead
\* The request under way ends: none is left.
<1>3. ASSUME NEW q \in Requests, edit[q] # Free, Ends(q) PROVE EditsRead'
  <2>1. \A s \in Requests : edit'[s] = Free
    BY <1>0, <1>3 DEF Ends, EditsTypeOK, NoOverlap
  <2>2. QED
    BY <2>1 DEF EditsRead
<1>4. ASSUME NEW q \in Requests, NEW n \in Questions, NEW a \in Answers, StartPatch(q, n, a)
      PROVE  EditsStand' /\ EditsRead'
  BY <1>2, <1>4 DEF StartPatch
<1>5. ASSUME NEW q \in Requests, NEW a \in Answers, StartAudit(q, a)
      PROVE  EditsStand' /\ EditsRead'
  BY <1>2, <1>5 DEF StartAudit
<1>6. ASSUME NEW q \in Requests, NEW l \in Lists, StartReplace(q, l)
      PROVE  EditsStand' /\ EditsRead'
  BY <1>2, <1>6 DEF StartReplace
<1>7. ASSUME NEW q \in Requests, StartGetSettings(q) \/ \E c \in Choices : StartPutSettings(q, c)
      PROVE  EditsStand' /\ EditsRead'
  BY <1>2, <1>7 DEF StartGetSettings, StartPutSettings
<1>8. ASSUME NEW q \in Requests, CommitPatch(q) \/ CommitAudit(q)
      PROVE  EditsStand' /\ EditsRead'
  <2>1. edit[q] # Free /\ Ends(q) /\ UNCHANGED <<duties, settings, listed, chosen>>
    BY <1>8 DEF CommitPatch, CommitAudit, Editing
  <2>2. edit[q].read = additional_info /\ additional_info = given
        /\ (CommitAudit(q) => edit[q].question = LinkedInAudit)
    BY <1>0, <1>8 DEF CommitPatch, CommitAudit, Editing, EditsRead, EditsStand
  <2>3. additional_info' = given'
    BY <1>8, <2>2 DEF CommitPatch, CommitAudit
  <2>4. QED
    BY <1>0, <1>3, <2>1, <2>3 DEF EditsStand
<1>9. ASSUME NEW q \in Requests, CommitReplace(q) PROVE EditsStand' /\ EditsRead'
  <2>1. /\ edit[q] # Free /\ Ends(q) /\ UNCHANGED <<additional_info, settings, given, chosen>>
        /\ duties' = (duties \ edit[q].seen) \cup Lines(edit[q].list)
        /\ listed' = edit[q].list
    BY <1>9 DEF CommitReplace, Editing
  <2>2. edit[q].seen = duties
    BY <1>0, <1>9 DEF CommitReplace, Editing, EditsRead
  <2>3. QED
    BY <1>0, <1>3, <2>1, <2>2 DEF EditsStand
<1>10. ASSUME NEW q \in Requests, CommitGetSettings(q) \/ CommitPutSettings(q)
       PROVE  EditsStand' /\ EditsRead'
  <2>1. edit[q] # Free /\ Ends(q) /\ UNCHANGED <<additional_info, duties, given, listed>>
    BY <1>10 DEF CommitGetSettings, CommitPutSettings, Editing
  <2>2. edit[q].read = settings
    BY <1>0, <1>10 DEF CommitGetSettings, CommitPutSettings, Editing, EditsRead
  <2>3. settings' = chosen'
    BY <1>10, <2>2 DEF CommitGetSettings, CommitPutSettings
  <2>4. QED
    BY <1>0, <1>3, <2>1, <2>3 DEF EditsStand
<1>11. ASSUME NEW q \in Requests, EditFails(q) PROVE EditsStand' /\ EditsRead'
  BY <1>0, <1>3, <1>11 DEF EditFails, EditsStand
<1>12. ASSUME NEW q \in Requests, EditNext(q) PROVE EditsStand' /\ EditsRead'
  BY <1>4, <1>5, <1>6, <1>7, <1>8, <1>9, <1>10, <1>11, <1>12 DEF EditNext, NewLists
<1>13. QED
  BY <1>1, <1>12 DEF EditsNext

------------------------------------------------------------------------------
(* Scores *)

Content == [summary: BOOLEAN, education: Counts, experience: Counts, projects: Counts,
            skills: SkillCounts]
LinkedIn ==
  [length: {0, 10, 25, 30}, title: BOOLEAN, tags: BOOLEAN, divider: BOOLEAN,
   words: {0, 10, 40, 60, 100}, metrics: BOOLEAN, contact: BOOLEAN,
   formatting: BOOLEAN, skills: {0, 1, 4, 8, 15}, matched: 0..Keywords,
   experiences: BOOLEAN, certifications: BOOLEAN, educations: BOOLEAN]

ScoresInv == profile \in Profile /\ content \in Content /\ linkedin \in LinkedIn

LEMMA ScoresInvStep ==
  ASSUME ScoresInv, [ScoresNext]_scoresVars
  PROVE  ScoresInv'
<1>1. CASE UNCHANGED scoresVars
  BY <1>1 DEF scoresVars, ScoresInv
<1>2. CASE EditProfile
  <2> DEFINE Fields == [basic: BOOLEAN, educations: Counts, marksheets: Counts,
                        skills: SkillCounts, projects: Counts, experiences: Counts,
                        accomplishments: Counts]
  <2>1. profile \in Fields /\ DOMAIN profile = {"basic", "educations", "marksheets", "skills",
          "projects", "experiences", "accomplishments"}
    BY DEF ScoresInv, Profile
  <2>2. PICK f \in DOMAIN profile :
          profile' \in Edits(profile, f, CASE f = "basic" -> BOOLEAN
                                           [] f = "skills" -> SkillCounts
                                           [] OTHER -> Counts)
    BY <1>2 DEF EditProfile
  <2>3. profile' \in Fields
    <3>1. CASE f = "basic"
      BY <2>1, <2>2, <3>1 DEF Edits
    <3>2. CASE f = "skills"
      BY <2>1, <2>2, <3>2 DEF Edits
    <3>3. CASE f \notin {"basic", "skills"}
      <4>1. PICK v \in Counts : profile' = [profile EXCEPT ![f] = v]
        BY <2>2, <3>3 DEF Edits
      <4>2. QED
        BY <2>1, <3>3, <4>1
    <3>4. QED
      BY <3>1, <3>2, <3>3
  <2>4. profile' \in Profile
    BY <1>2, <2>3 DEF EditProfile, Profile
  <2>5. QED
    BY <1>2, <2>4 DEF EditProfile, ScoresInv
<1>3. CASE EditContent
  <2>1. content \in Content /\ DOMAIN content = {"summary", "education", "experience", "projects", "skills"}
    BY DEF ScoresInv, Content
  <2>2. PICK f \in DOMAIN content :
          content' \in Edits(content, f, CASE f = "summary" -> BOOLEAN
                                           [] f = "skills" -> SkillCounts
                                           [] OTHER -> Counts)
    BY <1>3 DEF EditContent
  <2>3. content' \in Content
    <3>1. CASE f = "summary"
      BY <2>1, <2>2, <3>1 DEF Edits, Content
    <3>2. CASE f = "skills"
      BY <2>1, <2>2, <3>2 DEF Edits, Content
    <3>3. CASE f \notin {"summary", "skills"}
      <4>1. PICK v \in Counts : content' = [content EXCEPT ![f] = v]
        BY <2>2, <3>3 DEF Edits
      <4>2. QED
        BY <2>1, <3>3, <4>1 DEF Content
    <3>4. QED
      BY <3>1, <3>2, <3>3
  <2>4. QED
    BY <1>3, <2>3 DEF EditContent, ScoresInv
<1>4. CASE EditLinkedIn
  <2>1. linkedin \in LinkedIn /\ DOMAIN linkedin =
          {"length", "title", "tags", "divider", "words", "metrics", "contact", "formatting",
           "skills", "matched", "experiences", "certifications", "educations"}
    BY DEF ScoresInv, LinkedIn
  <2>2. PICK f \in DOMAIN linkedin : \E v \in LinkedInField[f] : linkedin' = [linkedin EXCEPT ![f] = v]
    BY <1>4 DEF EditLinkedIn, Edits
  <2> DEFINE Flags == {"title", "tags", "divider", "metrics", "contact", "formatting",
                       "experiences", "certifications", "educations"}
  <2>3. CASE f \in Flags
    <3>1. LinkedInField[f] = BOOLEAN
      BY <2>3 DEF LinkedInField
    <3>2. PICK v \in BOOLEAN : linkedin' = [linkedin EXCEPT ![f] = v]
      BY <2>2, <3>1
    <3>3. linkedin' \in LinkedIn
      BY <2>1, <2>3, <3>2 DEF LinkedIn
    <3>4. QED
      BY <1>4, <3>3 DEF EditLinkedIn, ScoresInv
  <2>4. CASE f \notin Flags
    <3>1. PICK v \in LinkedInField[f] : linkedin' = [linkedin EXCEPT ![f] = v]
      BY <2>2
    <3>2. \/ f = "length" /\ v \in {0, 10, 25, 30}
          \/ f = "words" /\ v \in {0, 10, 40, 60, 100}
          \/ f = "skills" /\ v \in {0, 1, 4, 8, 15}
          \/ f = "matched" /\ v \in 0..Keywords
      <4>1. /\ LinkedInField["length"] = {0, 10, 25, 30}
            /\ LinkedInField["words"] = {0, 10, 40, 60, 100}
            /\ LinkedInField["skills"] = {0, 1, 4, 8, 15}
            /\ LinkedInField["matched"] = 0..Keywords
        BY DEF LinkedInField
      <4>2. f \in {"length", "words", "skills", "matched"}
        BY <2>1, <2>4
      <4>3. QED
        BY <3>1, <4>1, <4>2
    <3>3. linkedin' \in LinkedIn
      <4>1. CASE f = "length"
        BY <2>1, <3>1, <3>2, <4>1 DEF LinkedIn
      <4>2. CASE f = "words"
        BY <2>1, <3>1, <3>2, <4>2 DEF LinkedIn
      <4>3. CASE f = "skills"
        BY <2>1, <3>1, <3>2, <4>3 DEF LinkedIn
      <4>4. CASE f = "matched"
        BY <2>1, <3>1, <3>2, <4>4 DEF LinkedIn
      <4>5. QED
        BY <3>2, <4>1, <4>2, <4>3, <4>4
    <3>4. QED
      BY <1>4, <3>3 DEF EditLinkedIn, ScoresInv
  <2>5. QED
    BY <2>1, <2>3, <2>4
<1>5. QED
  BY <1>1, <1>2, <1>3, <1>4 DEF ScoresNext

LEMMA ProfileFields ==
  ASSUME NEW p \in Profile
  PROVE  /\ p.basic \in BOOLEAN
         /\ p.educations \in Nat /\ p.marksheets \in Nat /\ p.skills \in Nat
         /\ p.projects \in Nat /\ p.experiences \in Nat /\ p.accomplishments \in Nat
         /\ p.marksheets <= p.educations
BY ScoresAssumption DEF Profile

LEMMA WhatIsMissing ==
  ASSUME NEW p \in Profile
  PROVE  /\ "basic" \in Missing(p) <=> ~p.basic
         /\ "educations" \in Missing(p) <=> p.educations = 0
         /\ "marksheets" \in Missing(p) <=> p.marksheets = 0
         /\ "skills" \in Missing(p) <=> p.skills < 3
         /\ "projects" \in Missing(p) <=> p.projects = 0
         /\ "experiences" \in Missing(p) <=> p.experiences = 0
         /\ "accomplishments" \in Missing(p) <=> p.accomplishments = 0
         /\ Missing(p) \subseteq {"basic", "educations", "marksheets", "skills", "projects",
                                  "experiences", "accomplishments"}
BY DEF Missing, Worth

LEMMA ThePercentage ==
  ASSUME NEW p \in Profile
  PROVE  Percentage(p) = If(p.basic, 15) + If(p.educations # 0, 20) + If(p.marksheets # 0, 15)
           + If(~(p.skills < 3), 15) + If(p.projects # 0, 15) + If(p.experiences # 0, 10)
           + If(p.accomplishments # 0, 10)
BY ProfileFields, WhatIsMissing DEF Percentage, Earned, Worth, If, Least

LEMMA AdviceOpen == ScoresInv => AdviceIsOpen /\ PromisesAddUp
<1> SUFFICES ASSUME ScoresInv PROVE AdviceIsOpen /\ PromisesAddUp
  OBVIOUS
<1>1. profile \in Profile
  BY DEF ScoresInv
<1>2. AdviceIsOpen
  BY <1>1, ProfileFields, WhatIsMissing, ThePercentage DEF AdviceIsOpen, NextAction, If
<1>3. PromisesAddUp
  BY <1>1, ProfileFields, WhatIsMissing, ThePercentage DEF PromisesAddUp, If, Worth
<1>4. QED
  BY <1>2, <1>3

LEMMA Quotient ==
  ASSUME NEW a \in Int, NEW b \in Nat \ {0}
  PROVE  a \div b \in Int /\ b * (a \div b) <= a /\ a < b * ((a \div b) + 1)
OBVIOUS

LEMMA Scaled ==
  ASSUME NEW b \in Int, NEW x \in Int, NEW y \in Int, 0 < b, b * x < b * y
  PROVE  x < y
<1>1. CASE y <= x
  <2>1. b * y <= b * x
    BY <1>1
  <2>2. QED
    BY <2>1
<1>2. QED
  BY <1>1

\* Rounding m in k to a percentage.
LEMMA RatesArePercentages ==
  ASSUME NEW l \in LinkedIn, NEW rate \in KeywordRates(l)
  PROVE  rate \in 0..100
<1> DEFINE m == l.matched
<1>1. m \in 0..Keywords /\ Keywords \in Nat \ {0}
  BY ScoresAssumption DEF LinkedIn
<1>2. \/ rate = (2 * (100 * m) + Keywords) \div (2 * Keywords)
      \/ rate = -((Keywords - 2 * (100 * m)) \div (2 * Keywords))
  BY DEF KeywordRates, Rounded
<1> HIDE DEF m
<1>3. m \in Int /\ Keywords \in Int /\ 0 <= m /\ m <= Keywords /\ 0 < Keywords
  BY <1>1
<1>4. CASE rate = (2 * (100 * m) + Keywords) \div (2 * Keywords)
  <2>1. /\ rate \in Int
        /\ (2 * Keywords) * rate <= 2 * (100 * m) + Keywords
        /\ 2 * (100 * m) + Keywords < (2 * Keywords) * (rate + 1)
    <3> DEFINE a == 2 * (100 * m) + Keywords
               b == 2 * Keywords
    <3>1. a \in Int /\ b \in Nat \ {0}
      BY <1>3
    <3>2. rate = a \div b
      BY <1>4
    <3> HIDE DEF a, b
    <3>3. rate \in Int /\ b * rate <= a /\ a < b * (rate + 1)
      BY <3>1, <3>2, Quotient
    <3>4. QED
      BY <3>3 DEF a, b
  <2>2. (2 * Keywords) * rate < (2 * Keywords) * 101 /\ 0 < (2 * Keywords) * (rate + 1)
    BY <1>3, <2>1
  <2>3. rate < 101 /\ 0 < rate + 1
    BY <1>3, <2>1, <2>2, Scaled
  <2>4. QED
    BY <2>1, <2>3
<1>5. CASE rate = -((Keywords - 2 * (100 * m)) \div (2 * Keywords))
  <2> DEFINE d == (Keywords - 2 * (100 * m)) \div (2 * Keywords)
  <2>1. /\ d \in Int
        /\ (2 * Keywords) * d <= Keywords - 2 * (100 * m)
        /\ Keywords - 2 * (100 * m) < (2 * Keywords) * (d + 1)
    <3> DEFINE a == Keywords - 2 * (100 * m)
               b == 2 * Keywords
    <3>1. a \in Int /\ b \in Nat \ {0}
      BY <1>3
    <3>2. d = a \div b
      OBVIOUS
    <3> HIDE DEF a, b, d
    <3>3. d \in Int /\ b * d <= a /\ a < b * (d + 1)
      BY <3>1, <3>2, Quotient
    <3>4. QED
      BY <3>3 DEF a, b
  <2> HIDE DEF d
  <2>2. (2 * Keywords) * d < (2 * Keywords) * 1 /\ (2 * Keywords) * (-100) < (2 * Keywords) * (d + 1)
    BY <1>3, <2>1
  <2>3. d < 1 /\ -100 < d + 1
    BY <1>3, <2>1, <2>2, Scaled
  <2>4. QED
    BY <1>5, <2>1, <2>3 DEF d
<1>6. QED
  BY <1>2, <1>4, <1>5

LEMMA TheParts ==
  ASSUME NEW l \in LinkedIn
  PROVE  /\ HeadlineScore(l) \in 0..100 /\ SummaryScore(l) \in 0..100
         /\ SkillsScore(l) \in 0..100 /\ ExperienceScore(l) \in 0..100
         /\ HeadlineScore(l) > 95 => l.title /\ l.length >= 25
         /\ SummaryScore(l) > 95 => l.words >= 60 /\ l.metrics
         /\ SkillsScore(l) > 95 => l.skills >= 8
         /\ ExperienceScore(l) > 90 => l.certifications
         /\ l.title /\ l.length >= 25 => HeadlineScore(l) >= 45
         /\ l.words >= 60 /\ l.metrics => SummaryScore(l) >= 45
         /\ l.skills >= 8 => SkillsScore(l) >= 75
         /\ l.certifications => ExperienceScore(l) >= 30
<1>1. /\ l.length \in {0, 10, 25, 30} /\ l.title \in BOOLEAN /\ l.tags \in BOOLEAN
      /\ l.divider \in BOOLEAN /\ l.words \in {0, 10, 40, 60, 100} /\ l.metrics \in BOOLEAN
      /\ l.contact \in BOOLEAN /\ l.formatting \in BOOLEAN /\ l.skills \in {0, 1, 4, 8, 15}
      /\ l.experiences \in BOOLEAN /\ l.certifications \in BOOLEAN /\ l.educations \in BOOLEAN
  BY DEF LinkedIn
<1>2. /\ HeadlineScore(l) \in 0..100
      /\ HeadlineScore(l) > 95 => l.title /\ l.length >= 25
      /\ l.title /\ l.length >= 25 => HeadlineScore(l) >= 45
  BY <1>1 DEF HeadlineScore, Least, If
<1>3. /\ SummaryScore(l) \in 0..100
      /\ SummaryScore(l) > 95 => l.words >= 60 /\ l.metrics
      /\ l.words >= 60 /\ l.metrics => SummaryScore(l) >= 45
  BY <1>1 DEF SummaryScore, Least, If
<1>4. /\ SkillsScore(l) \in 0..100
      /\ SkillsScore(l) > 95 => l.skills >= 8
      /\ l.skills >= 8 => SkillsScore(l) >= 75
  BY <1>1 DEF SkillsScore, If
<1>5. /\ ExperienceScore(l) \in 0..100
      /\ ExperienceScore(l) > 90 => l.certifications
      /\ l.certifications => ExperienceScore(l) >= 30
  BY <1>1 DEF ExperienceScore, Least, If
<1>6. QED
  BY <1>2, <1>3, <1>4, <1>5

LEMMA AuditConsistent == ScoresInv => AuditIsConsistent
<1> SUFFICES ASSUME ScoresInv, NEW score \in OverallScores(linkedin)
             PROVE  /\ score \in 0..100
                    /\ score = 100 => AuditAdvice(linkedin) = {}
                    /\ AuditAdvice(linkedin) = {} => score >= 40
  BY DEF AuditIsConsistent
<1> DEFINE h == HeadlineScore(linkedin)
           s == SummaryScore(linkedin)
           k == SkillsScore(linkedin)
           e == ExperienceScore(linkedin)
<1>1. linkedin \in LinkedIn
  BY DEF ScoresInv
<1>2. PICK rate \in KeywordRates(linkedin) : score \in Rounded(WeightedSum(linkedin, rate), 100)
  BY DEF OverallScores
<1>3. /\ h \in 0..100 /\ s \in 0..100 /\ k \in 0..100 /\ e \in 0..100 /\ rate \in 0..100
  BY <1>1, TheParts, RatesArePercentages
<1>4. WeightedSum(linkedin, rate) = 25 * h + 25 * s + 20 * k + 20 * rate + 10 * e
  BY DEF WeightedSum
<1>5. AuditAdvice(linkedin) = {} <=>
        /\ linkedin.title /\ linkedin.length >= 25
        /\ ~(linkedin.skills < 8)
        /\ linkedin.words >= 60 /\ linkedin.metrics
        /\ linkedin.certifications
  BY DEF AuditAdvice
<1>6. linkedin.skills \in Int
  BY <1>1 DEF LinkedIn
<1>7. /\ h > 95 /\ s > 95 /\ k > 95 /\ e > 90 => AuditAdvice(linkedin) = {}
      /\ AuditAdvice(linkedin) = {} => h >= 45 /\ s >= 45 /\ k >= 75 /\ e >= 30
  BY <1>1, <1>5, <1>6, TheParts
<1> HIDE DEF h, s, k, e
<1> DEFINE w == WeightedSum(linkedin, rate)
<1>8. /\ w \in 0..10000
      /\ w >= 9950 => h > 95 /\ s > 95 /\ k > 95 /\ e > 90
      /\ h >= 45 /\ s >= 45 /\ k >= 75 /\ e >= 30 => w >= 4000
  <2> HIDE DEF w
  <2>1. w = 25 * h + 25 * s + 20 * k + 20 * rate + 10 * e
    BY <1>4 DEF w
  <2>2. w \in 0..10000
    <3>1. /\ h \in Int /\ 0 <= h /\ h <= 100 /\ s \in Int /\ 0 <= s /\ s <= 100
          /\ k \in Int /\ 0 <= k /\ k <= 100 /\ e \in Int /\ 0 <= e /\ e <= 100
          /\ rate \in Int /\ 0 <= rate /\ rate <= 100
      BY <1>3
    <3>2. w \in Int /\ 0 <= w /\ w <= 10000
      BY <2>1, <3>1
    <3>3. QED
      BY <3>2
  <2>3. w >= 9950 => h > 95 /\ s > 95
    BY <1>3, <2>1
  <2>4. w >= 9950 => k > 95 /\ e > 90
    BY <1>3, <2>1
  <2>5. h >= 45 /\ s >= 45 /\ k >= 75 /\ e >= 30 => w >= 4000
    BY <1>3, <2>1
  <2>6. QED
    BY <2>2, <2>3, <2>4, <2>5
<1>9. score \in Rounded(w, 100)
  BY <1>2
<1> HIDE DEF w
<1>10. /\ score \in 0..100
       /\ score = 100 => w >= 9950
       /\ w >= 4000 => score >= 40
  <2>1. w \in 0..10000
    BY <1>8
  <2>2. QED
    BY <1>9, <2>1 DEF Rounded
<1>11. QED
  BY <1>7, <1>8, <1>10

------------------------------------------------------------------------------
LEMMA MoreOfAProfile ==
  ASSUME NEW p \in Profile, NEW r \in Profile, AtLeastProfile(r, p)
  PROVE  Percentage(r) >= Percentage(p)
<1>1. /\ p.basic => r.basic
      /\ r.educations >= p.educations /\ r.marksheets >= p.marksheets
      /\ r.skills >= p.skills /\ r.projects >= p.projects
      /\ r.experiences >= p.experiences /\ r.accomplishments >= p.accomplishments
  BY DEF AtLeastProfile, Worth
<1>2. QED
  BY <1>1, ProfileFields, ThePercentage DEF If

LEMMA MoreOfAResume ==
  ASSUME NEW c \in Content, NEW d \in Content, AtLeastContent(d, c)
  PROVE  RuleScore(d) >= RuleScore(c)
<1>1. /\ c.summary \in BOOLEAN /\ c.education \in Nat /\ c.experience \in Nat
      /\ c.projects \in Nat /\ c.skills \in Nat
      /\ d.summary \in BOOLEAN /\ d.education \in Nat /\ d.experience \in Nat
      /\ d.projects \in Nat /\ d.skills \in Nat
  BY ScoresAssumption DEF Content
<1>2. /\ c.summary => d.summary
      /\ d.education >= c.education /\ d.experience >= c.experience
      /\ d.projects >= c.projects /\ d.skills >= c.skills
  BY DEF AtLeastContent, Content
<1>3. QED
  BY <1>1, <1>2 DEF RuleScore, If, Least

LEMMA ScoresInvInit == ScoresInit => ScoresInv
<1> SUFFICES ASSUME ScoresInit PROVE ScoresInv
  OBVIOUS
<1>1. 0 \in Counts /\ 0 \in SkillCounts /\ Keywords \in Nat
  BY ScoresAssumption
<1>2. EmptyProfile \in Profile
  BY <1>1 DEF EmptyProfile, Profile
<1>3. EmptyContent \in Content
  BY <1>1 DEF EmptyContent, Content
<1>4. EmptyLinkedIn \in LinkedIn
  BY <1>1 DEF EmptyLinkedIn, LinkedIn
<1>5. QED
  BY <1>2, <1>3, <1>4 DEF ScoresInit, ScoresInv

\* What the completion of a profile and the audit of LinkedIn advise is still to
\* be done, and pays what they say, whatever the lists and the keywords.
THEOREM AdviceCanBeTaken == ScoresSpec => []AdviceIsHonest
<1>1. ScoresInv /\ [ScoresNext]_scoresVars => ScoresInv'
  BY ScoresInvStep
<1>2. ScoresInv => AdviceIsHonest
  BY AdviceOpen, AuditConsistent DEF AdviceIsHonest
<1>3. QED
  BY ScoresInvInit, <1>1, <1>2, PTL DEF ScoresSpec

LEMMA MoreOfBoth ==
  ASSUME ScoresInv, ScoresInv'
  PROVE  /\ AtLeastProfile(profile', profile) => Percentage(profile') >= Percentage(profile)
         /\ AtLeastContent(content', content) => RuleScore(content') >= RuleScore(content)
BY MoreOfAProfile, MoreOfAResume DEF ScoresInv

\* Neither calculate_completion nor the rules of the ATS score take points away
\* from whoever adds to a profile or to a resume.
THEOREM NobodyPaysForMore == ScoresSpec => MoreNeverCosts
<1>1. ScoresInv /\ [ScoresNext]_scoresVars => ScoresInv'
  BY ScoresInvStep
<1>2. ScoresInv /\ ScoresInv' =>
        [/\ AtLeastProfile(profile', profile) => Percentage(profile') >= Percentage(profile)
         /\ AtLeastContent(content', content) => RuleScore(content') >= RuleScore(content)
        ]_scoresVars
  BY MoreOfBoth
<1>3. QED
  BY ScoresInvInit, <1>1, <1>2, PTL DEF ScoresSpec, MoreNeverCosts
==============================================================================
