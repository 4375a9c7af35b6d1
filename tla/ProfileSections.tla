--------------------------- MODULE ProfileSections ---------------------------
(***************************************************************************)
(* The sections of a student's profile: seven tables with the same four    *)
(* operations, each with a cap that is checked before the insert.  A       *)
(* request reads in one step and commits in another; the columns of a row  *)
(* are written by the last request and are left out.                       *)
(***************************************************************************)
EXTENDS Requests, FiniteSets

CONSTANTS Keys,   \* ids of rows, each used once
          NameOf, \* the name of the skill with that id
          Cap     \* MAX_EDUCATIONS, MAX_EXPERIENCES, ...

Sections == {"educations", "experiences", "skills", "projects", "accomplishments",
             "guardians", "social_links"}

ASSUME SectionsAssumption ==
  /\ Cap \in [Sections -> Nat \ {0}]
  /\ IsFiniteSet(Keys) /\ IsFiniteSet(Requests)

VARIABLES
  entries, \* the rows
  shelf    \* requests in flight

sectionVars == <<entries, shelf>>

Entry == {"unused", "there", "gone"}
SectionRequest == [op: {"create", "update", "delete"}, section: Sections, key: Keys]

SectionsTypeOK ==
  /\ entries \in [Sections -> [Keys -> Entry]]
  /\ shelf \in [Requests -> {Free} \cup SectionRequest]

SectionsInit ==
  /\ entries = [s \in Sections |-> [k \in Keys |-> "unused"]]
  /\ shelf = NoRequests

\* What the lists of the sections select.
There(s) == {k \in Keys : entries[s][k] = "there"}
Educations == There("educations")
Experiences == There("experiences")
Skills == There("skills")
Projects == There("projects")
Accomplishments == There("accomplishments")
Guardians == There("guardians")
SocialLinks == There("social_links")

Serving(op, s) == {q \in Requests : shelf[q] # Free /\ shelf[q].op = op /\ shelf[q].section = s}
Drawn(s) == {shelf[q].key : q \in Serving("create", s)}
NewKeys(s) == {k \in Keys : entries[s][k] = "unused"} \ Drawn(s)

------------------------------------------------------------------------------
(* The steps of every section *)

Begin(q, op, s, k) ==
  /\ shelf[q] = Free
  /\ shelf' = [shelf EXCEPT ![q] = [op |-> op, section |-> s, key |-> k]]
  /\ UNCHANGED entries

Becomes(q, entry) ==
  /\ entries' = [entries EXCEPT ![shelf[q].section][shelf[q].key] = entry]
  /\ shelf' = [shelf EXCEPT ![q] = Free]

StartCreateEntry_OffByOne(q, s) ==
  /\ Cardinality(There(s)) <= Cap[s]
  /\ \E k \in NewKeys(s) : Begin(q, "create", s, k)

\* SELECT count, against the cap; the id is drawn by the ORM.
StartCreateEntry(q, s) ==
  /\ Cardinality(There(s)) < Cap[s]
  /\ \E k \in NewKeys(s) : Begin(q, "create", s, k)

\* The row is read, and must be there.
StartUpdateEntry(q, s) == \E k \in There(s) : Begin(q, "update", s, k)
StartDeleteEntry(q, s) == \E k \in There(s) : Begin(q, "delete", s, k)

Namesakes(k) == {l \in Skills : NameOf[l] = NameOf[k]}

\* INSERT, COMMIT; user_skills is unique in (user_id, name).
CommitCreateEntry(q) ==
  /\ shelf[q] # Free /\ shelf[q].op = "create"
  /\ shelf[q].section = "skills" => Namesakes(shelf[q].key) = {}
  /\ Becomes(q, "there")

CommitUpdate_Merges(q) ==
  /\ shelf[q] # Free /\ shelf[q].op = "update"
  /\ Becomes(q, "there")

\* UPDATE, COMMIT; of a row that is gone, the session raises StaleDataError.
CommitUpdateEntry(q) ==
  /\ shelf[q] # Free /\ shelf[q].op = "update"
  /\ shelf[q].key \in There(shelf[q].section)
  /\ Becomes(q, "there")

\* DELETE, COMMIT; of a row that is gone, the session only warns.
CommitDeleteEntry(q) ==
  /\ shelf[q] # Free /\ shelf[q].op = "delete"
  /\ Becomes(q, "gone")

\* A constraint, a stale row, a lost connection, a crash.
ShelfFails(q) ==
  /\ shelf[q] # Free
  /\ shelf' = [shelf EXCEPT ![q] = Free]
  /\ UNCHANGED entries

------------------------------------------------------------------------------
(* The operations of ProfileService *)

CreateEducation(q) == StartCreateEntry(q, "educations")
UpdateEducation(q) == StartUpdateEntry(q, "educations")
DeleteEducation(q) == StartDeleteEntry(q, "educations")

CreateExperience(q) == StartCreateEntry(q, "experiences")
UpdateExperience(q) == StartUpdateEntry(q, "experiences")
DeleteExperience(q) == StartDeleteEntry(q, "experiences")

\* create_skill looks for the name after the count: 409.
CreateSkill(q) ==
  StartCreateEntry(q, "skills") /\ Namesakes(shelf'[q].key) = {}
UpdateSkill(q) == StartUpdateEntry(q, "skills")
DeleteSkill(q) == StartDeleteEntry(q, "skills")

CreateProject(q) == StartCreateEntry(q, "projects")
UpdateProject(q) == StartUpdateEntry(q, "projects")
DeleteProject(q) == StartDeleteEntry(q, "projects")

CreateAccomplishment(q) == StartCreateEntry(q, "accomplishments")
UpdateAccomplishment(q) == StartUpdateEntry(q, "accomplishments")
DeleteAccomplishment(q) == StartDeleteEntry(q, "accomplishments")

CreateGuardian(q) == StartCreateEntry(q, "guardians")
UpdateGuardian(q) == StartUpdateEntry(q, "guardians")
DeleteGuardian(q) == StartDeleteEntry(q, "guardians")

\* A social link cannot be updated.
CreateSocialLink(q) == StartCreateEntry(q, "social_links")
DeleteSocialLink(q) == StartDeleteEntry(q, "social_links")

\* confirm_upload, once the file was found in the storage, sets a column of an
\* education, an experience or an accomplishment.
ConfirmUpload(q) ==
  \E s \in {"educations", "experiences", "accomplishments"} : StartUpdateEntry(q, s)

SectionsNext ==
  \E q \in Requests :
    \/ CreateEducation(q) \/ UpdateEducation(q) \/ DeleteEducation(q)
    \/ CreateExperience(q) \/ UpdateExperience(q) \/ DeleteExperience(q)
    \/ CreateSkill(q) \/ UpdateSkill(q) \/ DeleteSkill(q)
    \/ CreateProject(q) \/ UpdateProject(q) \/ DeleteProject(q)
    \/ CreateAccomplishment(q) \/ UpdateAccomplishment(q) \/ DeleteAccomplishment(q)
    \/ CreateGuardian(q) \/ UpdateGuardian(q) \/ DeleteGuardian(q)
    \/ CreateSocialLink(q) \/ DeleteSocialLink(q) \/ ConfirmUpload(q)
    \/ CommitCreateEntry(q) \/ CommitUpdateEntry(q) \/ CommitDeleteEntry(q)
    \/ ShelfFails(q)

SectionsSpec == SectionsInit /\ [][SectionsNext]_sectionVars
------------------------------------------------------------------------------

\* "Resource caps to prevent unbounded table growth" (profile_service.py:31):
\* requests that overlap pass a cap by less than their number.
CapsHold ==
  \A s \in Sections :
    Cardinality(There(s)) + Cardinality(Serving("create", s)) < Cap[s] + Cardinality(Requests)

\* Whatever overlaps, a row that was deleted never comes back.
GoneStaysGone ==
  [][\A s \in Sections, k \in Keys : entries[s][k] = "gone" => entries'[s][k] = "gone"]_sectionVars

\* No skill is listed twice, whatever overlaps: create_skill looks for the name,
\* and the constraint settles what two requests that both looked would insert.
OneSkillOfAName == \A k, l \in Skills : NameOf[k] = NameOf[l] => k = l
==============================================================================
