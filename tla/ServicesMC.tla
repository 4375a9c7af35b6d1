----------------------------- MODULE ServicesMC -----------------------------
(***************************************************************************)
(* The profile, the accounts, the institutions and the two guarded         *)
(* services, on small instances.  Only accounts and institutions share     *)
(* rows, so one run takes the others one by one: `part` names what runs,   *)
(* and with `serial` at most one request of it is between its read and its *)
(* write.  Both are chosen once.                                           *)
(***************************************************************************)
EXTENDS ProfileSections, ProfileEdits, Scores, Accounts, Tenants, RateLimit, LatexCompile

VARIABLES part, serial

CONSTANTS x1, x2, x3, y1, y2, set

NameOfMC == [k \in Keys |-> IF k = x3 THEN "n2" ELSE "n1"]
CapMC == [s \in Sections |-> IF s = "skills" THEN 2 ELSE 1]
DefaultSettingsMC == [k \in SettingKeys |-> IF k = y1 THEN set ELSE NoSetting]

profileVars == <<sectionVars, editVars, scoresVars>>
guardVars == <<limitVars, latexVars>>
servicesVars == <<profileVars, officeVars, guardVars, part, serial>>

\* The kinds of edits, with their requests.
EditKinds == {"answers", "duties", "settings"}
Kind == [answers |-> {"patch", "audit"}, duties |-> {"replace"},
         settings |-> {"get settings", "put settings"}]

Init ==
  /\ SectionsInit /\ EditsInit /\ ScoresInit
  /\ OfficeInit
  /\ LimitInit /\ LatexInit
  /\ part \in Sections \cup EditKinds
       \cup {"completion", "rules", "audit"}
       \cup {"accounts", "tenants", "policy", "limit", "latex"}
  /\ serial \in BOOLEAN
  /\ serial => part \in EditKinds \cup {"accounts", "tenants", "policy"}
  /\ part # "settings" => settings = Defaults
  /\ part # "latex" => source = "good" /\ configured

\* One section or one kind of edit at a time.
ProfileSteps ==
  \/ /\ part \in Sections /\ SectionsNext
     /\ \A q \in Requests : shelf'[q] # Free => shelf'[q].section = part
     /\ UNCHANGED <<editVars, scoresVars>>
  \/ /\ part \in EditKinds /\ EditsNext
     /\ serial => NoOverlap(edit')
     /\ \A q \in Requests : edit'[q] # Free => edit'[q].op \in Kind[part]
     /\ UNCHANGED <<sectionVars, scoresVars>>
  \/ /\ part \in {"completion", "rules", "audit"} /\ ScoresNext
     /\ part # "completion" => profile' = profile
     /\ part # "rules" => content' = content
     /\ part # "audit" => linkedin' = linkedin
     /\ UNCHANGED <<sectionVars, editVars>>

\* The first of two colleges.
First == [slug |-> "s1", code |-> "d1"]
IsFirst(r) == r.slug = First.slug /\ r.code = First.code

\* Letters when requests do not overlap; otherwise registrations, verifications
\* and the provisioning of a college.  Settings and toggles of one college when
\* requests do not overlap; otherwise what identifies a college.
OfficeSteps ==
  /\ OfficeNext
  /\ \/ /\ part = "accounts"
        /\ IF serial
           THEN NoOverlap(reception') /\ UNCHANGED tenantVars
           ELSE /\ letters' = letters
                /\ \A q \in Requests : /\ reception'[q] = Free \/ console'[q] = Free
                                       /\ console'[q].op \in {"free", "provision"}
                /\ \A q \in Requests : console'[q] # Free =>
                     IsFirst(console'[q]) /\ console'[q].settings = DefaultSettings
     \/ /\ part \in {"tenants", "policy"} /\ UNCHANGED <<letters, audited, reception, resets>>
        /\ \A q \in Requests : console'[q] # Free => (console'[q].op = "policy" <=> part = "policy")
        /\ IF serial
           THEN NoOverlap(console') /\ \A c \in Provisioned' : IsFirst(colleges'[c])
           ELSE \A q \in Requests :
                /\ console'[q].op \in {"free", "provision", "configure", "policy"}
                /\ console'[q].op = "provision" => console'[q].settings = DefaultSettings
                /\ console'[q].op = "configure" => console'[q].given = {} /\ console'[q].activity = {}

GuardSteps ==
  \/ part = "limit" /\ LimitNext /\ UNCHANGED latexVars
  \/ part = "latex" /\ LatexNext /\ UNCHANGED limitVars

\* A headline's and a summary's tests are tried in one order only.
InOrder ==
  /\ linkedin'.formatting => linkedin'.contact
  /\ linkedin'.contact => linkedin'.metrics
  /\ linkedin'.experiences => linkedin'.educations
  /\ linkedin'.divider => linkedin'.tags

Next ==
  /\ \/ ProfileSteps /\ InOrder /\ UNCHANGED <<officeVars, guardVars>>
     \/ OfficeSteps /\ UNCHANGED <<profileVars, guardVars>>
     \/ GuardSteps /\ UNCHANGED <<profileVars, officeVars>>
  /\ UNCHANGED <<part, serial>>

Spec ==
  /\ Init /\ [][Next]_servicesVars
  /\ part = "limit" => LimitFairness
------------------------------------------------------------------------------

\* Every variable has its type.
ServicesTypeOK ==
  /\ SectionsTypeOK /\ EditsTypeOK
  /\ AccountsTypeOK /\ TenantsTypeOK
  /\ LimitTypeOK /\ LatexTypeOK

\* However registrations, new skills and new colleges overlap, an address has one
\* account, a profile one skill of a name, and a slug, a code and an administrator
\* one college; none of them is left half made, and nobody is verified without a
\* token used up, an audit row or a college.
IdentitiesAreSound ==
  OneAccountPerAddress /\ VerifiedForAReason /\ OneSkillOfAName /\ TenantsAreDistinct

\* When requests do not overlap, what was acknowledged stands: edits until the
\* next of their kind, a college as it was configured last from any console; a
\* letter sets one password, and there is one policy.
AnswersStandWhenSerial ==
  serial => EditsStand /\ ConfigurationStands /\ LettersWorkOnce /\ OnePolicyRow
==============================================================================
