------------------------------ MODULE Tenants ------------------------------
(***************************************************************************)
(* The institutions that share the deployment: provisioning one with its   *)
(* administrator, configuring it from the super administrator's console,   *)
(* from its own console or from an imported file, suspending it, and the   *)
(* row of the placement policy.                                            *)
(*                                                                         *)
(* A handler loads a row, decides, and commits; the ORM sends the columns  *)
(* that differ from what it loaded, and a JSON column also when it is      *)
(* flagged as modified.  Settings are a function of their keys, a key      *)
(* being an entry of a section.  What a payload may leave out is a set of  *)
(* at most one value.                                                      *)
(*                                                                         *)
(* Provisioning inserts into the `users` of Accounts; what the two do      *)
(* together is OfficeSpec.                                                 *)
(*                                                                         *)
(* `ordered` is history: the settings and the activity that the            *)
(* acknowledged calls have asked for, the latest last.                     *)
(***************************************************************************)
EXTENDS Accounts, FiniteSets

CONSTANTS Colleges, \* ids, each used once
          Slugs, Codes,
          SettingKeys, SettingValues, NoSetting,
          DefaultSettings, \* the settings of a college that is given none
          Policies, \* ids of policy rows, each used once
          Rules, DefaultRules \* what a policy may say

VARIABLES
  colleges, \* the rows of `colleges`
  staff,    \* of each college, its administrators in `users`
  policies, \* the rows of placement_policies
  console,  \* requests in flight
  ordered

tenantVars == <<colleges, staff, policies, console, ordered>>

Maybe(S) == {{}} \cup {{x} : x \in S}
Settings == [SettingKeys -> SettingValues \cup {NoSetting}]
Merge(s, t) == [k \in SettingKeys |-> IF t[k] = NoSetting THEN s[k] ELSE t[k]]
NoCollege == [is_active |-> "unused"]
College == [slug: Slugs, code: Codes, is_active: BOOLEAN, settings: Settings]
NoPolicy == "none"
Blank == [k \in SettingKeys |-> NoSetting]

ASSUME TenantsAssumption ==
  DefaultSettings \in Settings /\ DefaultRules \in Rules /\ NoPolicy \notin Rules

TenantsTypeOK ==
  /\ colleges \in [Colleges -> College \cup {NoCollege}]
  /\ staff \in [Colleges -> SUBSET Accounts]
  /\ policies \in [Policies -> Rules \cup {NoPolicy}]
  /\ ordered \in [Colleges -> [is_active: BOOLEAN, settings: Settings]]
  /\ console \in [Requests -> {Free}
       \cup [op: {"provision"}, slug: Slugs, code: Codes, settings: Settings,
             admin: Emails, password: Passwords]
       \cup [op: {"configure"}, id: Colleges, had: College, codes: Maybe(Codes),
             activity: Maybe(BOOLEAN), given: Maybe(Settings)]
       \cup [op: {"settle", "import"}, id: Colleges, had: College, settings: Settings]
       \cup [op: {"toggle"}, id: Colleges, had: College]
       \cup [op: {"policy"}, row: Policies, rule: Rules \cup {NoPolicy}, rules: Maybe(Rules)]]

TenantsInit ==
  /\ colleges = [c \in Colleges |-> NoCollege]
  /\ staff = [c \in Colleges |-> {}]
  /\ policies = [p \in Policies |-> NoPolicy]
  /\ console = NoRequests
  /\ ordered = [c \in Colleges |-> [is_active |-> TRUE, settings |-> DefaultSettings]]

Provisioned == {c \in Colleges : colleges[c] # NoCollege}
Ask(q, call) == console[q] = Free /\ console' = [console EXCEPT ![q] = call]
Answer(q) == console' = [console EXCEPT ![q] = Free]

------------------------------------------------------------------------------
(* The super administrator's console *)

\* An administrator is verified from the start, and gets neither settings nor a
\* token.
Administrator(e, p) ==
  [email |-> e, password |-> p, is_verified |-> TRUE, is_onboarded |-> TRUE,
   settings |-> FALSE, verification |-> "none"]

\* create_college looks for the slug, the code and the administrator's address,
\* and takes the default settings when it is given none, or none that say anything.
StartProvision(q, slug, code, admin, password, given) ==
  /\ \A d \in Provisioned : colleges[d].slug # slug /\ colleges[d].code # code
  /\ Holders(admin) = {}
  /\ \E s \in IF given \subseteq {Blank} THEN {DefaultSettings} ELSE given :
       Ask(q, [op |-> "provision", slug |-> slug, code |-> code, settings |-> s,
               admin |-> admin, password |-> password])
  /\ UNCHANGED <<users, colleges, staff, policies, ordered>>

\* ... then inserts the college, its slug and its code unique (500), and the
\* administrator, COMMIT.
CommitProvision(q) ==
  LET call == console[q] IN
  /\ call.op = "provision"
  /\ \A d \in Provisioned : colleges[d].slug # call.slug /\ colleges[d].code # call.code
  /\ \E c \in Colleges \ Provisioned, a \in Accounts :
       /\ InsertUser(a, Administrator(call.admin, call.password))
       /\ colleges' = [colleges EXCEPT ![c] =
            [slug |-> call.slug, code |-> call.code, is_active |-> TRUE,
             settings |-> call.settings]]
       /\ staff' = [staff EXCEPT ![c] = {a}]
       /\ ordered' = [ordered EXCEPT ![c] = [is_active |-> TRUE, settings |-> call.settings]]
  /\ Answer(q)
  /\ UNCHANGED policies

\* update_college, toggle_college_status, import_college_config and
\* update_current_college_settings load the college, ...
StartConfigure(q, c, codes, activity, given) ==
  /\ c \in Provisioned
  /\ Ask(q, [op |-> "configure", id |-> c, had |-> colleges[c], codes |-> codes,
             activity |-> activity, given |-> given])
  /\ UNCHANGED <<users, colleges, staff, policies, ordered>>

StartToggle(q, c) ==
  /\ c \in Provisioned
  /\ Ask(q, [op |-> "toggle", id |-> c, had |-> colleges[c]])
  /\ UNCHANGED <<users, colleges, staff, policies, ordered>>

StartImport(q, c, settings) ==
  /\ c \in Provisioned
  /\ Ask(q, [op |-> "import", id |-> c, had |-> colleges[c], settings |-> settings])
  /\ UNCHANGED <<users, colleges, staff, policies, ordered>>

StartSettle(q, c, settings) ==
  /\ c \in Provisioned
  /\ Ask(q, [op |-> "settle", id |-> c, had |-> colleges[c], settings |-> settings])
  /\ UNCHANGED <<users, colleges, staff, policies, ordered>>

\* ... then write what was asked: the code (unique: 500) and the activity where
\* they differ from what was loaded, the settings if any were given.
CommitConfigure(q) ==
  LET call == console[q]
      c == call.id
      Code == call.codes \ {call.had.code}
      Active == call.activity \ {call.had.is_active}
  IN
  /\ call.op = "configure"
  /\ \A d \in Provisioned \ {c} : colleges[d].code \notin Code
  /\ colleges' = [colleges EXCEPT
       ![c].code = IF Code = {} THEN @ ELSE CHOOSE x \in Code : TRUE,
       ![c].is_active = IF Active = {} THEN @ ELSE CHOOSE x \in Active : TRUE,
       ![c].settings = IF call.given = {} THEN @ ELSE CHOOSE s \in call.given : TRUE]
  /\ ordered' = [ordered EXCEPT
       ![c].is_active = IF call.activity = {} THEN @ ELSE CHOOSE x \in call.activity : TRUE,
       ![c].settings = IF call.given = {} THEN @ ELSE CHOOSE s \in call.given : TRUE]
  /\ Answer(q)
  /\ UNCHANGED <<users, staff, policies>>

CommitToggle(q) ==
  LET call == console[q] IN
  /\ call.op = "toggle"
  /\ colleges' = [colleges EXCEPT ![call.id].is_active = ~call.had.is_active]
  /\ ordered' = [ordered EXCEPT ![call.id].is_active = ~@]
  /\ Answer(q)
  /\ UNCHANGED <<users, staff, policies>>

CommitImport_Replaces(q) ==
  LET call == console[q] IN
  /\ call.op = "import"
  /\ colleges' = [colleges EXCEPT ![call.id].settings = call.settings]
  /\ ordered' = [ordered EXCEPT ![call.id].settings = Merge(@, call.settings)]
  /\ Answer(q)
  /\ UNCHANGED <<users, staff, policies>>

\* The file's entries over those that were loaded.
CommitImport(q) ==
  LET call == console[q] IN
  /\ call.op = "import"
  /\ colleges' = [colleges EXCEPT ![call.id].settings = Merge(call.had.settings, call.settings)]
  /\ ordered' = [ordered EXCEPT ![call.id].settings = Merge(@, call.settings)]
  /\ Answer(q)
  /\ UNCHANGED <<users, staff, policies>>

\* The college's own console does not flag the column.
CommitSettle(q) ==
  LET call == console[q] IN
  /\ call.op = "settle"
  /\ colleges' = [colleges EXCEPT ![call.id].settings =
       IF call.settings = call.had.settings THEN @ ELSE call.settings]
  /\ ordered' = [ordered EXCEPT ![call.id].settings = call.settings]
  /\ Answer(q)
  /\ UNCHANGED <<users, staff, policies>>

------------------------------------------------------------------------------
(* The placement policy *)

\* get_placement_policy and update_placement_policy take the first row there is,
\* or prepare one; the get brings no rules.
StartPolicy(q, p, rules) ==
  /\ policies[p] = NoPolicy => \A r \in Policies : policies[r] = NoPolicy
  /\ Ask(q, [op |-> "policy", row |-> p, rule |-> policies[p], rules |-> rules])
  /\ UNCHANGED <<users, colleges, staff, policies, ordered>>

\* No constraint keeps a second row out: a fresh id never meets another.
CommitPolicy(q) ==
  LET call == console[q]
      Changes == call.rules \ {call.rule}
      New == CHOOSE r \in Changes : TRUE
  IN
  /\ call.op = "policy"
  /\ \/ /\ call.rule # NoPolicy
        /\ policies' = [policies EXCEPT ![call.row] = IF Changes = {} THEN @ ELSE New]
     \/ /\ call.rule = NoPolicy
        /\ \E p \in Policies :
             /\ policies[p] = NoPolicy
             /\ policies' = [policies EXCEPT ![p] = IF Changes = {} THEN DefaultRules ELSE New]
  /\ Answer(q)
  /\ UNCHANGED <<users, colleges, staff, ordered>>

\* A constraint, a lost connection, a crash.
ConsoleFails(q) ==
  /\ console[q] # Free
  /\ Answer(q)
  /\ UNCHANGED <<users, colleges, staff, policies, ordered>>

TenantsNext ==
  \/ \E q \in Requests, slug \in Slugs, code \in Codes, admin \in Emails, password \in Passwords,
        given \in Maybe(Settings) : StartProvision(q, slug, code, admin, password, given)
  \/ \E q \in Requests, c \in Colleges :
       \/ \E codes \in Maybe(Codes), activity \in Maybe(BOOLEAN), given \in Maybe(Settings) :
            StartConfigure(q, c, codes, activity, given)
       \/ \E s \in Settings : StartImport(q, c, s) \/ StartSettle(q, c, s)
       \/ StartToggle(q, c)
  \/ \E q \in Requests :
       \/ \E p \in Policies, rules \in Maybe(Rules) : StartPolicy(q, p, rules)
       \/ CommitProvision(q) \/ CommitConfigure(q) \/ CommitToggle(q)
       \/ CommitImport(q) \/ CommitSettle(q) \/ CommitPolicy(q) \/ ConsoleFails(q)

------------------------------------------------------------------------------
(* The accounts and the institutions *)

officeVars == <<accountVars, tenantVars>>

OfficeInit == AccountsInit /\ TenantsInit

OfficeNext ==
  \/ AccountsNext /\ UNCHANGED tenantVars
  \/ TenantsNext /\ UNCHANGED <<letters, audited, reception, resets>>

OfficeSpec == OfficeInit /\ [][OfficeNext]_officeVars
------------------------------------------------------------------------------

\* "Bulk student marksheet verification with structured audit logging"
\* (README.md:74): whoever is verified used up a token, is named in the audit, or
\* was installed with a college.
VerifiedForAReason ==
  \A a \in Registered :
    users[a].is_verified =>
      users[a].verification = "used" \/ a \in audited \/ \E c \in Provisioned : a \in staff[c]

\* However calls overlap, no two colleges share a slug or a code, and each has
\* its administrator, an account that administers no other.
TenantsAreDistinct ==
  /\ \A c, d \in Provisioned :
       colleges[c].slug = colleges[d].slug \/ colleges[c].code = colleges[d].code => c = d
  /\ \A c \in Provisioned : staff[c] # {} /\ staff[c] \subseteq Registered
  /\ \A c, d \in Colleges : c # d => staff[c] \cap staff[d] = {}

\* With one call at a time a college is configured as the acknowledged calls of
\* all three consoles have ordered, although a console sends only differences.
ConfigurationStands ==
  \A c \in Provisioned :
    /\ colleges[c].settings = ordered[c].settings
    /\ colleges[c].is_active = ordered[c].is_active

\* With one call at a time there is one policy, although nothing constrains it.
OnePolicyRow == Cardinality({p \in Policies : policies[p] # NoPolicy}) <= 1
=============================================================================
