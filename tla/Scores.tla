------------------------------- MODULE Scores -------------------------------
(***************************************************************************)
(* The three scores computed by rules: the completion of a profile, the    *)
(* ATS score of a resume when no model is asked, and the audit of a        *)
(* LinkedIn profile.  Texts count by the tests the code makes on them,     *)
(* lists by their length.  Each is computed afresh from what is there, so  *)
(* the state is the input, and every edit of it is a step.                 *)
(***************************************************************************)
EXTENDS Integers

CONSTANTS Counts,      \* the lengths of lists other than of skills
          SkillCounts, \* the lengths of lists of skills
          Keywords     \* how many keywords a role has

ASSUME ScoresAssumption ==
  /\ Counts \subseteq Nat /\ SkillCounts \subseteq Nat
  /\ 0 \in Counts \cap SkillCounts
  /\ Keywords \in Nat \ {0}

VARIABLES profile, content, linkedin

scoresVars == <<profile, content, linkedin>>

If(holds, points) == IF holds THEN points ELSE 0
Least(a, b) == IF a < b THEN a ELSE b

------------------------------------------------------------------------------
(* ProfileService.calculate_completion *)

\* `marksheets` counts the education rows that have one.
Profile ==
  {p \in [basic: BOOLEAN, educations: Counts, marksheets: Counts, skills: SkillCounts,
          projects: Counts, experiences: Counts, accomplishments: Counts] :
     p.marksheets <= p.educations}

Worth == [basic |-> 15, educations |-> 20, marksheets |-> 15, skills |-> 15,
          projects |-> 15, experiences |-> 10, accomplishments |-> 10]

Missing(p) ==
  {s \in DOMAIN Worth : \/ s = "basic" /\ ~p.basic
                        \/ s = "skills" /\ p.skills < 3
                        \/ s \notin {"basic", "skills"} /\ p[s] = 0}

Earned(p, s) == If(s \notin Missing(p), Worth[s])

Percentage(p) ==
  Least(100, Earned(p, "basic") + Earned(p, "educations") + Earned(p, "marksheets")
             + Earned(p, "skills") + Earned(p, "projects")
             + Earned(p, "experiences") + Earned(p, "accomplishments"))

NextAction_ByPercentage(p) ==
  IF Percentage(p) >= 80 THEN "top shape"
  ELSE IF p.educations = 0 THEN "add a degree"
  ELSE IF p.marksheets = 0 THEN "upload a marksheet"
  ELSE IF p.skills < 3 THEN "add skills"
  ELSE IF p.projects = 0 THEN "add a project"
  ELSE "add experience or certifications"

NextAction(p) ==
  IF p.educations = 0 THEN "add a degree"
  ELSE IF p.marksheets = 0 THEN "upload a marksheet"
  ELSE IF p.skills < 3 THEN "add skills"
  ELSE IF p.projects = 0 THEN "add a project"
  ELSE IF Percentage(p) < 80 THEN "add experience or certifications"
  ELSE "top shape"

\* Nothing that p has is missing from r.
AtLeastProfile(r, p) ==
  /\ p.basic => r.basic
  /\ \A s \in DOMAIN Worth \ {"basic"} : r[s] >= p[s]

------------------------------------------------------------------------------
(* ATSService._rule_based_evaluation *)

\* `summary` tells whether it has more than 60 characters.
RuleScore_OneProjectWorthMore(c) ==
  LET sum == 50 + If(c.summary, 10) + If(c.education > 0, 10) + If(c.experience > 0, 15)
             + If(c.projects >= 2, 15) + If(c.projects = 1, 18) + If(c.skills >= 5, 10) IN
  IF sum < 45 THEN 45 ELSE Least(96, sum)

RuleScore(c) ==
  LET sum == 50 + If(c.summary, 10) + If(c.education > 0, 10) + If(c.experience > 0, 15)
             + If(c.projects >= 2, 15) + If(c.projects = 1, 8) + If(c.skills >= 5, 10) IN
  IF sum < 45 THEN 45 ELSE Least(96, sum)

AtLeastContent(d, c) ==
  /\ c.summary => d.summary
  /\ \A s \in DOMAIN c \ {"summary"} : d[s] >= c[s]

------------------------------------------------------------------------------
(* LinkedInAuditService.audit_profile *)

\* The headline by its length and its three tests, the summary by its words and
\* its three tests; `matched` keywords are in one of them or among the skills.
\* The numbers are the thresholds of the code.
LinkedInField ==
  [length |-> {0, 10, 25, 30}, title |-> BOOLEAN, tags |-> BOOLEAN, divider |-> BOOLEAN,
   words |-> {0, 10, 40, 60, 100}, metrics |-> BOOLEAN, contact |-> BOOLEAN,
   formatting |-> BOOLEAN, skills |-> {0, 1, 4, 8, 15}, matched |-> 0..Keywords,
   experiences |-> BOOLEAN, certifications |-> BOOLEAN, educations |-> BOOLEAN]

EmptyLinkedIn ==
  [length |-> 0, title |-> FALSE, tags |-> FALSE, divider |-> FALSE,
   words |-> 0, metrics |-> FALSE, contact |-> FALSE, formatting |-> FALSE,
   skills |-> 0, matched |-> 0,
   experiences |-> FALSE, certifications |-> FALSE, educations |-> FALSE]

HeadlineScore(l) ==
  Least(100, (IF l.length >= 30 THEN 30 ELSE If(l.length >= 10, 15))
             + If(l.title, 30) + If(l.tags, 25) + If(l.divider, 15))

SummaryScore(l) ==
  Least(100, (IF l.words >= 100 THEN 35 ELSE IF l.words >= 40 THEN 20 ELSE If(l.words >= 10, 10))
             + If(l.metrics, 25) + If(l.contact, 20) + If(l.formatting, 20))

SkillsScore(l) ==
  IF l.skills >= 15 THEN 100 ELSE IF l.skills >= 8 THEN 75
  ELSE IF l.skills >= 4 THEN 50 ELSE If(l.skills >= 1, 25)

ExperienceScore(l) ==
  Least(100, If(l.experiences, 50) + If(l.certifications, 30) + If(l.educations, 20))

\* What round(n / d) may give: half-way, either neighbour, as the binary
\* fractions have it.
Rounded(n, d) == {(2 * n + d) \div (2 * d), -((d - 2 * n) \div (2 * d))}

KeywordRates(l) == Rounded(100 * l.matched, Keywords)

WeightedSum(l, rate) ==
  25 * HeadlineScore(l) + 25 * SummaryScore(l) + 20 * SkillsScore(l) + 20 * rate
    + 10 * ExperienceScore(l)

OverallScores(l) == UNION {Rounded(WeightedSum(l, rate), 100) : rate \in KeywordRates(l)}

\* The areas of `improvements`.
AuditAdvice(l) ==
  {a \in {"Headline", "Skills", "Summary", "Certifications"} :
     \/ a = "Headline" /\ ~(l.title /\ l.length >= 25)
     \/ a = "Skills" /\ l.skills < 8
     \/ a = "Summary" /\ ~(l.words >= 60 /\ l.metrics)
     \/ a = "Certifications" /\ ~l.certifications}

------------------------------------------------------------------------------

EmptyProfile ==
  [basic |-> FALSE, educations |-> 0, marksheets |-> 0, skills |-> 0, projects |-> 0,
   experiences |-> 0, accomplishments |-> 0]
EmptyContent ==
  [summary |-> FALSE, education |-> 0, experience |-> 0, projects |-> 0, skills |-> 0]

ScoresInit == profile = EmptyProfile /\ content = EmptyContent /\ linkedin = EmptyLinkedIn

\* What one edit leaves of `old`, in which field f becomes one of the values.
Edits(old, f, values) == {[old EXCEPT ![f] = v] : v \in values}

EditProfile ==
  /\ \E f \in DOMAIN profile :
       profile' \in Edits(profile, f, CASE f = "basic" -> BOOLEAN
                                        [] f = "skills" -> SkillCounts
                                        [] OTHER -> Counts)
  /\ profile'.marksheets <= profile'.educations
  /\ UNCHANGED <<content, linkedin>>

EditContent ==
  /\ \E f \in DOMAIN content :
       content' \in Edits(content, f, CASE f = "summary" -> BOOLEAN
                                        [] f = "skills" -> SkillCounts
                                        [] OTHER -> Counts)
  /\ UNCHANGED <<profile, linkedin>>

EditLinkedIn ==
  /\ \E f \in DOMAIN linkedin : linkedin' \in Edits(linkedin, f, LinkedInField[f])
  /\ UNCHANGED <<profile, content>>

ScoresNext == EditProfile \/ EditContent \/ EditLinkedIn
ScoresSpec == ScoresInit /\ [][ScoresNext]_scoresVars
------------------------------------------------------------------------------

\* The advice is never about something done: what next_action names is missing,
\* and a profile is "in top shape" only with everything a drive asks for and 80%.
AdviceIsOpen ==
  LET missing == Missing(profile) IN
  CASE NextAction(profile) = "add a degree" -> "educations" \in missing
    [] NextAction(profile) = "upload a marksheet" -> "marksheets" \in missing
    [] NextAction(profile) = "add skills" -> "skills" \in missing
    [] NextAction(profile) = "add a project" -> "projects" \in missing
    [] NextAction(profile) = "add experience or certifications" ->
         missing \cap {"experiences", "accomplishments"} # {}
    [] OTHER -> /\ missing \subseteq {"basic", "experiences", "accomplishments"}
                /\ Percentage(profile) >= 80

\* "+15%" and the like in missing_sections: what a profile lacks of 100 is what
\* its missing sections promise, so no promise is cut off by min(100, score).
PromisesAddUp ==
  LET promised(s) == If(s \in Missing(profile), Worth[s]) IN
  100 - Percentage(profile) =
    promised("basic") + promised("educations") + promised("marksheets") + promised("skills")
    + promised("projects") + promised("experiences") + promised("accomplishments")

\* An audit is a percentage; a perfect one has no advice left to give, and one
\* without advice is at least 40 (not more: the keywords are not among the areas).
AuditIsConsistent ==
  \A score \in OverallScores(linkedin) :
    /\ score \in 0..100
    /\ score = 100 => AuditAdvice(linkedin) = {}
    /\ AuditAdvice(linkedin) = {} => score >= 40

\* What the profile and the audit advise is still to be done, and pays what they say.
AdviceIsHonest == AdviceIsOpen /\ PromisesAddUp /\ AuditIsConsistent

\* Whoever adds to a profile or to a resume never scores less for it.
MoreNeverCosts ==
  [][/\ AtLeastProfile(profile', profile) => Percentage(profile') >= Percentage(profile)
     /\ AtLeastContent(content', content) => RuleScore(content') >= RuleScore(content)
    ]_scoresVars
=============================================================================
