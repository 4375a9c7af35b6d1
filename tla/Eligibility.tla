----------------------------- MODULE Eligibility -----------------------------
(***************************************************************************)
(* Who may apply to a placement drive.  The rule exists twice in the code: *)
(* JobService.check_eligibility tells the student (drive lists and drive   *)
(* pages), ApplicationService.apply decides.  Both are translated here, on *)
(* the same data, so that they can be compared and so that Applications    *)
(* can use the deciding one.                                               *)
(*                                                                         *)
(* Departments are compared by substring in either direction; `Related`    *)
(* holds the pairs <<allowed, recorded>> for which that test succeeds.     *)
(*                                                                         *)
(* TiersLockedByOffer_RegularLocksDream is TiersLockedByOffer with one     *)
(* slip; nothing uses it, it is there to be put in its place, to see the   *)
(* agreement of the two rules fail.                                        *)
(***************************************************************************)
EXTENDS Integers, FiniteSetsExt

CONSTANTS Departments,  \* the names found in eligible_departments and educations
          NoDepartment, \* a NULL Education.department
          Related       \* \subseteq Departments \X Departments

ASSUME RelatedAssumption ==
  /\ Related \subseteq Departments \X Departments
  /\ NoDepartment \notin Departments

Tiers == {"REGULAR", "DREAM", "SUPER_DREAM"}

\* A row of `educations`; cgpa 0 stands for NULL as well, which the code skips
\* alike.  There is no backlog column: getattr(e, "active_backlogs", 0) is 0.
EducationRow == [cgpa: Nat, department: Departments \cup {NoDepartment}]

\* The columns of `jobs` the rule reads.
JobRule == [tier: Tiers, min_cgpa: Nat, max_active_backlogs: Int,
            eligible_departments: SUBSET Departments]

\* getattr(e, "active_backlogs", 0), for whatever columns the row has.
ActiveBacklogs(e) ==
  IF "active_backlogs" \in DOMAIN e THEN e.active_backlogs ELSE 0

\* max([e.cgpa for e in educations if e.cgpa] or [0.0])
BestCgpa(educations) == Max({e.cgpa : e \in educations} \cup {0})

TotalBacklogs(educations) == MapThenSumSet(ActiveBacklogs, educations)

------------------------------------------------------------------------------
(* ApplicationService.apply *)

TiersLockedByOffer_RegularLocksDream ==
  [SUPER_DREAM |-> Tiers, DREAM |-> {"REGULAR", "DREAM"},
   REGULAR |-> {"REGULAR", "DREAM"}]

\* The drives a held offer closes, by the tier of the offer.
TiersLockedByOffer ==
  [SUPER_DREAM |-> Tiers, DREAM |-> {"REGULAR", "DREAM"}, REGULAR |-> {"REGULAR"}]

\* The POLICY_*_LOCKED refusals; `offers` are the tiers of the OFFERED
\* applications of the student.
PolicyLocked(offers, tier) == \E o \in offers : tier \in TiersLockedByOffer[o]

\* INELIGIBLE_CGPA: only a student with a recorded CGPA can fall below.
BelowCgpa(educations, rule) ==
  /\ rule.min_cgpa > 0
  /\ BestCgpa(educations) > 0
  /\ BestCgpa(educations) < rule.min_cgpa

\* INELIGIBLE_BACKLOGS
OverBacklogs(educations, rule) ==
  /\ rule.max_active_backlogs >= 0
  /\ educations # {}
  /\ TotalBacklogs(educations) > rule.max_active_backlogs

\* The rule `apply` enforces on a drive that is open.
MayApply(educations, offers, rule) ==
  /\ ~PolicyLocked(offers, rule.tier)
  /\ ~BelowCgpa(educations, rule)
  /\ ~OverBacklogs(educations, rule)

------------------------------------------------------------------------------
(* JobService.check_eligibility *)

PolicyReason(offers, tier) ==
  \/ "SUPER_DREAM" \in offers
  \/ "DREAM" \in offers /\ tier \in {"REGULAR", "DREAM"}
  \/ "REGULAR" \in offers /\ tier = "REGULAR"

CgpaReason(educations, rule) ==
  LET best == BestCgpa(educations)
  IN  rule.min_cgpa > 0 /\ best > 0 /\ best < rule.min_cgpa

DepartmentReason(educations, rule) ==
  LET recorded == {e.department : e \in educations} \ {NoDepartment}
  IN  /\ rule.eligible_departments # {}
      /\ recorded # {}
      /\ (rule.eligible_departments \X recorded) \cap Related = {}

BacklogReason(educations, rule) ==
  /\ rule.max_active_backlogs >= 0
  /\ educations # {}
  /\ TotalBacklogs(educations) > rule.max_active_backlogs

\* The reasons shown on a drive that is open; is_eligible is their absence.
IneligibilityReasons(educations, offers, rule) ==
  {r \in {"policy", "cgpa", "department", "backlogs"} :
     \/ r = "policy" /\ PolicyReason(offers, rule.tier)
     \/ r = "cgpa" /\ CgpaReason(educations, rule)
     \/ r = "department" /\ DepartmentReason(educations, rule)
     \/ r = "backlogs" /\ BacklogReason(educations, rule)}
==============================================================================
