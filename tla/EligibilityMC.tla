---------------------------- MODULE EligibilityMC ----------------------------
(***************************************************************************)
(* A student's education rows and offers and the drive being looked at,    *)
(* each changed by the request that changes it, so that TLC meets every    *)
(* combination of the bounded inputs.                                      *)
(***************************************************************************)
EXTENDS Eligibility

CONSTANTS MaxRows, \* education rows of one student
          Grades   \* the values of cgpa and min_cgpa

VARIABLES educations, offers, drive

\* Two departments match when they are the same.
Identical == {<<d, d>> : d \in Departments}

eligibilityVars == <<educations, offers, drive>>

Rows == [cgpa: Grades, department: Departments \cup {NoDepartment}]
Drives == [tier: Tiers, min_cgpa: Grades, max_active_backlogs: {-1, 0},
           eligible_departments: SUBSET Departments]

EligibilityInit == educations = {} /\ offers = {} /\ drive \in Drives

\* ProfileService.create_education
AddEducation(e) ==
  /\ Cardinality(educations) < MaxRows
  /\ educations' = educations \cup {e}
  /\ UNCHANGED <<offers, drive>>

\* AdminService.bulk_update_application_status with OFFERED
ReceiveOffer(tier) ==
  /\ offers' = offers \cup {tier}
  /\ UNCHANGED <<educations, drive>>

EligibilityNext == (\E e \in Rows : AddEducation(e)) \/ (\E t \in Tiers : ReceiveOffer(t))

EligibilitySpec == EligibilityInit /\ [][EligibilityNext]_eligibilityVars

\* On an open drive the page and the apply handler agree on the tier policy,
\* the CGPA and the backlogs: the department is the only reason the page may
\* give to a student whose application is nevertheless accepted.
ApplyAgreesWithListing ==
  MayApply(educations, offers, drive)
    <=> IneligibilityReasons(educations, offers, drive) \subseteq {"department"}

\* What README.md:65 and the comment at application_service.py:138 say: apply
\* evaluates the department requirement too, so nobody listed as ineligible is
\* let through.
ApplyEnforcesDepartments ==
  MayApply(educations, offers, drive)
    => IneligibilityReasons(educations, offers, drive) = {}
==============================================================================
