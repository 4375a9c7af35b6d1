--------------------------- MODULE ApplicationsMC ---------------------------
(***************************************************************************)
(* Small instances of Applications for TLC.                                *)
(***************************************************************************)
EXTENDS Applications, TLC

CONSTANTS s1, s2, j1, j2, w1, w2, cs

\* A SUPER_DREAM drive, and a REGULAR one that asks for a CGPA.
Drive1 == [tier |-> "SUPER_DREAM", min_cgpa |-> 0, max_active_backlogs |-> 0,
           eligible_departments |-> {}]
Drive2 == [tier |-> "REGULAR", min_cgpa |-> 7, max_active_backlogs |-> 0,
           eligible_departments |-> {cs}]
RuleMC == [j \in Jobs |-> IF j = j1 THEN Drive1 ELSE Drive2]

EducationMC == [s \in Students |-> {[cgpa |-> 8, department |-> cs]}]

\* A bound on the number of different audit rows.
OneAuditRow == Cardinality(audit) <= 1

Slots == Permutations(Workers)
=============================================================================
