CONSTANTS
  s1 = s1  s2 = s2  j1 = j1  j2 = j2  w1 = w1  w2 = w2  cs = cs
  Departments = {cs}
  NoDepartment = none
  Related = {}
  Students = {s1}
  Jobs = {j1}
  Workers = {w1, w2}
  Rule <- RuleMC
  Education <- EducationMC
  Decisions = {"OFFERED", "REJECTED"}
SPECIFICATION FairSpec
INVARIANTS TypeOK TimelineExplainsStatus NoOrphanApplication AlertsMatchDecisions AuditIsTruthful
PROPERTIES SubmissionNeverResets RequestsEnd ExpiredDrivesClose
