CONSTANTS
  Requests = {q1, q2}
  Departments = {cs, mech}
  NoDepartment = none
  Related <- Identical
  MaxRows = 2
  Grades = {0, 7, 8}
  c1 = c1
  c2 = c2
  a1 = a1
  a2 = a2
  b1 = b1
  e1 = e1
  k1 = k1
  Papers = {a1}
  Texts = {c1, c2}
  Verdicts <- VerdictsMC
  NoScore = none
  Unlocked = unlocked
  Students = {"s", "t"}
  Ranked = {a1, a2, b1}
  OwnerOf <- OwnerOfMC
  MemberOrder <- MemberOrderMC
  Marks = {1, 2}
  NoMark = none
  Events = {e1}
  Competitions = {k1}
  Attendees = {s1, s2}
  Tickets = {t1, t2, t3}
  Seats = {0, 1, 2}
  Files = {f1, f2, f3}
  NoFile = none
  Sheets = {h1, h2, h3}
  MaxPosts = 3
  Limit = 1
  MaxComments = 2
  Alerts = {n1, n2}
  ResumeIds = {r1}
  UploadIds = {r1}
  NoResume = NoResume
  Edits = {d1}
  LatexEdits = {d1}
  Transcript = Transcript
  Tabs = {u1}
  MaxResumes = 1
SPECIFICATION Spec
INVARIANTS
  CampusTypeOK
  ApplyAgreesWithListing
  OneEvaluation
  VerdictsFit
  CountWithinOffer
  CountsAreExactWhenSerial
  NoLateFileOnTime
  ScrollFailsOnlyAtPins
  ComingOrSeen
PROPERTIES
  AlertsArrive
  BoardConverges
  TranscriptionEnds
CHECK_DEADLOCK FALSE
