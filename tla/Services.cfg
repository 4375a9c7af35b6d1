CONSTANTS
  Requests = {q1, q2}
  x1 = x1
  x2 = x2
  x3 = x3
  y1 = y1
  y2 = y2
  set = set
  Keys = {x1, x2, x3}
  NameOf <- NameOfMC
  Cap <- CapMC
  Questions = {n1, n2}
  Answers = {1, 2}
  NoAnswer = 0
  LinkedInAudit = n2
  Lists = {l1, l2, l3, l4}
  NoList = none
  Choices = {o1, o2}
  Defaults = o1
  NoRow = none
  Counts = {0, 1, 2}
  SkillCounts = {0, 2, 3, 5}
  Keywords = 1
  Accounts = {u1, u2}
  Emails = {m1, m2}
  Letters = {k1}
  Passwords = {w1}
  Colleges = {g1, g2}
  Slugs = {"s1", "s2"}
  Codes = {"d1", "d2"}
  SettingKeys = {y1, y2}
  SettingValues = {set}
  NoSetting = none
  DefaultSettings <- DefaultSettingsMC
  Policies = {p1, p2}
  Rules = {r1, r2}
  DefaultRules = r1
  MaxRequests = 2
  MostCounted = 4
SPECIFICATION Spec
INVARIANTS
  ServicesTypeOK
  CapsHold
  IdentitiesAreSound
  AnswersStandWhenSerial
  AdviceIsHonest
  WithinLimit
  OneDisturbanceIsSurvived
PROPERTIES
  GoneStaysGone
  MoreNeverCosts
  NoLockout
CHECK_DEADLOCK FALSE
