SPECIFICATION MCSpec
CONSTANTS
  ResumeIds = {r1, r2}
  UploadIds = {r2}
  NoResume = NoResume
  Edits = {e1, e2}
  LatexEdits = {e1}
  Transcript = Transcript
  Tabs = {t1, t2}
  MaxResumes = 1
SYMMETRY Alike
INVARIANTS OvershootIsBounded OnePrimaryWhenSerial
PROPERTIES LossesHaveCauses
CHECK_DEADLOCK FALSE
