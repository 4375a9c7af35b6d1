SPECIFICATION ResumesSpec
CONSTANTS
  ResumeIds = {r1}
  UploadIds = {}
  NoResume = NoResume
  Edits = {e1, e2}
  LatexEdits = {e1}
  Transcript = Transcript
  Tabs = {t1, t2}
  MaxResumes = 2
PROPERTY NoEditOverwritten
CHECK_DEADLOCK FALSE
