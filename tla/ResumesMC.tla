------------------------------ MODULE ResumesMC ------------------------------
(***************************************************************************)
(* Resumes for TLC.  Three questions, one of which is chosen once:         *)
(*   "counts"  which resumes there are, and which is primary: no editing   *)
(*   "edits"   what becomes of the edits of a single resume                *)
(*   "serial"  the first again, with the steps that leave at most one      *)
(*             request between its read and its write                      *)
(***************************************************************************)
EXTENDS Resumes, TLC

VARIABLE focus

\* Tabs are interchangeable, and so are edits of one kind.
Alike == Permutations(Tabs) \cup Permutations(LatexEdits) \cup Permutations(Edits \ LatexEdits)

mcVars == <<resumeVars, focus>>

MCInit == ResumesInit /\ focus \in {"counts", "edits", "serial"}

MCNext ==
  /\ ResumesNext
  /\ focus # "edits" => \A t \in Tabs : /\ tab'[t].content \cap Edits = {}
                                        /\ call'[t].op \notin {"save", "compile"}
  /\ focus = "edits" => Cardinality(Existing') <= 1
  /\ focus = "serial" => OneAtATime'
  /\ UNCHANGED focus

MCSpec == MCInit /\ [][MCNext]_mcVars /\ ResumesFairness

\* When requests do not overlap, there are never two primary resumes for apply
\* to choose from (application_service.py:173).
OnePrimaryWhenSerial == focus = "serial" => AtMostOnePrimary
==============================================================================
