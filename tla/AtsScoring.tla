----------------------------- MODULE AtsScoring -----------------------------
(***************************************************************************)
(* The ATS score of resumes: the cache of verdicts by content hash, the    *)
(* deduplication lock in Redis, the evaluation by a remote model with a    *)
(* timeout, and the score stored on the row.  Redis may fail at each call. *)
(* What a stored score does to the leaderboard is in Leaderboard.          *)
(*                                                                         *)
(* `disturbed` and the holder of a lock are history: the code stores       *)
(* "locked", whoever holds it.                                             *)
(***************************************************************************)
EXTENDS Requests

CONSTANTS Papers,   \* the student's resumes
          Texts,    \* their contents, as told apart by compute_content_hash
          Verdicts, \* the scores the model or the rules may give to a text
          NoScore,
          Unlocked

ASSUME ScoringAssumption ==
  /\ Verdicts \in [Texts -> SUBSET Nat]
  /\ NoScore \notin Nat
  /\ Unlocked \notin Requests

VARIABLES
  papers,    \* the rows of `resumes`
  cache,     \* ats:<resume>:<hash>
  lock,      \* ats_lock:<resume>
  scoring,   \* the score requests in flight
  disturbed  \* the resumes whose lock failed under an evaluation under way

scoringVars == <<papers, cache, lock, scoring, disturbed>>

Scores == Nat \cup {NoScore}
Paper == [text: Texts, ats_score: Scores, of: Texts, is_deleted: BOOLEAN]
Scoring == {Free} \cup
  [op: {"cache", "lock", "evaluate", "release", "store"},
   paper: Papers, text: Texts, was: Scores, score: Scores]

ScoringTypeOK ==
  /\ papers \in [Papers -> Paper]
  /\ cache \in [Papers -> [Texts -> Scores]]
  /\ lock \in [Papers -> Requests \cup {Unlocked}]
  /\ scoring \in [Requests -> Scoring]
  /\ disturbed \subseteq Papers

ScoringInit ==
  /\ \E c \in Texts : papers = [p \in Papers |->
       [text |-> c, ats_score |-> NoScore, of |-> c, is_deleted |-> FALSE]]
  /\ cache = [p \in Papers |-> [c \in Texts |-> NoScore]]
  /\ lock = [p \in Papers |-> Unlocked]
  /\ scoring = NoRequests
  /\ disturbed = {}

At(q, op) == scoring[q].op = op
GoTo(q, op) == scoring' = [scoring EXCEPT ![q].op = op]
Got(q, op, s) == scoring' = [scoring EXCEPT ![q].op = op, ![q].score = s]

\* Requests between the lock and its release.
Evaluators(p) == {q \in Requests : scoring[q].op \in {"evaluate", "release"} /\ scoring[q].paper = p}

\* An evaluation that ends takes its disturbance along once it is alone.
Settled(q) == IF Evaluators(scoring[q].paper) \subseteq {q}
              THEN disturbed \ {scoring[q].paper} ELSE disturbed

------------------------------------------------------------------------------
(* POST /resumes/{id}/score *)

\* score_resume reads the resume.
StartScore(q, p) ==
  /\ scoring[q] = Free
  /\ ~papers[p].is_deleted
  /\ scoring' = [scoring EXCEPT ![q] =
       [op |-> "cache", paper |-> p, text |-> papers[p].text, was |-> papers[p].ats_score,
        score |-> NoScore]]
  /\ UNCHANGED <<papers, cache, lock, disturbed>>

\* A hit ends ATSService.score_resume; a miss or a Redis error goes on.
ReadCache(q) ==
  LET hit == cache[scoring[q].paper][scoring[q].text] IN
  /\ At(q, "cache")
  /\ \/ hit # NoScore /\ Got(q, "store", hit)
     \/ GoTo(q, "lock")
  /\ UNCHANGED <<papers, cache, lock, disturbed>>

\* SET NX: taken, ...
TakeLock(q) ==
  LET p == scoring[q].paper IN
  /\ At(q, "lock")
  /\ lock[p] = Unlocked
  /\ lock' = [lock EXCEPT ![p] = q]
  /\ GoTo(q, "evaluate")
  /\ UNCHANGED <<papers, cache, disturbed>>

RefuseLock_FinallyDeletes(q) ==
  LET p == scoring[q].paper IN
  /\ At(q, "lock")
  /\ lock[p] # Unlocked
  /\ lock' = [lock EXCEPT ![p] = Unlocked]
  /\ scoring' = [scoring EXCEPT ![q] = Free]
  /\ UNCHANGED <<papers, cache, disturbed>>

\* ... refused with 429, ...
RefuseLock(q) ==
  /\ At(q, "lock")
  /\ lock[scoring[q].paper] # Unlocked
  /\ scoring' = [scoring EXCEPT ![q] = Free]
  /\ UNCHANGED <<papers, cache, lock, disturbed>>

\* ... or failing, and then the evaluation goes on without a lock, unless the
\* failure was in the answer and the lock was taken.
LockFails(q) ==
  LET p == scoring[q].paper IN
  /\ At(q, "lock")
  /\ lock' \in {lock, [lock EXCEPT ![p] = IF @ = Unlocked THEN q ELSE @]}
  /\ GoTo(q, "evaluate")
  /\ disturbed' = disturbed \cup {p}
  /\ UNCHANGED <<papers, cache>>

Evaluate_KeyReadAfterwards(q) ==
  LET p == scoring[q].paper
      c == scoring[q].text IN
  /\ At(q, "evaluate")
  /\ \E s \in Verdicts[c] :
       /\ cache' = [cache EXCEPT ![p][papers[p].text] = s]
       /\ Got(q, "release", s)
  /\ UNCHANGED <<papers, lock, disturbed>>

\* _evaluate_resume: the model answers, or it fails, or it takes more than ten
\* seconds and the rules answer (its thread runs on, and nothing waits for it).
\* Then SET EX 3600, which may fail.
Evaluate(q) ==
  LET p == scoring[q].paper
      c == scoring[q].text IN
  /\ At(q, "evaluate")
  /\ \E s \in Verdicts[c] :
       /\ cache' \in {cache, [cache EXCEPT ![p][c] = s]}
       /\ Got(q, "release", s)
  /\ UNCHANGED <<papers, lock, disturbed>>

\* DEL, of whoever's lock it is by now; it may fail.
ReleaseLock(q) ==
  /\ At(q, "release")
  /\ lock' \in {lock, [lock EXCEPT ![scoring[q].paper] = Unlocked]}
  /\ GoTo(q, "store")
  /\ disturbed' = Settled(q)
  /\ UNCHANGED <<papers, cache>>

\* UPDATE resumes SET ats_score, COMMIT, whatever the content has become; a
\* score equal to the one read at the start is not sent.
StoreVerdict(q) ==
  LET p == scoring[q].paper IN
  /\ At(q, "store")
  /\ papers' = IF scoring[q].score = scoring[q].was THEN papers
               ELSE [papers EXCEPT ![p].ats_score = scoring[q].score,
                                   ![p].of = scoring[q].text]
  /\ scoring' = [scoring EXCEPT ![q] = Free]
  /\ UNCHANGED <<cache, lock, disturbed>>

\* The process dies; nobody releases the lock.
ScoringDies(q) ==
  /\ scoring[q] # Free
  /\ scoring' = [scoring EXCEPT ![q] = Free]
  /\ disturbed' = Settled(q)
  /\ UNCHANGED <<papers, cache, lock>>

------------------------------------------------------------------------------
(* Time and other requests *)

\* The 30 seconds of the lock are over: three times what an evaluation may
\* take, but nothing bounds the calls of Redis around it.
ExpireLock(p) ==
  /\ lock[p] # Unlocked
  /\ lock' = [lock EXCEPT ![p] = Unlocked]
  /\ disturbed' = IF lock[p] \in Evaluators(p) THEN disturbed \cup {p} ELSE disturbed
  /\ UNCHANGED <<papers, cache, scoring>>

ExpireCache(p) ==
  /\ \E c \in Texts : /\ cache[p][c] # NoScore
                      /\ cache' = [cache EXCEPT ![p][c] = NoScore]
  /\ UNCHANGED <<papers, lock, scoring, disturbed>>

\* ResumeService.update_resume and its like
EditPaper(p) ==
  /\ ~papers[p].is_deleted
  /\ \E c \in Texts : papers' = [papers EXCEPT ![p].text = c]
  /\ UNCHANGED <<cache, lock, scoring, disturbed>>

\* ResumeService.soft_delete
DeletePaper(p) ==
  /\ ~papers[p].is_deleted
  /\ papers' = [papers EXCEPT ![p].is_deleted = TRUE]
  /\ UNCHANGED <<cache, lock, scoring, disturbed>>

ScoreNext(q) ==
  \/ \E p \in Papers : StartScore(q, p)
  \/ ReadCache(q) \/ TakeLock(q) \/ RefuseLock(q) \/ LockFails(q) \/ Evaluate(q)
  \/ ReleaseLock(q) \/ StoreVerdict(q) \/ ScoringDies(q)

ScoringNext ==
  \/ \E q \in Requests : ScoreNext(q)
  \/ \E p \in Papers : ExpireLock(p) \/ ExpireCache(p) \/ EditPaper(p) \/ DeletePaper(p)

ScoringSpec == ScoringInit /\ [][ScoringNext]_scoringVars
------------------------------------------------------------------------------

\* README.md:56, "Distributed NX locks prevent duplicate concurrent AI
\* evaluations", as far as the code goes: of one resume there is one evaluation
\* at a time, unless the lock failed or ran out under one of those under way;
\* and when these have ended, the lock works again.
OneEvaluation ==
  \A p \in Papers \ disturbed : \A q, r \in Evaluators(p) : q = r

\* What is cached, stored or about to be stored is a verdict on the text it is
\* stored for, through all edits and overlaps.
VerdictsFit ==
  /\ \A p \in Papers : \A c \in Texts : cache[p][c] \in Verdicts[c] \cup {NoScore}
  /\ \A p \in Papers : papers[p].ats_score \in Verdicts[papers[p].of] \cup {NoScore}
==============================================================================
