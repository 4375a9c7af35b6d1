---------------------------- MODULE CampusProofs -----------------------------
(***************************************************************************)
(* Proofs about AtsScoring, Eligibility and the Leaderboard, for any       *)
(* resumes, contents, verdicts, education rows, offers and number of       *)
(* overlapping requests; and what all the components of student life       *)
(* promise together.                                                       *)
(***************************************************************************)
EXTENDS CampusMC, DeskProofs, NewsProofs, ResumesProofs

(* AtsScoring *)

\* A request under way, as the type invariant knows it.
LEMMA UnderWay ==
  ASSUME ScoringTypeOK, NEW q \in Requests, scoring[q] # Free
  PROVE  /\ scoring[q].op \in {"cache", "lock", "evaluate", "release", "store"}
         /\ scoring[q].paper \in Papers /\ scoring[q].text \in Texts
         /\ scoring[q].was \in Scores /\ scoring[q].score \in Scores
BY DEF ScoringTypeOK, Scoring

\* What a step of a request does to its slot: it goes on, or it ends.
LEMMA WentOn ==
  ASSUME ScoringTypeOK, NEW q \in Requests, scoring[q] # Free,
         NEW op \in {"cache", "lock", "evaluate", "release", "store"}, NEW s \in Scores,
         (GoTo(q, op) /\ s = scoring[q].score) \/ Got(q, op, s)
  PROVE  /\ scoring'[q] # Free /\ scoring'[q].op = op /\ scoring'[q].score = s
         /\ scoring'[q].paper = scoring[q].paper /\ scoring'[q].text = scoring[q].text
         /\ \A r \in Requests \ {q} : scoring'[r] = scoring[r]
         /\ scoring' \in [Requests -> Scoring]
<1>1. scoring[q] \in [op: {"cache", "lock", "evaluate", "release", "store"},
                      paper: Papers, text: Texts, was: Scores, score: Scores]
  BY DEF ScoringTypeOK, Scoring
<1>2. DOMAIN scoring = Requests
  BY DEF ScoringTypeOK
<1>3. CASE GoTo(q, op) /\ s = scoring[q].score
  <2>1. scoring'[q] = [scoring[q] EXCEPT !.op = op]
    BY <1>2, <1>3 DEF GoTo
  <2>2. /\ scoring'[q] \in [op: {"cache", "lock", "evaluate", "release", "store"},
                            paper: Papers, text: Texts, was: Scores, score: Scores]
        /\ scoring'[q].op = op /\ scoring'[q].score = s
        /\ scoring'[q].paper = scoring[q].paper /\ scoring'[q].text = scoring[q].text
    BY <1>1, <1>3, <2>1
  <2>3. QED
    BY <1>2, <1>3, <2>2 DEF GoTo, ScoringTypeOK, Scoring, Free
<1>4. CASE Got(q, op, s)
  <2>1. scoring'[q] = [scoring[q] EXCEPT !.op = op, !.score = s]
    BY <1>2, <1>4 DEF Got
  <2>2. /\ scoring'[q] \in [op: {"cache", "lock", "evaluate", "release", "store"},
                            paper: Papers, text: Texts, was: Scores, score: Scores]
        /\ scoring'[q].op = op /\ scoring'[q].score = s
        /\ scoring'[q].paper = scoring[q].paper /\ scoring'[q].text = scoring[q].text
    BY <1>1, <1>4, <2>1
  <2>3. QED
    BY <1>2, <1>4, <2>2 DEF Got, ScoringTypeOK, Scoring, Free
<1>5. QED
  BY <1>3, <1>4

\* While nothing disturbs it, the lock of a resume is its evaluator's: that is
\* what makes SET NX exclude a second one and DEL release no one else's.
\* Scores that are on their way fit the text they were computed from.
ScoringInv ==
  /\ ScoringTypeOK
  /\ \A p \in Papers \ disturbed : \A q \in Evaluators(p) : lock[p] = q
  /\ VerdictsFit
  /\ \A q \in Requests : scoring[q] # Free =>
       scoring[q].score \in Verdicts[scoring[q].text] \cup {NoScore}

LEMMA ScoringInvInit == ScoringInit => ScoringInv
<1> SUFFICES ASSUME ScoringInit PROVE ScoringInv
  OBVIOUS
<1>1. ScoringTypeOK
  BY DEF ScoringInit, ScoringTypeOK, Paper, Scores, Scoring, NoRequests
<1>2. VerdictsFit
  BY DEF ScoringInit, VerdictsFit
<1>3. \A q \in Requests : scoring[q] = Free
  BY DEF ScoringInit, NoRequests
<1>4. QED
  BY <1>1, <1>2, <1>3 DEF ScoringInv, Evaluators, Free

\* The four parts of the invariant, after one step of request q.
LEMMA RequestStep ==
  ASSUME ScoringInv, NEW q \in Requests, ScoreNext(q)
  PROVE  ScoringInv'
<1>0. ScoringTypeOK /\ VerdictsFit /\ (\A c \in Texts : Verdicts[c] \subseteq Nat) /\ NoScore \in Scores
  BY ScoringAssumption DEF ScoringInv, Scores
<1>1. ASSUME NEW p \in Papers, StartScore(q, p) PROVE ScoringInv'
  <2>1. /\ scoring'[q] = [op |-> "cache", paper |-> p, text |-> papers[p].text,
                          was |-> papers[p].ats_score, score |-> NoScore]
        /\ \A r \in Requests \ {q} : scoring'[r] = scoring[r]
        /\ scoring' \in [Requests -> Scoring]
        /\ UNCHANGED <<papers, cache, lock, disturbed>>
    BY <1>0, <1>1 DEF StartScore, ScoringTypeOK, Scoring, Paper
  <2>2. \A o \in Papers : Evaluators(o)' \subseteq Evaluators(o)
    BY <2>1 DEF Evaluators
  <2>3. ScoringTypeOK' /\ VerdictsFit'
    BY <1>0, <2>1 DEF ScoringTypeOK, VerdictsFit
  <2>4. QED
    BY <2>1, <2>2, <2>3 DEF ScoringInv
<1>2. CASE ReadCache(q)
  <2>1. scoring[q] # Free /\ UNCHANGED <<papers, cache, lock, disturbed>>
    BY <1>2 DEF ReadCache, At, Free
  <2>2. PICK op \in {"store", "lock"}, s \in Verdicts[scoring[q].text] \cup {NoScore} :
          (GoTo(q, op) /\ s = scoring[q].score) \/ Got(q, op, s)
    BY <1>0, <1>2, <2>1, UnderWay DEF ReadCache, VerdictsFit, ScoringInv
  <2>3. /\ scoring'[q] # Free /\ scoring'[q].op = op /\ scoring'[q].score = s
        /\ scoring'[q].paper = scoring[q].paper /\ scoring'[q].text = scoring[q].text
        /\ \A r \in Requests \ {q} : scoring'[r] = scoring[r]
        /\ scoring' \in [Requests -> Scoring]
    <3>1. op \in {"cache", "lock", "evaluate", "release", "store"} /\ s \in Scores
      BY <1>0, <2>1, UnderWay DEF Scores
    <3>2. QED
      BY <1>0, <2>1, <2>2, <3>1, WentOn
  <2>4. \A o \in Papers : Evaluators(o)' \subseteq Evaluators(o)
    BY <2>3 DEF Evaluators
  <2>5. ScoringTypeOK' /\ VerdictsFit'
    BY <1>0, <2>1, <2>3 DEF ScoringTypeOK, VerdictsFit
  <2>6. QED
    BY <2>1, <2>2, <2>3, <2>4, <2>5 DEF ScoringInv
<1>3. CASE TakeLock(q)
  <2> DEFINE p == scoring[q].paper
  <2>1. /\ scoring[q] # Free /\ p \in Papers /\ scoring[q].op = "lock"
        /\ lock[p] = Unlocked /\ UNCHANGED <<papers, cache, disturbed>>
    BY <1>0, <1>3, UnderWay DEF TakeLock, At, Free
  <2>2. /\ lock' \in [Papers -> Requests \cup {Unlocked}]
        /\ \A o \in Papers : lock'[o] = IF o = p THEN q ELSE lock[o]
    BY <1>0, <1>3, <2>1 DEF TakeLock, ScoringTypeOK
  <2>3. /\ scoring'[q] # Free /\ scoring'[q].op = "evaluate"
        /\ scoring'[q].score = scoring[q].score
        /\ scoring'[q].paper = p /\ scoring'[q].text = scoring[q].text
        /\ \A r \in Requests \ {q} : scoring'[r] = scoring[r]
        /\ scoring' \in [Requests -> Scoring]
    BY <1>0, <1>3, <2>1, WentOn, UnderWay DEF TakeLock
  <2>4. ASSUME NEW o \in Papers \ disturbed', NEW r \in Evaluators(o)' PROVE lock'[o] = r
    <3>1. CASE r = q
      BY <2>2, <2>3, <2>4, <3>1 DEF Evaluators
    <3>2. CASE r # q
      <4>1. r \in Evaluators(o) /\ r \in Requests
        BY <2>3, <2>4, <3>2 DEF Evaluators
      <4>2. lock[o] = r
        BY <2>1, <4>1 DEF ScoringInv
      <4>3. QED
        BY <2>1, <2>2, <4>1, <4>2, ScoringAssumption
    <3>3. QED
      BY <3>1, <3>2
  <2>5. ScoringTypeOK' /\ VerdictsFit'
    BY <1>0, <2>1, <2>2, <2>3 DEF ScoringTypeOK, VerdictsFit
  <2>6. QED
    BY <2>1, <2>3, <2>4, <2>5 DEF ScoringInv
<1>4. CASE RefuseLock(q)
  <2>1. /\ scoring'[q] = Free /\ \A r \in Requests \ {q} : scoring'[r] = scoring[r]
        /\ scoring' \in [Requests -> Scoring]
        /\ UNCHANGED <<papers, cache, lock, disturbed>>
    BY <1>0, <1>4 DEF RefuseLock, ScoringTypeOK, Scoring
  <2>2. \A o \in Papers : Evaluators(o)' \subseteq Evaluators(o)
    BY <2>1 DEF Evaluators, Free
  <2>3. ScoringTypeOK' /\ VerdictsFit'
    BY <1>0, <2>1 DEF ScoringTypeOK, VerdictsFit
  <2>4. QED
    BY <2>1, <2>2, <2>3 DEF ScoringInv
<1>5. CASE LockFails(q)
  <2> DEFINE p == scoring[q].paper
  <2>1. /\ scoring[q] # Free /\ p \in Papers
        /\ disturbed' = disturbed \cup {p} /\ UNCHANGED <<papers, cache>>
    BY <1>0, <1>5, UnderWay DEF LockFails, At, Free
  <2>2. /\ lock' \in [Papers -> Requests \cup {Unlocked}]
        /\ \A o \in Papers \ {p} : lock'[o] = lock[o]
    BY <1>0, <1>5, <2>1 DEF LockFails, ScoringTypeOK
  <2>3. /\ scoring'[q] # Free /\ scoring'[q].op = "evaluate"
        /\ scoring'[q].score = scoring[q].score
        /\ scoring'[q].paper = p /\ scoring'[q].text = scoring[q].text
        /\ \A r \in Requests \ {q} : scoring'[r] = scoring[r]
        /\ scoring' \in [Requests -> Scoring]
    BY <1>0, <1>5, <2>1, WentOn, UnderWay DEF LockFails
  <2>4. \A o \in Papers \ {p} : Evaluators(o)' \subseteq Evaluators(o)
    BY <2>3 DEF Evaluators
  <2>5. ScoringTypeOK' /\ VerdictsFit'
    BY <1>0, <2>1, <2>2, <2>3 DEF ScoringTypeOK, VerdictsFit
  <2>6. QED
    BY <2>1, <2>2, <2>3, <2>4, <2>5 DEF ScoringInv
<1>6. CASE Evaluate(q)
  <2> DEFINE p == scoring[q].paper
             c == scoring[q].text
  <2>1. /\ scoring[q] # Free /\ p \in Papers /\ c \in Texts /\ scoring[q].op = "evaluate"
        /\ UNCHANGED <<papers, lock, disturbed>>
    BY <1>0, <1>6, UnderWay DEF Evaluate, At, Free
  <2>2. PICK s \in Verdicts[c] :
          /\ cache' \in {cache, [cache EXCEPT ![p][c] = s]}
          /\ Got(q, "release", s)
    BY <1>6 DEF Evaluate
  <2>3. /\ scoring'[q] # Free /\ scoring'[q].op = "release" /\ scoring'[q].score = s
        /\ scoring'[q].paper = p /\ scoring'[q].text = c
        /\ \A r \in Requests \ {q} : scoring'[r] = scoring[r]
        /\ scoring' \in [Requests -> Scoring]
    BY <1>0, <2>1, <2>2, WentOn DEF Scores
  <2>4. \A o \in Papers : Evaluators(o)' \subseteq Evaluators(o)
    BY <2>1, <2>3 DEF Evaluators
  <2>5. /\ cache' \in [Papers -> [Texts -> Scores]]
        /\ \A o \in Papers, d \in Texts :
             cache'[o][d] = cache[o][d] \/ (o = p /\ d = c /\ cache'[o][d] = s)
    <3>0. Verdicts[c] \subseteq Nat
      BY <2>1, ScoringAssumption
    <3>1. cache \in [Papers -> [Texts -> Scores]] /\ s \in Scores
      BY <1>0, <3>0 DEF ScoringTypeOK, Scores
    <3>2. CASE cache' = cache
      BY <3>1, <3>2
    <3>3. CASE cache' = [cache EXCEPT ![p][c] = s]
      BY <2>1, <3>1, <3>3
    <3>4. QED
      BY <2>2, <3>2, <3>3
  <2>6. ScoringTypeOK' /\ VerdictsFit'
    BY <1>0, <2>1, <2>2, <2>3, <2>5 DEF ScoringTypeOK, VerdictsFit
  <2>7. QED
    BY <2>1, <2>2, <2>3, <2>4, <2>6 DEF ScoringInv
<1>7. CASE ReleaseLock(q)
  <2> DEFINE p == scoring[q].paper
  <2>1. /\ scoring[q] # Free /\ p \in Papers /\ scoring[q].op = "release"
        /\ UNCHANGED <<papers, cache>> /\ q \in Evaluators(p)
    BY <1>0, <1>7, UnderWay DEF ReleaseLock, At, Free, Evaluators
  <2>2. /\ lock' \in [Papers -> Requests \cup {Unlocked}]
        /\ \A o \in Papers \ {p} : lock'[o] = lock[o]
    BY <1>0, <1>7, <2>1 DEF ReleaseLock, ScoringTypeOK
  <2>3. /\ scoring'[q] # Free /\ scoring'[q].op = "store"
        /\ scoring'[q].score = scoring[q].score
        /\ scoring'[q].paper = p /\ scoring'[q].text = scoring[q].text
        /\ \A r \in Requests \ {q} : scoring'[r] = scoring[r]
        /\ scoring' \in [Requests -> Scoring]
    BY <1>0, <1>7, <2>1, WentOn, UnderWay DEF ReleaseLock
  <2>4. \A o \in Papers : Evaluators(o)' \subseteq Evaluators(o) \ {q}
    BY <2>3 DEF Evaluators
  <2>5. p \notin disturbed' => Evaluators(p) \subseteq {q}
    BY <1>7, <2>1 DEF ReleaseLock, Settled, ScoringInv
  <2>6. disturbed' \subseteq disturbed /\ disturbed \ disturbed' \subseteq {p}
    BY <1>7 DEF ReleaseLock, Settled
  <2>7. ScoringTypeOK' /\ VerdictsFit'
    BY <1>0, <2>1, <2>2, <2>3, <2>6 DEF ScoringTypeOK, VerdictsFit
  <2>8. QED
    <3>1. ASSUME NEW o \in Papers \ disturbed', NEW r \in Evaluators(o)' PROVE lock'[o] = r
      <4>1. r \in Evaluators(o) /\ r # q
        BY <2>4
      <4>2. o # p
        <5>1. CASE p \in disturbed'
          BY <5>1
        <5>2. CASE p \notin disturbed'
          BY <2>5, <4>1, <5>2
        <5>3. QED
          BY <5>1, <5>2
      <4>3. QED
        BY <2>2, <2>6, <4>1, <4>2 DEF ScoringInv
    <3>2. QED
      BY <2>1, <2>3, <2>7, <3>1 DEF ScoringInv
<1>8. CASE StoreVerdict(q)
  <2> DEFINE p == scoring[q].paper
  <2>1. /\ scoring[q] # Free /\ p \in Papers /\ scoring[q].text \in Texts
        /\ scoring[q].score \in Scores
    BY <1>0, <1>8, UnderWay DEF StoreVerdict, At, Free
  <2>2. /\ scoring'[q] = Free /\ \A r \in Requests \ {q} : scoring'[r] = scoring[r]
        /\ scoring' \in [Requests -> Scoring]
        /\ UNCHANGED <<cache, lock, disturbed>>
    BY <1>0, <1>8 DEF StoreVerdict, ScoringTypeOK, Scoring
  <2>3. \A o \in Papers : Evaluators(o)' \subseteq Evaluators(o)
    BY <2>2 DEF Evaluators, Free
  <2>4. papers' \in [Papers -> Paper]
    BY <1>0, <1>8, <2>1 DEF StoreVerdict, ScoringTypeOK, Paper
  <2>5. \A o \in Papers :
          \/ papers'[o] = papers[o]
          \/ papers'[o].ats_score = scoring[q].score /\ papers'[o].of = scoring[q].text
    BY <1>0, <1>8, <2>1 DEF StoreVerdict, ScoringTypeOK, Paper
  <2>6. ScoringTypeOK' /\ VerdictsFit'
    BY <1>0, <2>1, <2>2, <2>4, <2>5 DEF ScoringTypeOK, VerdictsFit, ScoringInv
  <2>7. QED
    BY <2>2, <2>3, <2>6 DEF ScoringInv
<1>9. CASE ScoringDies(q)
  <2> DEFINE p == scoring[q].paper
  <2>1. /\ scoring'[q] = Free /\ \A r \in Requests \ {q} : scoring'[r] = scoring[r]
        /\ scoring' \in [Requests -> Scoring]
        /\ p \in Papers /\ UNCHANGED <<papers, cache, lock>>
    BY <1>0, <1>9, UnderWay DEF ScoringDies, ScoringTypeOK, Scoring
  <2>2. \A o \in Papers : Evaluators(o)' \subseteq Evaluators(o) \ {q}
    BY <2>1 DEF Evaluators, Free
  <2>3. disturbed' \subseteq disturbed
        /\ \A o \in disturbed \ disturbed' : Evaluators(o) \subseteq {q}
    BY <1>9 DEF ScoringDies, Settled
  <2>4. ScoringTypeOK' /\ VerdictsFit'
    BY <1>0, <2>1, <2>3 DEF ScoringTypeOK, VerdictsFit
  <2>5. QED
    BY <2>1, <2>2, <2>3, <2>4 DEF ScoringInv
<1>10. QED
  BY <1>1, <1>2, <1>3, <1>4, <1>5, <1>6, <1>7, <1>8, <1>9 DEF ScoreNext

LEMMA ScoringInvStep == ScoringInv /\ [ScoringNext]_scoringVars => ScoringInv'
<1> SUFFICES ASSUME ScoringInv, [ScoringNext]_scoringVars PROVE ScoringInv'
  OBVIOUS
<1>0. ScoringTypeOK /\ VerdictsFit /\ NoScore \in Scores
  BY DEF ScoringInv, Scores
<1>1. ASSUME NEW q \in Requests, ScoreNext(q) PROVE ScoringInv'
  BY <1>1, RequestStep
<1>2. ASSUME NEW p \in Papers, ExpireLock(p) PROVE ScoringInv'
  <2>1. /\ lock' \in [Papers -> Requests \cup {Unlocked}]
        /\ \A o \in Papers \ {p} : lock'[o] = lock[o]
        /\ UNCHANGED <<papers, cache, scoring>>
    BY <1>0, <1>2 DEF ExpireLock, ScoringTypeOK
  <2>2. \A o \in Papers : Evaluators(o)' = Evaluators(o)
    BY <2>1 DEF Evaluators
  <2>3. /\ disturbed \subseteq disturbed' /\ disturbed' \subseteq Papers
        /\ p \notin disturbed' => Evaluators(p) = {}
    BY <1>0, <1>2 DEF ExpireLock, ScoringInv, ScoringTypeOK
  <2>4. ScoringTypeOK' /\ VerdictsFit'
    BY <1>0, <2>1, <2>3 DEF ScoringTypeOK, VerdictsFit
  <2>5. QED
    BY <2>1, <2>2, <2>3, <2>4 DEF ScoringInv
<1>3. ASSUME NEW p \in Papers, ExpireCache(p) PROVE ScoringInv'
  <2>1. PICK c \in Texts : cache' = [cache EXCEPT ![p][c] = NoScore]
    BY <1>3 DEF ExpireCache
  <2>2. /\ cache' \in [Papers -> [Texts -> Scores]]
        /\ \A o \in Papers, d \in Texts : cache'[o][d] \in {cache[o][d], NoScore}
        /\ UNCHANGED <<papers, lock, scoring, disturbed>>
    BY <1>0, <1>3, <2>1 DEF ExpireCache, ScoringTypeOK
  <2>3. ScoringTypeOK' /\ VerdictsFit'
    BY <1>0, <2>2 DEF ScoringTypeOK, VerdictsFit
  <2>4. QED
    BY <2>2, <2>3 DEF ScoringInv, Evaluators
<1>4. ASSUME NEW p \in Papers, EditPaper(p) \/ DeletePaper(p) PROVE ScoringInv'
  <2>1. /\ papers' \in [Papers -> Paper]
        /\ \A o \in Papers : /\ papers'[o].ats_score = papers[o].ats_score
                             /\ papers'[o].of = papers[o].of
        /\ UNCHANGED <<cache, lock, scoring, disturbed>>
    <3>1. CASE EditPaper(p)
      <4>1. PICK c \in Texts : papers' = [papers EXCEPT ![p].text = c]
        BY <3>1 DEF EditPaper
      <4>2. QED
        BY <1>0, <3>1, <4>1 DEF EditPaper, ScoringTypeOK, Paper
    <3>2. CASE DeletePaper(p)
      BY <1>0, <3>2 DEF DeletePaper, ScoringTypeOK, Paper
    <3>3. QED
      BY <1>4, <3>1, <3>2
  <2>2. ScoringTypeOK' /\ VerdictsFit'
    BY <1>0, <2>1 DEF ScoringTypeOK, VerdictsFit
  <2>3. QED
    BY <2>1, <2>2 DEF ScoringInv, Evaluators
<1>5. CASE UNCHANGED scoringVars
  BY <1>5 DEF scoringVars, ScoringInv, ScoringTypeOK, VerdictsFit, Evaluators
<1>6. QED
  BY <1>1, <1>2, <1>3, <1>4, <1>5 DEF ScoringNext

LEMMA ScoringInvariance == ScoringSpec => []ScoringInv
BY ScoringInvInit, ScoringInvStep, PTL DEF ScoringSpec

\* Through every failure of Redis, expiry and crash the state of the scoring
\* keeps its type.
THEOREM ScoringTypeCorrect == ScoringSpec => []ScoringTypeOK
<1>1. ScoringInv => ScoringTypeOK
  BY DEF ScoringInv
<1>2. QED
  BY <1>1, ScoringInvariance, PTL

\* The NX lock admits one evaluation of a resume at a time, except under a
\* lock that failed or expired, and recovers once those evaluations are over.
THEOREM LockExcludes == ScoringSpec => []OneEvaluation
<1>1. ScoringInv => OneEvaluation
  BY DEF ScoringInv, OneEvaluation
<1>2. QED
  BY <1>1, ScoringInvariance, PTL

\* What the cache and the resumes hold are verdicts on the texts they are filed
\* under, however edits and evaluations overlap.
THEOREM VerdictsAreFiledRight == ScoringSpec => []VerdictsFit
<1>1. ScoringInv => VerdictsFit
  BY DEF ScoringInv
<1>2. QED
  BY <1>1, ScoringInvariance, PTL

------------------------------------------------------------------------------
(* Eligibility *)

LEMMA PoliciesAgree ==
  ASSUME NEW held \in SUBSET Tiers, NEW tier \in Tiers
  PROVE  PolicyLocked(held, tier) <=> PolicyReason(held, tier)
<1>1. /\ TiersLockedByOffer["SUPER_DREAM"] = Tiers
      /\ TiersLockedByOffer["DREAM"] = {"REGULAR", "DREAM"}
      /\ TiersLockedByOffer["REGULAR"] = {"REGULAR"}
  BY DEF TiersLockedByOffer
<1>2. \A o \in held : o \in {"REGULAR", "DREAM", "SUPER_DREAM"}
  BY DEF Tiers
<1>3. QED
  BY <1>1, <1>2 DEF PolicyLocked, PolicyReason, Tiers

\* Whatever the student's rows, offers and the drive: the page gives no reason but
\* the department to a student whom apply lets through, and one to everybody else.
LEMMA RulesAgree ==
  ASSUME NEW rows, NEW held \in SUBSET Tiers, NEW rule, rule.tier \in Tiers
  PROVE  MayApply(rows, held, rule)
           <=> IneligibilityReasons(rows, held, rule) \subseteq {"department"}
<1>1. PolicyLocked(held, rule.tier) <=> PolicyReason(held, rule.tier)
  BY PoliciesAgree
<1>2. BelowCgpa(rows, rule) <=> CgpaReason(rows, rule)
  BY DEF BelowCgpa, CgpaReason
<1>3. OverBacklogs(rows, rule) <=> BacklogReason(rows, rule)
  BY DEF OverBacklogs, BacklogReason
<1>4. IneligibilityReasons(rows, held, rule) \subseteq {"department"}
        <=> /\ ~PolicyReason(held, rule.tier)
            /\ ~CgpaReason(rows, rule) /\ ~BacklogReason(rows, rule)
  BY DEF IneligibilityReasons
<1>5. QED
  BY <1>1, <1>2, <1>3, <1>4 DEF MayApply

EligibilityInv == offers \subseteq Tiers /\ drive \in Drives

LEMMA EligibilityInvInit == EligibilityInit => EligibilityInv
BY DEF EligibilityInit, EligibilityInv

LEMMA EligibilityInvStep == EligibilityInv /\ [EligibilityNext]_eligibilityVars => EligibilityInv'
BY DEF EligibilityInv, EligibilityNext, eligibilityVars, AddEducation, ReceiveOffer

LEMMA EligibilityInvAgrees == EligibilityInv => ApplyAgreesWithListing
<1> SUFFICES ASSUME EligibilityInv PROVE ApplyAgreesWithListing
  OBVIOUS
<1>1. drive.tier \in Tiers /\ offers \in SUBSET Tiers
  BY DEF EligibilityInv, Drives
<1>2. QED
  BY <1>1, RulesAgree DEF ApplyAgreesWithListing

\* On an open drive the page and the apply handler agree on the tier policy, the
\* CGPA and the backlogs, for any departments, grades and number of rows.
THEOREM PageAndApplyAgree == EligibilitySpec => []ApplyAgreesWithListing
BY EligibilityInvInit, EligibilityInvStep, EligibilityInvAgrees, PTL DEF EligibilitySpec

------------------------------------------------------------------------------
(* Leaderboard *)
LEMMA LeaderboardInitType == LeaderboardInit => LeaderboardTypeOK
BY DEF LeaderboardInit, LeaderboardTypeOK, NoRequests, Nudge, Recount

LEMMA BestMarkIsAMark ==
  ASSUME LeaderboardTypeOK, NEW s \in Students
  PROVE  BestMark(s) \in Marks \cup {NoMark}
<1>1. MarksOf(s) \subseteq Marks
  BY DEF MarksOf, LeaderboardTypeOK
<1>2. 100 \in Nat /\ MarksOf(s) \in SUBSET (0..100)
  BY <1>1, LeaderboardAssumption
<1>3. ASSUME MarksOf(s) # {} PROVE Max(MarksOf(s)) \in MarksOf(s)
  BY <1>2, <1>3, HasGreatest DEF Max
<1>4. QED
  BY <1>1, <1>3 DEF BestMark

LEMMA LeaderboardStep ==
  ASSUME LeaderboardTypeOK, [LeaderboardNext]_boardVars
  PROVE  LeaderboardTypeOK'
<1>1. CASE UNCHANGED boardVars
  BY <1>1 DEF boardVars, LeaderboardTypeOK
<1>2. ASSUME NEW q \in Requests, NEW r \in Ranked, StartMark(q, r) PROVE LeaderboardTypeOK'
  <2>1. [op |-> "score", resume |-> r, had |-> marks[r].ats_score] \in Nudge
    BY DEF Nudge, LeaderboardTypeOK
  <2>2. QED
    BY <1>2, <2>1 DEF StartMark, LeaderboardTypeOK
<1>3. ASSUME NEW q \in Requests, NEW m \in Marks, StoreMark(q, m) PROVE LeaderboardTypeOK'
  <2> DEFINE r == nudge[q].resume
  <2>1. r \in Ranked
    BY <1>3 DEF StoreMark, LeaderboardTypeOK, Nudge, Free
  <2>2. [op |-> "zadd", student |-> OwnerOf[r], mark |-> m] \in Nudge
    BY <2>1, LeaderboardAssumption DEF Nudge
  <2>3. nudge' \in [Requests -> Nudge]
    BY <1>3, <2>2 DEF StoreMark, LeaderboardTypeOK
  <2>4. marks' \in [Ranked -> [ats_score: Marks \cup {NoMark}, is_deleted: BOOLEAN]]
    BY <1>3, <2>1 DEF StoreMark, LeaderboardTypeOK
  <2>5. QED
    BY <1>3, <2>3, <2>4 DEF StoreMark, LeaderboardTypeOK
<1>4. ASSUME NEW q \in Requests, NudgeBoard(q) \/ NudgeFails(q) PROVE LeaderboardTypeOK'
  <2>1. Free \in Nudge
    BY DEF Nudge
  <2>2. CASE NudgeBoard(q)
    <3>1. nudge[q].mark \in Marks /\ nudge[q].student \in Students
      BY <2>2 DEF Nudge, NudgeBoard, LeaderboardTypeOK, Free
    <3>2. QED
      BY <2>1, <2>2, <3>1 DEF NudgeBoard, LeaderboardTypeOK
  <2>3. CASE NudgeFails(q)
    BY <2>1, <2>3 DEF NudgeFails, LeaderboardTypeOK
  <2>4. QED
    BY <1>4, <2>2, <2>3
<1>5. ASSUME NEW r \in Ranked, DeleteRanked(r) PROVE LeaderboardTypeOK'
  BY <1>5 DEF DeleteRanked, LeaderboardTypeOK
<1>6. CASE StartRecount
  BY <1>6, BestMarkIsAMark DEF StartRecount, LeaderboardTypeOK, Recount
<1>7. CASE WriteRecount \/ RecountFails
  BY <1>7 DEF WriteRecount, RecountFails, LeaderboardTypeOK, Recount
<1>8. QED
  BY <1>1, <1>2, <1>3, <1>4, <1>5, <1>6, <1>7 DEF LeaderboardNext

------------------------------------------------------------------------------
(* All the components of student life *)

CampusInv ==
  /\ EligibilityInv /\ ScoringInv /\ LeaderboardTypeOK
  /\ OfferInv /\ SubmitInv
  /\ PostsInv /\ AlertInv /\ EditInv

\* Of the components whose requests are taken one at a time.
CampusSerialInv == serial => SerialInv /\ HandedInv /\ CountedInv

\* In a step of the whole every component takes one of its own, or none.
LEMMA OneByOne ==
  ASSUME [Next]_campusVars
  PROVE  /\ [EligibilityNext]_eligibilityVars /\ [ScoringNext]_scoringVars
         /\ [LeaderboardNext]_boardVars
         /\ [RegistrationsNext /\ (serial => NoOverlap(desk)')]_registrationVars
         /\ [SubmissionsNext /\ (serial => NoOverlap(hand'))]_submissionVars
         /\ [FeedNext /\ (serial => NoOverlap(office'))]_feedVars
         /\ [AlertsNext]_alertVars /\ [ResumesNext]_resumeVars
         /\ UNCHANGED <<part, serial>>
<1>1. CASE UNCHANGED campusVars
  BY <1>1 DEF campusVars, studentVars, deskVars, newsVars
<1>2. CASE Next
  BY <1>2 DEF Next, Steps, studentVars, deskVars, newsVars
<1>3. QED
  BY <1>1, <1>2

LEMMA CampusInvInit == Init => CampusInv /\ CampusSerialInv
BY EligibilityInvInit, ScoringInvInit, LeaderboardInitType, OfferInvInit, SubmitInvInit,
   FeedInit_Inv, AlertInvInit, EditInvInit, SerialInvInit, HandedInvInit, CountedInvInit
DEF Init, CampusInv, CampusSerialInv

LEMMA CampusInvStep == CampusInv /\ [Next]_campusVars => CampusInv'
<1> SUFFICES ASSUME CampusInv, [Next]_campusVars PROVE CampusInv'
  OBVIOUS
<1>1. EligibilityInv' /\ ScoringInv' /\ LeaderboardTypeOK'
  BY OneByOne, EligibilityInvStep, ScoringInvStep, LeaderboardStep DEF CampusInv
<1>2. OfferInv' /\ SubmitInv'
  <2>1. [RegistrationsNext]_registrationVars /\ [SubmissionsNext]_submissionVars
    BY OneByOne
  <2>2. QED
    BY <2>1, OfferInvStep, SubmitInvStep DEF CampusInv
<1>3. PostsInv'
  <2>1. [FeedNext]_feedVars
    BY OneByOne
  <2>2. QED
    BY <2>1, PostsInvStep DEF CampusInv
<1>4. AlertInv' /\ EditInv'
  BY OneByOne, AlertInvStep, EditInvStep DEF CampusInv
<1>5. QED
  BY <1>1, <1>2, <1>3, <1>4 DEF CampusInv

LEMMA CampusSerialInvStep ==
  CampusInv /\ CampusSerialInv /\ [Next]_campusVars => CampusSerialInv'
<1> SUFFICES ASSUME CampusInv, CampusSerialInv, [Next]_campusVars, serial
             PROVE  SerialInv' /\ HandedInv' /\ CountedInv'
  BY OneByOne DEF CampusSerialInv
<1>0. SubmitInv /\ PostsInv /\ SerialInv /\ HandedInv /\ CountedInv
  BY DEF CampusInv, CampusSerialInv
<1>1. SerialInv'
  <2>1. [RegistrationsNext /\ NoOverlap(desk)']_registrationVars
    BY OneByOne
  <2>2. QED
    BY <1>0, <2>1, SerialInvStep
<1>2. HandedInv'
  <2>1. [SubmissionsNext]_submissionVars
    BY OneByOne
  <2>2. NoOverlap(hand')
    <3>1. NoOverlap(hand') \/ UNCHANGED submissionVars
      BY OneByOne
    <3>2. UNCHANGED submissionVars => hand' = hand
      BY DEF submissionVars
    <3>3. NoOverlap(hand)
      BY <1>0 DEF HandedInv
    <3>4. QED
      BY <3>1, <3>2, <3>3 DEF NoOverlap
  <2>3. QED
    BY <1>0, <2>1, <2>2, HandedInvStep
<1>3. CountedInv'
  <2>1. [FeedNext]_feedVars
    BY OneByOne
  <2>2. NoOverlap(office')
    <3>1. NoOverlap(office') \/ UNCHANGED feedVars
      BY OneByOne
    <3>2. UNCHANGED feedVars => office' = office
      BY DEF feedVars
    <3>3. NoOverlap(office)
      BY <1>0 DEF CountedInv
    <3>4. QED
      BY <3>1, <3>2, <3>3 DEF NoOverlap
  <2>3. QED
    BY <1>0, <2>1, <2>2, CountedInvStep
<1>4. QED
  BY <1>1, <1>2, <1>3

LEMMA CampusInvariance == Spec => [](CampusInv /\ CampusSerialInv)
<1>1. CampusInv /\ CampusSerialInv /\ [Next]_campusVars => (CampusInv /\ CampusSerialInv)'
  BY CampusInvStep, CampusSerialInvStep
<1>2. QED
  BY CampusInvInit, <1>1, PTL DEF Spec

\* Whatever overlaps in each of the components of student life, their rows, keys,
\* requests and clients keep their types.
THEOREM CampusTypeCorrect == Spec => []CampusTypeOK
<1>1. ASSUME CampusInv PROVE CampusTypeOK
  BY <1>1 DEF CampusInv, CampusTypeOK, ScoringInv, OfferInv, SubmitInv, PostsInv, AlertInv, EditInv
<1>2. QED
  BY <1>1, CampusInvariance, PTL

\* One request at a time, registered_count and comments_count are exact, nobody is
\* registered twice, and the file that counts is the one handed in last.
THEOREM CountsAreExact == Spec => []CountsAreExactWhenSerial
<1>1. ASSUME CampusSerialInv PROVE CountsAreExactWhenSerial
  BY <1>1 DEF CampusSerialInv, CountsAreExactWhenSerial, SerialInv, HandedInv, CountedInv
<1>2. QED
  BY <1>1, CampusInvariance, PTL
==============================================================================
