---------------------------- MODULE Leaderboard ----------------------------
(***************************************************************************)
(* The leaderboard: the scores of the students' resumes in PostgreSQL,     *)
(* one entry per student in a Redis sorted set, which every scoring nudges *)
(* with its own score and an hourly job reconciles with the maxima, and    *)
(* the rank computed from it.                                              *)
(***************************************************************************)
EXTENDS Requests, FiniteSetsExt

CONSTANTS Students,
          Ranked,    \* the students' resumes; no code clears leaderboard_eligible
          OwnerOf,   \* \in [Ranked -> Students]
          MemberOrder, \* the order of the members of the sorted set
          Marks,     \* the scores that are given
          NoMark     \* a NULL ats_score; a student not in the set

ASSUME LeaderboardAssumption ==
  /\ OwnerOf \in [Ranked -> Students]
  /\ MemberOrder \in [Students -> Nat]
  /\ \A s, t \in Students : MemberOrder[s] = MemberOrder[t] => s = t
  /\ Marks \subseteq 0..100
  /\ NoMark \notin Nat

VARIABLES
  marks,   \* ats_score and is_deleted of the rows
  board,   \* the sorted set hirekit:leaderboard
  nudge,   \* score requests between their read, their COMMIT and their ZADD
  recount  \* the maxima read by recalculate_leaderboard_task, or Free

boardVars == <<marks, board, nudge, recount>>

Nudge == {Free}
  \cup [op: {"score"}, resume: Ranked, had: Marks \cup {NoMark}]
  \cup [op: {"zadd"}, student: Students, mark: Marks]
Recount == {Free} \cup [op: {"zadd"}, best: [Students -> Marks \cup {NoMark}]]

LeaderboardTypeOK ==
  /\ marks \in [Ranked -> [ats_score: Marks \cup {NoMark}, is_deleted: BOOLEAN]]
  /\ board \in [Students -> Marks \cup {NoMark}]
  /\ nudge \in [Requests -> Nudge]
  /\ recount \in Recount

LeaderboardInit ==
  /\ marks = [r \in Ranked |-> [ats_score |-> NoMark, is_deleted |-> FALSE]]
  /\ board = [s \in Students |-> NoMark]
  /\ nudge = NoRequests
  /\ recount = Free

------------------------------------------------------------------------------
(* score_resume *)

\* The resume is loaded, to be scored as in AtsScoring; ...
StartMark(q, r) ==
  /\ nudge[q] = Free
  /\ ~marks[r].is_deleted
  /\ nudge' = [nudge EXCEPT ![q] = [op |-> "score", resume |-> r, had |-> marks[r].ats_score]]
  /\ UNCHANGED <<marks, board, recount>>

\* ... the score is stored when it differs from the one that was loaded, deleted
\* as the resume may be by now, COMMIT; ...
StoreMark(q, m) ==
  LET call == nudge[q] IN
  /\ call.op = "score"
  /\ marks' = IF m = call.had THEN marks ELSE [marks EXCEPT ![call.resume].ats_score = m]
  /\ nudge' = [nudge EXCEPT ![q] = [op |-> "zadd", student |-> OwnerOf[call.resume], mark |-> m]]
  /\ UNCHANGED <<board, recount>>

\* ... and LeaderboardService.update_score puts it on the board, higher or
\* lower than what is there.
NudgeBoard(q) ==
  /\ nudge[q].op = "zadd"
  /\ board' = [board EXCEPT ![nudge[q].student] = nudge[q].mark]
  /\ nudge' = [nudge EXCEPT ![q] = Free]
  /\ UNCHANGED <<marks, recount>>

\* There is no score, ZADD fails, or the process dies.
NudgeFails(q) ==
  /\ nudge[q] # Free
  /\ nudge' = [nudge EXCEPT ![q] = Free]
  /\ UNCHANGED <<marks, board, recount>>

\* ResumeService.soft_delete
DeleteRanked(r) ==
  /\ ~marks[r].is_deleted
  /\ marks' = [marks EXCEPT ![r].is_deleted = TRUE]
  /\ UNCHANGED <<board, nudge, recount>>

------------------------------------------------------------------------------
(* recalculate_leaderboard_task *)

MarksOf(s) ==
  {marks[r].ats_score : r \in {x \in Ranked : OwnerOf[x] = s /\ ~marks[x].is_deleted}}
    \ {NoMark}

BestMark_DeletedToo(s) ==
  LET all == {marks[r].ats_score : r \in {x \in Ranked : OwnerOf[x] = s}} \ {NoMark} IN
  IF all = {} THEN NoMark ELSE Max(all)

BestMark(s) == IF MarksOf(s) = {} THEN NoMark ELSE Max(MarksOf(s))

\* One query for the maxima; without any score there is nothing to do.
StartRecount ==
  /\ recount = Free
  /\ \E s \in Students : MarksOf(s) # {}
  /\ recount' = [op |-> "zadd", best |-> [s \in Students |-> BestMark(s)]]
  /\ UNCHANGED <<marks, board, nudge>>

\* One ZADD of all of them.  A student without a score keeps the old entry.
WriteRecount ==
  /\ recount # Free
  /\ board' = [s \in Students |->
       IF recount.best[s] = NoMark THEN board[s] ELSE recount.best[s]]
  /\ recount' = Free
  /\ UNCHANGED <<marks, nudge>>

\* Redis or the worker fails; the next hour tries again.
RecountFails ==
  /\ recount # Free
  /\ recount' = Free
  /\ UNCHANGED <<marks, board, nudge>>

LeaderboardNext ==
  \/ \E q \in Requests :
       \/ \E r \in Ranked : StartMark(q, r)
       \/ \E m \in Marks : StoreMark(q, m)
       \/ NudgeBoard(q) \/ NudgeFails(q)
  \/ \E r \in Ranked : DeleteRanked(r)
  \/ StartRecount \/ WriteRecount \/ RecountFails

\* WorkerSettings.cron_jobs: every hour, and not failing for ever.
LeaderboardFairness == WF_boardVars(StartRecount) /\ SF_boardVars(WriteRecount)

LeaderboardSpec == LeaderboardInit /\ [][LeaderboardNext]_boardVars
------------------------------------------------------------------------------
(* The rank of a student, LeaderboardService.get_my_rank *)

\* Each of the four reads of get_my_rank is a call of its own; what is defined
\* here is what they give when the board does not change in between.
Entered == {s \in Students : board[s] # NoMark}
Total == IF Entered = {} THEN 1 ELSE Cardinality(Entered)

\* zrevrank: by score, and equal scores by the member, both descending.
Ahead(x, s) ==
  \/ board[x] > board[s]
  \/ board[x] = board[s] /\ MemberOrder[x] > MemberOrder[s]

Rank(s) == IF s \in Entered THEN Cardinality({x \in Entered : Ahead(x, s)}) + 1 ELSE Total

\* ((total - rank + 1) / total) * 100, before it is rounded to one decimal.
Percentile(s) == ((Total - Rank(s) + 1) * 100) \div Total

------------------------------------------------------------------------------

\* The reconciliation repairs what nudges left (the last score, not the best;
\* the score of a resume since deleted): once the scores rest, the entry of a
\* student who has one becomes, and stays, the best of them; and of two students
\* the one with the better resume is shown the higher percentile for good.
MarksRest(s, m) == BestMark(s) = m /\ \A q \in Requests : nudge[q] = Free
BoardConverges ==
  /\ \A s \in Students, m \in Marks : <>[]MarksRest(s, m) => <>[](board[s] = m)
  /\ \A s, t \in Students : \A m, n \in Marks : m > n =>
       (<>[](MarksRest(s, m) /\ MarksRest(t, n)) => <>[](Percentile(s) > Percentile(t)))
==============================================================================
