-------------------------------- MODULE Feed --------------------------------
(***************************************************************************)
(* The campus feed: announcements that are posted, pinned, deleted and     *)
(* commented on while a reader pages through them.  A page shows pinned    *)
(* posts first, but the cursor it hands out knows created_at and id alone. *)
(*                                                                         *)
(* A post is the number of its (created_at, id): created_at is the start   *)
(* of the transaction, which may commit after a later one.                 *)
(*                                                                         *)
(* `throughout`, `shown`, `wasPinned` and `pinnedEnds` are history of the  *)
(* reader: the posts there since the first page, how often each was shown, *)
(* those shown while pinned, and the pinned posts a page ended in.         *)
(***************************************************************************)
EXTENDS Requests, FiniteSetsExt

CONSTANTS MaxPosts, Limit, MaxComments

ASSUME FeedAssumption == MaxPosts \in Nat /\ Limit \in Nat \ {0} /\ MaxComments \in Nat

VARIABLES
  posts,    \* the rows
  comments, \* how many rows of post_comments each post has
  office,   \* requests in flight
  cursor, throughout, shown, wasPinned, pinnedEnds

feedVars == <<posts, comments, office, cursor, throughout, shown, wasPinned, pinnedEnds>>
readerVars == <<cursor, throughout, shown, wasPinned, pinnedEnds>>

Posts == 1..MaxPosts
Top == MaxPosts + 1 \* no cursor: above every post
End == 0            \* has_more is false: nothing is below

Post == [state: {"unused", "drawn", "there", "gone"}, is_pinned: BOOLEAN,
         comments_count: 0..MaxComments]

FeedTypeOK ==
  /\ posts \in [Posts -> Post]
  /\ comments \in [Posts -> 0..MaxComments]
  /\ office \in [Requests -> {Free} \cup [op: {"post"}, post: Posts, pinned: BOOLEAN]
                                    \cup [op: {"toggle"}, post: Posts, pinned: BOOLEAN]
                                    \cup [op: {"comment"}, post: Posts, count: 0..MaxComments]]
  /\ cursor \in 0..Top
  /\ throughout \subseteq Posts /\ wasPinned \subseteq Posts /\ pinnedEnds \subseteq Posts
  /\ shown \in [Posts -> 0..2]

FeedInit ==
  /\ posts = [p \in Posts |-> [state |-> "unused", is_pinned |-> FALSE, comments_count |-> 0]]
  /\ comments = [p \in Posts |-> 0]
  /\ office = NoRequests
  /\ cursor = End /\ throughout = {} /\ wasPinned = {} /\ pinnedEnds = {}
  /\ shown = [p \in Posts |-> 0]

There == {p \in Posts : posts[p].state = "there"}
Ends(q) == office' = [office EXCEPT ![q] = Free]

------------------------------------------------------------------------------
(* The placement cell and the commentators *)

\* create_announcement: the transaction, and so created_at, begins with the
\* lookup of the officer, ...
StartPost(q, p, pinned) ==
  /\ office[q] = Free
  /\ posts[p].state = "unused" /\ \A o \in Posts : o < p => posts[o].state # "unused"
  /\ posts' = [posts EXCEPT ![p].state = "drawn"]
  /\ office' = [office EXCEPT ![q] = [op |-> "post", post |-> p, pinned |-> pinned]]
  /\ UNCHANGED <<comments, readerVars>>

\* ... and the row is there from the COMMIT on.
CommitPost(q) ==
  /\ office[q].op = "post"
  /\ posts' = [posts EXCEPT ![office[q].post].state = "there",
                            ![office[q].post].is_pinned = office[q].pinned]
  /\ Ends(q)
  /\ UNCHANGED <<comments, readerVars>>

\* delete_announcement, with the comments
DeletePost(p) ==
  /\ p \in There
  /\ posts' = [posts EXCEPT ![p].state = "gone"]
  /\ comments' = [comments EXCEPT ![p] = 0]
  /\ throughout' = throughout \ {p}
  /\ UNCHANGED <<office, cursor, shown, wasPinned, pinnedEnds>>

\* toggle_announcement_pin reads the flag and writes its negation.
StartToggle(q, p) ==
  /\ office[q] = Free
  /\ p \in There
  /\ office' = [office EXCEPT ![q] =
       [op |-> "toggle", post |-> p, pinned |-> ~posts[p].is_pinned]]
  /\ UNCHANGED <<posts, comments, readerVars>>

CommitToggle(q) ==
  /\ office[q].op = "toggle"
  /\ office[q].post \in There
  /\ posts' = [posts EXCEPT ![office[q].post].is_pinned = office[q].pinned]
  /\ Ends(q)
  /\ UNCHANGED <<comments, readerVars>>

\* add_comment reads the post with its counter, ...
StartComment(q, p) ==
  /\ office[q] = Free
  /\ p \in There
  /\ comments[p] < MaxComments
  /\ office' = [office EXCEPT ![q] =
       [op |-> "comment", post |-> p, count |-> posts[p].comments_count]]
  /\ UNCHANGED <<posts, comments, readerVars>>

\* ... and inserts the comment and writes the counter plus one, unless the post
\* is gone.
CommitComment(q) ==
  LET p == office[q].post IN
  /\ office[q].op = "comment"
  /\ p \in There
  /\ comments[p] < MaxComments
  /\ posts' = [posts EXCEPT ![p].comments_count = office[q].count + 1]
  /\ comments' = [comments EXCEPT ![p] = @ + 1]
  /\ Ends(q)
  /\ UNCHANGED readerVars

\* A row that is gone, a lost connection, a crash.
OfficeFails(q) ==
  /\ office[q] # Free
  /\ posts' = IF office[q].op = "post"
              THEN [posts EXCEPT ![office[q].post].state = "gone"] ELSE posts
  /\ Ends(q)
  /\ UNCHANGED <<comments, readerVars>>

------------------------------------------------------------------------------
(* A reader, FeedService.list_posts *)

Before(p, o) ==
  IF posts[p].is_pinned = posts[o].is_pinned THEN p > o ELSE posts[p].is_pinned

\* What the cursor leaves, and the first of these in the order of the query.
Below(c) == {p \in There : p < c}
Page(c) == {p \in Below(c) : Cardinality({o \in Below(c) : Before(o, p)}) < Limit}

LastOf_AlsoExtra(page) ==
  LET rows == {p \in Below(cursor) : Cardinality({o \in Below(cursor) : Before(o, p)}) <= Limit} IN
  CHOOSE p \in rows : \A o \in rows : o = p \/ Before(o, p)

LastOf(page) == CHOOSE p \in page : \A o \in page : o = p \/ Before(o, p)

\* The first page
OpenFeed ==
  /\ cursor = End
  /\ cursor' = Top /\ throughout' = There
  /\ shown' = [p \in Posts |-> 0] /\ wasPinned' = {} /\ pinnedEnds' = {}
  /\ UNCHANGED <<posts, comments, office>>

\* A page, and the cursor for the next one if there are more posts.
NextPage ==
  LET page == Page(cursor) IN
  /\ cursor # End
  /\ shown' = [p \in Posts |-> IF p \in page /\ shown[p] < 2 THEN shown[p] + 1 ELSE shown[p]]
  /\ wasPinned' = wasPinned \cup {p \in page : posts[p].is_pinned}
  /\ IF page = Below(cursor)
     THEN cursor' = End /\ UNCHANGED pinnedEnds
     ELSE /\ cursor' = LastOf(page)
          /\ pinnedEnds' = pinnedEnds \cup {p \in {LastOf(page)} : posts[p].is_pinned}
  /\ UNCHANGED <<posts, comments, office, throughout>>

FeedNext ==
  \/ \E q \in Requests :
       \/ \E p \in Posts : \/ \E pinned \in BOOLEAN : StartPost(q, p, pinned)
                           \/ StartToggle(q, p) \/ StartComment(q, p)
       \/ CommitPost(q) \/ CommitToggle(q) \/ CommitComment(q) \/ OfficeFails(q)
  \/ \E p \in Posts : DeletePost(p)
  \/ OpenFeed \/ NextPage

FeedSpec == FeedInit /\ [][FeedNext]_feedVars
------------------------------------------------------------------------------

\* "cursor pagination for infinite scrolling" (api/v1/feed.py:27), as far as it
\* goes: a post that is there from the first page to the last is still to come,
\* or was shown, or is newer than a pinned post that a page ended in, whatever
\* is posted, pinned and deleted meanwhile.
MissedOnlyBehindPins ==
  \A p \in throughout :
    \/ shown[p] > 0
    \/ p < cursor
    \/ \E o \in pinnedEnds : o < p

\* Nothing is shown twice unless it was shown as pinned.
RepeatedOnlyIfPinned == \A p \in Posts : shown[p] > 1 => p \in wasPinned

\* Both, of one scroll.
ScrollFailsOnlyAtPins == MissedOnlyBehindPins /\ RepeatedOnlyIfPinned

\* With one request at a time the counter is the number of comments.
CommentsAreCounted == \A p \in There : posts[p].comments_count = comments[p]
==============================================================================
