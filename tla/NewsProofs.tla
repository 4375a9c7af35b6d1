----------------------------- MODULE NewsProofs ------------------------------
(***************************************************************************)
(* Proofs about LiveAlerts and the Feed, for any alerts, posts, pages and  *)
(* number of overlapping requests.                                         *)
(***************************************************************************)
EXTENDS LiveAlerts, Feed, FiniteSetTheorems, WellFoundedInduction, TLAPS

(* LiveAlerts *)

\* A request to mark all as read holds rows that are there, so its COMMIT makes
\* none.
AlertInv ==
  /\ AlertsTypeOK
  /\ \A q \in Requests : publish[q].op = "mark_all" => publish[q].alerts \subseteq Committed
  /\ ComingOrSeen

LEMMA PublishInFlight ==
  ASSUME AlertsTypeOK, NEW q \in Requests
  PROVE  /\ publish[q] = Free => publish[q].op = "free"
         /\ publish[q].op = "publish" => publish[q].alert \in Alerts
         /\ publish[q].op = "mark_all" => publish[q].alerts \in SUBSET Alerts
BY DEF AlertsTypeOK, Free

LEMMA EmptyChannel == <<>> \in Seq(Alerts)
OBVIOUS

LEMMA AlertInvStep ==
  ASSUME AlertInv, [AlertsNext]_alertVars
  PROVE  AlertInv'
<1>0. AlertsTypeOK
  BY DEF AlertInv
<1>1. CASE UNCHANGED alertVars
  BY <1>1 DEF alertVars, AlertInv, AlertsTypeOK, ComingOrSeen, Committed, Publishing, Elements
<1>2. ASSUME NEW q \in Requests, NEW a \in Alerts, CommitAlert(q, a)
      PROVE  AlertInv'
  <2>1. AlertsTypeOK'
    BY <1>0, <1>2 DEF CommitAlert, AlertsTypeOK
  <2>2. /\ publish[q] = Free
        /\ publish'[q].op = "publish" /\ publish'[q].alert = a
        /\ \A r \in Requests \ {q} : publish'[r] = publish[r]
        /\ Committed' = Committed \cup {a}
        /\ UNCHANGED <<channel, seen, watching>>
    BY <1>0, <1>2 DEF CommitAlert, AlertsTypeOK, Committed
  <2>3. Publishing \cup {a} \subseteq Publishing'
    BY <1>0, <2>2, PublishInFlight DEF Publishing
  <2>4. ComingOrSeen'
    BY <2>2, <2>3 DEF AlertInv, ComingOrSeen, Elements
  <2>5. QED
    BY <2>1, <2>2, <2>4 DEF AlertInv
<1>3. ASSUME NEW q \in Requests, Publish(q)
      PROVE  AlertInv'
  <2>1. publish[q].op = "publish" /\ publish[q].alert \in Alerts
    BY <1>0, <1>3, PublishInFlight DEF Publish
  <2>2. AlertsTypeOK'
    BY <1>0, <1>3, <2>1 DEF Publish, AlertsTypeOK
  <2>3. /\ publish'[q] = Free
        /\ \A r \in Requests \ {q} : publish'[r] = publish[r]
        /\ Committed' = Committed
        /\ UNCHANGED <<seen, watching>>
    BY <1>0, <1>3 DEF Publish, AlertsTypeOK, Committed
  <2>4. Publishing \subseteq Publishing' \cup {publish[q].alert}
    BY <2>3 DEF Publishing
  <2>5. watching => Elements(channel)' = Elements(channel) \cup {publish[q].alert}
    BY <1>0, <1>3, <2>1 DEF Publish, AlertsTypeOK, Elements
  <2>6. ComingOrSeen'
    BY <2>3, <2>4, <2>5 DEF AlertInv, ComingOrSeen
  <2>7. \A r \in Requests : publish'[r].op = "mark_all" => publish'[r].alerts \subseteq Committed'
    <3>1. publish'[q].op = "free"
      BY <2>3 DEF Free
    <3>2. QED
      BY <2>3, <3>1 DEF AlertInv
  <2>8. QED
    BY <2>2, <2>6, <2>7 DEF AlertInv
<1>4. ASSUME NEW q \in Requests, PublishFails(q) \/ MarkAllFails(q)
      PROVE  AlertInv'
  <2>1. AlertsTypeOK'
    <3>1. CASE PublishFails(q)
      BY <1>0, <3>1 DEF PublishFails, AlertsTypeOK
    <3>2. CASE MarkAllFails(q)
      BY <1>0, <3>2 DEF MarkAllFails, AlertsTypeOK
    <3>3. QED
      BY <1>4, <3>1, <3>2
  <2>2. /\ publish'[q] = Free
        /\ \A r \in Requests \ {q} : publish'[r] = publish[r]
        /\ Committed' = Committed
        /\ UNCHANGED <<seen, channel>>
        /\ watching' => watching /\ publish[q].op = "mark_all"
    BY <1>0, <1>4 DEF PublishFails, MarkAllFails, AlertsTypeOK, Committed
  <2>3. watching' => Publishing \subseteq Publishing'
    BY <2>2 DEF Publishing
  <2>4. watching' => Committed \subseteq seen \cup Elements(channel) \cup Publishing
    BY <2>2 DEF AlertInv, ComingOrSeen
  <2>5. ComingOrSeen'
    BY <2>2, <2>3, <2>4 DEF ComingOrSeen, Elements
  <2>6. \A r \in Requests : publish'[r].op = "mark_all" => publish'[r].alerts \subseteq Committed'
    <3>1. publish'[q].op = "free"
      BY <2>2 DEF Free
    <3>2. QED
      BY <2>2, <3>1 DEF AlertInv
  <2>7. QED
    BY <2>1, <2>5, <2>6 DEF AlertInv
<1>5. CASE Accept \/ Subscribe \/ ListenerDies \/ Disconnect
  <2>1. AlertsTypeOK'
    <3>1. CASE Accept
      BY <1>0, <3>1 DEF Accept, AlertsTypeOK
    <3>2. CASE Subscribe
      BY <1>0, <3>2 DEF Subscribe, AlertsTypeOK
    <3>3. CASE ListenerDies
      BY <1>0, <3>3, EmptyChannel DEF ListenerDies, AlertsTypeOK
    <3>4. CASE Disconnect
      BY <1>0, <3>4, EmptyChannel DEF Disconnect, AlertsTypeOK
    <3>5. QED
      BY <1>5, <3>1, <3>2, <3>3, <3>4
  <2>2. UNCHANGED <<inbox, publish, seen>> /\ (watching' => watching /\ channel' = channel)
    BY <1>0, <1>5 DEF Accept, Subscribe, ListenerDies, Disconnect, AlertsTypeOK
  <2>3. Committed' = Committed /\ Publishing' = Publishing
    BY <2>2 DEF Committed, Publishing
  <2>4. ComingOrSeen'
    BY <2>2, <2>3 DEF AlertInv, ComingOrSeen, Elements
  <2>5. QED
    BY <2>1, <2>2, <2>3, <2>4 DEF AlertInv
<1>6. CASE Forward
  <2>1. /\ channel \in Seq(Alerts) /\ channel # <<>>
        /\ channel' = Tail(channel) /\ seen' = seen \cup {Head(channel)}
        /\ UNCHANGED <<inbox, publish, socket, watching>>
    BY <1>0, <1>6 DEF Forward, AlertsTypeOK
  <2>2. /\ Head(channel) \in Alerts /\ Tail(channel) \in Seq(Alerts)
        /\ Len(channel) \in Nat \ {0} /\ Len(Tail(channel)) = Len(channel) - 1
        /\ Head(channel) = channel[1]
        /\ \A i \in 1..Len(Tail(channel)) : Tail(channel)[i] = channel[i + 1]
    BY <2>1
  <2>3. AlertsTypeOK'
    BY <1>0, <1>6, <2>1, <2>2 DEF Forward, AlertsTypeOK
  <2>4. Elements(channel) \subseteq {Head(channel)} \cup Elements(Tail(channel))
    <3> SUFFICES ASSUME NEW i \in 1..Len(channel), i # 1
                 PROVE  channel[i] \in Elements(Tail(channel))
      BY <2>2 DEF Elements
    <3>1. i - 1 \in 1..Len(Tail(channel)) /\ Tail(channel)[i - 1] = channel[i]
      BY <2>2
    <3>2. QED
      BY <3>1 DEF Elements
  <2>5. Committed' = Committed /\ Publishing' = Publishing
    BY <2>1 DEF Committed, Publishing
  <2>6. ComingOrSeen'
    BY <2>1, <2>4, <2>5 DEF AlertInv, ComingOrSeen
  <2>7. QED
    BY <2>1, <2>3, <2>5, <2>6 DEF AlertInv
<1>7. CASE ListAlerts
  BY <1>0, <1>7 DEF ListAlerts, AlertInv, AlertsTypeOK, ComingOrSeen, Committed
<1>8. ASSUME NEW a \in Alerts, MarkRead(a)
      PROVE  AlertInv'
  <2>1. AlertsTypeOK' /\ Committed' = Committed
    BY <1>0, <1>8 DEF MarkRead, AlertsTypeOK, Committed, Unread
  <2>2. QED
    BY <1>8, <2>1 DEF MarkRead, AlertInv, ComingOrSeen, Publishing, Elements
<1>9. ASSUME NEW q \in Requests, StartMarkAll(q)
      PROVE  AlertInv'
  <2>1. AlertsTypeOK'
    BY <1>0, <1>9 DEF StartMarkAll, AlertsTypeOK, Unread
  <2>2. /\ publish[q] = Free /\ publish'[q].op = "mark_all" /\ publish'[q].alerts = Unread
        /\ \A r \in Requests \ {q} : publish'[r] = publish[r]
        /\ Committed' = Committed
        /\ UNCHANGED <<channel, seen, watching>>
    BY <1>0, <1>9 DEF StartMarkAll, AlertsTypeOK, Committed
  <2>3. Publishing \subseteq Publishing' /\ Unread \subseteq Committed
    BY <1>0, <2>2, PublishInFlight DEF Publishing, Unread, Committed
  <2>4. ComingOrSeen'
    BY <2>2, <2>3 DEF AlertInv, ComingOrSeen, Elements
  <2>5. QED
    BY <2>1, <2>2, <2>3, <2>4 DEF AlertInv
<1>10. ASSUME NEW q \in Requests, CommitMarkAll(q)
       PROVE  AlertInv'
  <2>1. AlertsTypeOK'
    BY <1>0, <1>10 DEF CommitMarkAll, AlertsTypeOK
  <2>2. /\ publish[q].op = "mark_all" /\ publish[q].alerts \subseteq Committed
        /\ publish'[q] = Free
        /\ \A r \in Requests \ {q} : publish'[r] = publish[r]
        /\ \A a \in Alerts : inbox'[a] = IF a \in publish[q].alerts THEN "read" ELSE inbox[a]
        /\ UNCHANGED <<channel, seen, watching>>
    BY <1>0, <1>10 DEF CommitMarkAll, AlertsTypeOK, AlertInv
  <2>3. Committed' = Committed
    BY <2>2 DEF Committed
  <2>4. Publishing \subseteq Publishing'
    BY <2>2 DEF Publishing
  <2>5. QED
    BY <2>1, <2>2, <2>3, <2>4 DEF AlertInv, ComingOrSeen, Elements, Free
<1>11. QED
  BY <1>1, <1>2, <1>3, <1>4, <1>5, <1>6, <1>7, <1>8, <1>9, <1>10 DEF AlertsNext

LEMMA AlertInvInit == AlertsInit => AlertInv
<1> SUFFICES ASSUME AlertsInit PROVE AlertInv
  OBVIOUS
<1>1. AlertsTypeOK
  BY EmptyChannel DEF AlertsInit, AlertsTypeOK, NoRequests
<1>2. ComingOrSeen
  BY DEF AlertsInit, ComingOrSeen
<1>3. \A q \in Requests : publish[q].op = "free"
  BY DEF AlertsInit, NoRequests, Free
<1>4. QED
  BY <1>1, <1>2, <1>3 DEF AlertInv

\* Whoever lists after the subscription has every alert on the screen, on the
\* channel, or about to be published.
THEOREM NothingIsMissed == AlertsSpec => []ComingOrSeen
<1>1. AlertInv /\ [AlertsNext]_alertVars => AlertInv'
  BY AlertInvStep
<1>2. AlertInv => ComingOrSeen
  BY DEF AlertInv
<1>3. QED
  BY AlertInvInit, <1>1, <1>2, PTL DEF AlertsSpec

------------------------------------------------------------------------------
(* The order of the feed and its pages *)

\* A set of natural numbers that is not empty has a least one, ...
LEMMA HasLeast ==
  ASSUME NEW S \in SUBSET Nat, S # {}
  PROVE  \E m \in S : \A n \in S : m <= n
<1> DEFINE R == OpToRel(<, Nat)
<1>1. IsWellFoundedOn(R, Nat)
  BY NatLessThanWellFounded
<1>2. \A m, n \in Nat : m < n => <<m, n>> \in R
  BY DEF OpToRel
<1> HIDE DEF R
<1>3. \E m \in S : \A n \in S : ~(<<n, m>> \in R)
  BY <1>1, WFMin
<1>4. QED
  <2>1. PICK m \in S : \A n \in S : ~(<<n, m>> \in R)
    BY <1>3
  <2>2. \A n \in S : ~(n < m)
    BY <1>2, <2>1
  <2>3. QED
    BY <2>2

\* ... and, when it is bounded, a greatest one.
LEMMA HasGreatest ==
  ASSUME NEW k \in Nat, NEW S \in SUBSET (0..k), S # {}
  PROVE  \E m \in S : \A n \in S : m >= n
<1> DEFINE T == {k - p : p \in S}
<1>1. T \in SUBSET Nat /\ T # {}
  <2>1. \A p \in S : k - p \in Nat
    OBVIOUS
  <2>2. QED
    BY <2>1
<1>2. PICK m \in T : \A n \in T : m <= n
  BY <1>1, HasLeast
<1>3. PICK p \in S : m = k - p
  OBVIOUS
<1>4. \A o \in S : k - p <= k - o
  BY <1>2, <1>3
<1>5. QED
  BY <1>4

\* A set of posts has one with the highest number.
LEMMA Highest ==
  ASSUME NEW S \in SUBSET Posts, S # {}
  PROVE  \E m \in S : \A n \in S : m >= n
<1>1. MaxPosts \in Nat /\ S \in SUBSET (0..MaxPosts)
  BY FeedAssumption DEF Posts
<1>2. QED
  BY <1>1, HasGreatest

\* The order of the query is a strict total order, and a set of posts has a first
\* and a last one in it.
LEMMA BeforeIsAnOrder ==
  ASSUME FeedTypeOK
  PROVE  /\ \A p, o \in Posts : p = o \/ Before(p, o) \/ Before(o, p)
         /\ \A p, o \in Posts : ~(Before(p, o) /\ Before(o, p))
         /\ \A p \in Posts : ~Before(p, p)
         /\ \A p, o, m \in Posts : Before(p, o) /\ Before(o, m) => Before(p, m)
<1>1. Posts \subseteq Int /\ \A p \in Posts : posts[p].is_pinned \in BOOLEAN
  BY FeedAssumption DEF Posts, FeedTypeOK, Post
<1>2. QED
  BY <1>1 DEF Before

LEMMA FirstAndLast ==
  ASSUME FeedTypeOK, NEW S \in SUBSET Posts, S # {}
  PROVE  /\ \E p \in S : \A o \in S : o = p \/ Before(p, o)
         /\ \E p \in S : \A o \in S : o = p \/ Before(o, p)
<1> DEFINE pins == {p \in S : posts[p].is_pinned}
           rest == {p \in S : ~posts[p].is_pinned}
<1>0. Posts \subseteq Nat /\ pins \subseteq Posts /\ rest \subseteq Posts
  <2>1. Posts \subseteq Nat
    BY FeedAssumption DEF Posts
  <2>2. QED
    BY <2>1
<1>1. \A p \in Posts : posts[p].is_pinned \in BOOLEAN
  BY DEF FeedTypeOK, Post
<1>2. \E p \in S : \A o \in S : o = p \/ Before(p, o)
  <2>1. CASE pins # {}
    <3>1. PICK p \in pins : \A o \in pins : p >= o
      BY <1>0, <2>1, Highest
    <3>2. ASSUME NEW o \in S PROVE o = p \/ Before(p, o)
      <4>1. p \in Nat /\ o \in Nat /\ posts[p].is_pinned = TRUE
        BY <1>0, <1>1
      <4>2. CASE posts[o].is_pinned = TRUE
        <5>1. p >= o
          BY <3>1, <4>2
        <5>2. o = p \/ p > o
          BY <4>1, <5>1
        <5>3. posts[o].is_pinned = posts[p].is_pinned
          BY <4>1, <4>2
        <5>4. QED
          BY <5>2, <5>3 DEF Before
      <4>3. CASE posts[o].is_pinned = FALSE
        BY <4>1, <4>3 DEF Before
      <4>4. QED
        BY <1>1, <4>2, <4>3
    <3>3. QED
      BY <3>2
  <2>2. CASE pins = {}
    <3>1. PICK p \in S : \A o \in S : p >= o
      BY Highest
    <3>2. \A o \in S : o = p \/ Before(p, o)
      BY <1>0, <1>1, <2>2, <3>1 DEF Before
    <3>3. QED
      BY <3>2
  <2>3. QED
    BY <2>1, <2>2
<1>3. \E p \in S : \A o \in S : o = p \/ Before(o, p)
  <2>1. CASE rest # {}
    <3>1. PICK p \in rest : \A o \in rest : p <= o
      BY <1>0, <2>1, HasLeast
    <3>2. ASSUME NEW o \in S PROVE o = p \/ Before(o, p)
      <4>1. p \in Nat /\ o \in Nat /\ posts[p].is_pinned = FALSE
        BY <1>0, <1>1
      <4>2. CASE posts[o].is_pinned = FALSE
        <5>1. p <= o
          BY <3>1, <4>2
        <5>2. o = p \/ o > p
          BY <4>1, <5>1
        <5>3. posts[o].is_pinned = posts[p].is_pinned
          BY <4>1, <4>2
        <5>4. QED
          BY <5>2, <5>3 DEF Before
      <4>3. CASE posts[o].is_pinned = TRUE
        BY <4>1, <4>3 DEF Before
      <4>4. QED
        BY <1>1, <4>2, <4>3
    <3>3. QED
      BY <3>2
  <2>2. CASE rest = {}
    <3>1. PICK p \in S : \A o \in S : p <= o
      BY <1>0, HasLeast
    <3>2. \A o \in S : o = p \/ Before(o, p)
      BY <1>0, <1>1, <2>2, <3>1 DEF Before
    <3>3. QED
      BY <3>2
  <2>3. QED
    BY <2>1, <2>2
<1>4. QED
  BY <1>2, <1>3

\* A page takes the posts below the cursor in the order of the query: it is not
\* empty unless they are, and a post that it leaves comes after its last one.
LEMMA PageIsAPrefix ==
  ASSUME FeedTypeOK, NEW c \in 0..Top
  PROVE  /\ Page(c) \subseteq Below(c) /\ Below(c) \subseteq Posts
         /\ Below(c) # {} => Page(c) # {}
         /\ \A p \in Below(c) \ Page(c), o \in Page(c) : Before(o, p)
         /\ Page(c) # {} => LastOf(Page(c)) \in Page(c)
         /\ \A o \in Page(c) : o = LastOf(Page(c)) \/ Before(o, LastOf(Page(c)))
<1> DEFINE Ahead(p) == {o \in Below(c) : Before(o, p)}
<1>1. Page(c) \subseteq Below(c) /\ Below(c) \subseteq Posts
  BY DEF Page, Below, There
<1>2. IsFiniteSet(Below(c))
  <2>1. MaxPosts \in Int /\ 1 \in Int
    BY FeedAssumption
  <2>2. IsFiniteSet(Posts)
    BY <2>1, FS_Interval DEF Posts
  <2>3. QED
    BY <1>1, <2>2, FS_Subset
<1>3. \A p : IsFiniteSet(Ahead(p)) /\ Cardinality(Ahead(p)) \in Nat
  BY <1>2, FS_Subset, FS_CardinalityType
<1>4. ASSUME Below(c) # {} PROVE Page(c) # {}
  <2>1. PICK p \in Below(c) : \A o \in Below(c) : o = p \/ Before(p, o)
    BY <1>1, <1>4, FirstAndLast
  <2>2. Ahead(p) = {}
    BY <1>1, <2>1, BeforeIsAnOrder
  <2>3. Cardinality(Ahead(p)) < Limit
    BY <2>2, FS_EmptySet, FeedAssumption
  <2>4. QED
    BY <2>3 DEF Page
<1>5. ASSUME NEW p \in Below(c) \ Page(c), NEW o \in Page(c) PROVE Before(o, p)
  <2>1. Cardinality(Ahead(o)) < Limit /\ ~(Cardinality(Ahead(p)) < Limit)
    BY <1>5 DEF Page
  <2>2. ASSUME Before(p, o) PROVE FALSE
    <3>1. Ahead(p) \subseteq Ahead(o)
      BY <1>1, <2>2, BeforeIsAnOrder
    <3>2. Cardinality(Ahead(p)) <= Cardinality(Ahead(o))
      BY <1>3, <3>1, FS_Subset
    <3>3. QED
      BY <1>3, <2>1, <3>2, FeedAssumption
  <2>3. QED
    BY <1>1, <2>2, BeforeIsAnOrder
<1>6. ASSUME Page(c) # {}
      PROVE  /\ LastOf(Page(c)) \in Page(c)
             /\ \A o \in Page(c) : o = LastOf(Page(c)) \/ Before(o, LastOf(Page(c)))
  <2>1. \E p \in Page(c) : \A o \in Page(c) : o = p \/ Before(o, p)
    BY <1>1, <1>6, FirstAndLast
  <2>2. QED
    BY <2>1 DEF LastOf
<1>7. QED
  BY <1>1, <1>4, <1>5, <1>6

------------------------------------------------------------------------------
(* The rows of the feed, and a reader *)

\* The rows, whoever reads them: a drawn post belongs to one request, requests that
\* pin or comment go to posts that were there, and no counter is above the number
\* of comments.
RequestsFit ==
  \A q \in Requests :
    /\ office[q].op = "post" => posts[office[q].post].state = "drawn"
    /\ office[q].op \in {"toggle", "comment"} =>
         posts[office[q].post].state \in {"there", "gone"}
    /\ office[q].op = "comment" /\ office[q].post \in There =>
         office[q].count <= comments[office[q].post]
DrawnApart ==
  \A q, r \in Requests :
    office[q].op = "post" /\ office[r].op = "post" /\ q # r => office[q].post # office[r].post
CountersFit ==
  \A p \in Posts :
    /\ posts[p].state \in {"unused", "drawn"} => posts[p].comments_count = 0
    /\ posts[p].state = "there" => posts[p].comments_count <= comments[p]
PostsInv ==
  /\ FeedTypeOK /\ throughout \subseteq There
  /\ RequestsFit /\ DrawnApart /\ CountersFit

\* The reader, whatever happens to the rows: what was shown as it stood lies above
\* the cursor.
ReaderInv ==
  /\ MissedOnlyBehindPins
  /\ RepeatedOnlyIfPinned
  /\ \A p \in Posts : shown[p] > 0 /\ p \notin wasPinned => p >= cursor

PostRequest == [op: {"post"}, post: Posts, pinned: BOOLEAN]
ToggleRequest == [op: {"toggle"}, post: Posts, pinned: BOOLEAN]
CommentRequest == [op: {"comment"}, post: Posts, count: 0..MaxComments]
OfficeRequest == {Free} \cup PostRequest \cup ToggleRequest \cup CommentRequest

LEMMA InTheOffice ==
  ASSUME FeedTypeOK
  PROVE  /\ office \in [Requests -> OfficeRequest]
         /\ \A q \in Requests :
              /\ office[q].op = "post" => office[q].post \in Posts /\ office[q].pinned \in BOOLEAN
              /\ office[q].op = "toggle" => office[q].post \in Posts /\ office[q].pinned \in BOOLEAN
              /\ office[q].op = "comment" =>
                   office[q].post \in Posts /\ office[q].count \in 0..MaxComments
<1>1. office \in [Requests -> OfficeRequest]
  BY DEF FeedTypeOK, OfficeRequest, PostRequest, ToggleRequest, CommentRequest
<1>2. QED
  BY <1>1 DEF OfficeRequest, PostRequest, ToggleRequest, CommentRequest, Free

\* A request that ends, with what it did to the row of one post.
LEMMA OneRow ==
  ASSUME FeedTypeOK, NEW p \in Posts, NEW row \in Post, posts' = [posts EXCEPT ![p] = row]
  PROVE  /\ posts' \in [Posts -> Post] /\ posts'[p] = row
         /\ \A o \in Posts \ {p} : posts'[o] = posts[o]
BY DEF FeedTypeOK

LEMMA Slot ==
  ASSUME FeedTypeOK, NEW q \in Requests, NEW r \in OfficeRequest,
         office' = [office EXCEPT ![q] = r]
  PROVE  /\ office' \in [Requests -> {Free} \cup PostRequest \cup ToggleRequest \cup CommentRequest]
         /\ office'[q] = r /\ \A s \in Requests \ {q} : office'[s] = office[s]
BY InTheOffice DEF OfficeRequest

LEMMA PostsInvStep ==
  ASSUME PostsInv, [FeedNext]_feedVars
  PROVE  PostsInv'
<1>a. Free \in OfficeRequest /\ Free.op = "free"
  BY DEF OfficeRequest, Free
<1>b. FeedTypeOK /\ throughout \subseteq There /\ RequestsFit /\ DrawnApart /\ CountersFit
  BY DEF PostsInv
<1>c. MaxComments \in Nat /\ Posts \subseteq Int
  BY FeedAssumption DEF Posts
<1>d. \A p \in Posts : posts[p] \in Post /\ comments[p] \in Nat /\ comments[p] <= MaxComments
  BY <1>b, <1>c DEF FeedTypeOK
<1>e. comments \in [Posts -> 0..MaxComments]
  BY <1>b DEF FeedTypeOK
<1>1. CASE UNCHANGED feedVars
  <2>1. There' = There
    BY <1>1 DEF feedVars, There
  <2>2. QED
    BY <1>1, <1>b, <2>1
       DEF feedVars, readerVars, FeedTypeOK, PostsInv, RequestsFit, DrawnApart, CountersFit
<1>2. ASSUME NEW q \in Requests, NEW p \in Posts, NEW pinned \in BOOLEAN, StartPost(q, p, pinned)
      PROVE  PostsInv'
  <2>1. /\ office[q] = Free /\ posts[p].state = "unused"
        /\ posts' = [posts EXCEPT ![p] = [posts[p] EXCEPT !.state = "drawn"]]
        /\ UNCHANGED <<comments, cursor, throughout, shown, wasPinned, pinnedEnds>>
    BY <1>2 DEF StartPost, readerVars
  <2> DEFINE row == [posts[p] EXCEPT !.state = "drawn"]
             r == [op |-> "post", post |-> p, pinned |-> pinned]
  <2>2. /\ row \in Post /\ row.state = "drawn" /\ row.comments_count = posts[p].comments_count
        /\ r \in OfficeRequest /\ r.op = "post" /\ r.post = p
    BY <1>d DEF Post, OfficeRequest, PostRequest
  <2> HIDE DEF row, r
  <2>3. /\ posts' \in [Posts -> Post] /\ posts'[p] = row
        /\ \A o \in Posts \ {p} : posts'[o] = posts[o]
    BY <1>b, <2>1, <2>2, OneRow DEF row
  <2>4. /\ office' \in [Requests -> {Free} \cup PostRequest \cup ToggleRequest \cup CommentRequest]
        /\ office'[q] = r /\ \A s \in Requests \ {q} : office'[s] = office[s]
    BY <1>2, <1>b, <2>2, Slot DEF StartPost, r
  <2>5. FeedTypeOK'
    BY <1>b, <2>1, <2>3, <2>4 DEF FeedTypeOK, PostRequest, ToggleRequest, CommentRequest
  <2>6. There' = There
    BY <2>1, <2>2, <2>3 DEF There
  <2>7. \A s \in Requests : office[s].op \in {"post", "toggle", "comment"} =>
          office[s].post # p /\ office[s].post \in Posts
    BY <1>b, <2>1, InTheOffice DEF RequestsFit
  <2>8. RequestsFit'
    BY <1>b, <2>1, <2>2, <2>3, <2>4, <2>6, <2>7 DEF RequestsFit
  <2>9. DrawnApart'
    BY <1>b, <2>2, <2>4, <2>7 DEF DrawnApart
  <2>10. CountersFit'
    BY <1>b, <2>1, <2>2, <2>3 DEF CountersFit
  <2>11. QED
    BY <1>b, <2>1, <2>5, <2>6, <2>8, <2>9, <2>10 DEF PostsInv
<1>3. ASSUME NEW q \in Requests, NEW p \in Posts, NEW r, r \in ToggleRequest \cup CommentRequest,
             r.post = p, r.op = "comment" => r.count <= comments[p],
             p \in There, office' = [office EXCEPT ![q] = r],
             UNCHANGED <<posts, comments, readerVars>>
      PROVE  PostsInv'
  <2>1. r \in OfficeRequest /\ r.op \in {"toggle", "comment"}
    BY <1>3 DEF OfficeRequest, ToggleRequest, CommentRequest
  <2>2. /\ office' \in [Requests -> {Free} \cup PostRequest \cup ToggleRequest \cup CommentRequest]
        /\ office'[q] = r /\ \A s \in Requests \ {q} : office'[s] = office[s]
    BY <1>3, <1>b, <2>1, Slot
  <2>3. FeedTypeOK'
    BY <1>3, <1>b, <2>2 DEF FeedTypeOK, readerVars, PostRequest, ToggleRequest, CommentRequest
  <2>4. There' = There
    BY <1>3 DEF There
  <2>5. QED
    BY <1>3, <1>b, <2>1, <2>2, <2>3, <2>4
       DEF readerVars, There, PostsInv, RequestsFit, DrawnApart, CountersFit
\* A request ends: at most its post changes, as it may.
<1>4. ASSUME NEW q \in Requests, NEW p \in Posts, NEW row \in Post, Ends(q),
             UNCHANGED readerVars,
             posts' = [posts EXCEPT ![p] = row], comments' \in [Posts -> 0..MaxComments],
             \A o \in Posts \ {p} : comments'[o] = comments[o],
             comments'[p] >= comments[p],
             posts[p].state = "there" \/ (office[q].op = "post" /\ office[q].post = p),
             row.state \in {"there", "gone"},
             posts[p].state = "there" => row.state = "there",
             row.state = "there" => row.comments_count <= comments'[p]
      PROVE  PostsInv'
  <2>1. /\ posts' \in [Posts -> Post] /\ posts'[p] = row
        /\ \A o \in Posts \ {p} : posts'[o] = posts[o]
    BY <1>4, <1>b, OneRow
  <2>2. /\ office' \in [Requests -> {Free} \cup PostRequest \cup ToggleRequest \cup CommentRequest]
        /\ office'[q] = Free /\ \A s \in Requests \ {q} : office'[s] = office[s]
    BY <1>4, <1>a, <1>b, Slot DEF Ends
  <2>3. FeedTypeOK'
    BY <1>4, <1>b, <2>1, <2>2 DEF FeedTypeOK, readerVars, PostRequest, ToggleRequest, CommentRequest
  <2>4. There \subseteq There'
    BY <1>4, <2>1 DEF There
  <2>5. \A s \in Requests : office'[s].op # "free" => s # q /\ office'[s] = office[s]
    BY <1>a, <2>2
  <2>6. \A s \in Requests : office'[s].op = "post" => office'[s].post # p
    BY <1>4, <1>b, <2>5 DEF DrawnApart, RequestsFit
  <2>7. \A s \in Requests :
          /\ office'[s].op = "post" => posts'[office'[s].post].state = "drawn"
          /\ office'[s].op \in {"toggle", "comment"} =>
               posts'[office'[s].post].state \in {"there", "gone"}
    BY <1>4, <1>b, <2>1, <2>5, <2>6, InTheOffice DEF RequestsFit
  <2>8. ASSUME NEW s \in Requests, office'[s].op = "comment", office'[s].post \in There'
        PROVE  office'[s].count <= comments'[office'[s].post]
    <3> DEFINE o == office[s].post
    <3>1. /\ office'[s] = office[s] /\ s # q /\ o \in Posts /\ office[s].count \in 0..MaxComments
      BY <1>b, <2>5, <2>8, InTheOffice
    <3>2. o \in There
      BY <1>4, <1>b, <2>1, <2>6, <2>8, <3>1 DEF There, RequestsFit
    <3>3. office[s].count <= comments[o]
      BY <1>b, <2>8, <3>1, <3>2 DEF RequestsFit
    <3>4. comments[o] <= comments'[o]
      BY <1>4, <1>d, <3>1
    <3>5. office[s].count \in Int /\ comments[o] \in Int /\ comments'[o] \in Int
      BY <1>4, <1>d, <3>1
    <3> HIDE DEF o
    <3>6. office[s].count <= comments'[o]
      BY <3>3, <3>4, <3>5
    <3>7. QED
      BY <3>1, <3>6 DEF o
  <2>9. \A o \in Posts :
          /\ posts'[o].state \in {"unused", "drawn"} => posts'[o].comments_count = 0
          /\ posts'[o].state = "there" => posts'[o].comments_count <= comments'[o]
    BY <1>4, <1>b, <2>1 DEF CountersFit
  <2>10. \A s, t \in Requests :
           office'[s].op = "post" /\ office'[t].op = "post" /\ s # t => office'[s].post # office'[t].post
    BY <1>b, <2>5 DEF DrawnApart
  <2>11. throughout' \subseteq There'
    BY <1>4, <1>b, <2>4 DEF readerVars
  <2>12. RequestsFit'
    BY <2>7, <2>8 DEF RequestsFit
  <2>13. DrawnApart' /\ CountersFit'
    BY <2>9, <2>10 DEF DrawnApart, CountersFit
  <2>14. QED
    BY <2>3, <2>4, <2>11, <2>12, <2>13 DEF PostsInv
<1>5. ASSUME NEW q \in Requests, CommitPost(q) PROVE PostsInv'
  <2> DEFINE p == office[q].post
             row == [[posts[p] EXCEPT !.state = "there"] EXCEPT !.is_pinned = office[q].pinned]
  <2>1. p \in Posts /\ office[q].pinned \in BOOLEAN /\ posts[p].state = "drawn" /\ office[q].op = "post"
    BY <1>5, <1>b, InTheOffice DEF CommitPost, RequestsFit
  <2>2. row \in Post /\ row.state = "there" /\ row.comments_count = 0
    BY <1>b, <1>d, <2>1 DEF Post, CountersFit
  <2>3. posts' = [posts EXCEPT ![p] = row]
    BY <1>5, <1>b, <2>1 DEF CommitPost, FeedTypeOK
  <2>4. /\ Ends(q) /\ UNCHANGED readerVars /\ comments' = comments
    BY <1>5 DEF CommitPost
  <2> HIDE DEF row, p
  <2>5. 0 <= comments[p] /\ comments[p] >= comments[p]
    BY <1>d, <2>1
  <2>6. QED
    BY <1>4, <1>e, <2>1, <2>2, <2>3, <2>4, <2>5 DEF p
<1>6. ASSUME NEW q \in Requests, CommitToggle(q) PROVE PostsInv'
  <2> DEFINE p == office[q].post
             row == [posts[p] EXCEPT !.is_pinned = office[q].pinned]
  <2>1. p \in Posts /\ office[q].pinned \in BOOLEAN /\ posts[p].state = "there"
    BY <1>6, <1>b, InTheOffice DEF CommitToggle, There
  <2>2. row \in Post /\ row.state = "there" /\ row.comments_count = posts[p].comments_count
    BY <1>d, <2>1 DEF Post
  <2>3. posts' = [posts EXCEPT ![p] = row]
    BY <1>6 DEF CommitToggle
  <2>4. /\ Ends(q) /\ UNCHANGED readerVars /\ comments' = comments
    BY <1>6 DEF CommitToggle
  <2> HIDE DEF row, p
  <2>5. comments[p] >= comments[p] /\ posts[p].comments_count <= comments[p]
    BY <1>b, <1>d, <2>1 DEF CountersFit
  <2>6. QED
    BY <1>4, <1>e, <2>1, <2>2, <2>3, <2>4, <2>5 DEF p
<1>7. ASSUME NEW q \in Requests, CommitComment(q) PROVE PostsInv'
  <2> DEFINE p == office[q].post
             row == [posts[p] EXCEPT !.comments_count = office[q].count + 1]
  <2>1. /\ p \in Posts /\ office[q].count \in 0..MaxComments /\ p \in There
        /\ posts[p].state = "there" /\ office[q].count <= comments[p] /\ comments[p] < MaxComments
    BY <1>7, <1>b, InTheOffice DEF CommitComment, There, RequestsFit
  <2> DEFINE n == office[q].count
             m == comments[p]
  <2>2. m \in Nat /\ n \in Nat /\ n + 1 \in 0..MaxComments /\ m + 1 \in 0..MaxComments
    <3>1. m \in Nat /\ n <= m /\ m < MaxComments /\ n \in 0..MaxComments
      BY <1>d, <2>1
    <3> HIDE DEF n, m
    <3>2. QED
      BY <1>c, <3>1
  <2>3. row \in Post /\ row.state = "there" /\ row.comments_count = office[q].count + 1
    BY <1>d, <2>1, <2>2 DEF Post
  <2>4. posts' = [posts EXCEPT ![p] = row] /\ comments' = [comments EXCEPT ![p] = @ + 1]
    BY <1>7 DEF CommitComment
  <2>5. /\ Ends(q) /\ UNCHANGED readerVars
    BY <1>7 DEF CommitComment
  <2> HIDE DEF row, p
  <2>6. /\ comments' \in [Posts -> 0..MaxComments] /\ comments'[p] = comments[p] + 1
        /\ \A o \in Posts \ {p} : comments'[o] = comments[o]
    BY <1>e, <2>1, <2>2, <2>4 DEF p
  <2>7. comments'[p] >= comments[p] /\ row.comments_count <= comments'[p]
    <3>1. n <= m
      BY <2>1 DEF p
    <3> HIDE DEF n, m
    <3>2. m + 1 >= m /\ n + 1 <= m + 1
      BY <2>2, <3>1
    <3>3. QED
      BY <2>3, <2>6, <3>2 DEF n, m
  <2>8. p \in Posts /\ posts[p].state = "there"
    BY <2>1 DEF p
  <2>9. row.state \in {"there", "gone"} /\ (row.state = "there" => row.comments_count <= comments'[p])
    BY <2>3, <2>7
  <2>10. QED
    BY <1>4, <2>3, <2>4, <2>5, <2>6, <2>7, <2>8, <2>9 DEF p
<1>8. ASSUME NEW q \in Requests, OfficeFails(q) PROVE PostsInv'
  <2>1. CASE office[q].op = "post"
    <3> DEFINE p == office[q].post
               row == [posts[p] EXCEPT !.state = "gone"]
    <3>1. p \in Posts /\ posts[p].state = "drawn"
      BY <1>b, <2>1, InTheOffice DEF RequestsFit
    <3>2. row \in Post /\ row.state = "gone"
      BY <1>d, <3>1 DEF Post
    <3>3. posts' = [posts EXCEPT ![p] = row] /\ Ends(q) /\ UNCHANGED readerVars /\ comments' = comments
      BY <1>8, <2>1 DEF OfficeFails
    <3> HIDE DEF row, p
    <3>4. comments[p] >= comments[p]
      BY <1>d, <3>1
    <3>5. QED
      BY <1>4, <1>e, <2>1, <3>1, <3>2, <3>3, <3>4 DEF p
  <2>2. CASE office[q].op # "post"
    <3>1. posts' = posts /\ comments' = comments /\ UNCHANGED readerVars /\ There' = There
      BY <1>8, <2>2 DEF OfficeFails, There
    <3>2. /\ office' \in [Requests -> {Free} \cup PostRequest \cup ToggleRequest \cup CommentRequest]
          /\ office'[q] = Free /\ \A s \in Requests \ {q} : office'[s] = office[s]
      BY <1>8, <1>a, <1>b, Slot DEF OfficeFails, Ends
    <3>3. FeedTypeOK'
      BY <1>b, <3>1, <3>2 DEF FeedTypeOK, readerVars, PostRequest, ToggleRequest, CommentRequest
    <3>4. \A s \in Requests : office'[s].op # "free" => s # q /\ office'[s] = office[s]
      BY <1>a, <3>2
    <3>5. QED
      BY <1>b, <3>1, <3>3, <3>4 DEF readerVars, PostsInv, RequestsFit, DrawnApart, CountersFit
  <2>3. QED
    BY <2>1, <2>2
<1>9. ASSUME NEW p \in Posts, DeletePost(p) PROVE PostsInv'
  <2> DEFINE row == [posts[p] EXCEPT !.state = "gone"]
  <2>1. /\ p \in There /\ posts' = [posts EXCEPT ![p] = row]
        /\ comments' = [comments EXCEPT ![p] = 0] /\ throughout' = throughout \ {p}
        /\ UNCHANGED <<office, cursor, shown, wasPinned, pinnedEnds>>
    BY <1>9 DEF DeletePost
  <2>2. row \in Post /\ row.state = "gone"
    BY <1>d DEF Post
  <2> HIDE DEF row
  <2>3. /\ posts' \in [Posts -> Post] /\ posts'[p] = row
        /\ \A o \in Posts \ {p} : posts'[o] = posts[o]
    BY <1>b, <2>1, <2>2, OneRow
  <2>4. /\ comments' \in [Posts -> 0..MaxComments]
        /\ \A o \in Posts \ {p} : comments'[o] = comments[o]
    <3>1. 0 \in 0..MaxComments
      BY <1>c
    <3>2. QED
      BY <1>e, <2>1, <3>1
  <2>5. FeedTypeOK'
    BY <1>b, <2>1, <2>3, <2>4 DEF FeedTypeOK
  <2>6. There' = There \ {p}
    BY <2>1, <2>2, <2>3 DEF There
  <2>7. \A s \in Requests :
          office[s].op \in {"post", "toggle", "comment"} => office[s].post \in Posts
    BY <1>b, InTheOffice
  <2>8. RequestsFit'
    BY <1>b, <2>1, <2>2, <2>3, <2>4, <2>6, <2>7 DEF RequestsFit, There
  <2>9. DrawnApart' /\ CountersFit'
    BY <1>b, <2>1, <2>2, <2>3, <2>4 DEF DrawnApart, CountersFit
  <2>10. QED
    BY <1>b, <2>1, <2>5, <2>6, <2>8, <2>9 DEF PostsInv
\* The reader changes no row.
<1>10. ASSUME UNCHANGED <<posts, comments, office>>, FeedTypeOK', throughout' \subseteq There
       PROVE  PostsInv'
  <2>1. There' = There
    BY <1>10 DEF There
  <2>2. QED
    BY <1>10, <1>b, <2>1 DEF PostsInv, RequestsFit, DrawnApart, CountersFit
<1>11. CASE OpenFeed
  <2>1. FeedTypeOK' /\ throughout' \subseteq There
    BY <1>11, <1>b, FeedAssumption DEF OpenFeed, FeedTypeOK, Top, Posts, There
  <2>2. QED
    BY <1>10, <1>11, <2>1 DEF OpenFeed
<1>12. CASE NextPage
  <2>1. cursor \in 0..Top /\ Posts \subseteq 0..Top /\ End \in 0..Top
    BY <1>b, FeedAssumption DEF FeedTypeOK, Posts, Top, End
  <2>2. /\ Page(cursor) \subseteq Posts
        /\ Page(cursor) # Below(cursor) => LastOf(Page(cursor)) \in Posts
    BY <1>b, <2>1, PageIsAPrefix
  <2>3. cursor' \in 0..Top /\ pinnedEnds' \subseteq Posts
    BY <1>12, <1>b, <2>1, <2>2 DEF NextPage, FeedTypeOK
  <2>4. shown' \in [Posts -> 0..2] /\ wasPinned' \subseteq Posts
    BY <1>12, <1>b, <2>2 DEF NextPage, FeedTypeOK
  <2>5. UNCHANGED <<posts, comments, office, throughout>>
    BY <1>12 DEF NextPage
  <2>6. FeedTypeOK' /\ throughout' \subseteq There
    BY <1>b, <2>3, <2>4, <2>5 DEF FeedTypeOK
  <2>7. QED
    BY <1>10, <2>5, <2>6
<1>13. ASSUME NEW q \in Requests, NEW p \in Posts, StartToggle(q, p) \/ StartComment(q, p)
       PROVE  PostsInv'
  <2>1. posts[p].is_pinned \in BOOLEAN /\ posts[p].comments_count \in 0..MaxComments
    BY <1>d DEF Post
  <2>2. CASE StartToggle(q, p)
    <3> DEFINE r == [op |-> "toggle", post |-> p, pinned |-> ~posts[p].is_pinned]
    <3>1. r \in ToggleRequest /\ r.post = p /\ r.op # "comment"
      BY <2>1 DEF ToggleRequest
    <3>2. /\ p \in There /\ office' = [office EXCEPT ![q] = r]
          /\ UNCHANGED <<posts, comments, readerVars>>
      BY <2>2 DEF StartToggle
    <3> HIDE DEF r
    <3>3. QED
      BY <1>3, <3>1, <3>2
  <2>3. CASE StartComment(q, p)
    <3> DEFINE r == [op |-> "comment", post |-> p, count |-> posts[p].comments_count]
    <3>1. /\ p \in There /\ office' = [office EXCEPT ![q] = r]
          /\ UNCHANGED <<posts, comments, readerVars>>
      BY <2>3 DEF StartComment
    <3>2. r \in CommentRequest /\ r.post = p /\ r.count <= comments[p]
      BY <1>b, <2>1, <3>1 DEF CommentRequest, CountersFit, There
    <3> HIDE DEF r
    <3>3. QED
      BY <1>3, <3>1, <3>2
  <2>4. QED
    BY <1>13, <2>2, <2>3
<1>14. QED
  BY <1>1, <1>2, <1>5, <1>6, <1>7, <1>8, <1>9, <1>11, <1>12, <1>13 DEF FeedNext

LEMMA ReaderInvStep ==
  ASSUME PostsInv, ReaderInv, [FeedNext]_feedVars
  PROVE  ReaderInv'
<1>0. FeedTypeOK /\ throughout \subseteq There
  BY DEF PostsInv
<1>1. ASSUME UNCHANGED <<cursor, shown, wasPinned, pinnedEnds>>, throughout' \subseteq throughout
      PROVE  ReaderInv'
  BY <1>1 DEF ReaderInv, MissedOnlyBehindPins, RepeatedOnlyIfPinned
<1>2. CASE OpenFeed
  <2>1. \A p \in throughout' : p < cursor'
    BY <1>2, FeedAssumption DEF OpenFeed, There, Posts, Top
  <2>2. \A p \in Posts : shown'[p] = 0
    BY <1>2 DEF OpenFeed
  <2>3. QED
    BY <2>1, <2>2 DEF ReaderInv, MissedOnlyBehindPins, RepeatedOnlyIfPinned
<1>3. CASE NextPage
  <2> DEFINE page == Page(cursor)
             rest == Below(cursor) \ page
             last == LastOf(page)
  <2>1. cursor \in 0..Top /\ cursor \in Int /\ Posts \subseteq Int
    BY <1>0, FeedAssumption DEF FeedTypeOK, Top, Posts
  <2>2. /\ page \subseteq Below(cursor) /\ Below(cursor) \subseteq Posts
        /\ rest # {} => last \in page
        /\ \A p \in rest, o \in page : Before(o, p)
        /\ page # {} => \A o \in page : o = last \/ Before(o, last)
    BY <1>0, <2>1, PageIsAPrefix
  <2>3. /\ \A p \in Posts : shown[p] \in 0..2 /\ posts[p].is_pinned \in BOOLEAN
        /\ shown' = [p \in Posts |-> IF p \in page /\ shown[p] < 2 THEN shown[p] + 1 ELSE shown[p]]
        /\ wasPinned' = wasPinned \cup {p \in page : posts[p].is_pinned}
        /\ throughout' = throughout
    BY <1>0, <1>3 DEF NextPage, FeedTypeOK, Post
  <2>4. \/ rest = {} /\ cursor' = End /\ pinnedEnds' = pinnedEnds
        \/ /\ rest # {} /\ cursor' = last
           /\ pinnedEnds' = pinnedEnds \cup {p \in {last} : posts[p].is_pinned}
    <3>1. /\ page = Below(cursor) => cursor' = End /\ pinnedEnds' = pinnedEnds
          /\ page # Below(cursor) =>
               /\ cursor' = last
               /\ pinnedEnds' = pinnedEnds \cup {p \in {last} : posts[p].is_pinned}
      BY <1>3 DEF NextPage
    <3>2. page = Below(cursor) <=> rest = {}
      BY <2>2
    <3> HIDE DEF page, rest, last
    <3>3. QED
      BY <3>1, <3>2
  <2>5. \A p \in Posts : /\ shown'[p] > 0 <=> shown[p] > 0 \/ p \in page
                         /\ shown'[p] > 1 => shown[p] > 1 \/ (shown[p] > 0 /\ p \in page)
    <3> HIDE DEF page, rest, last
    <3> QED
      BY <2>3
  <2>6. \A p \in Below(cursor) : p < cursor
    BY DEF Below
  <2>7. pinnedEnds \subseteq pinnedEnds' /\ wasPinned \subseteq wasPinned'
    BY <2>3, <2>4
  <2> HIDE DEF page, rest, last
  <2>8. RepeatedOnlyIfPinned'
    <3> SUFFICES ASSUME NEW p \in Posts, shown'[p] > 1 PROVE p \in wasPinned'
      BY DEF RepeatedOnlyIfPinned
    <3>1. CASE shown[p] > 1
      BY <2>7, <3>1 DEF ReaderInv, RepeatedOnlyIfPinned
    <3>2. CASE shown[p] > 0 /\ p \in page
      <4>1. p < cursor
        BY <2>2, <2>6, <3>2
      <4>2. p \in wasPinned
        BY <2>1, <3>2, <4>1 DEF ReaderInv
      <4>3. QED
        BY <2>7, <4>2
    <3>3. QED
      BY <2>5, <3>1, <3>2
  <2>9. ASSUME NEW p \in Posts, shown'[p] > 0, p \notin wasPinned' PROVE p >= cursor'
    <3>1. CASE rest = {}
      BY <2>1, <2>4, <3>1, FeedAssumption DEF End, Posts
    <3>2. CASE rest # {} /\ p \in page
      <4>1. ~posts[p].is_pinned /\ (p = last \/ Before(p, last)) /\ last \in Posts /\ cursor' = last
        BY <2>2, <2>3, <2>4, <2>9, <3>2
      <4>2. QED
        BY <2>1, <2>3, <4>1 DEF Before
    <3>3. CASE rest # {} /\ p \notin page
      <4>1. p >= cursor
        BY <2>5, <2>7, <2>9, <3>3 DEF ReaderInv
      <4>2. last < cursor /\ last \in Posts /\ cursor' = last
        BY <2>2, <2>4, <2>6, <3>3
      <4>3. QED
        BY <2>1, <4>1, <4>2
    <3>4. QED
      BY <3>1, <3>2, <3>3
  <2>10. ASSUME NEW p \in throughout
         PROVE  shown'[p] > 0 \/ p < cursor' \/ \E o \in pinnedEnds' : o < p
    <3>1. p \in Posts /\ p \in There
      BY <1>0 DEF There
    <3>2. CASE shown[p] > 0 \/ \E o \in pinnedEnds : o < p
      BY <2>5, <2>7, <3>1, <3>2
    <3>3. CASE p < cursor /\ p \in page
      BY <2>5, <3>1, <3>3
    <3>4. CASE p < cursor /\ p \notin page
      <4>1. p \in rest
        BY <3>1, <3>4 DEF rest, Below
      <4>2. last \in Posts /\ cursor' = last /\ Before(last, p)
        BY <2>2, <2>4, <4>1
      <4>3. CASE posts[last].is_pinned
        <5>1. last \in pinnedEnds' /\ last # p
          BY <2>2, <2>4, <4>1, <4>2, <4>3 DEF rest
        <5>2. last < p \/ p < last
          BY <2>1, <3>1, <4>2, <5>1
        <5>3. QED
          BY <4>2, <5>1, <5>2
      <4>4. CASE ~posts[last].is_pinned
        BY <2>1, <2>3, <3>1, <4>2, <4>4 DEF Before
      <4>5. QED
        BY <4>3, <4>4
    <3>5. QED
      BY <3>2, <3>3, <3>4 DEF ReaderInv, MissedOnlyBehindPins
  <2>11. QED
    BY <2>3, <2>8, <2>9, <2>10 DEF ReaderInv, MissedOnlyBehindPins
<1>4. QED
  BY <1>1, <1>2, <1>3
     DEF FeedNext, StartPost, CommitPost, DeletePost, StartToggle, CommitToggle, StartComment,
         CommitComment, OfficeFails, feedVars, readerVars

LEMMA FeedInit_Inv == FeedInit => PostsInv /\ ReaderInv
<1> SUFFICES ASSUME FeedInit PROVE PostsInv /\ ReaderInv
  OBVIOUS
<1>1. 0 \in 0..MaxComments /\ End \in 0..Top /\ 0 \in 0..2 /\ 0 <= 0
  BY FeedAssumption DEF End, Top
<1>2. FeedTypeOK
  BY <1>1 DEF FeedInit, FeedTypeOK, Post, NoRequests
<1>3. RequestsFit /\ DrawnApart /\ CountersFit
  BY <1>1 DEF FeedInit, RequestsFit, DrawnApart, CountersFit, NoRequests, Free
<1>4. ReaderInv
  BY DEF FeedInit, ReaderInv, MissedOnlyBehindPins, RepeatedOnlyIfPinned
<1>5. QED
  BY <1>2, <1>3, <1>4 DEF PostsInv, FeedInit

\* Whatever is posted, pinned and deleted while a reader scrolls, a post that was
\* there throughout is missed only behind a pinned one that ended a page, and one
\* that is shown twice was shown as pinned.
THEOREM ScrollsFailOnlyAtPins == FeedSpec => []ScrollFailsOnlyAtPins
<1>1. PostsInv /\ ReaderInv /\ [FeedNext]_feedVars => (PostsInv /\ ReaderInv)'
  BY PostsInvStep, ReaderInvStep
<1>2. ReaderInv => ScrollFailsOnlyAtPins
  BY DEF ReaderInv, ScrollFailsOnlyAtPins
<1>3. QED
  BY <1>1, <1>2, FeedInit_Inv, PTL DEF FeedSpec

------------------------------------------------------------------------------
(* Comments, one request at a time *)

\* What a comment has read is what is there, when nothing runs beside it.
CountedInv ==
  /\ NoOverlap(office) /\ CommentsAreCounted
  /\ \A p \in Posts : posts[p].state \in {"unused", "drawn"} => comments[p] = 0
  /\ \A q \in Requests :
       office[q].op = "comment" /\ office[q].post \in There =>
         office[q].count = comments[office[q].post]

LEMMA CountedInvInit == FeedInit => CountedInv
BY DEF FeedInit, CountedInv, CommentsAreCounted, There, NoOverlap, NoRequests, Free

LEMMA CountedInvStep ==
  ASSUME PostsInv, CountedInv, [FeedNext]_feedVars, NoOverlap(office')
  PROVE  CountedInv'
<1>0. FeedTypeOK /\ RequestsFit /\ CountersFit /\ CommentsAreCounted /\ NoOverlap(office)
  BY DEF PostsInv, CountedInv
<1>a. Free.op # "comment"
  BY DEF Free
<1>1. CASE UNCHANGED feedVars
  BY <1>1 DEF feedVars, CountedInv, CommentsAreCounted, There
\* No row changes: a comment that begins reads what is there.
<1>2. ASSUME UNCHANGED <<posts, comments>>,
             \A q \in Requests : office'[q].op = "comment" =>
               \/ office'[q] = office[q]
               \/ office'[q].post \in There /\ office'[q].count = posts[office'[q].post].comments_count
      PROVE  CountedInv'
  BY <1>2 DEF CountedInv, CommentsAreCounted, There
\* A request ends: none is left, and its post is as it should be.
<1>3. ASSUME NEW q \in Requests, office[q] # Free, Ends(q), NEW p \in Posts,
             \A o \in Posts \ {p} : posts'[o] = posts[o] /\ comments'[o] = comments[o],
             posts'[p].state = "there" => posts'[p].comments_count = comments'[p],
             posts'[p].state \notin {"unused", "drawn"}
      PROVE  CountedInv'
  <2>1. \A s \in Requests : office'[s] = Free
    BY <1>0, <1>3 DEF NoOverlap, Ends, FeedTypeOK
  <2>2. QED
    BY <1>a, <1>3, <2>1 DEF CountedInv, CommentsAreCounted, There
<1>4. \A p \in Posts : posts[p] \in Post
  BY <1>0 DEF FeedTypeOK
<1>5. ASSUME NEW q \in Requests, NEW p \in Posts, NEW pinned \in BOOLEAN, StartPost(q, p, pinned)
      PROVE  CountedInv'
  <2>1. /\ posts[p].state = "unused" /\ comments' = comments
        /\ posts' = [posts EXCEPT ![p] = [posts[p] EXCEPT !.state = "drawn"]]
    BY <1>5 DEF StartPost
  <2>2. /\ posts'[p].state = "drawn" /\ \A o \in Posts \ {p} : posts'[o] = posts[o]
    BY <1>0, <1>4, <2>1 DEF FeedTypeOK, Post
  <2>3. There' = There /\ p \notin There
    BY <2>1, <2>2 DEF There
  <2>4. \A s \in Requests : office'[s].op = "comment" => office'[s] = office[s]
    BY <1>0, <1>5 DEF StartPost, FeedTypeOK
  <2>5. QED
    BY <2>1, <2>2, <2>3, <2>4 DEF CountedInv, CommentsAreCounted, There
<1>6. ASSUME NEW q \in Requests, CommitPost(q) PROVE CountedInv'
  <2> DEFINE p == office[q].post
             row == [[posts[p] EXCEPT !.state = "there"] EXCEPT !.is_pinned = office[q].pinned]
  <2>1. p \in Posts /\ posts[p].state = "drawn" /\ office[q] # Free /\ Ends(q) /\ comments' = comments
    BY <1>0, <1>6, InTheOffice DEF CommitPost, RequestsFit, Free
  <2>2. row.state = "there" /\ row.comments_count = 0 /\ comments[p] = 0
    BY <1>0, <1>4, <2>1 DEF Post, CountersFit, CountedInv
  <2>3. posts' = [posts EXCEPT ![p] = row]
    BY <1>0, <1>6, <2>1 DEF CommitPost, FeedTypeOK
  <2> HIDE DEF row
  <2>4. posts'[p] = row /\ \A o \in Posts \ {p} : posts'[o] = posts[o]
    BY <1>0, <2>1, <2>3 DEF FeedTypeOK
  <2>5. QED
    BY <1>3, <2>1, <2>2, <2>4
<1>7. ASSUME NEW q \in Requests, CommitToggle(q) PROVE CountedInv'
  <2> DEFINE p == office[q].post
             row == [posts[p] EXCEPT !.is_pinned = office[q].pinned]
  <2>1. p \in There /\ p \in Posts /\ office[q] # Free /\ Ends(q) /\ comments' = comments
    BY <1>7 DEF CommitToggle, There, Free
  <2>2. row.state = "there" /\ row.comments_count = comments[p]
    BY <1>0, <1>4, <2>1 DEF Post, CommentsAreCounted, There
  <2>3. posts' = [posts EXCEPT ![p] = row]
    BY <1>7 DEF CommitToggle
  <2> HIDE DEF row
  <2>4. posts'[p] = row /\ \A o \in Posts \ {p} : posts'[o] = posts[o]
    BY <1>0, <2>1, <2>3 DEF FeedTypeOK
  <2>5. QED
    BY <1>3, <2>1, <2>2, <2>4
<1>8. ASSUME NEW q \in Requests, CommitComment(q) PROVE CountedInv'
  <2> DEFINE p == office[q].post
             row == [posts[p] EXCEPT !.comments_count = office[q].count + 1]
  <2>1. /\ p \in There /\ p \in Posts /\ office[q] # Free /\ office[q].op = "comment" /\ Ends(q)
        /\ comments' = [comments EXCEPT ![p] = @ + 1]
    BY <1>8 DEF CommitComment, There, Free
  <2>2. office[q].count = comments[p]
    BY <2>1 DEF CountedInv
  <2>3. row.state = "there" /\ row.comments_count = office[q].count + 1
    BY <1>4, <2>1 DEF Post, There
  <2>4. posts' = [posts EXCEPT ![p] = row]
    BY <1>8 DEF CommitComment
  <2> HIDE DEF row
  <2>5. /\ posts'[p] = row /\ comments'[p] = comments[p] + 1
        /\ \A o \in Posts \ {p} : posts'[o] = posts[o] /\ comments'[o] = comments[o]
    BY <1>0, <2>1, <2>4 DEF FeedTypeOK
  <2>6. QED
    BY <1>3, <2>1, <2>2, <2>3, <2>5
<1>9. ASSUME NEW q \in Requests, OfficeFails(q) PROVE CountedInv'
  <2>1. CASE office[q].op = "post"
    <3> DEFINE p == office[q].post
               row == [posts[p] EXCEPT !.state = "gone"]
    <3>1. p \in Posts /\ office[q] # Free /\ Ends(q) /\ comments' = comments
      BY <1>0, <1>9, <2>1, InTheOffice DEF OfficeFails
    <3>2. row.state = "gone" /\ posts' = [posts EXCEPT ![p] = row]
      BY <1>4, <1>9, <2>1, <3>1 DEF OfficeFails, Post
    <3> HIDE DEF row
    <3>3. posts'[p] = row /\ \A o \in Posts \ {p} : posts'[o] = posts[o]
      BY <1>0, <3>1, <3>2 DEF FeedTypeOK
    <3>4. QED
      BY <1>3, <3>1, <3>2, <3>3
  <2>2. CASE office[q].op # "post"
    <3>1. \A s \in Requests : office'[s] = Free \/ office'[s] = office[s]
      BY <1>0, <1>9 DEF OfficeFails, Ends, FeedTypeOK
    <3>2. QED
      BY <1>2, <1>9, <1>a, <2>2, <3>1 DEF OfficeFails
  <2>3. QED
    BY <2>1, <2>2
<1>10. ASSUME NEW p \in Posts, DeletePost(p) PROVE CountedInv'
  <2>1. /\ posts' = [posts EXCEPT ![p] = [posts[p] EXCEPT !.state = "gone"]]
        /\ comments' = [comments EXCEPT ![p] = 0] /\ office' = office
    BY <1>10 DEF DeletePost
  <2>2. /\ posts'[p].state = "gone"
        /\ \A o \in Posts \ {p} : posts'[o] = posts[o] /\ comments'[o] = comments[o]
    BY <1>0, <1>4, <2>1 DEF FeedTypeOK, Post
  <2>3. There' = There \ {p}
    BY <1>10, <2>2 DEF DeletePost, There
  <2>4. QED
    BY <1>0, <2>1, <2>2, <2>3 DEF CountedInv, CommentsAreCounted, There
<1>11. ASSUME NEW q \in Requests, NEW p \in Posts, StartToggle(q, p) \/ StartComment(q, p)
       PROVE  CountedInv'
  <2>1. \A s \in Requests : s # q => office'[s] = office[s]
    BY <1>0, <1>11 DEF StartToggle, StartComment, FeedTypeOK
  <2>2. office'[q].op = "comment" => office'[q].post = p /\ office'[q].count = posts[p].comments_count
    BY <1>0, <1>11 DEF StartToggle, StartComment, FeedTypeOK
  <2>3. p \in There /\ UNCHANGED <<posts, comments>>
    BY <1>11 DEF StartToggle, StartComment
  <2>4. QED
    BY <1>2, <2>1, <2>2, <2>3
<1>12. CASE OpenFeed \/ NextPage
  BY <1>2, <1>12 DEF OpenFeed, NextPage
<1>13. QED
  BY <1>1, <1>5, <1>6, <1>7, <1>8, <1>9, <1>10, <1>11, <1>12 DEF FeedNext
==============================================================================
