----------------------------- MODULE DeskProofs ------------------------------
(***************************************************************************)
(* Proofs about Registrations and Submissions, for any events, attendees,  *)
(* tickets, capacities, files and number of overlapping requests; and,     *)
(* when requests do not overlap, that the count of an event is the number  *)
(* of its rows and that the file handed in last is the one that counts.    *)
(***************************************************************************)
EXTENDS Registrations, Submissions, FiniteSetTheorems, TLAPS

\* The type invariant is inductive.
LEMMA RegistrationsTyping ==
  RegistrationsTypeOK /\ [RegistrationsNext]_registrationVars => RegistrationsTypeOK'
<1> SUFFICES ASSUME RegistrationsTypeOK, [RegistrationsNext]_registrationVars
             PROVE  RegistrationsTypeOK'
  OBVIOUS
<1> USE SeatsAssumption
    DEF RegistrationsTypeOK, CollegeEvent, EventRegistration, RegisterRequest,
        UnregisterRequest, Gatherings, Listed, Free, Unused, Cancelled
<1>1. ASSUME NEW q \in Requests, DeskNext(q)
      PROVE  RegistrationsTypeOK'
  <2>1. ASSUME NEW g \in Gatherings, NEW s \in Attendees, StartRegister(q, g, s)
        PROVE  RegistrationsTypeOK'
    BY <2>1 DEF StartRegister
  <2>2. ASSUME NEW g \in Gatherings, NEW s \in Attendees, StartUnregister(q, g, s)
        PROVE  RegistrationsTypeOK'
    BY <2>2 DEF StartUnregister
  <2>3. CASE CommitRegister(q)
    BY <2>3 DEF CommitRegister
  <2>4. CASE CommitUnregister(q)
    BY <2>4 DEF CommitUnregister
  <2>5. CASE DeskFails(q)
    BY <2>5 DEF DeskFails
  <2>6. QED
    BY <1>1, <2>1, <2>2, <2>3, <2>4, <2>5 DEF DeskNext, RegisterEvent, RegisterCompetition
<1>2. ASSUME NEW g \in Gatherings, DeleteEvent(g)
      PROVE  RegistrationsTypeOK'
  BY <1>2 DEF DeleteEvent
<1>3. ASSUME NEW g \in Gatherings, NEW max \in Seats, Announce(g, max)
      PROVE  RegistrationsTypeOK'
  BY <1>3 DEF Announce
<1>4. ASSUME NEW g \in Gatherings, NEW max \in Seats, UpdateEvent(g, max)
      PROVE  RegistrationsTypeOK'
  BY <1>4 DEF UpdateEvent
<1>5. CASE UNCHANGED registrationVars
  BY <1>5 DEF registrationVars
<1>6. QED
  BY <1>1, <1>2, <1>3, <1>4, <1>5
  DEF RegistrationsNext, CreateEvent, CreateCompetition

LEMMA RegistrationsTypeInit == RegistrationsInit => RegistrationsTypeOK
BY SeatsAssumption
DEF RegistrationsInit, RegistrationsTypeOK, CollegeEvent, NoRequests, Unused

\* Whatever overlaps, every variable of registrations keeps its type.
THEOREM RegistrationsTypeCorrect == RegistrationsSpec => []RegistrationsTypeOK
BY RegistrationsTypeInit, RegistrationsTyping, PTL DEF RegistrationsSpec

------------------------------------------------------------------------------

\* Why the count stays within the offer: the capacity of the moment is within
\* it too, and so is what any request in flight read, plus the one it adds.
WithinOffer(g, n) == offered[g] # 0 => n <= offered[g]

OfferInv ==
  /\ RegistrationsTypeOK
  /\ \A g \in Gatherings :
       /\ gatherings[g].state = "absent" => gatherings[g].registered_count = 0
       /\ WithinOffer(g, gatherings[g].registered_count)
       /\ WithinOffer(g, gatherings[g].max_attendees)
       /\ offered[g] # 0 => gatherings[g].max_attendees # 0
  /\ \A q \in Requests : desk[q] # Free =>
       /\ gatherings[desk[q].at].state # "absent"
       /\ WithinOffer(desk[q].at, IF desk[q].op = "register" THEN desk[q].count + 1
                                                            ELSE desk[q].count)

LEMMA OfferInvInit == RegistrationsInit => OfferInv
BY SeatsAssumption
DEF RegistrationsInit, RegistrationsTypeOK, CollegeEvent, NoRequests, Unused, OfferInv, WithinOffer

LEMMA OfferInvStep == OfferInv /\ [RegistrationsNext]_registrationVars => OfferInv'
<1> SUFFICES ASSUME OfferInv, [RegistrationsNext]_registrationVars
             PROVE  OfferInv'
  OBVIOUS
<1>0. RegistrationsTypeOK'
  BY RegistrationsTyping DEF OfferInv
<1> USE SeatsAssumption, <1>0
    DEF OfferInv, WithinOffer, RegistrationsTypeOK, CollegeEvent, EventRegistration,
        RegisterRequest, UnregisterRequest, Gatherings, Listed, Free
<1>1. ASSUME NEW q \in Requests, DeskNext(q)
      PROVE  OfferInv'
  <2>1. ASSUME NEW g \in Gatherings, NEW s \in Attendees, StartRegister(q, g, s)
        PROVE  OfferInv'
    <3>1. WithinOffer(g, gatherings[g].registered_count + 1)
      <4>1. /\ gatherings[g].registered_count \in Nat
            /\ gatherings[g].max_attendees \in Nat
            /\ offered[g] \in Nat
        OBVIOUS
      <4>2. gatherings[g].max_attendees # 0 =>
              gatherings[g].registered_count < gatherings[g].max_attendees
        BY <2>1 DEF StartRegister
      <4>3. QED
        BY <4>1, <4>2
    <3>2. desk'[q].at = g /\ desk'[q].op = "register"
          /\ desk'[q].count = gatherings[g].registered_count
      BY <2>1 DEF StartRegister
    <3>3. \A r \in Requests \ {q} : desk'[r] = desk[r]
      BY <2>1 DEF StartRegister
    <3>4. QED
      BY <2>1, <3>1, <3>2, <3>3 DEF StartRegister
  <2>2. ASSUME NEW g \in Gatherings, NEW s \in Attendees, StartUnregister(q, g, s)
        PROVE  OfferInv'
    BY <2>2 DEF StartUnregister
  <2>3. CASE CommitRegister(q)
    BY <2>3 DEF CommitRegister
  <2>4. CASE CommitUnregister(q)
    BY <2>4 DEF CommitUnregister
  <2>5. CASE DeskFails(q)
    BY <2>5 DEF DeskFails
  <2>6. QED
    BY <1>1, <2>1, <2>2, <2>3, <2>4, <2>5 DEF DeskNext, RegisterEvent, RegisterCompetition
<1>2. ASSUME NEW g \in Gatherings, DeleteEvent(g)
      PROVE  OfferInv'
  BY <1>2 DEF DeleteEvent
<1>3. ASSUME NEW g \in Gatherings, NEW max \in Seats, Announce(g, max)
      PROVE  OfferInv'
  BY <1>3 DEF Announce
<1>4. ASSUME NEW g \in Gatherings, NEW max \in Seats, UpdateEvent(g, max)
      PROVE  OfferInv'
  BY <1>4 DEF UpdateEvent
<1>5. CASE UNCHANGED registrationVars
  BY <1>5 DEF registrationVars
<1>6. QED
  BY <1>1, <1>2, <1>3, <1>4, <1>5
  DEF RegistrationsNext, CreateEvent, CreateCompetition

\* The count of register_event and register_competition, written back from a
\* stale read, never passes the most seats that were offered.
THEOREM NoOverbookedCount == RegistrationsSpec => []CountWithinOffer
<1>1. OfferInv => CountWithinOffer
  BY DEF OfferInv, CountWithinOffer, WithinOffer
<1>2. QED
  BY <1>1, OfferInvInit, OfferInvStep, PTL DEF RegistrationsSpec
------------------------------------------------------------------------------

\* The rows of an event are the rows of its students.
LEMMA RowsAtUnion ==
  \A h \in Gatherings :
    /\ RowsAt(h) \subseteq Tickets
    /\ \A l \in Tickets : l \in RowsAt(h) <=> \E t \in Attendees : l \in RowsOf(h, t)
BY DEF RowsAt, RowsOf

LEMMA RowsAtUnionAfter ==
  \A h \in Gatherings :
    /\ RowsAt(h)' \subseteq Tickets
    /\ \A l \in Tickets : l \in RowsAt(h)' <=> \E t \in Attendees : l \in RowsOf(h, t)'
BY DEF RowsAt, RowsOf

\* What INSERT and DELETE of one row do to the rows of events and students.
Inserts(g, s, k) ==
  /\ registrations[k] = Unused
  /\ registrations' = [registrations EXCEPT ![k] = [at |-> g, of |-> s]]

LEMMA RowInserted ==
  ASSUME RegistrationsTypeOK,
         NEW g \in Gatherings, NEW s \in Attendees, NEW k \in Tickets, Inserts(g, s, k)
  PROVE  /\ k \notin RowsAt(g)
         /\ \A h \in Gatherings :
              RowsAt(h)' = IF h = g THEN RowsAt(h) \cup {k} ELSE RowsAt(h)
         /\ \A h \in Gatherings, t \in Attendees :
              RowsOf(h, t)' = IF h = g /\ t = s THEN RowsOf(h, t) \cup {k} ELSE RowsOf(h, t)
<1>1. \A h \in Gatherings, t \in Attendees : Unused # [at |-> h, of |-> t]
  BY DEF Unused
<1>2. \A h \in Gatherings, t \in Attendees :
        [at |-> h, of |-> t] = [at |-> g, of |-> s] <=> h = g /\ t = s
  OBVIOUS
<1>3. \A l \in Tickets :
        registrations'[l] = IF l = k THEN [at |-> g, of |-> s] ELSE registrations[l]
  BY DEF Inserts, RegistrationsTypeOK
<1>4. \A l \in Tickets, h \in Gatherings, t \in Attendees :
        registrations'[l] = [at |-> h, of |-> t] <=>
          IF l = k THEN h = g /\ t = s ELSE registrations[l] = [at |-> h, of |-> t]
  BY <1>2, <1>3
<1>5. \A h \in Gatherings : k \notin RowsAt(h) /\ \A t \in Attendees : k \notin RowsOf(h, t)
  BY <1>1 DEF Inserts, RowsAt, RowsOf
<1>6. ASSUME NEW h \in Gatherings, NEW t \in Attendees
      PROVE  RowsOf(h, t)' = IF h = g /\ t = s THEN RowsOf(h, t) \cup {k} ELSE RowsOf(h, t)
  BY <1>4, <1>5 DEF RowsOf
<1>7. ASSUME NEW h \in Gatherings
      PROVE  RowsAt(h)' = IF h = g THEN RowsAt(h) \cup {k} ELSE RowsAt(h)
  <2>1. \A l \in Tickets : l \in RowsAt(h)' <=> l \in RowsAt(h) \/ (h = g /\ l = k)
    <3> SUFFICES ASSUME NEW l \in Tickets
                 PROVE  l \in RowsAt(h)' <=> l \in RowsAt(h) \/ (h = g /\ l = k)
      OBVIOUS
    <3>1. \A t \in Attendees : l \in RowsOf(h, t)' <=> l \in RowsOf(h, t) \/ (h = g /\ t = s /\ l = k)
      BY <1>4, <1>5 DEF RowsOf
    <3>2. QED
      BY <3>1, <1>5, RowsAtUnion, RowsAtUnionAfter
  <2>2. QED
    BY <2>1, <1>5, RowsAtUnion, RowsAtUnionAfter
<1>8. QED
  BY <1>5, <1>6, <1>7

LEMMA RowRemoved ==
  ASSUME RegistrationsTypeOK,
         NEW g \in Gatherings, NEW s \in Attendees, NEW k \in RowsOf(g, s),
         registrations' = [registrations EXCEPT ![k] = Cancelled]
  PROVE  /\ k \in RowsAt(g)
         /\ \A h \in Gatherings : RowsAt(h)' = IF h = g THEN RowsAt(h) \ {k} ELSE RowsAt(h)
         /\ \A h \in Gatherings, t \in Attendees : RowsOf(h, t)' = RowsOf(h, t) \ {k}
<1>1. \A h \in Gatherings, t \in Attendees : Cancelled # [at |-> h, of |-> t]
  BY DEF Cancelled
<1>2. \A h \in Gatherings, t \in Attendees :
        [at |-> h, of |-> t] = [at |-> g, of |-> s] <=> h = g /\ t = s
  OBVIOUS
<1>3. k \in Tickets /\ registrations[k] = [at |-> g, of |-> s]
  BY DEF RowsOf
<1>4. \A l \in Tickets, h \in Gatherings, t \in Attendees :
        registrations'[l] = [at |-> h, of |-> t] <=>
          l # k /\ registrations[l] = [at |-> h, of |-> t]
  BY <1>1, <1>3 DEF RegistrationsTypeOK
<1>5. \A h \in Gatherings : k \in RowsAt(h) <=> h = g
  BY <1>2, <1>3 DEF RowsAt
<1>6. ASSUME NEW h \in Gatherings, NEW t \in Attendees
      PROVE  RowsOf(h, t)' = RowsOf(h, t) \ {k}
  BY <1>4 DEF RowsOf
<1>7. ASSUME NEW h \in Gatherings
      PROVE  RowsAt(h)' = IF h = g THEN RowsAt(h) \ {k} ELSE RowsAt(h)
  <2>1. \A l \in Tickets : l \in RowsAt(h)' <=> l \in RowsAt(h) /\ l # k
    <3> SUFFICES ASSUME NEW l \in Tickets
                 PROVE  l \in RowsAt(h)' <=> l \in RowsAt(h) /\ l # k
      OBVIOUS
    <3>1. \A t \in Attendees : l \in RowsOf(h, t)' <=> l \in RowsOf(h, t) /\ l # k
      BY <1>4 DEF RowsOf
    <3>2. QED
      BY <3>1, <1>5, RowsAtUnion, RowsAtUnionAfter
  <2>2. QED
    BY <2>1, <1>5, RowsAtUnion, RowsAtUnionAfter
<1>8. QED
  BY <1>5, <1>6, <1>7

\* With one request at a time, what it read is still true of a listed event
\* when it commits.
SerialInv ==
  /\ RegistrationsTypeOK
  /\ NoOverlap(desk)
  /\ CountIsExact
  /\ OneRowEach
  /\ \A g \in Gatherings : gatherings[g].state = "absent" =>
       gatherings[g].registered_count = 0 /\ RowsAt(g) = {}
  /\ \A q \in Requests : desk[q] # Free =>
       /\ gatherings[desk[q].at].state # "absent"
       /\ Listed(desk[q].at) =>
            /\ desk[q].count = gatherings[desk[q].at].registered_count
            /\ desk[q].op = "register" => RowsOf(desk[q].at, desk[q].of) = {}
            /\ desk[q].op = "unregister" => RowsOf(desk[q].at, desk[q].of) = {desk[q].ticket}

\* A request of the desk, as the type invariant knows it.
LEMMA AtTheDesk ==
  ASSUME RegistrationsTypeOK, NEW q \in Requests, desk[q] # Free
  PROVE  /\ desk[q].op \in {"register", "unregister"}
         /\ desk[q].at \in Gatherings /\ desk[q].of \in Attendees /\ desk[q].count \in Nat
         /\ desk[q].op = "unregister" => desk[q].ticket \in Tickets
BY DEF RegistrationsTypeOK, RegisterRequest, UnregisterRequest

LEMMA SerialInvInit == RegistrationsInit => SerialInv
<1> SUFFICES ASSUME RegistrationsInit PROVE SerialInv
  OBVIOUS
<1>1. \A g \in Gatherings : RowsAt(g) = {}
  BY DEF RegistrationsInit, RowsAt, Unused
<1>2. \A g \in Gatherings, s \in Attendees : RowsOf(g, s) = {}
  BY DEF RegistrationsInit, RowsOf, Unused
<1>3. RegistrationsTypeOK
  BY SeatsAssumption
  DEF RegistrationsInit, RegistrationsTypeOK, CollegeEvent, NoRequests, Unused
<1>4. \A q \in Requests : desk[q] = Free
  BY DEF RegistrationsInit, NoRequests
<1>5. \A g \in Gatherings : gatherings[g].state = "absent" /\ gatherings[g].registered_count = 0
  BY DEF RegistrationsInit
<1>6. QED
  BY <1>1, <1>2, <1>3, <1>4, <1>5
  DEF SerialInv, NoOverlap, CountIsExact, OneRowEach, Listed

LEMMA SerialInvStep ==
  SerialInv /\ [RegistrationsNext /\ NoOverlap(desk)']_registrationVars => SerialInv'
<1>s. SerialInv /\ UNCHANGED registrationVars => SerialInv'
  <2> SUFFICES ASSUME SerialInv, UNCHANGED registrationVars PROVE SerialInv'
    OBVIOUS
  <2>1. /\ \A h \in Gatherings : RowsAt(h)' = RowsAt(h)
        /\ \A h, t : RowsOf(h, t)' = RowsOf(h, t)
    BY DEF registrationVars, RowsAt, RowsOf
  <2>2. CountIsExact' /\ OneRowEach'
    BY <2>1 DEF SerialInv, CountIsExact, OneRowEach, registrationVars, Listed
  <2>3. QED
    BY <2>1, <2>2 DEF registrationVars, SerialInv, RegistrationsTypeOK, NoOverlap, Listed
<1> SUFFICES ASSUME SerialInv, RegistrationsNext, NoOverlap(desk)'
             PROVE  SerialInv'
  BY <1>s
<1>0. RegistrationsTypeOK /\ RegistrationsTypeOK'
  BY RegistrationsTyping DEF SerialInv
<1>1. \A g \in Gatherings : IsFiniteSet(RowsAt(g))
  BY TicketsAssumption, FS_Subset DEF RowsAt
<1>2. ASSUME NEW q \in Requests, DeskNext(q)
      PROVE  SerialInv'
  <2>1. ASSUME NEW g \in Gatherings, NEW s \in Attendees, StartRegister(q, g, s)
        PROVE  SerialInv'
    <3>1. /\ \A h \in Gatherings : RowsAt(h)' = RowsAt(h)
          /\ \A h \in Gatherings, t \in Attendees : RowsOf(h, t)' = RowsOf(h, t)
      BY <2>1 DEF StartRegister, RowsAt, RowsOf
    <3>2. /\ desk'[q].at = g /\ desk'[q].of = s /\ desk'[q].op = "register"
          /\ desk'[q].count = gatherings[g].registered_count
      BY <1>0, <2>1 DEF StartRegister, RegistrationsTypeOK
    <3>3. \A r \in Requests \ {q} : desk'[r] = desk[r]
      BY <1>0, <2>1 DEF StartRegister, RegistrationsTypeOK
    <3>4. UNCHANGED gatherings /\ Listed(g) /\ RowsOf(g, s) = {}
      BY <2>1 DEF StartRegister
    <3>5. \A r \in Requests : desk'[r] # Free => r = q
      BY <3>2, <1>0, AtTheDesk DEF NoOverlap, Free
    <3>6. QED
      BY <1>0, <3>1, <3>2, <3>4, <3>5
      DEF SerialInv, CountIsExact, OneRowEach, Listed
  <2>2. ASSUME NEW g \in Gatherings, NEW s \in Attendees, StartUnregister(q, g, s)
        PROVE  SerialInv'
    <3>1. /\ \A h \in Gatherings : RowsAt(h)' = RowsAt(h)
          /\ \A h \in Gatherings, t \in Attendees : RowsOf(h, t)' = RowsOf(h, t)
      BY <2>2 DEF StartUnregister, RowsAt, RowsOf
    <3>2. /\ desk'[q].at = g /\ desk'[q].of = s /\ desk'[q].op = "unregister"
          /\ desk'[q].count = gatherings[g].registered_count
          /\ RowsOf(g, s) = {desk'[q].ticket}
      BY <1>0, <2>2 DEF StartUnregister, RegistrationsTypeOK
    <3>3. UNCHANGED gatherings /\ Listed(g)
      BY <2>2 DEF StartUnregister
    <3>4. \A r \in Requests : desk'[r] # Free => r = q
      BY <3>2, <1>0 DEF NoOverlap, Free
    <3>5. QED
      BY <1>0, <3>1, <3>2, <3>3, <3>4
      DEF SerialInv, CountIsExact, OneRowEach, Listed
  <2>3. CASE CommitRegister(q)
    <3>0. PICK g, s : g = desk[q].at /\ s = desk[q].of
      OBVIOUS
    <3>1. desk[q] # Free /\ g \in Gatherings /\ s \in Attendees /\ desk[q].count \in Nat
      BY <1>0, <2>3, <3>0, AtTheDesk DEF CommitRegister, Free
    <3>2. PICK k \in Tickets : Inserts(g, s, k)
      BY <2>3, <3>0 DEF CommitRegister, Inserts
    <3>3. /\ k \notin RowsAt(g)
          /\ \A h \in Gatherings :
               RowsAt(h)' = IF h = g THEN RowsAt(h) \cup {k} ELSE RowsAt(h)
          /\ \A h \in Gatherings, t \in Attendees :
               RowsOf(h, t)' = IF h = g /\ t = s THEN RowsOf(h, t) \cup {k} ELSE RowsOf(h, t)
      BY <1>0, <3>1, <3>2, RowInserted
    <3>4. /\ Listed(g) /\ RowsOf(g, s) = {}
          /\ desk[q].count = gatherings[g].registered_count
      BY <2>3, <3>0, <3>1 DEF CommitRegister, SerialInv
    <3>5. \A h \in Gatherings :
            /\ gatherings'[h].state = gatherings[h].state
            /\ gatherings'[h].registered_count = gatherings[h].registered_count
                                                   + (IF h = g THEN 1 ELSE 0)
      BY <1>0, <2>3, <3>0, <3>1, <3>4 DEF CommitRegister, RegistrationsTypeOK, CollegeEvent
    <3>6. \A r \in Requests : desk'[r] = Free
      BY <1>0, <2>3, <3>0, <3>1 DEF CommitRegister, SerialInv, NoOverlap, RegistrationsTypeOK
    <3>7. Cardinality(RowsAt(g) \cup {k}) = Cardinality(RowsAt(g)) + 1
      BY <1>1, <3>1, <3>3, FS_AddElement
    <3>8. CountIsExact'
      <4> SUFFICES ASSUME NEW h \in Gatherings, Listed(h)'
                   PROVE  gatherings'[h].registered_count = Cardinality(RowsAt(h)')
        BY DEF CountIsExact
      <4>1. Listed(h) /\ gatherings[h].registered_count = Cardinality(RowsAt(h))
        BY <3>5 DEF SerialInv, CountIsExact, Listed
      <4>2. CASE h = g
        BY <4>1, <4>2, <3>3, <3>5, <3>7
      <4>3. CASE h # g
        <5>1. gatherings[h].registered_count \in Nat
          BY <1>0 DEF RegistrationsTypeOK, CollegeEvent
        <5>2. QED
          BY <4>1, <4>3, <5>1, <3>3, <3>5
      <4>4. QED
        BY <4>2, <4>3
    <3>9. OneRowEach'
      BY <3>3, <3>4 DEF SerialInv, OneRowEach
    <3>10. QED
      BY <1>0, <3>3, <3>4, <3>5, <3>6, <3>8, <3>9
      DEF SerialInv, Listed, RegistrationsTypeOK, CollegeEvent
  <2>4. CASE CommitUnregister(q)
    <3> DEFINE g == desk[q].at
               k == desk[q].ticket
    <3>1. /\ desk[q] # Free /\ g \in Gatherings /\ desk[q].of \in Attendees
          /\ desk[q].count \in Nat
      BY <1>0, <2>4, AtTheDesk DEF CommitUnregister, Free
    <3>2. /\ Listed(g) /\ RowsOf(g, desk[q].of) = {k}
          /\ desk[q].count = gatherings[g].registered_count
      BY <2>4, <3>1 DEF CommitUnregister, SerialInv
    <3>3. registrations' = [registrations EXCEPT ![k] = Cancelled]
      BY <2>4 DEF CommitUnregister
    <3>4. /\ k \in RowsAt(g)
          /\ \A h \in Gatherings : RowsAt(h)' = IF h = g THEN RowsAt(h) \ {k} ELSE RowsAt(h)
          /\ \A h \in Gatherings, t \in Attendees : RowsOf(h, t)' = RowsOf(h, t) \ {k}
      BY <1>0, <3>1, <3>2, <3>3, RowRemoved
    <3>5. /\ Cardinality(RowsAt(g)) \in Nat
          /\ Cardinality(RowsAt(g) \ {k}) = Cardinality(RowsAt(g)) - 1
          /\ Cardinality(RowsAt(g)) # 0
      BY <1>1, <3>1, <3>4, FS_RemoveElement, FS_CardinalityType, FS_EmptySet
    <3>6. desk[q].count # 0
      BY <3>1, <3>2, <3>5 DEF SerialInv, CountIsExact
    <3>7. \A h \in Gatherings :
            /\ gatherings'[h].state = gatherings[h].state
            /\ gatherings'[h].registered_count = gatherings[h].registered_count
                                                   - (IF h = g THEN 1 ELSE 0)
      BY <1>0, <2>4, <3>1, <3>2, <3>6 DEF CommitUnregister, RegistrationsTypeOK, CollegeEvent
    <3>8. \A r \in Requests : desk'[r] = Free
      BY <1>0, <2>4, <3>1 DEF CommitUnregister, SerialInv, NoOverlap, RegistrationsTypeOK
    <3>9. CountIsExact'
      <4> SUFFICES ASSUME NEW h \in Gatherings, Listed(h)'
                   PROVE  gatherings'[h].registered_count = Cardinality(RowsAt(h)')
        BY DEF CountIsExact
      <4>1. Listed(h) /\ gatherings[h].registered_count = Cardinality(RowsAt(h))
        BY <3>7 DEF SerialInv, CountIsExact, Listed
      <4>2. CASE h = g
        BY <4>1, <4>2, <3>4, <3>5, <3>7
      <4>3. CASE h # g
        <5>1. gatherings[h].registered_count \in Nat
          BY <1>0 DEF RegistrationsTypeOK, CollegeEvent
        <5>2. QED
          BY <4>1, <4>3, <5>1, <3>4, <3>7
      <4>4. QED
        BY <4>2, <4>3
    <3>10. OneRowEach'
      BY <3>4 DEF SerialInv, OneRowEach
    <3>11. QED
      BY <1>0, <3>2, <3>4, <3>7, <3>8, <3>9, <3>10
      DEF SerialInv, Listed, RegistrationsTypeOK, CollegeEvent
  <2>5. CASE DeskFails(q)
    <3>1. /\ \A h \in Gatherings : RowsAt(h)' = RowsAt(h)
          /\ \A h \in Gatherings, t \in Attendees : RowsOf(h, t)' = RowsOf(h, t)
          /\ UNCHANGED gatherings
      BY <2>5 DEF DeskFails, RowsAt, RowsOf
    <3>2. \A r \in Requests : desk'[r] = Free
      BY <1>0, <2>5 DEF DeskFails, SerialInv, NoOverlap, RegistrationsTypeOK
    <3>3. QED
      BY <1>0, <3>1, <3>2 DEF SerialInv, CountIsExact, OneRowEach, Listed
  <2>6. QED
    BY <1>2, <2>1, <2>2, <2>3, <2>4, <2>5 DEF DeskNext, RegisterEvent, RegisterCompetition
<1>3. ASSUME NEW g \in Gatherings, DeleteEvent(g)
      PROVE  SerialInv'
  <2>1. \A h \in Gatherings : h # g => gatherings'[h] = gatherings[h]
    BY <1>0, <1>3 DEF DeleteEvent, RegistrationsTypeOK
  <2>2. gatherings'[g].state = "deleted" /\ Listed(g)
    BY <1>0, <1>3 DEF DeleteEvent, RegistrationsTypeOK, CollegeEvent
  <2>3. \A k \in Tickets : registrations'[k] = IF k \in RowsAt(g) THEN Cancelled ELSE registrations[k]
    BY <1>3 DEF DeleteEvent
  <2>3a. \A h \in Gatherings, t \in Attendees :
           /\ Cancelled # [at |-> h, of |-> t]
           /\ \A i \in Gatherings, u \in Attendees :
                [at |-> h, of |-> t] = [at |-> i, of |-> u] => h = i
    BY DEF Cancelled
  <2>3b. \A k \in Tickets, h \in Gatherings, t \in Attendees :
           registrations'[k] = [at |-> h, of |-> t] <=>
             h # g /\ registrations[k] = [at |-> h, of |-> t]
    BY <2>3, <2>3a DEF RowsAt
  <2>4. \A h \in Gatherings, t \in Attendees :
          RowsOf(h, t)' = IF h = g THEN {} ELSE RowsOf(h, t)
    <3> SUFFICES ASSUME NEW h \in Gatherings, NEW t \in Attendees
                 PROVE  RowsOf(h, t)' = IF h = g THEN {} ELSE RowsOf(h, t)
      OBVIOUS
    <3>1. /\ RowsOf(h, t)' \subseteq Tickets /\ RowsOf(h, t) \subseteq Tickets
          /\ \A k \in Tickets : k \in RowsOf(h, t)' <=> h # g /\ k \in RowsOf(h, t)
      BY <2>3b DEF RowsOf
    <3>2. QED
      BY <3>1
  <2>5. \A h \in Gatherings : RowsAt(h)' = IF h = g THEN {} ELSE RowsAt(h)
    <3> SUFFICES ASSUME NEW h \in Gatherings
                 PROVE  RowsAt(h)' = IF h = g THEN {} ELSE RowsAt(h)
      OBVIOUS
    <3>1. ASSUME NEW l \in Tickets
          PROVE  l \in RowsAt(h)' <=> h # g /\ l \in RowsAt(h)
      <4>1. l \in RowsAt(h)' <=> \E t \in Attendees : l \in RowsOf(h, t)'
        BY RowsAtUnionAfter
      <4>2. l \in RowsAt(h) <=> \E t \in Attendees : l \in RowsOf(h, t)
        BY RowsAtUnion
      <4>3. \A t \in Attendees : l \in RowsOf(h, t)' <=> h # g /\ l \in RowsOf(h, t)
        BY <2>4
      <4>4. QED
        BY <4>1, <4>2, <4>3
    <3>2. RowsAt(h)' \subseteq Tickets /\ RowsAt(h) \subseteq Tickets
      BY RowsAtUnion, RowsAtUnionAfter
    <3>3. QED
      BY <3>1, <3>2
  <2>6. UNCHANGED desk
    BY <1>3 DEF DeleteEvent
  <2>7. \A q \in Requests : desk[q] # Free => desk[q].at \in Gatherings /\ desk[q].of \in Attendees
    BY <1>0, AtTheDesk
  <2>8. QED
    BY <1>0, <2>1, <2>2, <2>4, <2>5, <2>6, <2>7
    DEF SerialInv, CountIsExact, OneRowEach, Listed, NoOverlap
<1>4. ASSUME NEW g \in Gatherings, NEW max \in Seats,
             Announce(g, max) \/ UpdateEvent(g, max)
      PROVE  SerialInv'
  <2>1. \A h \in Gatherings :
          /\ gatherings'[h].registered_count = gatherings[h].registered_count
          /\ gatherings'[h].state = IF h = g THEN "listed" ELSE gatherings[h].state
    BY <1>0, <1>4 DEF Announce, UpdateEvent, Listed, RegistrationsTypeOK, CollegeEvent
  <2>2. gatherings[g].state \in {"absent", "listed"}
    BY <1>4 DEF Announce, UpdateEvent, Listed
  <2>3. /\ \A h \in Gatherings : RowsAt(h)' = RowsAt(h)
        /\ \A h \in Gatherings, t \in Attendees : RowsOf(h, t)' = RowsOf(h, t)
        /\ UNCHANGED desk
    BY <1>4 DEF Announce, UpdateEvent, RowsAt, RowsOf
  <2>4. \A q \in Requests : desk[q] # Free => desk[q].at \in Gatherings /\ desk[q].of \in Attendees
    BY <1>0, AtTheDesk
  <2>5. CountIsExact'
    <3> SUFFICES ASSUME NEW h \in Gatherings, Listed(h)'
                 PROVE  gatherings'[h].registered_count = Cardinality(RowsAt(h)')
      BY DEF CountIsExact
    <3>1. CASE gatherings[h].state = "absent"
      BY <2>1, <2>3, <3>1, FS_EmptySet DEF SerialInv
    <3>2. CASE Listed(h)
      BY <2>1, <2>3, <3>2 DEF SerialInv, CountIsExact
    <3>3. QED
      BY <2>1, <2>2, <3>1, <3>2 DEF Listed
  <2>6. OneRowEach'
    BY <2>3 DEF SerialInv, OneRowEach
  <2>7. ASSUME NEW q \in Requests, desk[q] # Free
        PROVE  Listed(desk[q].at)' => Listed(desk[q].at)
    BY <1>0, <2>1, <2>2, <2>3, <2>4, <2>7 DEF SerialInv, Listed
  <2>8. QED
    BY <1>0, <2>1, <2>3, <2>4, <2>5, <2>6, <2>7 DEF SerialInv, Listed, NoOverlap
<1>5. QED
  BY <1>2, <1>3, <1>4 DEF RegistrationsNext, CreateEvent, CreateCompetition

\* When requests do not overlap, registered_count is the number of the rows and
\* nobody has two of them, whatever the organisers do in between.
THEOREM SerialCount == RegistrationsSerialSpec => [](CountIsExact /\ OneRowEach)
<1>1. SerialInv => CountIsExact /\ OneRowEach
  BY DEF SerialInv
<1>2. QED
  BY <1>1, SerialInvInit, SerialInvStep, PTL DEF RegistrationsSerialSpec

------------------------------------------------------------------------------
(* Submissions *)

\* Before the due date nothing is late, so a request on time never found a late
\* row, and its update leaves the status of its row alone; a late request makes
\* its row late, if it is not late for good already.  A late file differs from
\* every file that is on time or about to be, because it was drawn later.
SubmitInv ==
  /\ SubmissionsTypeOK
  /\ \A k \in Sheets : sheets[k].status = "none" => sheets[k] = NoSheet
  /\ due # "over" =>
       /\ overdue = {}
       /\ \A k \in Sheets : sheets[k].status # "late"
       /\ \A q \in Requests : hand[q] # Free => ~hand[q].late
  /\ \A q \in Requests : hand[q] # Free =>
       /\ \A k \in hand[q].found : sheets[k].status # "none"
       /\ hand[q].found # {} /\ ~hand[q].late => hand[q].was = "submitted"
       /\ hand[q].was = "late" => \A k \in hand[q].found : sheets[k].status = "late"
       /\ ~hand[q].late => hand[q].file \notin overdue
  /\ \A q \in Requests : hand[q] # Free /\ hand[q].late =>
       /\ \A p \in Requests : hand[p] # Free /\ ~hand[p].late => hand[p].file # hand[q].file
       /\ \A k \in Sheets : sheets[k].status = "submitted" => sheets[k].file_url # hand[q].file
  /\ \A k \in Sheets : sheets[k].status = "submitted" => sheets[k].file_url \notin overdue

LEMMA SubmitInFlight ==
  ASSUME SubmissionsTypeOK, NEW q \in Requests, hand[q] # Free
  PROVE  /\ hand[q].file \in Files /\ hand[q].late \in BOOLEAN /\ hand[q].found \in SUBSET Sheets
         /\ hand[q].was \in {"none", "submitted", "late"}
BY DEF SubmissionsTypeOK, SubmitRequest

\* What COMMIT does to the rows: one gets the file, and it is late if the
\* request was.
LEMMA SheetWritten ==
  ASSUME SubmitInv, NEW q \in Requests, CommitSubmit(q)
  PROVE  /\ sheets' \in [Sheets -> Sheet]
         /\ \E k \in Sheets :
              /\ \A l \in Sheets \ {k} : sheets'[l] = sheets[l]
              /\ sheets'[k].file_url = hand[q].file
              /\ sheets'[k].status = IF hand[q].late THEN "late"
                                     ELSE IF k \in hand[q].found THEN sheets[k].status
                                     ELSE "submitted"
              /\ sheets'[k].status # "none"
              /\ k \in hand[q].found \/ sheets[k] = NoSheet
<1>0. /\ SubmissionsTypeOK /\ hand[q] # Free
      /\ hand[q].file \in Files /\ hand[q].late \in BOOLEAN /\ hand[q].found \subseteq Sheets
      /\ hand[q].was \in {"none", "submitted", "late"}
  BY SubmitInFlight DEF SubmitInv, CommitSubmit
<1> DEFINE status == IF hand[q].late THEN "late" ELSE "submitted"
<1>1. CASE \E k \in hand[q].found :
             sheets' = [sheets EXCEPT ![k].file_url = hand[q].file,
                                      ![k].status = IF status = hand[q].was THEN @ ELSE status]
  <2>1. PICK k \in hand[q].found :
             sheets' = [sheets EXCEPT ![k].file_url = hand[q].file,
                                      ![k].status = IF status = hand[q].was THEN @ ELSE status]
    BY <1>1
  <2>2. /\ sheets[k].status \in {"submitted", "late"}
        /\ ~hand[q].late => hand[q].was = "submitted"
        /\ hand[q].was = "late" => sheets[k].status = "late"
    <3>1. sheets[k] \in Sheet
      BY <1>0, <2>1 DEF SubmissionsTypeOK
    <3>2. /\ sheets[k].status # "none"
          /\ ~hand[q].late => hand[q].was = "submitted"
          /\ hand[q].was = "late" => sheets[k].status = "late"
      BY <1>0, <2>1 DEF SubmitInv
    <3>3. QED
      BY <3>1, <3>2 DEF Sheet
  <2>3. /\ sheets' \in [Sheets -> Sheet]
        /\ \A l \in Sheets \ {k} : sheets'[l] = sheets[l]
        /\ sheets'[k].file_url = hand[q].file
        /\ sheets'[k].status = IF status = hand[q].was THEN sheets[k].status ELSE status
    BY <1>0, <2>1, <2>2 DEF SubmissionsTypeOK, Sheet
  <2>4. sheets'[k].status = IF hand[q].late THEN "late" ELSE sheets[k].status
    BY <2>2, <2>3
  <2>5. QED
    BY <1>0, <2>1, <2>2, <2>3, <2>4
<1>2. CASE /\ hand[q].found = {}
           /\ \E k \in Sheets \ Handed :
                sheets' = [sheets EXCEPT ![k] = [file_url |-> hand[q].file, status |-> status]]
  BY <1>0, <1>2 DEF SubmissionsTypeOK, Sheet, Handed
<1>3. QED
  BY <1>1, <1>2 DEF CommitSubmit

LEMMA SubmitInvStep ==
  ASSUME SubmitInv, [SubmissionsNext]_submissionVars
  PROVE  SubmitInv'
<1>0. SubmissionsTypeOK
  BY DEF SubmitInv
<1>1. CASE UNCHANGED submissionVars
  BY <1>1 DEF submissionVars, SubmitInv, SubmissionsTypeOK
<1>2. CASE CreateAssignment \/ DueDatePasses
  BY <1>2 DEF CreateAssignment, DueDatePasses, SubmitInv, SubmissionsTypeOK
<1>3. ASSUME NEW q \in Requests, SubmitFails(q)
      PROVE  SubmitInv'
  <2>1. /\ hand' \in [Requests -> {Free} \cup SubmitRequest]
        /\ hand'[q] = Free
        /\ \A p \in Requests \ {q} : hand'[p] = hand[p]
        /\ UNCHANGED <<due, sheets, last, overdue>>
    BY <1>0, <1>3 DEF SubmitFails, SubmissionsTypeOK
  <2>2. SubmissionsTypeOK'
    BY <1>0, <2>1 DEF SubmissionsTypeOK
  <2>3. \A p \in Requests : hand'[p] # Free => hand[p] # Free /\ hand'[p] = hand[p]
    BY <2>1
  <2>4. QED
    BY <2>1, <2>2, <2>3 DEF SubmitInv
<1>4. ASSUME NEW q \in Requests, NEW f \in NewFiles, StartSubmit(q, f)
      PROVE  SubmitInv'
  <2>1. PICK was \in IF Handed = {} THEN {"none"} ELSE {sheets[k].status : k \in Handed} :
          hand' = [hand EXCEPT ![q] =
            [op |-> "submit", file |-> f, late |-> due = "over", found |-> Handed, was |-> was]]
    BY <1>4 DEF StartSubmit
  <2>2. /\ \A k \in Handed : sheets[k].status \in {"submitted", "late"}
        /\ Handed \subseteq Sheets
        /\ \A k, l \in Handed : k = l
        /\ UNCHANGED <<due, sheets, last, overdue>>
    BY <1>0, <1>4 DEF StartSubmit, SubmitInv, Handed, SubmissionsTypeOK, Sheet
  <2>3. /\ was \in {"none", "submitted", "late"}
        /\ \A k \in Handed : was = sheets[k].status
    BY <2>1, <2>2
  <2>4. /\ f \in Files
        /\ \A p \in Requests : hand[p] # Free => hand[p].file # f
        /\ \A k \in Sheets : sheets[k].file_url # f
    BY DEF NewFiles, FilesInFlight
  <2> DEFINE new == [op |-> "submit", file |-> f, late |-> due = "over",
                     found |-> Handed, was |-> was]
  <2>5. /\ new \in SubmitRequest
        /\ new.file = f /\ (new.late <=> due = "over") /\ new.found = Handed /\ new.was = was
    BY <2>2, <2>3, <2>4 DEF SubmitRequest
  <2>6. hand'[q] = new /\ \A p \in Requests \ {q} : hand'[p] = hand[p]
    BY <1>0, <2>1 DEF SubmissionsTypeOK
  <2>7. SubmissionsTypeOK'
    BY <1>0, <2>1, <2>2, <2>5 DEF SubmissionsTypeOK
  <2> HIDE DEF new
  <2>8. /\ \A k \in hand'[q].found : sheets[k].status # "none"
        /\ hand'[q].found # {} /\ ~hand'[q].late => hand'[q].was = "submitted"
        /\ hand'[q].was = "late" => \A k \in hand'[q].found : sheets[k].status = "late"
        /\ ~hand'[q].late => hand'[q].file \notin overdue
    BY <2>2, <2>3, <2>5, <2>6 DEF SubmitInv
  <2>9. \A p \in Requests : hand'[p] # Free /\ hand'[p].late =>
          /\ \A r \in Requests : hand'[r] # Free /\ ~hand'[r].late => hand'[r].file # hand'[p].file
          /\ \A k \in Sheets : sheets[k].status = "submitted" => sheets[k].file_url # hand'[p].file
    BY <2>4, <2>5, <2>6 DEF SubmitInv
  <2>10. due # "over" => \A p \in Requests : hand'[p] # Free => ~hand'[p].late
    BY <2>5, <2>6 DEF SubmitInv
  <2>11. \A p \in Requests : hand'[p] # Free =>
           /\ \A k \in hand'[p].found : sheets[k].status # "none"
           /\ hand'[p].found # {} /\ ~hand'[p].late => hand'[p].was = "submitted"
           /\ hand'[p].was = "late" => \A k \in hand'[p].found : sheets[k].status = "late"
           /\ ~hand'[p].late => hand'[p].file \notin overdue
    BY <2>6, <2>8 DEF SubmitInv
  <2>12. QED
    BY <2>2, <2>7, <2>9, <2>10, <2>11 DEF SubmitInv
<1>5. ASSUME NEW q \in Requests, CommitSubmit(q)
      PROVE  SubmitInv'
  <2>0. /\ hand[q] # Free /\ hand[q].file \in Files /\ hand[q].late \in BOOLEAN
    BY <1>0, <1>5, SubmitInFlight DEF CommitSubmit
  <2>1. PICK k \in Sheets :
          /\ \A l \in Sheets \ {k} : sheets'[l] = sheets[l]
          /\ sheets'[k].file_url = hand[q].file
          /\ sheets'[k].status = IF hand[q].late THEN "late"
                                 ELSE IF k \in hand[q].found THEN sheets[k].status
                                 ELSE "submitted"
          /\ sheets'[k].status # "none"
          /\ k \in hand[q].found \/ sheets[k] = NoSheet
    BY <1>5, SheetWritten
  <2>2. /\ hand'[q] = Free
        /\ \A p \in Requests \ {q} : hand'[p] = hand[p]
        /\ due' = due /\ last' = hand[q].file
        /\ overdue' = IF hand[q].late THEN overdue \cup {hand[q].file} ELSE overdue
    BY <1>0, <1>5 DEF CommitSubmit, SubmissionsTypeOK
  <2>3. SubmissionsTypeOK'
    <3>1. sheets' \in [Sheets -> Sheet]
      BY <1>5, SheetWritten
    <3>2. hand' \in [Requests -> {Free} \cup SubmitRequest]
      BY <1>0, <1>5 DEF CommitSubmit, SubmissionsTypeOK
    <3>3. QED
      BY <1>0, <2>0, <2>2, <3>1, <3>2 DEF SubmissionsTypeOK
  <2>4. \A p \in Requests : hand'[p] # Free => p # q /\ hand[p] # Free /\ hand'[p] = hand[p]
    BY <2>2
  <2>5. ~hand[q].late => hand[q].file \notin overdue
    BY <2>0 DEF SubmitInv
  <2>6. \A l \in Sheets : sheets'[l].status = "submitted" =>
          \/ l # k /\ sheets'[l] = sheets[l]
          \/ ~hand[q].late /\ sheets'[l].file_url = hand[q].file
    BY <2>1
  <2>7. \A l \in Sheets : sheets'[l].status = "submitted" => sheets'[l].file_url \notin overdue'
    BY <2>0, <2>2, <2>5, <2>6 DEF SubmitInv
  <2>8. \A p \in Requests : hand'[p] # Free /\ hand'[p].late =>
          /\ \A r \in Requests : hand'[r] # Free /\ ~hand'[r].late => hand'[r].file # hand'[p].file
          /\ \A l \in Sheets : sheets'[l].status = "submitted" => sheets'[l].file_url # hand'[p].file
    BY <2>0, <2>4, <2>6 DEF SubmitInv
  <2>9. \A p \in Requests : hand'[p] # Free =>
          /\ \A l \in hand'[p].found : sheets'[l].status # "none"
          /\ hand'[p].found # {} /\ ~hand'[p].late => hand'[p].was = "submitted"
          /\ hand'[p].was = "late" => \A l \in hand'[p].found : sheets'[l].status = "late"
          /\ ~hand'[p].late => hand'[p].file \notin overdue'
    <3> SUFFICES ASSUME NEW p \in Requests, hand'[p] # Free
                 PROVE  /\ \A l \in hand[p].found : sheets'[l].status # "none"
                        /\ hand[p].found # {} /\ ~hand[p].late => hand[p].was = "submitted"
                        /\ hand[p].was = "late" => \A l \in hand[p].found : sheets'[l].status = "late"
                        /\ ~hand[p].late => hand[p].file \notin overdue'
      BY <2>4
    <3>1. hand[p] # Free /\ hand[p].found \subseteq Sheets
      BY <1>0, <2>4, SubmitInFlight
    <3>2. ~hand[p].late => hand[p].file \notin overdue'
      BY <2>0, <2>2, <3>1 DEF SubmitInv
    <3>3. ASSUME NEW l \in hand[p].found, hand[p].was = "late"
          PROVE  sheets'[l].status = "late"
      <4>1. sheets[l].status = "late" /\ l \in Sheets
        BY <3>1, <3>3 DEF SubmitInv
      <4>2. CASE l # k
        BY <2>1, <4>1, <4>2
      <4>3. CASE l = k /\ hand[q].late
        BY <2>1, <4>3
      <4>4. CASE l = k /\ ~hand[q].late /\ k \in hand[q].found
        BY <2>1, <4>1, <4>4
      <4>5. CASE l = k /\ ~hand[q].late /\ k \notin hand[q].found
        BY <2>1, <4>1, <4>5 DEF NoSheet
      <4>6. QED
        BY <2>0, <4>2, <4>3, <4>4, <4>5
    <3>4. \A l \in hand[p].found : sheets'[l].status # "none"
      BY <2>1, <3>1 DEF SubmitInv
    <3>5. QED
      BY <3>1, <3>2, <3>3, <3>4 DEF SubmitInv
  <2>10. \A l \in Sheets : sheets'[l].status = "none" => sheets'[l] = NoSheet
    BY <2>1 DEF SubmitInv
  <2>11. due' # "over" =>
           /\ overdue' = {}
           /\ \A l \in Sheets : sheets'[l].status # "late"
           /\ \A p \in Requests : hand'[p] # Free => ~hand'[p].late
    BY <2>0, <2>1, <2>2, <2>4 DEF SubmitInv
  <2>12. QED
    BY <2>3, <2>7, <2>8, <2>9, <2>10, <2>11 DEF SubmitInv
<1>6. QED
  BY <1>1, <1>2, <1>3, <1>4, <1>5 DEF SubmissionsNext

LEMMA SubmitInvInit == SubmissionsInit => SubmitInv
BY DEF SubmissionsInit, SubmitInv, SubmissionsTypeOK, NoSheet, Sheet, NoRequests

\* Whatever overlaps the due date, a late file never passes for one on time.
THEOREM LateFilesStayLate == SubmissionsSpec => []NoLateFileOnTime
<1>1. SubmitInv /\ [SubmissionsNext]_submissionVars => SubmitInv'
  BY SubmitInvStep
<1>2. SubmitInv => NoLateFileOnTime
  BY DEF SubmitInv, NoLateFileOnTime, Handed
<1>3. QED
  BY SubmitInvInit, <1>1, <1>2, PTL DEF SubmissionsSpec

\* What a submission found is what is there, when nothing runs beside it.
HandedInv ==
  /\ NoOverlap(hand) /\ LastSubmissionCounts
  /\ \A q \in Requests : hand[q] # Free => hand[q].found = Handed

LEMMA HandedInvStep ==
  ASSUME SubmitInv, HandedInv, [SubmissionsNext]_submissionVars, NoOverlap(hand')
  PROVE  HandedInv'
<1>0. SubmissionsTypeOK
  BY DEF SubmitInv
<1>1. CASE UNCHANGED submissionVars
  BY <1>1 DEF submissionVars, HandedInv, LastSubmissionCounts, Handed
<1>2. CASE CreateAssignment \/ DueDatePasses
  BY <1>2 DEF CreateAssignment, DueDatePasses, HandedInv, LastSubmissionCounts, Handed
<1>3. ASSUME NEW q \in Requests,
             SubmitFails(q) \/ \E f \in NewFiles : StartSubmit(q, f)
      PROVE  HandedInv'
  <2>1. Handed' = Handed /\ UNCHANGED <<sheets, last>>
    BY <1>3 DEF SubmitFails, StartSubmit, Handed
  <2>2. \A p \in Requests : hand'[p] # Free => hand'[p] = hand[p] \/ hand'[p].found = Handed
    BY <1>0, <1>3 DEF SubmitFails, StartSubmit, SubmissionsTypeOK
  <2>3. QED
    BY <2>1, <2>2 DEF HandedInv, LastSubmissionCounts
<1>4. ASSUME NEW q \in Requests, CommitSubmit(q) PROVE HandedInv'
  <2>1. /\ hand[q] # Free /\ hand[q].found = Handed /\ last' = hand[q].file
        /\ LastSubmissionCounts
    BY <1>4 DEF CommitSubmit, HandedInv
  <2>2. PICK k \in Sheets :
          /\ \A l \in Sheets \ {k} : sheets'[l] = sheets[l]
          /\ sheets'[k].file_url = hand[q].file
          /\ sheets'[k].status # "none"
          /\ k \in Handed \/ Handed = {}
    <3>1. CASE Handed = {}
      BY <1>4, <3>1, SheetWritten
    <3>2. CASE Handed # {}
      <4>1. PICK k \in Handed :
              sheets' = [sheets EXCEPT ![k].file_url = hand[q].file,
                ![k].status = IF (IF hand[q].late THEN "late" ELSE "submitted") = hand[q].was
                              THEN @ ELSE IF hand[q].late THEN "late" ELSE "submitted"]
        BY <1>4, <2>1, <3>2 DEF CommitSubmit
      <4>2. /\ k \in Sheets /\ sheets[k] \in Sheet /\ sheets[k].status # "none"
        BY <1>0, <4>1 DEF Handed, SubmissionsTypeOK, SubmitInv
      <4>3. QED
        BY <1>0, <4>1, <4>2 DEF SubmissionsTypeOK, Sheet
    <3>3. QED
      BY <3>1, <3>2
  <2>3. Handed' = {k}
    <3>1. sheets'[k] # NoSheet
      BY <2>2 DEF NoSheet
    <3>2. \A l \in Sheets \ {k} : l \notin Handed
      BY <2>1, <2>2 DEF LastSubmissionCounts
    <3>3. QED
      BY <2>2, <3>1, <3>2 DEF Handed
  <2>4. \A p \in Requests : hand'[p] = Free
    BY <1>0, <1>4, <2>1 DEF CommitSubmit, HandedInv, NoOverlap, SubmissionsTypeOK
  <2>5. QED
    BY <2>1, <2>2, <2>3, <2>4 DEF HandedInv, LastSubmissionCounts
<1>5. QED
  BY <1>1, <1>2, <1>3, <1>4 DEF SubmissionsNext

LEMMA HandedInvInit == SubmissionsInit => HandedInv
  BY DEF SubmissionsInit, HandedInv, LastSubmissionCounts, Handed, NoOverlap, NoRequests
==============================================================================
