--------------------------- MODULE Registrations ---------------------------
(***************************************************************************)
(* Seats at campus events and competitions.  A registration is a row, and  *)
(* the event counts its rows in a column of its own: handlers read both,   *)
(* decide, and write back the number they read, one up or down.  Nothing   *)
(* in the tables keeps a student from having two rows.                     *)
(*                                                                         *)
(* `offered` is history: the most seats an event was ever announced with.  *)
(***************************************************************************)
EXTENDS Requests, FiniteSetsExt

CONSTANTS Events, Competitions, \* what one may register for
          Attendees,            \* students
          Tickets,              \* ids of registration rows, each used once
          Seats                 \* the values of max_attendees; 0 is NULL

ASSUME SeatsAssumption == Seats \subseteq Nat /\ 0 \in Seats
ASSUME TicketsAssumption == IsFiniteSet(Tickets)

VARIABLES
  gatherings,    \* the rows of college_events and competitions
  registrations, \* the rows of event_registrations and competition_registrations
  desk,          \* requests in flight
  offered

registrationVars == <<gatherings, registrations, desk, offered>>

Gatherings == Events \cup Competitions
CollegeEvent ==
  [state: {"absent", "listed", "deleted"}, max_attendees: Seats, registered_count: Nat]
EventRegistration == [at: Gatherings, of: Attendees]
Unused == [state |-> "unused"]
Cancelled == [state |-> "cancelled"]

RegisterRequest ==
  [op: {"register"}, at: Gatherings, of: Attendees, count: Nat, max: Seats]
UnregisterRequest ==
  [op: {"unregister"}, at: Gatherings, of: Attendees, count: Nat, ticket: Tickets]

RegistrationsTypeOK ==
  /\ gatherings \in [Gatherings -> CollegeEvent]
  /\ registrations \in [Tickets -> EventRegistration \cup {Unused, Cancelled}]
  /\ desk \in [Requests -> {Free} \cup RegisterRequest \cup UnregisterRequest]
  /\ offered \in [Gatherings -> Seats]

RegistrationsInit ==
  /\ gatherings = [g \in Gatherings |->
       [state |-> "absent", max_attendees |-> 0, registered_count |-> 0]]
  /\ registrations = [k \in Tickets |-> Unused]
  /\ desk = NoRequests
  /\ offered = [g \in Gatherings |-> 0]

Listed(g) == gatherings[g].state = "listed"

\* The rows of a student, as handlers and lists look for them, and all rows of
\* an event, as its organisers see them.
RowsOf(g, s) == {k \in Tickets : registrations[k] = [at |-> g, of |-> s]}
RowsAt(g) == {k \in Tickets : \E s \in Attendees : registrations[k] = [at |-> g, of |-> s]}

------------------------------------------------------------------------------

StartRegister_CountsFromOne(q, g, s) ==
  /\ desk[q] = Free
  /\ Listed(g)
  /\ RowsOf(g, s) = {}
  /\ gatherings[g].max_attendees # 0 =>
       gatherings[g].registered_count <= gatherings[g].max_attendees
  /\ desk' = [desk EXCEPT ![q] =
       [op |-> "register", at |-> g, of |-> s, count |-> gatherings[g].registered_count,
        max |-> gatherings[g].max_attendees]]
  /\ UNCHANGED <<gatherings, registrations, offered>>

\* A handler looks for the row of the student (two of them make
\* scalar_one_or_none raise, one is "already registered") and at the capacity, ...
StartRegister(q, g, s) ==
  /\ desk[q] = Free
  /\ Listed(g)
  /\ RowsOf(g, s) = {}
  /\ gatherings[g].max_attendees # 0 =>
       gatherings[g].registered_count < gatherings[g].max_attendees
  /\ desk' = [desk EXCEPT ![q] =
       [op |-> "register", at |-> g, of |-> s, count |-> gatherings[g].registered_count,
        max |-> gatherings[g].max_attendees]]
  /\ UNCHANGED <<gatherings, registrations, offered>>

RegisterEvent(q, e, s) == e \in Events /\ StartRegister(q, e, s)
RegisterCompetition(q, c, s) == c \in Competitions /\ StartRegister(q, c, s)

\* ... then INSERT, UPDATE registered_count to the number read plus one, COMMIT.
\* An event deleted meanwhile makes both fail.
CommitRegister(q) ==
  LET g == desk[q].at IN
  /\ desk[q].op = "register"
  /\ Listed(g)
  /\ \E k \in Tickets :
       /\ registrations[k] = Unused
       /\ registrations' = [registrations EXCEPT ![k] = [at |-> g, of |-> desk[q].of]]
  /\ gatherings' = [gatherings EXCEPT ![g].registered_count = desk[q].count + 1]
  /\ desk' = [desk EXCEPT ![q] = Free]
  /\ UNCHANGED offered

\* unregister_event finds the one row of the student, ...
StartUnregister(q, g, s) ==
  /\ desk[q] = Free
  /\ Listed(g)
  /\ g \in Events
  /\ \E k \in Tickets :
       /\ RowsOf(g, s) = {k}
       /\ desk' = [desk EXCEPT ![q] =
            [op |-> "unregister", at |-> g, of |-> s,
             count |-> gatherings[g].registered_count, ticket |-> k]]
  /\ UNCHANGED <<gatherings, registrations, offered>>

CommitUnregister_CountKept(q) ==
  LET g == desk[q].at IN
  /\ desk[q].op = "unregister"
  /\ registrations' = [registrations EXCEPT ![desk[q].ticket] = Cancelled]
  /\ desk' = [desk EXCEPT ![q] = Free]
  /\ UNCHANGED <<gatherings, offered>>

\* ... then DELETE (of no row, if another request was faster), and UPDATE
\* registered_count to the number read minus one, COMMIT.
CommitUnregister(q) ==
  LET g == desk[q].at IN
  /\ desk[q].op = "unregister"
  /\ Listed(g)
  /\ registrations' = [registrations EXCEPT ![desk[q].ticket] = Cancelled]
  /\ gatherings' = IF desk[q].count = 0 THEN gatherings
                   ELSE [gatherings EXCEPT ![g].registered_count = desk[q].count - 1]
  /\ desk' = [desk EXCEPT ![q] = Free]
  /\ UNCHANGED offered

\* 500 on a deleted event, a lost connection, a crash.
DeskFails(q) ==
  /\ desk[q] # Free
  /\ desk' = [desk EXCEPT ![q] = Free]
  /\ UNCHANGED <<gatherings, registrations, offered>>

------------------------------------------------------------------------------
(* The organisers *)

\* INSERT of an event or a competition with a capacity, or without.
Announce(g, max) ==
  /\ gatherings[g].state = "absent"
  /\ gatherings' = [gatherings EXCEPT ![g].state = "listed", ![g].max_attendees = max]
  /\ offered' = [offered EXCEPT ![g] = max]
  /\ UNCHANGED <<registrations, desk>>

CreateEvent(e, max) == e \in Events /\ Announce(e, max)
CreateCompetition(c, max) == c \in Competitions /\ Announce(c, max)

\* update_event sets max_attendees, up or down, whatever is registered.
UpdateEvent(g, max) ==
  /\ Listed(g)
  /\ g \in Events
  /\ gatherings' = [gatherings EXCEPT ![g].max_attendees = max]
  /\ offered' = [offered EXCEPT ![g] = IF @ = 0 \/ max = 0 THEN 0
                                       ELSE IF max > @ THEN max ELSE @]
  /\ UNCHANGED <<registrations, desk>>

\* delete_event; the registrations go with it.
DeleteEvent(g) ==
  /\ Listed(g)
  /\ g \in Events
  /\ gatherings' = [gatherings EXCEPT ![g].state = "deleted"]
  /\ registrations' = [k \in Tickets |->
       IF k \in RowsAt(g) THEN Cancelled ELSE registrations[k]]
  /\ UNCHANGED <<desk, offered>>

DeskNext(q) ==
  \/ \E g \in Gatherings, s \in Attendees :
       RegisterEvent(q, g, s) \/ RegisterCompetition(q, g, s) \/ StartUnregister(q, g, s)
  \/ CommitRegister(q) \/ CommitUnregister(q) \/ DeskFails(q)

RegistrationsNext ==
  \/ \E q \in Requests : DeskNext(q)
  \/ \E g \in Gatherings :
       \/ DeleteEvent(g)
       \/ \E max \in Seats : CreateEvent(g, max) \/ CreateCompetition(g, max) \/ UpdateEvent(g, max)

RegistrationsSpec == RegistrationsInit /\ [][RegistrationsNext]_registrationVars

\* One request at a time.
RegistrationsSerialSpec ==
  RegistrationsInit /\ [][RegistrationsNext /\ NoOverlap(desk)']_registrationVars
------------------------------------------------------------------------------

\* However registrations, cancellations and changes of the capacity overlap,
\* the count an event shows never passes the most it was announced with: lost
\* updates only ever lose counts.
CountWithinOffer ==
  \A g \in Gatherings : offered[g] # 0 => gatherings[g].registered_count <= offered[g]

\* With one request at a time the count is the number of rows, after any
\* sequence of registrations, cancellations, failures and changes: so that
\* (with CountWithinOffer) nobody is registered beyond what was announced.
CountIsExact ==
  \A g \in Gatherings : Listed(g) =>
    gatherings[g].registered_count = Cardinality(RowsAt(g))

\* With one request at a time no student has two rows, after which every page
\* of the event would answer that student 500.
OneRowEach ==
  \A g \in Gatherings, s \in Attendees : \A k, l \in RowsOf(g, s) : k = l
==============================================================================
