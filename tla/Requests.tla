------------------------------ MODULE Requests ------------------------------
(***************************************************************************)
(* Requests in flight.  A handler that reads in one step and writes in a   *)
(* later one carries what it read in the slot of its request, as the code  *)
(* carries it in local variables and in the objects of its session (which  *)
(* neither flushes nor expires by itself, app/db/session.py).              *)
(***************************************************************************)
EXTENDS Integers

CONSTANT Requests \* the slots: how many requests may overlap

Free == [op |-> "free"]
NoRequests == [q \in Requests |-> Free]

\* At most one slot of `slots` is taken.
NoOverlap(slots) ==
  \A p, q \in Requests : slots[p] # Free /\ slots[q] # Free => p = q
=============================================================================
