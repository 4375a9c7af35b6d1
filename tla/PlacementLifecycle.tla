-------------------------- MODULE PlacementLifecycle --------------------------
(***************************************************************************)
(* What the placement component promises to students and to the placement  *)
(* cell, with every request as a single step: the life of an application   *)
(* and the offer policy.  `locks[o]` are the drive tiers that an offer of  *)
(* tier o closes.                                                          *)
(***************************************************************************)
CONSTANTS Students, Jobs,
          tier,   \* [Jobs -> tiers]
          locks,  \* [tiers -> sets of tiers]
          None    \* the status of an application that does not exist

VARIABLES drives, \* the drives that are posted
          status  \* [Students \X Jobs -> statuses]

vars == <<drives, status>>

Active == {"APPLIED", "UNDER_REVIEW", "SHORTLISTED", "INTERVIEW_SCHEDULED"}
Decided == {"OFFERED", "REJECTED", "WITHDRAWN"}

Init == drives = {} /\ status = [a \in Students \X Jobs |-> None]

Post(j) ==
  /\ j \notin drives
  /\ drives' = drives \cup {j}
  /\ UNCHANGED status

\* A drive goes, and its applications with it.
Remove(j) ==
  /\ j \in drives
  /\ drives' = drives \ {j}
  /\ status' = [a \in Students \X Jobs |-> IF a[2] = j THEN None ELSE status[a]]

\* Locked out: the student holds an offer that closes the drive.
Locked(s, j) ==
  \E k \in Jobs : status[<<s, k>>] = "OFFERED" /\ tier[j] \in locks[tier[k]]

\* The student applies, once, to a drive no offer of theirs closes.
Apply(s, j) ==
  /\ j \in drives
  /\ status[<<s, j>>] = None
  /\ ~Locked(s, j)
  /\ status' = [status EXCEPT ![<<s, j>>] = "APPLIED"]
  /\ UNCHANGED drives

\* The student withdraws while nothing is decided.
Withdraw(a) ==
  /\ status[a] \in Active
  /\ status' = [status EXCEPT ![a] = "WITHDRAWN"]
  /\ UNCHANGED drives

\* The placement cell moves an application to any stage.
Decide(a, st) ==
  /\ status[a] # None
  /\ status' = [status EXCEPT ![a] = st]
  /\ UNCHANGED drives

Next ==
  \/ \E j \in Jobs : Post(j) \/ Remove(j)
  \/ \E s \in Students, j \in Jobs : Apply(s, j)
  \/ \E a \in Students \X Jobs :
       Withdraw(a) \/ \E st \in Active \cup Decided : Decide(a, st)

Spec == Init /\ [][Next]_vars
==============================================================================
