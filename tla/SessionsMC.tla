----------------------------- MODULE SessionsMC -----------------------------
(***************************************************************************)
(* Sessions for TLC.  `serial` is chosen once: with it, one worker serves  *)
(* two browsers, one request after the other; without it, two workers      *)
(* serve the requests of one browser as they overlap.                      *)
(***************************************************************************)
EXTENDS Sessions, TLC

CONSTANTS First, Only \* the worker, and the browser, that are there in any case

VARIABLE serial

mcVars == <<vars, serial>>

\* The tokens are interchangeable.
Alike == Permutations(Tokens)

MCInit == Init /\ serial \in BOOLEAN

MCNext ==
  /\ Next
  /\ IF serial THEN \A w \in Workers \ {First} : req'[w] = Idle
     ELSE /\ \A b \in Browsers \ {Only} : cookie'[b] = NoToken
          /\ \A w \in Workers : req'[w] # Idle => req'[w].browser = Only
  /\ UNCHANGED serial

MCSpec == MCInit /\ [][MCNext]_mcVars

\* When requests do not overlap, a token is exchanged once, and what was revoked
\* for good leaves no live successor.
RotationIsExactWhenSerial == serial => ReplacedOnce /\ RevocationIsFinal

\* No alarm is false when requests do not overlap.
NoFalseAlarmWhenSerial == [][serial => \A w \in Workers : ~FalseAlarm(w)]_vars
=============================================================================
