--------------------------- MODULE SessionsProofs ---------------------------
(***************************************************************************)
(* Proofs about Sessions, for any number of tokens, browsers and requests  *)
(* in flight and any grace period.                                         *)
(***************************************************************************)
EXTENDS SessionsMC, TLAPS

\* The rows that steps write.
LEMMA RowKinds ==
  ASSUME TypeOK
  PROVE  /\ \A t \in Issued : rows[t] \in Row
         /\ \A p \in Tokens \cup {NoToken} : NewRow(p) \in Row /\ NewRow(p) # Unissued
         /\ \A t \in Issued, at \in Nat, why \in {"rotation", "logout", "all"} :
              /\ Revoke(t, at, why) \in Row /\ Revoke(t, at, why) # Unissued
              /\ Revoke(t, at, why).prev = rows[t].prev
              /\ Revoke(t, at, why).by = rows[t].by \cup {why}
              /\ Revoke(t, at, why).revoked_at = at
<1>1. \A r \in Row : r # Unissued
  <2>1. ASSUME NEW r \in Row PROVE r.by # Unissued.by
    BY DEF Row, Unissued
  <2>2. QED
    BY <2>1
<1>2. \A t \in Issued : rows[t] \in Row
  BY DEF TypeOK, Issued
<1>3. \A p \in Tokens \cup {NoToken} : NewRow(p) \in Row
  BY DEF Row, NewRow
<1>4. ASSUME NEW t \in Issued, NEW at \in Nat, NEW why \in {"rotation", "logout", "all"}
      PROVE  /\ Revoke(t, at, why) \in Row
             /\ Revoke(t, at, why).prev = rows[t].prev
             /\ Revoke(t, at, why).by = rows[t].by \cup {why}
             /\ Revoke(t, at, why).revoked_at = at
  BY <1>2 DEF Row, Revoke
<1>5. QED
  BY <1>1, <1>2, <1>3, <1>4

\* What a request in flight carries.
LEMMA RequestFields ==
  ASSUME TypeOK, NEW w \in Workers
  PROVE  /\ req[w].op \in {"rotate", "successor", "alarm"} =>
              req[w].browser \in Browsers /\ req[w].token \in Tokens /\ req[w].at \in Nat
         /\ req[w].op = "reset" =>
              req[w].browser \in Browsers /\ req[w].mail \in ResetTokens /\ req[w].at \in Nat
         /\ req[w].op = "reply" =>
              req[w].browser \in Browsers /\ req[w].token \in Tokens \cup {NoToken}
<1>1. req[w] \in Request
  BY DEF TypeOK
<1>2. QED
  BY <1>1 DEF Request, Idle, RefreshRequest, ResetRequest, Response

\* Every token that a browser or a request holds has been issued.
Known ==
  /\ \A b \in Browsers : cookie[b] # NoToken => cookie[b] \in Issued
  /\ \A w \in Workers :
       /\ req[w].op \in {"rotate", "successor", "alarm"} => req[w].token \in Issued
       /\ req[w].op = "reply" /\ req[w].token # NoToken => req[w].token \in Issued

\* Revoking every token of the user, as RaiseAlarm and CommitReset do.
RevokeAll(at) ==
  rows' = [t \in Tokens |-> IF t \in Issued THEN Revoke(t, at, "all") ELSE rows[t]]

\* All that a step can do to the rows.
RowsChange ==
  \/ UNCHANGED rows
  \/ \E t \in Tokens \ Issued : rows' = [rows EXCEPT ![t] = NewRow(NoToken)]
  \/ \E t \in Issued, n \in Tokens \ Issued, at \in Nat :
       rows' = [rows EXCEPT ![t] = Revoke(t, at, "rotation"), ![n] = NewRow(t)]
  \/ \E t \in Issued, at \in Nat : rows' = [rows EXCEPT ![t] = Revoke(t, at, "logout")]
  \/ \E at \in Nat : RevokeAll(at)

LEMMA RowSteps ==
  ASSUME TypeOK, Known, [Next]_vars
  PROVE  RowsChange
<1>1. ASSUME NEW w \in Workers, NEW b \in Browsers, Login(w, b) PROVE RowsChange
  BY <1>1 DEF Login, RowsChange
<1>2. ASSUME NEW w \in Workers, NEW b \in Browsers, Logout(w, b) PROVE RowsChange
  BY <1>2 DEF Logout, RowsChange, Known, TypeOK
<1>3. ASSUME NEW w \in Workers, RaiseAlarm(w) PROVE RowsChange
  BY <1>3, RequestFields DEF RaiseAlarm, RowsChange, RevokeAll
<1>4. ASSUME NEW w \in Workers, CommitReset(w) PROVE RowsChange
  BY <1>4, RequestFields DEF CommitReset, RowsChange, RevokeAll
<1>5. ASSUME NEW w \in Workers, Rotate(w) PROVE RowsChange
  BY <1>5, RequestFields DEF Rotate, RowsChange, Known
<1>6. QED
  BY <1>1, <1>2, <1>3, <1>4, <1>5
     DEF Next, StartRefresh, StartReset, FindSuccessor, Deliver, LoseResponse, Crash,
         ForgotPassword, Tick, vars, RowsChange

\* No row disappears, none loses its predecessor, what revoked it or its
\* revocation: the table only grows.
LEMMA RowsGrow ==
  ASSUME TypeOK, RowsChange
  PROVE  /\ rows' \in [Tokens -> Row \cup {Unissued}]
         /\ Issued \subseteq Issued'
         /\ \A t \in Issued : /\ rows'[t].prev = rows[t].prev
                              /\ rows[t].by \subseteq rows'[t].by
                              /\ Revoked(t) => Revoked(t)'
<1>0. rows \in [Tokens -> Row \cup {Unissued}] /\ Issued \subseteq Tokens
  BY DEF TypeOK, Issued
<1>1. CASE UNCHANGED rows
  BY <1>0, <1>1 DEF Issued, Revoked
<1>2. CASE \E t \in Tokens \ Issued : rows' = [rows EXCEPT ![t] = NewRow(NoToken)]
  BY <1>0, <1>2, RowKinds DEF Issued, Revoked
<1>3. CASE \E t \in Issued, n \in Tokens \ Issued, at \in Nat :
             rows' = [rows EXCEPT ![t] = Revoke(t, at, "rotation"), ![n] = NewRow(t)]
  BY <1>0, <1>3, RowKinds DEF Issued, Revoked, Never
<1>4. CASE \E t \in Issued, at \in Nat : rows' = [rows EXCEPT ![t] = Revoke(t, at, "logout")]
  BY <1>0, <1>4, RowKinds DEF Issued, Revoked, Never
<1>5. CASE \E at \in Nat : RevokeAll(at)
  BY <1>0, <1>5, RowKinds DEF Issued, Revoked, Never, RevokeAll
<1>6. QED
  BY <1>1, <1>2, <1>3, <1>4, <1>5 DEF RowsChange

------------------------------------------------------------------------------
(* Types, and tokens that are known *)

LEMMA InvInit == Init => TypeOK /\ Known
  BY DEF Init, TypeOK, Known, Request, Idle

LEMMA TypeStep ==
  ASSUME TypeOK, Known, [Next]_vars
  PROVE  TypeOK'
<1>1. rows' \in [Tokens -> Row \cup {Unissued}]
  BY RowSteps, RowsGrow
<1>2. mail' \in [ResetTokens -> {"none", "unused", "used"}] /\ now' \in Nat
  <2>1. ASSUME NEW w \in Workers, CommitReset(w)
        PROVE  mail' \in [ResetTokens -> {"none", "unused", "used"}] /\ now' \in Nat
    BY <2>1, RequestFields DEF CommitReset, TypeOK
  <2>2. ASSUME NEW k \in ResetTokens, ForgotPassword(k)
        PROVE  mail' \in [ResetTokens -> {"none", "unused", "used"}] /\ now' \in Nat
    BY <2>2 DEF ForgotPassword, TypeOK
  <2>3. CASE Tick
    BY <2>3 DEF Tick, TypeOK
  <2>4. CASE UNCHANGED <<mail, now>>
    BY <2>4 DEF TypeOK
  <2>5. QED
    BY <2>1, <2>2, <2>3, <2>4
       DEF Next, Login, StartRefresh, Logout, StartReset, FindSuccessor, RaiseAlarm,
           Rotate, Deliver, LoseResponse, Crash, vars
<1>3. cookie' \in [Browsers -> Tokens \cup {NoToken}] /\ missed' \subseteq Browsers
  BY RequestFields
     DEF TypeOK, Next, Login, StartRefresh, Logout, StartReset, FindSuccessor, RaiseAlarm,
         Rotate, CommitReset, Deliver, LoseResponse, Crash, ForgotPassword, Tick, vars
<1>4. req' \in [Workers -> Request]
  <2>1. ASSUME NEW w \in Workers, NEW r \in Request, Go(w, r) PROVE req' \in [Workers -> Request]
    BY <2>1 DEF Go, TypeOK
  <2>2. /\ Idle \in Request
        /\ \A b \in Browsers, t \in Tokens \cup {NoToken}, login \in BOOLEAN :
             Reply(b, t, login) \in Request
    BY DEF Request, Reply, Response
  <2>3. ASSUME NEW w \in Workers, NEW b \in Browsers, Login(w, b)
        PROVE req' \in [Workers -> Request]
    BY <2>1, <2>2, <2>3 DEF Login
  <2>4. ASSUME NEW w \in Workers, NEW b \in Browsers, StartRefresh(w, b)
        PROVE req' \in [Workers -> Request]
    <3> DEFINE r == [op |-> RefreshStep(cookie[b]), browser |-> b, token |-> cookie[b],
                     at |-> now]
    <3>1. RefreshStep(cookie[b]) \in {"rotate", "successor", "alarm"}
      BY DEF RefreshStep
    <3>2. cookie[b] \in Tokens /\ now \in Nat
      BY <2>4 DEF StartRefresh, TypeOK
    <3>3. r \in Request
      BY <3>1, <3>2 DEF Request, RefreshRequest
    <3>4. QED
      BY <2>1, <2>4, <3>3 DEF StartRefresh
  <2>5. ASSUME NEW w \in Workers, NEW b \in Browsers, Logout(w, b)
        PROVE req' \in [Workers -> Request]
    BY <2>1, <2>2, <2>5 DEF Logout
  <2>6. ASSUME NEW w \in Workers, NEW b \in Browsers, NEW k \in ResetTokens,
               StartReset(w, b, k)
        PROVE req' \in [Workers -> Request]
    <3>1. [op |-> "reset", browser |-> b, mail |-> k, at |-> now] \in Request
      BY DEF TypeOK, Request, ResetRequest
    <3>2. QED
      BY <2>1, <2>6, <3>1 DEF StartReset
  <2>7. ASSUME NEW w \in Workers, FindSuccessor(w) PROVE req' \in [Workers -> Request]
    <3>1. req[w] \in RefreshRequest
      BY <2>7 DEF FindSuccessor, TypeOK, Request, Idle, ResetRequest, Response
    <3>2. [req[w] EXCEPT !.op = "alarm"] \in Request
      BY <3>1 DEF Request, RefreshRequest
    <3>3. Reply(req[w].browser, req[w].token, FALSE) \in Request
      BY <2>2, <3>1 DEF RefreshRequest
    <3>4. QED
      BY <2>1, <2>7, <3>2, <3>3 DEF FindSuccessor
  <2>8. ASSUME NEW w \in Workers, Rotate(w) PROVE req' \in [Workers -> Request]
    <3>1. req[w].browser \in Browsers
      BY <2>8, RequestFields DEF Rotate
    <3>2. PICK n \in Tokens : Go(w, Reply(req[w].browser, n, FALSE))
      BY <2>8 DEF Rotate
    <3>3. Reply(req[w].browser, n, FALSE) \in Request
      BY <2>2, <3>1
    <3>4. QED
      BY <2>1, <3>2, <3>3
  <2>9. ASSUME NEW w \in Workers, CommitReset(w) PROVE req' \in [Workers -> Request]
    <3>1. Reply(req[w].browser, NoToken, FALSE) \in Request
      BY <2>2, <2>9, RequestFields DEF CommitReset
    <3>2. QED
      BY <2>1, <2>9, <3>1 DEF CommitReset
  <2>10. ASSUME NEW w \in Workers,
                RaiseAlarm(w) \/ Deliver(w) \/ LoseResponse(w) \/ Crash(w)
         PROVE req' \in [Workers -> Request]
    BY <2>1, <2>2, <2>10 DEF RaiseAlarm, Deliver, LoseResponse, Crash
  <2>11. QED
    BY <2>3, <2>4, <2>5, <2>6, <2>7, <2>8, <2>9, <2>10
       DEF Next, ForgotPassword, Tick, vars, TypeOK
<1>5. QED
  BY <1>1, <1>2, <1>3, <1>4 DEF TypeOK

LEMMA KnownStep ==
  ASSUME TypeOK, Known, [Next]_vars
  PROVE  Known'
<1>0. Issued \subseteq Issued' /\ rows' \in [Tokens -> Row \cup {Unissued}]
  BY RowSteps, RowsGrow
<1>1. ASSUME NEW b \in Browsers, cookie'[b] # NoToken PROVE cookie'[b] \in Issued'
  <2>1. ASSUME NEW w \in Workers, Deliver(w) PROVE cookie'[b] \in Issued'
    BY <1>0, <1>1, <2>1 DEF Deliver, Known, TypeOK
  <2>2. CASE UNCHANGED cookie
    BY <1>0, <1>1, <2>2 DEF Known
  <2>3. QED
    BY <2>1, <2>2
       DEF Next, Login, StartRefresh, Logout, StartReset, FindSuccessor, RaiseAlarm,
           Rotate, CommitReset, LoseResponse, Crash, ForgotPassword, Tick, vars
<1>2. ASSUME NEW w \in Workers,
             req'[w].op \in {"rotate", "successor", "alarm"}
               \/ (req'[w].op = "reply" /\ req'[w].token # NoToken)
      PROVE  req'[w].token \in Issued'
  <2>0. req \in [Workers -> Request]
    BY DEF TypeOK
  <2>1. CASE req'[w] = req[w]
    BY <1>0, <1>2, <2>1 DEF Known
  <2>2. ASSUME NEW v \in Workers, NEW r, Go(v, r),
               r.op \in {"idle", "reset"}
                 \/ (r.op = "reply" /\ r.token = NoToken) \/ r.token \in Issued'
        PROVE  req'[w].token \in Issued'
    BY <1>2, <2>0, <2>1, <2>2 DEF Go
  <2>3. ASSUME NEW v \in Workers, NEW b \in Browsers, Login(v, b)
        PROVE  req'[w].token \in Issued'
    <3>1. PICK t \in Tokens \ Issued :
            rows' = [rows EXCEPT ![t] = NewRow(NoToken)] /\ Go(v, Reply(b, t, TRUE))
      BY <2>3 DEF Login
    <3>2. t \in Issued'
      BY <3>1, RowKinds DEF Issued, TypeOK
    <3>3. QED
      BY <2>2, <3>1, <3>2 DEF Reply
  <2>4. ASSUME NEW v \in Workers, NEW b \in Browsers, StartRefresh(v, b)
        PROVE  req'[w].token \in Issued'
    <3> DEFINE r == [op |-> RefreshStep(cookie[b]), browser |-> b, token |-> cookie[b],
                     at |-> now]
    <3>1. r.token \in Issued'
      BY <1>0, <2>4 DEF StartRefresh, Known
    <3>2. Go(v, r)
      BY <2>4 DEF StartRefresh
    <3> HIDE DEF r
    <3>3. QED
      BY <2>2, <3>1, <3>2
  <2>5. ASSUME NEW v \in Workers, FindSuccessor(v) PROVE req'[w].token \in Issued'
    <3>1. req[v] \in RefreshRequest /\ req[v].token \in Issued'
      BY <1>0, <2>5 DEF FindSuccessor, Known, TypeOK, Request, Idle, ResetRequest, Response
    <3>2. /\ [req[v] EXCEPT !.op = "alarm"].token = req[v].token
          /\ Reply(req[v].browser, req[v].token, FALSE).token = req[v].token
      BY <3>1 DEF RefreshRequest, Reply
    <3>3. QED
      BY <2>2, <2>5, <3>1, <3>2 DEF FindSuccessor
  <2>6. ASSUME NEW v \in Workers, Rotate(v) PROVE req'[w].token \in Issued'
    <3>1. PICK n \in Tokens \ Issued :
            /\ rows' = [rows EXCEPT ![req[v].token] =
                                       Revoke(req[v].token, req[v].at, "rotation"),
                                    ![n] = NewRow(req[v].token)]
            /\ Go(v, Reply(req[v].browser, n, FALSE))
      BY <2>6 DEF Rotate
    <3>2. req[v].token \in Tokens
      BY <2>6, RequestFields DEF Rotate
    <3>3. n \in Issued'
      BY <3>1, <3>2, RowKinds DEF Issued, TypeOK
    <3>4. QED
      BY <2>2, <3>1, <3>3 DEF Reply
  <2>7. ASSUME NEW v \in Workers, NEW b \in Browsers, Logout(v, b)
        PROVE  req'[w].token \in Issued'
    BY <2>2, <2>7 DEF Logout, Reply
  <2>8. ASSUME NEW v \in Workers, NEW b \in Browsers, NEW k \in ResetTokens,
               StartReset(v, b, k)
        PROVE  req'[w].token \in Issued'
    BY <2>2, <2>8 DEF StartReset
  <2>9. ASSUME NEW v \in Workers,
               \/ RaiseAlarm(v) \/ CommitReset(v) \/ Deliver(v)
               \/ LoseResponse(v) \/ Crash(v)
        PROVE  req'[w].token \in Issued'
    BY <2>2, <2>9 DEF RaiseAlarm, CommitReset, Deliver, LoseResponse, Crash, Idle, Reply
  <2>10. QED
    BY <2>1, <2>3, <2>4, <2>5, <2>6, <2>7, <2>8, <2>9
       DEF Next, ForgotPassword, Tick, vars
<1>3. QED
  BY <1>1, <1>2 DEF Known

LEMMA KnownTypes == Spec => [](TypeOK /\ Known)
<1>1. TypeOK /\ Known /\ [Next]_vars => (TypeOK /\ Known)'
  BY TypeStep, KnownStep
<1>2. QED
  BY <1>1, InvInit, PTL DEF Spec

\* Every variable keeps its type.
THEOREM TypeCorrect == Spec => []TypeOK
  BY KnownTypes, PTL

------------------------------------------------------------------------------
(* Rotation.  Both properties are about the rows alone, and RowsChange says *)
(* all that happens to them: what a stale read made a step write is covered *)
(* as well as what a fresh one did.                                         *)

LEMMA ReplacedStep ==
  ASSUME TypeOK, RowsChange, ReplacedIsRevoked
  PROVE  ReplacedIsRevoked'
<1> SUFFICES ASSUME NEW t \in Issued', rows'[t].prev # NoToken
             PROVE  Revoked(rows[t].prev)'
  BY DEF ReplacedIsRevoked
<1>1. \A p \in Tokens : Revoked(p) => p \in Issued
  BY DEF Revoked, Issued, Unissued
<1>2. CASE t \in Issued
  <2>1. rows[t] \in Row /\ rows'[t].prev = rows[t].prev
    BY <1>2, RowKinds, RowsGrow
  <2>2. rows[t].prev \in Tokens /\ Revoked(rows[t].prev)
    BY <1>2, <2>1 DEF ReplacedIsRevoked, Row
  <2>3. QED
    BY <1>1, <2>1, <2>2, RowsGrow DEF Revoked
<1>3. CASE t \notin Issued
  <2>1. t \in Tokens /\ rows'[t] # rows[t]
    BY <1>3 DEF Issued
  <2>2. PICK p \in Issued, n \in Tokens \ Issued, at \in Nat :
          rows' = [rows EXCEPT ![p] = Revoke(p, at, "rotation"), ![n] = NewRow(p)]
    BY <1>3, <2>1, RowKinds DEF RowsChange, RevokeAll, NewRow, TypeOK
  <2>3. t = n /\ rows'[t].prev = p /\ rows'[p].revoked_at = at
    BY <1>3, <2>1, <2>2, RowKinds DEF TypeOK, NewRow, Issued
  <2>4. QED
    BY <2>2, <2>3 DEF Revoked, Never
<1>4. QED
  BY <1>2, <1>3

LEMMA SessionStep ==
  ASSUME TypeOK, RowsChange, NoSessionLost
  PROVE  NoSessionLost'
<1> SUFFICES ASSUME NEW t \in Issued', Revoked(t)',
                    rows'[t].by \cap {"logout", "all"} = {}
             PROVE  \E u \in Issued' : rows'[u].prev = t
  BY DEF NoSessionLost, Successors
<1>0. t \in Tokens /\ rows \in [Tokens -> Row \cup {Unissued}]
  BY DEF Issued, TypeOK
<1>1. CASE t \in Issued /\ Revoked(t)
  <2>1. rows[t].by \cap {"logout", "all"} = {}
    BY <1>1, RowsGrow
  <2>2. PICK u \in Issued : rows[u].prev = t
    BY <1>1, <2>1 DEF NoSessionLost, Successors
  <2>3. QED
    BY <2>2, RowsGrow
<1>2. CASE t \in Issued /\ ~Revoked(t)
  <2>1. rows'[t] # rows[t]
    BY <1>2 DEF Revoked
  <2>2. ASSUME NEW at \in Nat, RevokeAll(at) PROVE FALSE
    <3>1. rows'[t] = Revoke(t, at, "all")
      BY <1>0, <1>2, <2>2 DEF RevokeAll
    <3>2. rows'[t].by = rows[t].by \cup {"all"}
      BY <1>2, <3>1, RowKinds
    <3>3. QED
      BY <3>2
  <2>3. ~(\E p \in Issued, at \in Nat : rows' = [rows EXCEPT ![p] = Revoke(p, at, "logout")])
    BY <1>0, <2>1, RowKinds
  <2>4. PICK p \in Issued, n \in Tokens \ Issued, at \in Nat :
          rows' = [rows EXCEPT ![p] = Revoke(p, at, "rotation"), ![n] = NewRow(p)]
    BY <1>0, <1>2, <2>1, <2>2, <2>3 DEF RowsChange
  <2>5. t = p
    BY <1>0, <1>2, <2>1, <2>4
  <2>6. n \in Issued' /\ rows'[n].prev = t
    BY <1>0, <2>4, <2>5, RowKinds DEF Issued, NewRow
  <2>7. QED
    BY <2>6
<1>3. CASE t \notin Issued
  <2>1. rows'[t] # rows[t]
    BY <1>0, <1>3 DEF Issued
  <2>2. \E p \in Tokens \cup {NoToken} : rows'[t] = NewRow(p)
    BY <1>0, <1>3, <2>1 DEF RowsChange, RevokeAll, Issued
  <2>3. QED
    BY <2>2 DEF Revoked, NewRow
<1>4. QED
  BY <1>1, <1>2, <1>3

\* A token that has been exchanged never works again.
THEOREM Rotation == Spec => []ReplacedIsRevoked
<1>1. Init => ReplacedIsRevoked
  BY DEF Init, ReplacedIsRevoked, Issued
<1>2. TypeOK /\ Known /\ ReplacedIsRevoked /\ [Next]_vars => ReplacedIsRevoked'
  BY RowSteps, ReplacedStep
<1>3. QED
  BY <1>1, <1>2, KnownTypes, PTL DEF Spec

\* A session is handed on, ended by its user or ended by an alarm; it is never
\* lost between two writes.
THEOREM SessionsAreHandedOn == Spec => []NoSessionLost
<1>1. Init => NoSessionLost
  BY DEF Init, NoSessionLost, Issued
<1>2. TypeOK /\ Known /\ NoSessionLost /\ [Next]_vars => NoSessionLost'
  BY RowSteps, SessionStep
<1>3. QED
  BY <1>1, <1>2, KnownTypes, PTL DEF Spec

------------------------------------------------------------------------------
(* One request at a time *)

\* What revoked a token, when it was not its exchange.
Ended(t) == rows[t].by \cap {"logout", "all"} # {}
Exchanged(t) == Revoked(t) /\ ~Ended(t)

\* The slots other than First are idle, so nothing happens between the read and
\* the write of the request in First: what it carries is what is there.
Alone == \A w \in Workers \ {First} : req[w] = Idle
Fresh ==
  \A w \in Workers :
    /\ req[w].op = "rotate" => ~Revoked(req[w].token)
    /\ req[w].op \in {"successor", "alarm"} => Revoked(req[w].token)
    /\ req[w].op \in {"rotate", "successor", "alarm"} => cookie[req[w].browser] = req[w].token
    /\ req[w].op = "reply" /\ req[w].token # NoToken =>
         /\ \A b \in Browsers \ {req[w].browser} : cookie[b] # req[w].token
         /\ Exchanged(req[w].token) => req[w].browser \in missed /\ ~req[w].login

\* Browsers do not share cookies, and one that received all its responses holds
\* no exchanged token, but for the moment in which the response with the new one
\* is under way.
CookiesFit ==
  /\ \A b, c \in Browsers : b # c /\ cookie[b] # NoToken => cookie[b] # cookie[c]
  /\ \A b \in Browsers \ missed :
       cookie[b] # NoToken /\ Exchanged(cookie[b]) =>
         \E w \in Workers : req[w].op = "reply" /\ req[w].browser = b

\* A live token was revoked by nothing; this is not trivial, for a rotation writes
\* whatever became of the row since it was read.
LiveIsClean == \A t \in Issued : ~Revoked(t) => rows[t].by = {}

SerialInv ==
  /\ TypeOK /\ Known /\ ReplacedIsRevoked /\ LiveIsClean
  /\ Alone /\ Fresh /\ CookiesFit
  /\ ReplacedOnce /\ RevocationIsFinal

LEMMA RowFacts ==
  ASSUME SerialInv
  PROVE /\ rows \in [Tokens -> Row \cup {Unissued}] 
        /\ cookie \in [Browsers -> Tokens \cup {NoToken}]
        /\ req \in [Workers -> Request]
        /\ NoToken \notin Tokens
        /\ \A t \in Tokens : Revoked(t) => t \in Issued
        /\ \A t \in Issued : rows[t].prev \in Tokens \cup {NoToken}
BY RowKinds, SessionsAssumption DEF SerialInv, TypeOK, Issued, Revoked, Unissued, Row, Never

\* A change of the table that is one of those that can happen to it when a
\* rotation finds its token still live.
FreshChange ==
  \/ UNCHANGED rows
  \/ \E t \in Tokens \ Issued : rows' = [rows EXCEPT ![t] = NewRow(NoToken)]
  \/ \E t \in Issued, n \in Tokens \ Issued, at \in Nat :
       /\ ~Revoked(t)
       /\ rows' = [rows EXCEPT ![t] = Revoke(t, at, "rotation"), ![n] = NewRow(t)]
  \/ \E t \in Issued, at \in Nat : rows' = [rows EXCEPT ![t] = Revoke(t, at, "logout")]
  \/ \E at \in Nat : RevokeAll(at)

LEMMA FreshTable ==
  ASSUME SerialInv, FreshChange
  PROVE  LiveIsClean' /\ ReplacedOnce' /\ RevocationIsFinal'
<1>0. TypeOK /\ LiveIsClean /\ ReplacedOnce /\ RevocationIsFinal /\ ReplacedIsRevoked
  BY DEF SerialInv
<1>1. CASE UNCHANGED rows
  BY <1>0, <1>1 DEF LiveIsClean, ReplacedOnce, RevocationIsFinal, Issued, Revoked
<1>2. ASSUME NEW t \in Tokens \ Issued, rows' = [rows EXCEPT ![t] = NewRow(NoToken)]
      PROVE  LiveIsClean' /\ ReplacedOnce' /\ RevocationIsFinal'
  <2>1. /\ Issued' = Issued \cup {t} /\ rows'[t] = NewRow(NoToken)
        /\ \A u \in Tokens \ {t} : rows'[u] = rows[u]
    BY <1>2, RowFacts, RowKinds DEF Issued, SerialInv
  <2>2. QED
    BY <1>0, <2>1, RowFacts
       DEF LiveIsClean, ReplacedOnce, RevocationIsFinal, Issued, Revoked, NewRow, ReplacedIsRevoked
<1>3. ASSUME NEW t \in Issued, NEW n \in Tokens \ Issued, NEW at \in Nat, ~Revoked(t),
             rows' = [rows EXCEPT ![t] = Revoke(t, at, "rotation"), ![n] = NewRow(t)]
      PROVE  LiveIsClean' /\ ReplacedOnce' /\ RevocationIsFinal'
  <2>1. /\ Issued' = Issued \cup {n} /\ rows'[n] = NewRow(t)
        /\ rows'[t] = Revoke(t, at, "rotation")
        /\ \A u \in Tokens \ {t, n} : rows'[u] = rows[u]
    BY <1>3, RowFacts, RowKinds DEF Issued, SerialInv
  <2>2. /\ rows'[t].prev = rows[t].prev /\ rows'[t].by = {"rotation"}
        /\ rows'[t].revoked_at = at /\ at # Never
    <3>1. /\ Revoke(t, at, "rotation").prev = rows[t].prev
          /\ Revoke(t, at, "rotation").by = rows[t].by \cup {"rotation"}
          /\ Revoke(t, at, "rotation").revoked_at = at
      BY <1>0, RowKinds
    <3>2. rows[t].by = {}
      BY <1>0, <1>3 DEF LiveIsClean
    <3>3. QED
      BY <2>1, <3>1, <3>2 DEF Never
  <2>3. \A u \in Issued : rows[u].prev # t
    BY <1>0, <1>3, RowFacts DEF ReplacedIsRevoked, Issued
  <2>4. LiveIsClean'
    BY <1>0, <2>1, <2>2 DEF LiveIsClean, Revoked, NewRow, Issued
  <2>5. ReplacedOnce'
    BY <1>0, <2>1, <2>2, <2>3 DEF ReplacedOnce, NewRow, Issued
  <2>6. RevocationIsFinal'
    <3> SUFFICES ASSUME NEW u \in Issued', ~Revoked(u)', rows'[u].prev # NoToken
                 PROVE  "all" \notin rows'[rows'[u].prev].by
      BY DEF RevocationIsFinal
    <3>1. CASE u = n
      BY <2>1, <2>2, <3>1 DEF NewRow
    <3>2. CASE u # n
      <4>1. u # t /\ u \in Issued /\ rows'[u] = rows[u] /\ ~Revoked(u)
        BY <2>1, <2>2, <3>2 DEF Revoked, Issued
      <4>2. rows[u].prev \in Issued /\ rows[u].prev # t /\ "all" \notin rows[rows[u].prev].by
        BY <1>0, <2>3, <4>1, RowFacts DEF RevocationIsFinal, ReplacedIsRevoked
      <4>3. QED
        BY <2>1, <4>1, <4>2 DEF Issued
    <3>3. QED
      BY <3>1, <3>2
  <2>7. QED
    BY <2>4, <2>5, <2>6
<1>4. ASSUME NEW at \in Nat,
             \E S \in SUBSET Issued, why \in {"logout", "all"} :
               /\ \A t \in S : rows'[t] = Revoke(t, at, why)
               /\ \A t \in Tokens \ S : rows'[t] = rows[t]
               /\ why = "all" => S = Issued
      PROVE  LiveIsClean' /\ ReplacedOnce' /\ RevocationIsFinal'
  <2>1. PICK S \in SUBSET Issued, why \in {"logout", "all"} :
               /\ \A t \in S : rows'[t] = Revoke(t, at, why)
               /\ \A t \in Tokens \ S : rows'[t] = rows[t]
               /\ why = "all" => S = Issued
    BY <1>4
  <2>2. \A t \in S : /\ rows'[t].prev = rows[t].prev /\ rows'[t].by = rows[t].by \cup {why}
                     /\ rows'[t].revoked_at = at /\ rows'[t] # Unissued
    BY <1>0, <2>1, RowKinds
  <2>3. Issued' = Issued /\ Issued \subseteq Tokens /\ at # Never
    BY <2>1, <2>2 DEF Issued, Never
  <2>4. \A t \in Issued : rows'[t].prev = rows[t].prev
    BY <2>1, <2>2, <2>3
  <2>5. \A t \in Issued : ~Revoked(t)' => t \notin S /\ ~Revoked(t) /\ rows'[t] = rows[t]
    BY <2>1, <2>2, <2>3 DEF Revoked
  <2>6. ReplacedOnce'
    BY <1>0, <2>3, <2>4 DEF ReplacedOnce
  <2>7. LiveIsClean'
    BY <1>0, <2>3, <2>5 DEF LiveIsClean
  <2>8. RevocationIsFinal'
    <3> SUFFICES ASSUME NEW u \in Issued, ~Revoked(u)', rows'[u].prev # NoToken
                 PROVE  "all" \notin rows'[rows'[u].prev].by
      BY <2>3 DEF RevocationIsFinal
    <3>1. u \notin S /\ ~Revoked(u) /\ rows'[u] = rows[u]
      BY <2>5
    <3>2. rows[u].prev \in Issued /\ "all" \notin rows[rows[u].prev].by
      BY <1>0, <3>1, RowFacts DEF RevocationIsFinal, ReplacedIsRevoked
    <3>3. why = "logout"
      BY <2>1, <3>1
    <3>4. QED
      BY <2>1, <2>2, <2>3, <3>1, <3>2, <3>3
  <2>9. QED
    BY <2>6, <2>7, <2>8
<1>5. ASSUME NEW t \in Issued, NEW at \in Nat, rows' = [rows EXCEPT ![t] = Revoke(t, at, "logout")]
      PROVE  LiveIsClean' /\ ReplacedOnce' /\ RevocationIsFinal'
  <2>1. /\ \A u \in {t} : rows'[u] = Revoke(u, at, "logout")
        /\ \A u \in Tokens \ {t} : rows'[u] = rows[u]
    BY <1>5, RowFacts DEF Issued
  <2>2. {t} \in SUBSET Issued
    OBVIOUS
  <2>3. QED
    BY <1>4, <2>1, <2>2
<1>6. ASSUME NEW at \in Nat, RevokeAll(at)
      PROVE  LiveIsClean' /\ ReplacedOnce' /\ RevocationIsFinal'
  <2>1. /\ \A u \in Issued : rows'[u] = Revoke(u, at, "all")
        /\ \A u \in Tokens \ Issued : rows'[u] = rows[u]
    BY <1>6 DEF RevokeAll, Issued
  <2>2. QED
    BY <1>4, <2>1
<1>7. QED
  BY <1>1, <1>2, <1>3, <1>5, <1>6 DEF FreshChange

\* The steps of First, which are all there are to the rows, the cookies and the
\* requests when requests do not overlap.
LEMMA SerialChange ==
  ASSUME SerialInv, [Next]_vars, Alone'
  PROVE  FreshChange
<1>0. TypeOK /\ Known /\ Fresh
  BY DEF SerialInv
<1>1. ASSUME NEW w \in Workers, NEW b \in Browsers, Login(w, b) PROVE FreshChange
  BY <1>1 DEF Login, FreshChange
<1>2. ASSUME NEW w \in Workers, NEW b \in Browsers, Logout(w, b) PROVE FreshChange
  BY <1>0, <1>2 DEF Logout, FreshChange, Known, TypeOK
<1>3. ASSUME NEW w \in Workers, RaiseAlarm(w) PROVE FreshChange
  BY <1>0, <1>3, RequestFields DEF RaiseAlarm, FreshChange, RevokeAll
<1>4. ASSUME NEW w \in Workers, CommitReset(w) PROVE FreshChange
  BY <1>0, <1>4, RequestFields DEF CommitReset, FreshChange, RevokeAll
<1>5. ASSUME NEW w \in Workers, Rotate(w) PROVE FreshChange
  <2>1. req[w].token \in Issued /\ ~Revoked(req[w].token) /\ req[w].at \in Nat
    BY <1>0, <1>5, RequestFields DEF Rotate, Known, Fresh
  <2>2. QED
    BY <1>5, <2>1 DEF Rotate, FreshChange
<1>6. QED
  BY <1>1, <1>2, <1>3, <1>4, <1>5
     DEF Next, StartRefresh, StartReset, FindSuccessor, Deliver, LoseResponse, Crash,
         ForgotPassword, Tick, vars, FreshChange

\* What is exchanged or ended was so before, or is by this step.
LEMMA RequestsAndCookies ==
  ASSUME SerialInv, [Next]_vars, Alone'
  PROVE  Fresh' /\ CookiesFit'
<1>0. /\ TypeOK /\ Known /\ Fresh /\ CookiesFit /\ Alone
      /\ LiveIsClean
  BY DEF SerialInv
<1>1. /\ Issued \subseteq Issued'
      /\ \A t \in Issued : Revoked(t) => Revoked(t)'
      /\ \A t \in Issued : Ended(t) => Ended(t)'
  BY <1>0, RowSteps, RowsGrow DEF Ended
\* Steps that leave the rows and the cookies alone.
<1>2. ASSUME NEW w \in Workers, NEW r, Go(w, r), UNCHANGED <<rows, cookie, missed>>,
             req[w].op # "reply",
             /\ r.op = "rotate" => ~Revoked(r.token)
             /\ r.op \in {"successor", "alarm"} => Revoked(r.token)
             /\ r.op \in {"rotate", "successor", "alarm"} => cookie[r.browser] = r.token
             /\ r.op = "reply" /\ r.token # NoToken =>
                 /\ \A b \in Browsers \ {r.browser} : cookie[b] # r.token
                 /\ Exchanged(r.token) => r.browser \in missed /\ ~r.login
      PROVE  Fresh' /\ CookiesFit'
  <2>1. req'[w] = r /\ \A v \in Workers \ {w} : req'[v] = req[v]
    BY <1>2, RowFacts DEF Go
  <2>2. Fresh'
    BY <1>0, <1>2, <2>1 DEF Fresh, Exchanged, Ended, Revoked
  <2>3. CookiesFit'
    BY <1>0, <1>2, <2>1 DEF CookiesFit, Exchanged, Ended, Revoked
  <2>4. QED
    BY <2>2, <2>3
<1>3. ASSUME NEW w \in Workers, NEW b \in Browsers, StartRefresh(w, b)
      PROVE  Fresh' /\ CookiesFit'
  <2> DEFINE r == [op |-> RefreshStep(cookie[b]), browser |-> b, token |-> cookie[b], at |-> now]
  <2>1. /\ r.op \in {"rotate", "successor", "alarm"}
        /\ r.op = "rotate" <=> ~Revoked(cookie[b])
    BY DEF RefreshStep
  <2>2. Go(w, r) /\ UNCHANGED <<rows, cookie, missed>> /\ req[w].op # "reply"
    BY <1>3 DEF StartRefresh, Idle
  <2>3. r.browser = b /\ r.token = cookie[b]
    OBVIOUS
  <2> HIDE DEF r
  <2>4. QED
    BY <1>2, <2>1, <2>2, <2>3
<1>4. ASSUME NEW w \in Workers, FindSuccessor(w) PROVE Fresh' /\ CookiesFit'
  <2>1. /\ req[w] \in RefreshRequest
        /\ cookie[req[w].browser] = req[w].token /\ req[w].token \in Tokens
        /\ req[w].browser \in Browsers /\ Revoked(req[w].token)
    BY <1>0, <1>4, RequestFields DEF FindSuccessor, TypeOK, Request, Idle, ResetRequest, Response, Fresh
  <2>2. \A b \in Browsers \ {req[w].browser} : cookie[b] # req[w].token
    BY <1>0, <2>1, RowFacts DEF CookiesFit
  <2>3. Exchanged(req[w].token) => req[w].browser \in missed
    <3>1. \A v \in Workers : req[v].op # "reply"
      BY <1>0, <1>4 DEF Alone, FindSuccessor, Idle
    <3>2. QED
      BY <1>0, <2>1, <3>1, RowFacts DEF CookiesFit
  <2>4. CASE Go(w, Reply(req[w].browser, req[w].token, FALSE))
    BY <1>2, <1>4, <2>2, <2>3, <2>4 DEF FindSuccessor, Reply
  <2>5. CASE Go(w, [req[w] EXCEPT !.op = "alarm"])
    <3>1. /\ [req[w] EXCEPT !.op = "alarm"].op = "alarm"
          /\ [req[w] EXCEPT !.op = "alarm"].browser = req[w].browser
          /\ [req[w] EXCEPT !.op = "alarm"].token = req[w].token
      BY <2>1 DEF RefreshRequest
    <3>2. QED
      BY <1>2, <1>4, <2>1, <2>5, <3>1 DEF FindSuccessor
  <2>6. QED
    BY <1>4, <2>4, <2>5 DEF FindSuccessor
<1>5. ASSUME NEW w \in Workers, NEW b \in Browsers, NEW k \in ResetTokens, StartReset(w, b, k)
      PROVE  Fresh' /\ CookiesFit'
  BY <1>2, <1>5 DEF StartReset, Idle
<1>6. ASSUME NEW w \in Workers, Crash(w) PROVE Fresh' /\ CookiesFit'
  BY <1>2, <1>6 DEF Crash, Idle
\* Steps that write rows: the request answers, and its token is a new one or none.
<1>7. ASSUME NEW w \in Workers, NEW b \in Browsers, NEW t \in Tokens \cup {NoToken},
             NEW login \in BOOLEAN, Go(w, Reply(b, t, login)), UNCHANGED <<cookie, missed>>,
             req[w].op # "reply",
             t # NoToken => t \in Issued' \ Issued /\ ~Revoked(t)',
             \A u \in Tokens : Exchanged(u)' => Exchanged(u) \/ u = cookie[b]
      PROVE  Fresh' /\ CookiesFit'
  <2>1. req'[w] = Reply(b, t, login) /\ \A v \in Workers \ {w} : req'[v] = req[v]
    BY <1>7, RowFacts DEF Go
  <2>2. \A v \in Workers \ {w} : req'[v] = Idle
    <3>1. CASE w = First
      BY <1>0, <2>1, <3>1 DEF Alone
    <3>2. CASE w # First
      BY <2>1, <3>2 DEF Alone, Idle, Reply
    <3>3. QED
      BY <3>1, <3>2
  <2>3. \A c \in Browsers : cookie[c] # NoToken => cookie[c] # t
    BY <1>0, <1>7 DEF Known
  <2>4. Fresh'
    BY <1>7, <2>1, <2>2, <2>3 DEF Fresh, Reply, Idle, Exchanged
  <2>5. ASSUME NEW c \in Browsers \ missed, cookie[c] # NoToken, Exchanged(cookie[c])'
        PROVE  c = b
    <3>1. \A v \in Workers : req[v].op # "reply"
      BY <1>7, <2>1, <2>2 DEF Idle
    <3>2. ~Exchanged(cookie[c])
      BY <1>0, <2>5, <3>1 DEF CookiesFit
    <3>3. cookie[c] = cookie[b]
      BY <1>7, <2>5, <3>2, RowFacts
    <3>4. QED
      BY <1>0, <2>5, <3>3 DEF CookiesFit
  <2>6. CookiesFit'
    BY <1>0, <1>7, <2>1, <2>5 DEF CookiesFit, Reply
  <2>7. QED
    BY <2>4, <2>6
<1>8. ASSUME NEW w \in Workers, NEW b \in Browsers, Login(w, b) PROVE Fresh' /\ CookiesFit'
  <2>1. PICK t \in Tokens \ Issued :
          rows' = [rows EXCEPT ![t] = NewRow(NoToken)] /\ Go(w, Reply(b, t, TRUE))
    BY <1>8 DEF Login
  <2>2. /\ t \in Issued' /\ rows'[t] = NewRow(NoToken) /\ ~Revoked(t)'
        /\ \A u \in Tokens : u # t => rows'[u] = rows[u]
    BY <1>0, <2>1, RowFacts, RowKinds DEF Issued, Revoked, NewRow
  <2>3. \A u \in Tokens : Exchanged(u)' => Exchanged(u)
    BY <2>2 DEF Exchanged, Ended, Revoked
  <2>4. UNCHANGED <<cookie, missed>> /\ req[w].op # "reply"
    BY <1>8 DEF Login, Idle
  <2>5. t \in Tokens \cup {NoToken} /\ TRUE \in BOOLEAN /\ Go(w, Reply(b, t, TRUE))
    BY <2>1
  <2>6. t # NoToken => t \in Issued' \ Issued /\ ~Revoked(t)'
    BY <2>2
  <2>7. \A u \in Tokens : Exchanged(u)' => Exchanged(u) \/ u = cookie[b]
    BY <2>3
  <2>8. QED
    BY <1>7, <2>4, <2>5, <2>6, <2>7
<1>9. ASSUME NEW w \in Workers, NEW b \in Browsers, Logout(w, b) PROVE Fresh' /\ CookiesFit'
  <2>1. \A u \in Tokens : Exchanged(u)' => Exchanged(u)
    <3>1. CASE cookie[b] = NoToken
      BY <1>9, <3>1 DEF Logout, Exchanged, Ended, Revoked
    <3>2. CASE cookie[b] # NoToken
      <4>1. cookie[b] \in Issued /\ now \in Nat
        BY <1>0, <3>2 DEF Known, TypeOK
      <4>2. /\ rows'[cookie[b]] = Revoke(cookie[b], now, "logout")
            /\ \A u \in Tokens : u # cookie[b] => rows'[u] = rows[u]
        BY <1>9, <3>2, <4>1, RowFacts DEF Logout, Issued
      <4>3. "logout" \in rows'[cookie[b]].by
        BY <1>0, <4>1, <4>2, RowKinds
      <4>4. QED
        BY <4>2, <4>3 DEF Exchanged, Ended, Revoked
    <3>3. QED
      BY <3>1, <3>2
  <2>2. /\ req[w] = Idle /\ Go(w, Reply(b, NoToken, FALSE))
        /\ UNCHANGED <<mail, cookie, missed, now>>
    BY <1>9, Zenon DEF Logout
  <2>3. \A u \in Tokens : Exchanged(u)' => Exchanged(u) \/ u = cookie[b]
    BY <2>1
  <2>4. QED
    <3>1. FALSE \in BOOLEAN
      OBVIOUS
    <3>2. UNCHANGED <<cookie, missed>> /\ req[w].op # "reply"
      BY <2>2 DEF Idle
    <3>3. QED
      BY <1>7, <2>2, <2>3, <3>1, <3>2
<1>10. ASSUME NEW at \in Nat, RevokeAll(at) PROVE \A u \in Tokens : ~Exchanged(u)'
  <2>1. \A u \in Issued : "all" \in rows'[u].by
    BY <1>0, <1>10, RowKinds, RowFacts DEF RevokeAll, Issued
  <2>2. \A u \in Tokens \ Issued : rows'[u] = rows[u] /\ ~Revoked(u)
    BY <1>10, RowFacts DEF RevokeAll
  <2>3. QED
    BY <2>1, <2>2 DEF Exchanged, Ended, Revoked
<1>11. ASSUME NEW w \in Workers, CommitReset(w) PROVE Fresh' /\ CookiesFit'
  <2>1. req[w].browser \in Browsers /\ req[w].at \in Nat
    BY <1>0, <1>11, RequestFields DEF CommitReset
  <2>2. RevokeAll(req[w].at)
    BY <1>11 DEF CommitReset, RevokeAll
  <2>3. QED
    BY <1>7, <1>10, <1>11, <2>1, <2>2 DEF CommitReset
<1>12. ASSUME NEW w \in Workers, Rotate(w) PROVE Fresh' /\ CookiesFit'
  <2> DEFINE t == req[w].token
  <2>1. /\ req[w].browser \in Browsers /\ req[w].at \in Nat /\ t \in Issued
        /\ t = cookie[req[w].browser]
    BY <1>0, <1>12, RequestFields DEF Rotate, Known, Fresh
  <2>2. PICK n \in Tokens \ Issued :
          /\ rows' = [rows EXCEPT ![t] = Revoke(t, req[w].at, "rotation"), ![n] = NewRow(t)]
          /\ Go(w, Reply(req[w].browser, n, FALSE))
    BY <1>12 DEF Rotate
  <2>3. /\ n \in Issued' /\ ~Revoked(n)'
        /\ \A u \in Tokens : u \notin {t, n} => rows'[u] = rows[u]
    BY <1>0, <2>1, <2>2, RowFacts, RowKinds DEF Issued, Revoked, NewRow
  <2>4. \A u \in Tokens : Exchanged(u)' => Exchanged(u) \/ u = cookie[req[w].browser]
    BY <2>1, <2>3 DEF Exchanged, Ended, Revoked
  <2>5. QED
    BY <1>7, <1>12, <2>1, <2>2, <2>3, <2>4 DEF Rotate
<1>13. ASSUME NEW w \in Workers, RaiseAlarm(w) PROVE Fresh' /\ CookiesFit'
  <2>1. RevokeAll(req[w].at) /\ req[w].at \in Nat
    BY <1>0, <1>13, RequestFields DEF RaiseAlarm, RevokeAll
  <2>2. \A u \in Tokens : ~Exchanged(u)'
    BY <1>10, <2>1
  <2>3. \A v \in Workers : req'[v] = Idle
    BY <1>0, <1>13, RowFacts DEF RaiseAlarm, Go, Alone, Idle
  <2>4. Fresh'
    BY <2>3 DEF Fresh, Idle
  <2>5. CookiesFit'
    BY <1>0, <1>13, <2>2, RowFacts DEF RaiseAlarm, CookiesFit
  <2>6. QED
    BY <2>4, <2>5
\* Steps of the browser.
<1>14. ASSUME NEW w \in Workers, Deliver(w) \/ LoseResponse(w) PROVE Fresh' /\ CookiesFit'
  <2>1. \A v \in Workers : req'[v] = Idle
    BY <1>0, <1>14, RowFacts DEF Deliver, LoseResponse, Go, Alone, Idle
  <2>2. Fresh'
    BY <2>1 DEF Fresh, Idle
  <2>3. \A v \in Workers \ {w} : req[v] = Idle
    BY <1>0, <1>14 DEF Alone, Deliver, LoseResponse, Idle
  <2>4. CASE LoseResponse(w)
    <3> DEFINE b == req[w].browser
    <3>1. rows' = rows /\ cookie' = cookie /\ missed' = missed \cup {b}
      BY <2>4 DEF LoseResponse
    <3>2. \A c \in Browsers \ missed : c # b => ~(cookie[c] # NoToken /\ Exchanged(cookie[c]))
      BY <1>0, <2>3 DEF CookiesFit, Idle
    <3>3. \A c \in Browsers \ missed' : ~(cookie[c] # NoToken /\ Exchanged(cookie[c]))'
      BY <3>1, <3>2 DEF Exchanged, Ended, Revoked
    <3>4. \A c, d \in Browsers : c # d /\ cookie'[c] # NoToken => cookie'[c] # cookie'[d]
      BY <1>0, <3>1 DEF CookiesFit
    <3>5. QED
      BY <2>2, <3>3, <3>4 DEF CookiesFit
  <2>5. CASE Deliver(w)
    <3> DEFINE b == req[w].browser
               t == req[w].token
    <3>1. b \in Browsers /\ t \in Tokens \cup {NoToken} /\ rows' = rows
      BY <1>0, <2>5, RequestFields DEF Deliver
    <3>2. cookie'[b] = t /\ \A c \in Browsers \ {b} : cookie'[c] = cookie[c]
      BY <2>5, <3>1, RowFacts DEF Deliver
    <3>3. t # NoToken => \A c \in Browsers \ {b} : cookie[c] # t
      BY <1>0, <2>5 DEF Deliver, Fresh
    <3>4. \A c \in Browsers \ missed' : c = b \/ c \notin missed
      BY <2>5 DEF Deliver
    <3>5. b \notin missed' /\ t # NoToken => ~Exchanged(t)
      BY <1>0, <2>5 DEF Deliver, Fresh
    <3>7. \A c \in Browsers \ missed : c # b /\ cookie[c] # NoToken => ~Exchanged(cookie[c])
      BY <1>0, <2>3 DEF CookiesFit, Idle
    <3>8. \A c, d \in Browsers : c # d /\ cookie'[c] # NoToken => cookie'[c] # cookie'[d]
      BY <1>0, <3>2, <3>3 DEF CookiesFit
    <3>9. \A c \in Browsers \ missed' : (cookie[c] # NoToken => ~Exchanged(cookie[c]))'
      BY <3>1, <3>2, <3>4, <3>5, <3>7 DEF Exchanged, Ended, Revoked
    <3>10. QED
      BY <2>2, <3>8, <3>9 DEF CookiesFit
  <2>6. QED
    BY <1>14, <2>2, <2>4, <2>5
<1>15. CASE UNCHANGED <<rows, cookie, missed, req>>
  BY <1>0, <1>15 DEF Fresh, CookiesFit, Exchanged, Ended, Revoked
<1>16. QED
  BY <1>3, <1>4, <1>5, <1>6, <1>8, <1>9, <1>11, <1>12, <1>13, <1>14, <1>15
     DEF Next, ForgotPassword, Tick, vars

LEMMA SerialInvInit == Init => SerialInv
<1> SUFFICES ASSUME Init PROVE SerialInv
  OBVIOUS
<1>1. Issued = {} /\ \A w \in Workers : req[w] = Idle
  BY DEF Init, Issued
<1>2. QED
  BY <1>1, InvInit
     DEF Init, SerialInv, ReplacedIsRevoked, LiveIsClean, Alone, Fresh, CookiesFit,
         ReplacedOnce, RevocationIsFinal, Idle

LEMMA SerialInvStep ==
  ASSUME SerialInv, [Next]_vars, Alone'
  PROVE  SerialInv'
<1>1. (TypeOK /\ Known)'
  BY TypeStep, KnownStep DEF SerialInv
<1>2. ReplacedIsRevoked'
  BY RowSteps, ReplacedStep DEF SerialInv
<1>3. QED
  BY <1>1, <1>2, SerialChange, FreshTable, RequestsAndCookies DEF SerialInv

\* The step that starts an alarm found a revoked token in the browser's cookie;
\* with no response under way, one that was exchanged means a lost response.
LEMMA AlarmsAreTrue ==
  ASSUME SerialInv, [Next]_vars, Alone', NEW w \in Workers
  PROVE  ~FalseAlarm(w)
<1> SUFFICES ASSUME FalseAlarm(w) PROVE FALSE
  OBVIOUS
<1> DEFINE b == req'[w].browser
           t == cookie[b]
<1>0. Fresh /\ CookiesFit /\ req \in [Workers -> Request] /\ NoToken \notin Tokens
  BY RowFacts DEF SerialInv
<1>1. /\ req'[w].op = "alarm" /\ req[w].op # "alarm" /\ t = req'[w].token
      /\ b \notin missed /\ rows[t].by \cap {"logout", "all"} = {}
      /\ \A v \in Workers \ {w} : req[v] = Idle
  BY DEF FalseAlarm
<1>2. (b \in Browsers /\ StartRefresh(w, b)) \/ FindSuccessor(w)
  <2>1. req' # req
    BY <1>1
  <2>2. \A v \in Workers : \A r : Go(v, r) => v = w /\ r.op = "alarm"
    BY <1>0, <1>1 DEF Go
  <2>3. ASSUME NEW v \in Workers, NEW c \in Browsers, StartRefresh(v, c)
        PROVE  v = w /\ c = b /\ StartRefresh(w, b)
    <3>1. v = w
      BY <2>2, <2>3 DEF StartRefresh
    <3>2. b = c
      BY <1>0, <2>3, <3>1 DEF StartRefresh, Go
    <3>3. QED
      BY <2>3, <3>1, <3>2
  <2>4. ASSUME NEW v \in Workers, NEW c \in Browsers,
               Login(v, c) \/ Logout(v, c) \/ \E k \in ResetTokens : StartReset(v, c, k)
        PROVE  FALSE
    <3>1. \A k : ~Go(v, [op |-> "reset", browser |-> c, mail |-> k, at |-> now])
      BY <2>2
    <3>2. \A x, y, z : ~Go(v, Reply(x, y, z))
      BY <2>2 DEF Reply
    <3>3. QED
      BY <2>4, <3>1, <3>2, Zenon DEF Login, Logout, StartReset
  <2>5. ASSUME NEW v \in Workers,
               RaiseAlarm(v) \/ Deliver(v) \/ LoseResponse(v) \/ Crash(v)
        PROVE  FALSE
    BY <2>2, <2>5 DEF RaiseAlarm, Deliver, LoseResponse, Crash, Idle
  <2>6. ASSUME NEW v \in Workers, Rotate(v) \/ CommitReset(v) PROVE FALSE
    <3>1. \A x, y, z : ~Go(v, Reply(x, y, z))
      BY <2>2 DEF Reply
    <3>2. QED
      BY <2>6, <3>1, Zenon DEF Rotate, CommitReset
  <2>7. ASSUME NEW v \in Workers, FindSuccessor(v) PROVE FindSuccessor(w)
    BY <2>2, <2>7 DEF FindSuccessor, Reply
  <2>8. QED
    BY <2>1, <2>3, <2>4, <2>5, <2>6, <2>7 DEF Next, ForgotPassword, Tick, vars
<1>3. b \in Browsers /\ Revoked(t) /\ t \in Tokens /\ req[w].op # "reply"
  <2>1. CASE b \in Browsers /\ StartRefresh(w, b)
    <3>1. /\ req[w] = Idle /\ t # NoToken
          /\ req'[w] = [op |-> RefreshStep(t), browser |-> b, token |-> t, at |-> now]
      BY <1>0, <2>1 DEF StartRefresh, Go
    <3>2. RefreshStep(t) = "alarm"
      BY <1>1, <3>1
    <3>3. Revoked(t)
      BY <3>2 DEF RefreshStep
    <3>4. QED
      BY <2>1, <3>1, <3>3, RowFacts DEF Idle
  <2>2. CASE FindSuccessor(w)
    <3>1. req[w] \in RefreshRequest /\ req[w].op = "successor"
      BY <1>0, <2>2 DEF FindSuccessor, Request, Idle, ResetRequest, Response
    <3>2. req'[w] = [req[w] EXCEPT !.op = "alarm"]
      BY <1>0, <1>1, <2>2 DEF FindSuccessor, Go, Reply
    <3>3. b = req[w].browser /\ req[w].token = t
      BY <1>1, <3>1, <3>2 DEF RefreshRequest
    <3>4. QED
      BY <1>0, <3>1, <3>3 DEF Fresh, RefreshRequest
  <2>3. QED
    BY <1>2, <2>1, <2>2
<1>4. Exchanged(t)
  BY <1>1, <1>3 DEF Exchanged, Ended
<1>5. QED
  BY <1>0, <1>1, <1>3, <1>4 DEF CookiesFit, Idle

LEMMA SerialSessions == MCSpec => [](serial => SerialInv)
<1>1. MCInit => (serial => SerialInv)
  BY SerialInvInit DEF MCInit
<1>2. (serial => SerialInv) /\ [MCNext]_mcVars => (serial => SerialInv)'
  <2> SUFFICES ASSUME serial => SerialInv, [MCNext]_mcVars, serial' PROVE SerialInv'
    OBVIOUS
  <2>1. serial /\ [Next]_vars /\ Alone'
    BY DEF MCNext, mcVars, vars, Alone, SerialInv
  <2>2. QED
    BY <2>1, SerialInvStep
<1>3. QED
  BY <1>1, <1>2, PTL DEF MCSpec

\* With requests that do not overlap a token is exchanged for one token, and what
\* a reset or an alarm revoked has no live successor.
THEOREM RotationIsExact == MCSpec => []RotationIsExactWhenSerial
<1>1. (serial => SerialInv) => RotationIsExactWhenSerial
  BY DEF SerialInv, RotationIsExactWhenSerial
<1>2. QED
  BY <1>1, SerialSessions, PTL

\* With requests that do not overlap no browser that received all its responses
\* is told that its session is compromised, whatever responses others lost.
THEOREM NoFalseAlarms == MCSpec => NoFalseAlarmWhenSerial
<1>1. (serial => SerialInv) /\ [MCNext]_mcVars
        => [serial => \A w \in Workers : ~FalseAlarm(w)]_vars
  <2> SUFFICES ASSUME serial => SerialInv, MCNext, serial, NEW w \in Workers
               PROVE  ~FalseAlarm(w)
    BY DEF mcVars, vars
  <2>1. SerialInv /\ Next /\ Alone'
    BY DEF MCNext, Alone
  <2>2. QED
    BY <2>1, AlarmsAreTrue
<1>2. QED
  BY <1>1, SerialSessions, PTL DEF MCSpec, NoFalseAlarmWhenSerial
==============================================================================
