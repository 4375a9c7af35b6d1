------------------------------ MODULE Sessions ------------------------------
(***************************************************************************)
(* The sessions of one user: rotating refresh tokens in PostgreSQL, one    *)
(* cookie per browser, and tabs of a browser that refresh at the same      *)
(* time.  A request is in flight from its first read to the moment the     *)
(* browser stores the cookie of its response; responses are lost and       *)
(* overtake one another.  A refused request (401 on an unknown or an       *)
(* expired token) changes nothing and is not a step: a token that expires  *)
(* is one that no later step presents.                                     *)
(*                                                                         *)
(* `by` in a row and `missed` are history the code does not keep.  A       *)
(* definition named X_<fault> is X with one slip, there to be put in its   *)
(* place to see a property fail.                                           *)
(***************************************************************************)
EXTENDS Integers

CONSTANTS Tokens,      \* the refresh tokens that can be issued
          NoToken,
          ResetTokens, \* the password-reset tokens that can be mailed
          Browsers,
          Workers,     \* slots for requests in flight
          Grace,       \* the 30 seconds, in units of the clock
          MaxNow       \* where the clock stops

ASSUME SessionsAssumption ==
  NoToken \notin Tokens /\ Grace \in Nat \ {0} /\ MaxNow \in Nat

VARIABLES
  rows,    \* refresh_tokens: the row of a token, or Unissued
  mail,    \* password_reset_tokens: "none", "unused" or "used"
  cookie,  \* the refresh_token cookie of each browser
  missed,  \* the browsers that lost a response since they last logged in
  req,     \* the requests in flight
  now

vars == <<rows, mail, cookie, missed, req, now>>

Never == -1   \* revoked_at of a token that is not revoked
Unissued == [prev |-> NoToken, revoked_at |-> Never, by |-> {"unissued"}]
Row == [prev: Tokens \cup {NoToken}, revoked_at: Nat \cup {Never},
        by: SUBSET {"rotation", "logout", "all"}]

Idle == [op |-> "idle"]
RefreshRequest == [op: {"rotate", "successor", "alarm"}, browser: Browsers,
                   token: Tokens, at: Nat]
ResetRequest == [op: {"reset"}, browser: Browsers, mail: ResetTokens, at: Nat]
Response == [op: {"reply"}, browser: Browsers, token: Tokens \cup {NoToken},
             login: BOOLEAN]
Request == {Idle} \cup RefreshRequest \cup ResetRequest \cup Response

TypeOK ==
  /\ rows \in [Tokens -> Row \cup {Unissued}]
  /\ mail \in [ResetTokens -> {"none", "unused", "used"}]
  /\ cookie \in [Browsers -> Tokens \cup {NoToken}]
  /\ missed \subseteq Browsers
  /\ req \in [Workers -> Request]
  /\ now \in Nat

Init ==
  /\ rows = [t \in Tokens |-> Unissued]
  /\ mail = [k \in ResetTokens |-> "none"]
  /\ cookie = [b \in Browsers |-> NoToken]
  /\ missed = {}
  /\ req = [w \in Workers |-> Idle]
  /\ now = 0

Issued == {t \in Tokens : rows[t] # Unissued}
Revoked(t) == rows[t].revoked_at # Never
Successors(t) == {u \in Issued : rows[u].prev = t}

Go(w, r) == req' = [req EXCEPT ![w] = r]
Reply(b, t, login) == [op |-> "reply", browser |-> b, token |-> t, login |-> login]

NewRow(prev) == [prev |-> prev, revoked_at |-> Never, by |-> {}]
Revoke(t, at, why) == [rows[t] EXCEPT !.revoked_at = at, !.by = @ \cup {why}]

------------------------------------------------------------------------------
\* AuthService.login with good credentials: INSERT, COMMIT.  Passwords have no
\* part here, so it makes no difference how long before they were tested.
Login(w, b) ==
  /\ req[w] = Idle
  /\ \E t \in Tokens \ Issued :
       /\ rows' = [rows EXCEPT ![t] = NewRow(NoToken)]
       /\ Go(w, Reply(b, t, TRUE))
  /\ UNCHANGED <<mail, cookie, missed, now>>

RefreshStep_RotatesInGrace(t) ==
  IF ~Revoked(t) \/ now - rows[t].revoked_at < Grace THEN "rotate" ELSE "alarm"

\* Where refresh_tokens goes from the row it has read.
RefreshStep(t) ==
  IF ~Revoked(t) THEN "rotate"
  ELSE IF now - rows[t].revoked_at < Grace THEN "successor" ELSE "alarm"

\* AuthService.refresh_tokens: read the row of the browser's cookie.
StartRefresh(w, b) ==
  LET t == cookie[b] IN
  /\ req[w] = Idle
  /\ t # NoToken
  /\ Go(w, [op |-> RefreshStep(t), browser |-> b, token |-> t, at |-> now])
  /\ UNCHANGED <<rows, mail, cookie, missed, now>>

\* In the grace period: when the token that replaced this one is live, the
\* browser gets an access token and its own, revoked refresh token again.
FindSuccessor(w) ==
  /\ req[w].op = "successor"
  /\ Go(w, IF \E u \in Successors(req[w].token) : ~Revoked(u)
           THEN Reply(req[w].browser, req[w].token, FALSE)
           ELSE [req[w] EXCEPT !.op = "alarm"])
  /\ UNCHANGED <<rows, mail, cookie, missed, now>>

\* SESSION_COMPROMISED: every token of the user is revoked, COMMIT, 401.
RaiseAlarm(w) ==
  /\ req[w].op = "alarm"
  /\ rows' = [t \in Tokens |->
       IF t \in Issued THEN Revoke(t, req[w].at, "all") ELSE rows[t]]
  /\ Go(w, Idle)
  /\ UNCHANGED <<mail, cookie, missed, now>>

Rotate_InsertOnly(w) ==
  LET t == req[w].token IN
  /\ req[w].op = "rotate"
  /\ \E n \in Tokens \ Issued :
       /\ rows' = [rows EXCEPT ![n] = NewRow(t)]
       /\ Go(w, Reply(req[w].browser, n, FALSE))
  /\ UNCHANGED <<mail, cookie, missed, now>>

Rotate_RevokesFirst(w) ==
  LET t == req[w].token IN
  /\ req[w].op = "rotate"
  /\ rows' = [rows EXCEPT ![t] = Revoke(t, req[w].at, "rotation")]
  /\ Go(w, Reply(req[w].browser, t, FALSE))
  /\ UNCHANGED <<mail, cookie, missed, now>>

Rotate_AnswersOldToken(w) ==
  LET t == req[w].token IN
  /\ req[w].op = "rotate"
  /\ \E n \in Tokens \ Issued :
       rows' = [rows EXCEPT ![t] = Revoke(t, req[w].at, "rotation"),
                            ![n] = NewRow(t)]
  /\ Go(w, Reply(req[w].browser, t, FALSE))
  /\ UNCHANGED <<mail, cookie, missed, now>>

\* UPDATE the presented token (by id, whatever became of it since the read)
\* and INSERT its successor, COMMIT.
Rotate(w) ==
  LET t == req[w].token IN
  /\ req[w].op = "rotate"
  /\ \E n \in Tokens \ Issued :
       /\ rows' = [rows EXCEPT ![t] = Revoke(t, req[w].at, "rotation"),
                               ![n] = NewRow(t)]
       /\ Go(w, Reply(req[w].browser, n, FALSE))
  /\ UNCHANGED <<mail, cookie, missed, now>>

Logout_WithoutWhere(w, b) ==
  /\ req[w] = Idle
  /\ rows' = [t \in Tokens |-> Revoke(t, now, "logout")]
  /\ Go(w, Reply(b, NoToken, FALSE))
  /\ UNCHANGED <<mail, cookie, missed, now>>

\* AuthService.logout: revoke the one token of the cookie, if there is one,
\* COMMIT; the response clears the cookie.
Logout(w, b) ==
  LET t == cookie[b] IN
  /\ req[w] = Idle
  /\ rows' = IF t = NoToken THEN rows
             ELSE [rows EXCEPT ![t] = Revoke(t, now, "logout")]
  /\ Go(w, Reply(b, NoToken, FALSE))
  /\ UNCHANGED <<mail, cookie, missed, now>>

\* AuthService.forgot_password
ForgotPassword(k) ==
  /\ mail[k] = "none"
  /\ mail' = [mail EXCEPT ![k] = "unused"]
  /\ UNCHANGED <<rows, cookie, missed, req, now>>

\* AuthService.reset_password: the mailed token is read as unused, ...
StartReset(w, b, k) ==
  /\ req[w] = Idle
  /\ mail[k] = "unused"
  /\ Go(w, [op |-> "reset", browser |-> b, mail |-> k, at |-> now])
  /\ UNCHANGED <<rows, mail, cookie, missed, now>>

\* ... and after the hashing of the password everything is written, COMMIT;
\* the response clears the cookie.
CommitReset(w) ==
  /\ req[w].op = "reset"
  /\ mail' = [mail EXCEPT ![req[w].mail] = "used"]
  /\ rows' = [t \in Tokens |->
       IF t \in Issued THEN Revoke(t, req[w].at, "all") ELSE rows[t]]
  /\ Go(w, Reply(req[w].browser, NoToken, FALSE))
  /\ UNCHANGED <<cookie, missed, now>>

------------------------------------------------------------------------------
(* The network, the processes and the clock *)

\* The browser stores the Set-Cookie of a response (_set_auth_cookies,
\* _clear_auth_cookies).
Deliver(w) ==
  /\ req[w].op = "reply"
  /\ cookie' = [cookie EXCEPT ![req[w].browser] = req[w].token]
  /\ missed' = IF req[w].login THEN missed \ {req[w].browser} ELSE missed
  /\ Go(w, Idle)
  /\ UNCHANGED <<rows, mail, now>>

LoseResponse(w) ==
  /\ req[w].op = "reply"
  /\ missed' = missed \cup {req[w].browser}
  /\ Go(w, Idle)
  /\ UNCHANGED <<rows, mail, cookie, now>>

\* The process dies before the COMMIT.
Crash(w) ==
  /\ req[w].op \in {"rotate", "successor", "alarm", "reset"}
  /\ Go(w, Idle)
  /\ UNCHANGED <<rows, mail, cookie, missed, now>>

Tick ==
  /\ now < MaxNow
  /\ now' = now + 1
  /\ UNCHANGED <<rows, mail, cookie, missed, req>>

Next ==
  \/ \E w \in Workers :
       \/ \E b \in Browsers :
            \/ Login(w, b) \/ StartRefresh(w, b) \/ Logout(w, b)
            \/ \E k \in ResetTokens : StartReset(w, b, k)
       \/ FindSuccessor(w) \/ RaiseAlarm(w) \/ Rotate(w) \/ CommitReset(w)
       \/ Deliver(w) \/ LoseResponse(w) \/ Crash(w)
  \/ \E k \in ResetTokens : ForgotPassword(k)
  \/ Tick

Spec == Init /\ [][Next]_vars
------------------------------------------------------------------------------
(* What holds however requests overlap *)

\* A token that has been replaced is revoked (README.md:43, "rotating"),
\* whatever a concurrent refresh, logout, reset or alarm wrote in between.
ReplacedIsRevoked ==
  \A t \in Issued : rows[t].prev # NoToken => Revoked(rows[t].prev)

\* Nobody loses a session half-way: a token revoked by neither logout nor
\* reset nor alarm has a successor, even when the server dies.
NoSessionLost ==
  \A t \in Issued :
    Revoked(t) /\ rows[t].by \cap {"logout", "all"} = {} => Successors(t) # {}

------------------------------------------------------------------------------
(* What holds when requests do not overlap *)

\* One token is exchanged for one token, retries after a lost response
\* included.
ReplacedOnce ==
  \A t, u \in Issued : t # u /\ rows[t].prev = rows[u].prev => rows[t].prev = NoToken

\* "Revoke all existing refresh tokens" (auth_service.py:361, and the
\* docstring at line 331): what reset_password, or an alarm, revoked does not
\* live on in a successor.
RevocationIsFinal ==
  \A t \in Issued :
    ~Revoked(t) /\ rows[t].prev # NoToken => "all" \notin rows[rows[t].prev].by

FalseAlarm(w) ==
  LET t == cookie[req'[w].browser] IN
  /\ req'[w].op = "alarm" /\ req[w].op # "alarm"
  /\ \A v \in Workers \ {w} : req[v] = Idle
  /\ t = req'[w].token
  /\ req'[w].browser \notin missed
  /\ rows[t].by \cap {"logout", "all"} = {}

\* README.md:44, "30-second multi-tab refresh grace period preventing false
\* session invalidations": a browser that received all its responses and that
\* presents, with no other request under way, the very cookie it was given is
\* not told SESSION_COMPROMISED, unless that cookie was logged out or reset.
NoFalseAlarm == [][\A w \in Workers : ~FalseAlarm(w)]_vars

=============================================================================
