------------------------------ MODULE Accounts ------------------------------
(***************************************************************************)
(* Accounts: registration, the letters that verify an address or reset a   *)
(* password, verification in bulk by the placement cell with its audit     *)
(* row, and onboarding.  A handler looks something up, decides, and        *)
(* commits all it writes in one transaction.  Administrators of colleges   *)
(* are rows of `users` too, which Tenants inserts.                         *)
(*                                                                         *)
(* `resets` is history: how many passwords each reset letter has set.      *)
(***************************************************************************)
EXTENDS Requests

CONSTANTS Emails,
          Accounts,  \* ids of users, each used once
          Letters,   \* reset tokens, each used once
          Passwords

VARIABLES
  users,   \* the rows of `users`, with their settings and verification token
  letters, \* the rows of password_reset_tokens
  audited, \* the users named by audit rows of BULK_VERIFY_USERS
  reception, \* requests in flight
  resets

accountVars == <<users, letters, audited, reception, resets>>

NoUser == [email |-> "none"]
User == [email: Emails, password: Passwords, is_verified: BOOLEAN, is_onboarded: BOOLEAN,
         settings: BOOLEAN, verification: {"none", "fresh", "used", "expired"}]
NoLetter == [state |-> "unused"]
Letter == [state: {"fresh", "used", "expired"}, of: Accounts]

AccountsTypeOK ==
  /\ users \in [Accounts -> User \cup {NoUser}]
  /\ letters \in [Letters -> Letter \cup {NoLetter}]
  /\ audited \subseteq Accounts
  /\ reception \in [Requests -> {Free}
       \cup [op: {"register"}, email: Emails, password: Passwords]
       \cup [op: {"verify"}, id: Accounts]
       \cup [op: {"reset"}, letter: Letters, password: Passwords]]
  /\ resets \in [Letters -> Nat]

AccountsInit ==
  /\ users = [a \in Accounts |-> NoUser]
  /\ letters = [k \in Letters |-> NoLetter]
  /\ audited = {}
  /\ reception = NoRequests
  /\ resets = [k \in Letters |-> 0]

Registered == {a \in Accounts : users[a] # NoUser}
Holders(e) == {a \in Accounts : users[a].email = e}
Done(q) == reception' = [reception EXCEPT ![q] = Free]

\* The id is new, and users.email is unique (500).
InsertUser(a, row) ==
  /\ users[a] = NoUser
  /\ Holders(row.email) = {}
  /\ users' = [users EXCEPT ![a] = row]

\* Who registers has settings, and a token to verify the address with.
Newcomer(e, p) ==
  [email |-> e, password |-> p, is_verified |-> FALSE, is_onboarded |-> FALSE,
   settings |-> TRUE, verification |-> "fresh"]

------------------------------------------------------------------------------
(* AuthService *)

\* register looks for the address, ...
StartRegistering(q, e, p) ==
  /\ reception[q] = Free
  /\ Holders(e) = {}
  /\ reception' = [reception EXCEPT ![q] = [op |-> "register", email |-> e, password |-> p]]
  /\ UNCHANGED <<users, letters, audited, resets>>

CommitRegistering_NotUnique(q) ==
  LET call == reception[q] IN
  /\ call.op = "register"
  /\ \E a \in Accounts \ Registered :
       users' = [users EXCEPT ![a] = Newcomer(call.email, call.password)]
  /\ Done(q)
  /\ UNCHANGED <<letters, audited, resets>>

\* ... then inserts the user, the settings and the token, COMMIT.
CommitRegistering(q) ==
  LET call == reception[q] IN
  /\ call.op = "register"
  /\ \E a \in Accounts : InsertUser(a, Newcomer(call.email, call.password))
  /\ Done(q)
  /\ UNCHANGED <<letters, audited, resets>>

\* verify_email finds a token that is neither used nor expired, ...
StartVerify(q, a) ==
  /\ reception[q] = Free
  /\ a \in Registered
  /\ users[a].verification = "fresh"
  /\ reception' = [reception EXCEPT ![q] = [op |-> "verify", id |-> a]]
  /\ UNCHANGED <<users, letters, audited, resets>>

CommitVerify_TokenKept(q) ==
  LET a == reception[q].id IN
  /\ reception[q].op = "verify"
  /\ users' = [users EXCEPT ![a].is_verified = TRUE]
  /\ Done(q)
  /\ UNCHANGED <<letters, audited, resets>>

\* ... and uses it up with the verification, COMMIT.
CommitVerify(q) ==
  LET a == reception[q].id IN
  /\ reception[q].op = "verify"
  /\ users' = [users EXCEPT ![a].is_verified = TRUE, ![a].verification = "used"]
  /\ Done(q)
  /\ UNCHANGED <<letters, audited, resets>>

\* forgot_password; earlier letters stay good.
Forgot(a, k) ==
  /\ a \in Registered
  /\ letters[k] = NoLetter
  /\ letters' = [letters EXCEPT ![k] = [state |-> "fresh", of |-> a]]
  /\ UNCHANGED <<users, audited, reception, resets>>

\* reset_password finds a letter that is neither used nor expired, ...
StartResetting(q, k, p) ==
  /\ reception[q] = Free
  /\ letters[k].state = "fresh"
  /\ reception' = [reception EXCEPT ![q] = [op |-> "reset", letter |-> k, password |-> p]]
  /\ UNCHANGED <<users, letters, audited, resets>>

\* ... and uses it up with the new password, COMMIT.  (The refresh tokens it
\* revokes are those of Sessions.)
CommitResetting(q) ==
  LET k == reception[q].letter IN
  /\ reception[q].op = "reset"
  /\ letters' = [letters EXCEPT ![k].state = "used"]
  /\ users' = [users EXCEPT ![letters[k].of].password = reception[q].password]
  /\ resets' = [resets EXCEPT ![k] = @ + 1]
  /\ Done(q)
  /\ UNCHANGED audited

------------------------------------------------------------------------------
(* Others *)

\* AdminService.bulk_verify_users: an UPDATE and an audit row, one COMMIT.
BulkVerify(some) ==
  /\ users' = [a \in Accounts |->
       IF a \in some \cap Registered THEN [users[a] EXCEPT !.is_verified = TRUE] ELSE users[a]]
  /\ audited' = audited \cup some
  /\ UNCHANGED <<letters, reception, resets>>

\* complete_onboarding
CompleteOnboarding(a) ==
  /\ a \in Registered
  /\ users' = [users EXCEPT ![a].is_onboarded = TRUE]
  /\ UNCHANGED <<letters, audited, reception, resets>>

\* get_settings and update_settings insert the row that an administrator lacks.
OpenSettings(a) ==
  /\ a \in Registered
  /\ users' = [users EXCEPT ![a].settings = TRUE]
  /\ UNCHANGED <<letters, audited, reception, resets>>

\* A day for a verification token, two hours for a letter.
TokenExpires ==
  /\ \/ \E a \in Registered : /\ users[a].verification = "fresh"
                              /\ users' = [users EXCEPT ![a].verification = "expired"]
                              /\ UNCHANGED letters
     \/ \E k \in Letters : /\ letters[k].state = "fresh"
                           /\ letters' = [letters EXCEPT ![k].state = "expired"]
                           /\ UNCHANGED users
  /\ UNCHANGED <<audited, reception, resets>>

\* The unique constraint, a lost connection, a crash.
ReceptionFails(q) ==
  /\ reception[q] # Free
  /\ Done(q)
  /\ UNCHANGED <<users, letters, audited, resets>>

AccountsNext ==
  \/ \E q \in Requests :
       \/ \E e \in Emails, p \in Passwords : StartRegistering(q, e, p)
       \/ \E a \in Accounts : StartVerify(q, a)
       \/ \E k \in Letters, p \in Passwords : StartResetting(q, k, p)
       \/ CommitRegistering(q) \/ CommitVerify(q) \/ CommitResetting(q) \/ ReceptionFails(q)
  \/ \E a \in Accounts :
       CompleteOnboarding(a) \/ OpenSettings(a) \/ \E k \in Letters : Forgot(a, k)
  \/ \E some \in SUBSET Accounts : BulkVerify(some)
  \/ TokenExpires
------------------------------------------------------------------------------

\* However registrations and provisionings overlap, an address has one account;
\* and no account is left with its token but without its settings row, although
\* three tables are written.
OneAccountPerAddress ==
  /\ \A a, b \in Registered : users[a].email = users[b].email => a = b
  /\ \A a \in Registered : users[a].verification # "none" => users[a].settings

\* With one request at a time a letter sets one password.
LettersWorkOnce == \A k \in Letters : resets[k] <= 1
=============================================================================
