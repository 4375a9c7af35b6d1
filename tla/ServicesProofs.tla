--------------------------- MODULE ServicesProofs ----------------------------
(***************************************************************************)
(* Proofs about Accounts, Tenants, RateLimit and LatexCompile, for any     *)
(* number of overlapping requests; and what the profile, the accounts, the *)
(* institutions and the two guarded services promise together.             *)
(***************************************************************************)
EXTENDS ServicesMC, ProfileProofs

(* Accounts *)

\* What a request in flight or a letter refers to is there.
AccountInv ==
  /\ AccountsTypeOK
  /\ \A q \in Requests :
       /\ reception[q].op = "verify" =>
            reception[q].id \in Registered /\ users[reception[q].id].settings
       /\ reception[q].op = "reset" => letters[reception[q].letter] # NoLetter
  /\ \A k \in Letters : letters[k] # NoLetter => letters[k].of \in Registered
  /\ OneAccountPerAddress
  /\ VerifiedForAReason

LEMMA ReceptionInFlight ==
  ASSUME AccountsTypeOK, NEW q \in Requests
  PROVE  /\ reception[q] = Free => reception[q].op = "free"
         /\ reception[q].op = "register" =>
              reception[q].email \in Emails /\ reception[q].password \in Passwords
         /\ reception[q].op = "verify" => reception[q].id \in Accounts
         /\ reception[q].op = "reset" =>
              reception[q].letter \in Letters /\ reception[q].password \in Passwords
BY DEF AccountsTypeOK, Free

\* No code deletes a settings row.
SettingsStay == \A a \in Registered : users[a].settings => users'[a].settings

\* The invariant after a step, from what it does to users.
LEMMA AccountsKept ==
  ASSUME AccountInv, AccountsTypeOK', Registered \subseteq Registered',
         \A q \in Requests : \/ reception'[q] = reception[q]
                             \/ reception'[q].op \notin {"verify", "reset"},
         \A k \in Letters : letters'[k] = letters[k],
         SettingsStay, OneAccountPerAddress', VerifiedForAReason'
  PROVE  AccountInv' /\ Registered \subseteq Registered'
BY ReceptionInFlight DEF AccountInv, SettingsStay

\* A row inserted under an address that no other has.
LEMMA UserInserted ==
  ASSUME AccountInv, NEW a \in Accounts, NEW row \in User, InsertUser(a, row),
         row.verification # "none" => row.settings
  PROVE  /\ users' \in [Accounts -> User \cup {NoUser}]
         /\ Registered' = Registered \cup {a} /\ users'[a] = row
         /\ \A b \in Registered : users'[b] = users[b]
         /\ OneAccountPerAddress'
<1>1. users \in [Accounts -> User \cup {NoUser}] /\ row # NoUser
  BY DEF AccountInv, AccountsTypeOK, User, NoUser
<1>2. /\ users[a] = NoUser /\ users' = [users EXCEPT ![a] = row]
      /\ \A b \in Accounts : users[b].email # row.email
  BY DEF InsertUser, Holders
<1>3. /\ users' \in [Accounts -> User \cup {NoUser}] /\ users'[a] = row
      /\ \A b \in Accounts \ {a} : users'[b] = users[b]
  BY <1>1, <1>2
<1>4. Registered' = Registered \cup {a} /\ a \notin Registered
  BY <1>1, <1>2, <1>3 DEF Registered
<1>5. OneAccountPerAddress'
  BY <1>2, <1>3, <1>4 DEF AccountInv, OneAccountPerAddress, Registered
<1>6. QED
  BY <1>3, <1>4, <1>5 DEF Registered

LEMMA AccountInvStep ==
  ASSUME AccountInv, [AccountsNext]_accountVars, UNCHANGED tenantVars
  PROVE  AccountInv' /\ Registered \subseteq Registered'
<1>0. AccountsTypeOK
  BY DEF AccountInv
<1>u. Provisioned' = Provisioned /\ staff' = staff
  BY DEF tenantVars, Provisioned
<1>1. CASE UNCHANGED accountVars
  BY <1>1, <1>u DEF accountVars, AccountInv, AccountsTypeOK, OneAccountPerAddress,
                    VerifiedForAReason, Registered
<1>2. ASSUME UNCHANGED <<users, audited>>
      PROVE  OneAccountPerAddress' /\ VerifiedForAReason' /\ Registered' = Registered /\ SettingsStay
  BY <1>2, <1>u DEF AccountInv, OneAccountPerAddress, VerifiedForAReason, Registered, SettingsStay
<1>3. ASSUME NEW q \in Requests, NEW e \in Emails, NEW p \in Passwords, StartRegistering(q, e, p)
      PROVE  AccountInv' /\ Registered \subseteq Registered'
  <2>1. AccountsTypeOK'
    BY <1>0, <1>3 DEF StartRegistering, AccountsTypeOK
  <2>2. \A r \in Requests : reception'[r] = reception[r] \/ reception'[r].op = "register"
    BY <1>0, <1>3 DEF StartRegistering, AccountsTypeOK
  <2>3. UNCHANGED <<users, letters, audited>>
    BY <1>3 DEF StartRegistering
  <2>4. QED
    BY <1>2, <2>1, <2>2, <2>3, AccountsKept
<1>4. ASSUME NEW q \in Requests, CommitRegistering(q)
      PROVE  AccountInv' /\ Registered \subseteq Registered'
  <2> DEFINE c == reception[q]
             new == Newcomer(c.email, c.password)
  <2>1. c.email \in Emails /\ c.password \in Passwords
    BY <1>0, <1>4, ReceptionInFlight DEF CommitRegistering
  <2>2. /\ new \in User /\ new.is_verified = FALSE /\ new.settings = TRUE
        /\ new.verification = "fresh"
    BY <2>1 DEF User, Newcomer
  <2>3. PICK a \in Accounts : InsertUser(a, new)
    BY <1>4 DEF CommitRegistering
  <2>4. UNCHANGED <<letters, audited, resets>>
    BY <1>4 DEF CommitRegistering
  <2>5. /\ reception'[q] = Free
        /\ \A r \in Requests \ {q} : reception'[r] = reception[r]
    BY <1>0, <1>4 DEF CommitRegistering, Done, AccountsTypeOK
  <2> HIDE DEF new
  <2>6. /\ users' \in [Accounts -> User \cup {NoUser}]
        /\ Registered' = Registered \cup {a} /\ users'[a] = new
        /\ \A b \in Registered : users'[b] = users[b]
        /\ OneAccountPerAddress'
    BY <2>2, <2>3, UserInserted
  <2>7. AccountsTypeOK'
    BY <1>0, <1>4, <2>4, <2>6 DEF CommitRegistering, Done, AccountsTypeOK
  <2>8. VerifiedForAReason'
    BY <1>u, <2>2, <2>4, <2>6 DEF AccountInv, VerifiedForAReason
  <2>9. reception'[q].op = "free"
    BY <2>5 DEF Free
  <2>10. QED
    BY <2>4, <2>5, <2>6, <2>7, <2>8, <2>9, AccountsKept DEF SettingsStay
<1>5. ASSUME NEW q \in Requests, NEW a \in Accounts, StartVerify(q, a)
      PROVE  AccountInv' /\ Registered \subseteq Registered'
  <2>1. AccountsTypeOK'
    BY <1>0, <1>5 DEF StartVerify, AccountsTypeOK
  <2>2. /\ reception'[q].op = "verify" /\ reception'[q].id = a /\ a \in Registered
        /\ users[a].verification = "fresh"
        /\ \A r \in Requests \ {q} : reception'[r] = reception[r]
        /\ UNCHANGED <<users, letters, audited>>
    BY <1>0, <1>5 DEF StartVerify, AccountsTypeOK
  <2>3. users[a].settings
    BY <2>2 DEF AccountInv, OneAccountPerAddress
  <2>4. QED
    BY <1>2, <2>1, <2>2, <2>3 DEF AccountInv
<1>6. ASSUME NEW a \in Registered, NEW u \in User, users' = [users EXCEPT ![a] = u],
             UNCHANGED audited, AccountsTypeOK',
             u.email = users[a].email, users[a].settings => u.settings,
             u.verification = users[a].verification
               \/ (u.verification \in {"used", "expired"} /\ users[a].settings),
             users[a].verification = "used" => u.verification = "used",
             u.is_verified => users[a].is_verified \/ u.verification = "used"
      PROVE  OneAccountPerAddress' /\ VerifiedForAReason' /\ Registered' = Registered /\ SettingsStay
  <2>1. a \in Accounts /\ users[a] # NoUser /\ u # NoUser
    BY <1>0 DEF Registered, User, NoUser
  <2>2. users'[a] = u /\ \A b \in Accounts \ {a} : users'[b] = users[b]
    BY <1>0, <1>6, <2>1 DEF AccountsTypeOK
  <2>3. Registered' = Registered
    BY <2>1, <2>2 DEF Registered
  <2>4. OneAccountPerAddress'
    BY <1>6, <2>1, <2>2, <2>3 DEF AccountInv, OneAccountPerAddress, Registered
  <2>5. VerifiedForAReason'
    BY <1>6, <1>u, <2>1, <2>2, <2>3 DEF AccountInv, VerifiedForAReason, Registered
  <2>6. SettingsStay
    BY <1>6, <2>2 DEF SettingsStay, Registered
  <2>7. QED
    BY <2>3, <2>4, <2>5, <2>6
<1>7. ASSUME NEW q \in Requests, CommitVerify(q)
      PROVE  AccountInv' /\ Registered \subseteq Registered'
  <2> DEFINE a == reception[q].id
  <2>1. a \in Registered /\ a \in Accounts /\ users[a] \in User /\ users[a].settings
    BY <1>0, <1>7 DEF CommitVerify, AccountInv, Registered, AccountsTypeOK
  <2> DEFINE u == [users[a] EXCEPT !.is_verified = TRUE, !.verification = "used"]
  <2>2. /\ u \in User /\ u.email = users[a].email /\ u.settings = users[a].settings
        /\ u.verification = "used"
    BY <2>1 DEF User
  <2>3. users' = [users EXCEPT ![a] = u] /\ UNCHANGED <<letters, audited, resets>>
    BY <1>0, <1>7, <2>1 DEF CommitVerify, AccountsTypeOK, User
  <2>4. AccountsTypeOK'
    BY <1>0, <1>7, <2>1, <2>2, <2>3 DEF CommitVerify, Done, AccountsTypeOK
  <2>5. \A r \in Requests : reception'[r] = reception[r] \/ reception'[r].op = "free"
    BY <1>0, <1>7 DEF CommitVerify, Done, AccountsTypeOK, Free
  <2> HIDE DEF u
  <2>6. OneAccountPerAddress' /\ VerifiedForAReason' /\ Registered' = Registered /\ SettingsStay
    BY <1>6, <2>1, <2>2, <2>3, <2>4
  <2>7. QED
    BY <2>3, <2>4, <2>5, <2>6, AccountsKept
<1>8. ASSUME NEW a \in Accounts, NEW k \in Letters, Forgot(a, k)
      PROVE  AccountInv' /\ Registered \subseteq Registered'
  <2>1. AccountsTypeOK'
    BY <1>0, <1>8 DEF Forgot, AccountsTypeOK, Letter
  <2>2. /\ a \in Registered
        /\ letters'[k].of = a /\ letters'[k] # NoLetter
        /\ \A j \in Letters \ {k} : letters'[j] = letters[j]
        /\ UNCHANGED <<users, audited, reception>>
    BY <1>0, <1>8 DEF Forgot, AccountsTypeOK, NoLetter
  <2>3. \A q \in Requests : reception[q].op = "reset" => reception[q].letter \in Letters
    BY <1>0, ReceptionInFlight
  <2>4. QED
    BY <1>2, <2>1, <2>2, <2>3 DEF AccountInv
<1>9. ASSUME NEW q \in Requests, NEW k \in Letters, NEW p \in Passwords, StartResetting(q, k, p)
      PROVE  AccountInv' /\ Registered \subseteq Registered'
  <2>1. AccountsTypeOK'
    BY <1>0, <1>9 DEF StartResetting, AccountsTypeOK
  <2>2. /\ reception'[q].op = "reset" /\ reception'[q].letter = k /\ letters[k] # NoLetter
        /\ \A r \in Requests \ {q} : reception'[r] = reception[r]
        /\ UNCHANGED <<users, letters, audited>>
    BY <1>0, <1>9 DEF StartResetting, AccountsTypeOK, NoLetter
  <2>3. QED
    BY <1>2, <2>1, <2>2 DEF AccountInv
<1>10. ASSUME NEW k \in Letters, letters[k] # NoLetter, NEW s \in {"used", "expired"},
              letters' = [letters EXCEPT ![k].state = s]
       PROVE  /\ letters' \in [Letters -> Letter \cup {NoLetter}]
              /\ letters'[k] # NoLetter /\ letters'[k].of = letters[k].of
              /\ \A j \in Letters \ {k} : letters'[j] = letters[j]
  <2>1. letters[k] \in Letter
    BY <1>0, <1>10 DEF AccountsTypeOK
  <2>2. QED
    BY <1>0, <1>10, <2>1 DEF AccountsTypeOK, Letter, NoLetter
<1>11. ASSUME NEW q \in Requests, CommitResetting(q)
       PROVE  AccountInv' /\ Registered \subseteq Registered'
  <2> DEFINE k == reception[q].letter
             a == letters[k].of
             p == reception[q].password
  <2>1. k \in Letters /\ p \in Passwords /\ letters[k] # NoLetter /\ a \in Registered
    BY <1>0, <1>11, ReceptionInFlight DEF CommitResetting, AccountInv
  <2>2. a \in Accounts /\ users[a] \in User
    BY <1>0, <2>1 DEF Registered, AccountsTypeOK
  <2> DEFINE u == [users[a] EXCEPT !.password = p]
  <2>3. /\ u \in User /\ u.email = users[a].email /\ u.settings = users[a].settings
        /\ u.verification = users[a].verification /\ u.is_verified = users[a].is_verified
    BY <2>1, <2>2 DEF User
  <2>4. /\ users' = [users EXCEPT ![a] = u]
        /\ letters' = [letters EXCEPT ![k].state = "used"]
        /\ UNCHANGED audited
    BY <1>0, <1>11, <2>2 DEF CommitResetting, AccountsTypeOK, User
  <2>5. /\ letters' \in [Letters -> Letter \cup {NoLetter}]
        /\ letters'[k] # NoLetter /\ letters'[k].of = letters[k].of
        /\ \A j \in Letters \ {k} : letters'[j] = letters[j]
    BY <1>10, <2>1, <2>4
  <2>6. AccountsTypeOK'
    <3>1. users' \in [Accounts -> User \cup {NoUser}]
      BY <1>0, <2>2, <2>3, <2>4 DEF AccountsTypeOK
    <3>2. /\ resets' \in [Letters -> Nat]
          /\ reception' \in [Requests -> {Free}
               \cup [op: {"register"}, email: Emails, password: Passwords]
               \cup [op: {"verify"}, id: Accounts]
               \cup [op: {"reset"}, letter: Letters, password: Passwords]]
      BY <1>0, <1>11, <2>1 DEF CommitResetting, Done, AccountsTypeOK
    <3>3. QED
      BY <1>0, <2>4, <2>5, <3>1, <3>2 DEF AccountsTypeOK
  <2>7. \A r \in Requests : reception'[r] = reception[r] \/ reception'[r].op = "free"
    BY <1>0, <1>11 DEF CommitResetting, Done, AccountsTypeOK, Free
  <2> HIDE DEF u
  <2>8. OneAccountPerAddress' /\ VerifiedForAReason' /\ Registered' = Registered /\ SettingsStay
    BY <1>6, <2>1, <2>3, <2>4, <2>6
  <2>9. \A r \in Requests : reception[r].op = "reset" => reception[r].letter \in Letters
    BY <1>0, ReceptionInFlight
  <2>10. \A r \in Requests :
           /\ reception'[r].op = "verify" =>
                reception'[r].id \in Registered /\ users'[reception'[r].id].settings
           /\ reception'[r].op = "reset" => letters'[reception'[r].letter] # NoLetter
    BY <2>5, <2>7, <2>8, <2>9 DEF AccountInv, SettingsStay
  <2>11. \A j \in Letters : letters'[j] # NoLetter => letters'[j].of \in Registered
    BY <2>1, <2>5 DEF AccountInv
  <2>12. QED
    BY <2>6, <2>8, <2>10, <2>11 DEF AccountInv
<1>12. ASSUME NEW some \in SUBSET Accounts, BulkVerify(some)
       PROVE  AccountInv' /\ Registered \subseteq Registered'
  <2>1. \A a \in Accounts :
          /\ users'[a] = IF a \in some \cap Registered
                         THEN [users[a] EXCEPT !.is_verified = TRUE] ELSE users[a]
          /\ users[a] # NoUser => users[a] \in User
    BY <1>0, <1>12 DEF BulkVerify, AccountsTypeOK
  <2>2. \A a \in Registered :
          /\ a \in Accounts /\ users'[a] \in User /\ users'[a].email = users[a].email
          /\ users'[a].settings = users[a].settings
          /\ users'[a].verification = users[a].verification
          /\ users'[a].is_verified => users[a].is_verified \/ a \in some
    <3> SUFFICES ASSUME NEW a \in Registered
                 PROVE  /\ a \in Accounts /\ users'[a] \in User /\ users'[a].email = users[a].email
                        /\ users'[a].settings = users[a].settings
                        /\ users'[a].verification = users[a].verification
                        /\ users'[a].is_verified => users[a].is_verified \/ a \in some
      OBVIOUS
    <3>1. a \in Accounts /\ users[a] \in User
      BY <2>1 DEF Registered
    <3>2. CASE a \in some
      <4>1. users'[a] = [users[a] EXCEPT !.is_verified = TRUE]
        BY <2>1, <3>1, <3>2
      <4>2. QED
        BY <3>1, <3>2, <4>1 DEF User
    <3>3. CASE a \notin some
      <4>1. users'[a] = users[a]
        BY <2>1, <3>1, <3>3
      <4>2. QED
        BY <3>1, <4>1
    <3>4. QED
      BY <3>2, <3>3
  <2>3. \A a \in Accounts \ Registered : users'[a] = NoUser
    BY <2>1 DEF Registered
  <2>4. Registered' = Registered
    BY <2>2, <2>3 DEF Registered, User, NoUser
  <2>5. AccountsTypeOK'
    <3>1. users' \in [Accounts -> User \cup {NoUser}]
      <4>1. users' = [a \in Accounts |->
              IF a \in some \cap Registered THEN [users[a] EXCEPT !.is_verified = TRUE] ELSE users[a]]
        BY <1>12 DEF BulkVerify
      <4>2. \A a \in Accounts : users'[a] \in User \cup {NoUser}
        BY <2>2, <2>3
      <4>3. QED
        BY <4>1, <4>2
    <3>2. QED
      BY <1>0, <1>12, <3>1 DEF BulkVerify, AccountsTypeOK
  <2>6. OneAccountPerAddress' /\ VerifiedForAReason'
    <3>1. audited' = audited \cup some
      BY <1>12 DEF BulkVerify
    <3>2. QED
      BY <1>u, <2>2, <2>4, <3>1 DEF AccountInv, OneAccountPerAddress, VerifiedForAReason
  <2>7. letters' = letters /\ reception' = reception
    BY <1>12 DEF BulkVerify
  <2>8. SettingsStay
    BY <2>2 DEF SettingsStay
  <2>9. QED
    BY <2>4, <2>5, <2>6, <2>7, <2>8, AccountsKept
<1>13. ASSUME NEW a \in Accounts, CompleteOnboarding(a)
       PROVE  AccountInv' /\ Registered \subseteq Registered'
  <2>1. a \in Registered /\ users[a] \in User
    BY <1>0, <1>13 DEF CompleteOnboarding, Registered, AccountsTypeOK
  <2> DEFINE u == [users[a] EXCEPT !.is_onboarded = TRUE]
  <2>2. /\ u \in User /\ u.email = users[a].email /\ u.settings = users[a].settings
        /\ u.verification = users[a].verification /\ u.is_verified = users[a].is_verified
    BY <2>1 DEF User
  <2>3. users' = [users EXCEPT ![a] = u] /\ UNCHANGED <<letters, audited, reception, resets>>
    BY <1>0, <1>13, <2>1 DEF CompleteOnboarding, AccountsTypeOK, User
  <2>4. AccountsTypeOK'
    BY <1>0, <2>1, <2>2, <2>3 DEF AccountsTypeOK
  <2> HIDE DEF u
  <2>5. OneAccountPerAddress' /\ VerifiedForAReason' /\ Registered' = Registered /\ SettingsStay
    BY <1>6, <2>1, <2>2, <2>3, <2>4
  <2>6. QED
    BY <2>3, <2>4, <2>5, AccountsKept
<1>14. ASSUME NEW a \in Accounts, OpenSettings(a)
       PROVE  AccountInv' /\ Registered \subseteq Registered'
  <2>1. a \in Registered /\ users[a] \in User
    BY <1>0, <1>14 DEF OpenSettings, Registered, AccountsTypeOK
  <2> DEFINE u == [users[a] EXCEPT !.settings = TRUE]
  <2>2. /\ u \in User /\ u.email = users[a].email /\ u.settings = TRUE
        /\ u.verification = users[a].verification /\ u.is_verified = users[a].is_verified
    BY <2>1 DEF User
  <2>3. users' = [users EXCEPT ![a] = u] /\ UNCHANGED <<letters, audited, reception, resets>>
    BY <1>0, <1>14, <2>1 DEF OpenSettings, AccountsTypeOK, User
  <2>4. AccountsTypeOK'
    BY <1>0, <2>1, <2>2, <2>3 DEF AccountsTypeOK
  <2> HIDE DEF u
  <2>5. OneAccountPerAddress' /\ VerifiedForAReason' /\ Registered' = Registered /\ SettingsStay
    BY <1>6, <2>1, <2>2, <2>3, <2>4
  <2>6. QED
    BY <2>3, <2>4, <2>5, AccountsKept
<1>15. CASE TokenExpires
  <2>1. CASE \E a \in Registered : /\ users[a].verification = "fresh"
                                   /\ users' = [users EXCEPT ![a].verification = "expired"]
                                   /\ UNCHANGED letters
    <3>1. PICK a \in Registered : /\ users[a].verification = "fresh"
                                  /\ users' = [users EXCEPT ![a].verification = "expired"]
                                  /\ UNCHANGED letters
      BY <2>1
    <3>2. users[a] \in User /\ a \in Accounts
      BY <1>0 DEF Registered, AccountsTypeOK
    <3> DEFINE u == [users[a] EXCEPT !.verification = "expired"]
    <3>3. /\ u \in User /\ u.email = users[a].email /\ u.settings = users[a].settings
          /\ u.verification = "expired" /\ u.is_verified = users[a].is_verified
      BY <3>2 DEF User
    <3>4. users' = [users EXCEPT ![a] = u] /\ UNCHANGED <<letters, audited, reception, resets>>
      BY <1>0, <1>15, <3>1, <3>2 DEF TokenExpires, AccountsTypeOK, User
    <3>5. AccountsTypeOK'
      BY <1>0, <3>2, <3>3, <3>4 DEF AccountsTypeOK
    <3> HIDE DEF u
    <3>6. OneAccountPerAddress' /\ VerifiedForAReason' /\ Registered' = Registered /\ SettingsStay
      <4>1. u.verification = "expired" /\ users[a].settings
        BY <3>1, <3>3 DEF AccountInv, OneAccountPerAddress
      <4>2. users[a].verification # "used" /\ (u.is_verified => users[a].is_verified)
        BY <3>1, <3>3
      <4>3. a \in Registered /\ u \in User /\ users' = [users EXCEPT ![a] = u]
            /\ UNCHANGED audited /\ u.email = users[a].email /\ u.settings = users[a].settings
        BY <3>1, <3>3, <3>4
      <4>4. QED
        BY <1>6, <3>5, <4>1, <4>2, <4>3
    <3>7. QED
      BY <3>4, <3>5, <3>6, AccountsKept
  <2>2. CASE \E k \in Letters : /\ letters[k].state = "fresh"
                                /\ letters' = [letters EXCEPT ![k].state = "expired"]
                                /\ UNCHANGED users
    <3>1. PICK k \in Letters : /\ letters[k].state = "fresh"
                               /\ letters' = [letters EXCEPT ![k].state = "expired"]
      BY <2>2
    <3>2. letters[k] # NoLetter
      BY <3>1 DEF NoLetter
    <3>3. /\ letters' \in [Letters -> Letter \cup {NoLetter}]
          /\ letters'[k] # NoLetter /\ letters'[k].of = letters[k].of
          /\ \A j \in Letters \ {k} : letters'[j] = letters[j]
      BY <1>10, <3>1, <3>2
    <3>4. UNCHANGED <<users, audited, reception, resets>>
      BY <1>15, <2>2 DEF TokenExpires
    <3>5. AccountsTypeOK'
      BY <1>0, <3>3, <3>4 DEF AccountsTypeOK
    <3>6. \A q \in Requests : reception[q].op = "reset" => reception[q].letter \in Letters
      BY <1>0, ReceptionInFlight
    <3>7. QED
      BY <1>2, <3>2, <3>3, <3>4, <3>5, <3>6 DEF AccountInv
  <2>3. QED
    BY <1>15, <2>1, <2>2 DEF TokenExpires
<1>16. ASSUME NEW q \in Requests, ReceptionFails(q)
       PROVE  AccountInv' /\ Registered \subseteq Registered'
  <2>1. /\ AccountsTypeOK'
        /\ \A r \in Requests : reception'[r] = reception[r] \/ reception'[r].op = "free"
        /\ UNCHANGED <<users, letters, audited>>
    BY <1>0, <1>16 DEF ReceptionFails, Done, AccountsTypeOK, Free
  <2>2. QED
    BY <1>2, <2>1, AccountsKept
<1>17. QED
  BY <1>1, <1>3, <1>4, <1>5, <1>7, <1>8, <1>9, <1>11, <1>12, <1>13, <1>14, <1>15, <1>16 DEF AccountsNext

LEMMA AccountInvInit ==
  ASSUME AccountsInit
  PROVE  AccountInv
<1>0. Registered = {}
  BY DEF AccountsInit, Registered
<1>1. AccountsTypeOK
  <2>1. /\ users \in [Accounts -> User \cup {NoUser}]
        /\ letters \in [Letters -> Letter \cup {NoLetter}]
        /\ audited \subseteq Accounts /\ resets \in [Letters -> Nat]
    BY DEF AccountsInit
  <2>2. QED
    BY <2>1 DEF AccountsInit, AccountsTypeOK, NoRequests
<1>2. \A q \in Requests : reception[q].op = "free"
  BY DEF AccountsInit, NoRequests, Free
<1>3. \A k \in Letters : letters[k] = NoLetter
  BY DEF AccountsInit
<1>4. QED
  BY <1>0, <1>1, <1>2, <1>3 DEF AccountInv, OneAccountPerAddress, VerifiedForAReason

\* A letter that can still be used, or is being used, has set no password yet.
LettersInv ==
  /\ NoOverlap(reception) /\ LettersWorkOnce
  /\ \A k \in Letters : letters[k].state \in {"unused", "fresh"} => resets[k] = 0
  /\ \A q \in Requests : reception[q].op = "reset" => resets[reception[q].letter] = 0

LEMMA LettersInvStep ==
  ASSUME AccountInv, LettersInv, [AccountsNext]_accountVars, UNCHANGED tenantVars,
         NoOverlap(reception')
  PROVE  LettersInv'
<1>0. /\ AccountsTypeOK /\ \A k \in Letters : resets[k] \in Nat
  BY DEF AccountInv, AccountsTypeOK
<1>1. ASSUME UNCHANGED resets,
             \A k \in Letters : letters'[k].state \in {"unused", "fresh"} =>
               letters[k].state \in {"unused", "fresh"},
             \A q \in Requests : reception'[q].op = "reset" =>
               reception'[q] = reception[q] \/ letters[reception'[q].letter].state = "fresh",
             \A q \in Requests : reception'[q].op = "reset" => reception'[q].letter \in Letters
      PROVE  LettersInv'
  BY <1>1 DEF LettersInv, LettersWorkOnce
<1>2. AccountsTypeOK'
  BY AccountInvStep DEF AccountInv
<1>3. \A q \in Requests : reception'[q].op = "reset" => reception'[q].letter \in Letters
  BY <1>2 DEF AccountsTypeOK, Free
<1>4. CASE UNCHANGED accountVars
  BY <1>1, <1>3, <1>4 DEF accountVars
<1>5. ASSUME NEW q \in Requests, NEW k \in Letters, NEW p \in Passwords, StartResetting(q, k, p)
      PROVE  LettersInv'
  BY <1>0, <1>1, <1>3, <1>5 DEF StartResetting
<1>6. ASSUME NEW q \in Requests, CommitResetting(q) PROVE LettersInv'
  <2> DEFINE k == reception[q].letter
  <2>1. k \in Letters /\ reception[q] # Free /\ reception[q].op = "reset"
    BY <1>0, <1>6, ReceptionInFlight DEF CommitResetting, Free
  <2>2. resets[k] = 0
    BY <2>1 DEF LettersInv
  <2>3. /\ resets'[k] = 1 /\ \A l \in Letters \ {k} : resets'[l] = resets[l]
    BY <1>0, <1>6, <2>1, <2>2 DEF CommitResetting, AccountsTypeOK
  <2>4. \A l \in Letters \ {k} : letters'[l] = letters[l]
    BY <1>0, <1>6, <2>1 DEF CommitResetting, AccountsTypeOK
  <2>5. letters'[k].state = "used"
    <3>1. letters[k] \in Letter
      BY <1>0, <2>1 DEF AccountInv, AccountsTypeOK
    <3>2. letters' = [letters EXCEPT ![k] = [letters[k] EXCEPT !.state = "used"]]
      BY <1>6 DEF CommitResetting
    <3>3. letters'[k] = [letters[k] EXCEPT !.state = "used"]
      BY <1>0, <2>1, <3>2 DEF AccountsTypeOK
    <3>4. QED
      BY <3>1, <3>3 DEF Letter
  <2>6. \A r \in Requests : reception'[r].op # "reset"
    BY <1>0, <1>6, <2>1 DEF CommitResetting, Done, LettersInv, NoOverlap, Free, AccountsTypeOK
  <2>7. QED
    BY <2>3, <2>4, <2>5, <2>6 DEF LettersInv, LettersWorkOnce
<1>7. CASE TokenExpires
  <2>1. reception' = reception /\ resets' = resets
    BY <1>7 DEF TokenExpires
  <2>2. \A k \in Letters : letters'[k] = letters[k] \/ letters'[k].state = "expired"
    <3>1. ASSUME NEW l \in Letters, letters[l].state = "fresh",
                 letters' = [letters EXCEPT ![l].state = "expired"]
          PROVE  \A k \in Letters : letters'[k] = letters[k] \/ letters'[k].state = "expired"
      <4>1. letters[l] \in Letter
        BY <1>0, <3>1 DEF AccountsTypeOK, NoLetter
      <4>2. QED
        BY <1>0, <3>1, <4>1 DEF AccountsTypeOK, Letter
    <3>2. QED
      BY <1>7, <3>1 DEF TokenExpires
  <2>3. QED
    BY <1>1, <1>3, <2>1, <2>2
<1>8. ASSUME NEW a \in Accounts, NEW k \in Letters, Forgot(a, k) PROVE LettersInv'
  <2>1. letters[k].state = "unused" /\ reception' = reception /\ resets' = resets
    BY <1>8 DEF Forgot, NoLetter
  <2>2. \A l \in Letters : l # k => letters'[l] = letters[l]
    BY <1>0, <1>8 DEF Forgot, AccountsTypeOK
  <2>3. QED
    BY <1>1, <1>3, <2>1, <2>2
<1>9. ASSUME NEW q \in Requests, NEW r, reception' = [reception EXCEPT ![q] = r],
             r.op # "reset", UNCHANGED <<letters, resets>>
      PROVE  LettersInv'
  BY <1>0, <1>1, <1>3, <1>9
<1>10. Free.op # "reset"
  BY DEF Free
<1>11. ASSUME NEW q \in Requests,
              \/ \E e \in Emails, p \in Passwords : StartRegistering(q, e, p)
              \/ \E a \in Accounts : StartVerify(q, a)
       PROVE  LettersInv'
  <2>1. ASSUME NEW e \in Emails, NEW p \in Passwords, StartRegistering(q, e, p)
        PROVE  LettersInv'
    <3>1. [op |-> "register", email |-> e, password |-> p].op # "reset"
      OBVIOUS
    <3>2. QED
      BY <1>9, <2>1, <3>1 DEF StartRegistering
  <2>2. ASSUME NEW a \in Accounts, StartVerify(q, a) PROVE LettersInv'
    <3>1. [op |-> "verify", id |-> a].op # "reset"
      OBVIOUS
    <3>2. QED
      BY <1>9, <2>2, <3>1 DEF StartVerify
  <2>3. QED
    BY <1>11, <2>1, <2>2
<1>12. ASSUME NEW q \in Requests, CommitRegistering(q) \/ CommitVerify(q) \/ ReceptionFails(q)
       PROVE  LettersInv'
  BY <1>9, <1>10, <1>12 DEF CommitRegistering, CommitVerify, ReceptionFails, Done
<1>13. ASSUME \/ \E a \in Accounts : CompleteOnboarding(a) \/ OpenSettings(a)
              \/ \E some \in SUBSET Accounts : BulkVerify(some)
       PROVE  LettersInv'
  <2>1. UNCHANGED <<letters, reception, resets>>
    BY <1>13 DEF CompleteOnboarding, OpenSettings, BulkVerify
  <2>2. QED
    BY <1>1, <1>3, <2>1
<1>14. QED
  BY <1>4, <1>5, <1>6, <1>7, <1>8, <1>11, <1>12, <1>13 DEF AccountsNext

LEMMA LettersInvInit == AccountsInit => LettersInv
  BY DEF AccountsInit, LettersInv, LettersWorkOnce, NoOverlap, NoRequests, Free

------------------------------------------------------------------------------
(* Tenants *)

ProvisionCall == [op: {"provision"}, slug: Slugs, code: Codes, settings: Settings,
                  admin: Emails, password: Passwords]
ConfigureCall == [op: {"configure"}, id: Colleges, had: College, codes: Maybe(Codes),
                  activity: Maybe(BOOLEAN), given: Maybe(Settings)]
EntriesCall == [op: {"settle", "import"}, id: Colleges, had: College, settings: Settings]
ToggleCall == [op: {"toggle"}, id: Colleges, had: College]
PolicyCall == [op: {"policy"}, row: Policies, rule: Rules \cup {NoPolicy}, rules: Maybe(Rules)]
Call == {Free} \cup ProvisionCall \cup ConfigureCall \cup EntriesCall \cup ToggleCall \cup PolicyCall

ToOneCollege == {"configure", "settle", "import", "toggle"}

LEMMA OnTheConsole ==
  ASSUME TenantsTypeOK
  PROVE  /\ console \in [Requests -> Call]
         /\ \A q \in Requests :
              /\ console[q].op = "provision" => console[q] \in ProvisionCall
              /\ console[q].op = "configure" => console[q] \in ConfigureCall
              /\ console[q].op \in {"settle", "import"} => console[q] \in EntriesCall
              /\ console[q].op = "toggle" => console[q] \in ToggleCall
              /\ console[q].op = "policy" => console[q] \in PolicyCall
              /\ console[q].op \in ToOneCollege =>
                   console[q].id \in Colleges /\ console[q].had \in College
<1>1. console \in [Requests -> Call]
  BY DEF TenantsTypeOK, Call, ProvisionCall, ConfigureCall, EntriesCall, ToggleCall, PolicyCall
<1>2. \A q \in Requests : console[q] \in Call
  BY <1>1
<1>3. QED
  BY <1>1, <1>2 DEF Call, ProvisionCall, ConfigureCall, EntriesCall, ToggleCall, PolicyCall, Free, ToOneCollege

LEMMA CollegeRows ==
  ASSUME TenantsTypeOK
  PROVE  /\ \A r \in College : r # NoCollege
         /\ \A c \in Provisioned : colleges[c] \in College
<1>1. \A r \in College : r # NoCollege
  BY DEF College, NoCollege
<1>2. QED
  BY <1>1 DEF TenantsTypeOK, Provisioned

\* What a request of the console refers to is there.
ConsoleFits == \A q \in Requests : console[q].op \in ToOneCollege => console[q].id \in Provisioned

TenantInv ==
  /\ TenantsTypeOK /\ ConsoleFits /\ TenantsAreDistinct
  /\ \A c \in Colleges \ Provisioned : staff[c] = {}

\* A college is changed: it keeps its slug, and no other has the code it gets.
LEMMA OneCollege ==
  ASSUME TenantInv, NEW c \in Provisioned, NEW row \in College,
         colleges' = [colleges EXCEPT ![c] = row], UNCHANGED <<users, staff>>,
         row.slug = colleges[c].slug,
         \A d \in Provisioned \ {c} : colleges[d].code # row.code
  PROVE  /\ colleges' \in [Colleges -> College \cup {NoCollege}]
         /\ colleges'[c] = row /\ \A d \in Colleges \ {c} : colleges'[d] = colleges[d]
         /\ Provisioned' = Provisioned /\ TenantsAreDistinct'
<1>0. TenantsTypeOK /\ TenantsAreDistinct /\ c \in Colleges /\ row # NoCollege
  BY CollegeRows DEF TenantInv, Provisioned
<1>1. /\ colleges' \in [Colleges -> College \cup {NoCollege}]
      /\ colleges'[c] = row /\ \A d \in Colleges \ {c} : colleges'[d] = colleges[d]
  BY <1>0 DEF TenantsTypeOK
<1>2. Provisioned' = Provisioned
  BY <1>0, <1>1 DEF Provisioned
<1>3. TenantsAreDistinct'
  <2>1. Provisioned \subseteq Colleges /\ Registered' = Registered
    BY DEF Provisioned, Registered
  <2>2. \A d \in Provisioned \ {c} : row.slug # colleges[d].slug /\ row.code # colleges[d].code
    BY <1>0 DEF TenantsAreDistinct
  <2>3. \A d, e \in Provisioned :
          colleges'[d].slug = colleges'[e].slug \/ colleges'[d].code = colleges'[e].code => d = e
    BY <1>0, <1>1, <2>1, <2>2 DEF TenantsAreDistinct
  <2>4. QED
    BY <1>0, <1>2, <2>1, <2>3 DEF TenantsAreDistinct
<1>4. QED
  BY <1>1, <1>2, <1>3

LEMMA ConsoleSlot ==
  ASSUME TenantsTypeOK, NEW q \in Requests, NEW r \in Call, console' = [console EXCEPT ![q] = r]
  PROVE  /\ console' \in [Requests -> Call] /\ console'[q] = r
         /\ \A s \in Requests \ {q} : console'[s] = console[s]
BY OnTheConsole

\* A call that is answered, having changed one college or none.
LEMMA Answered ==
  ASSUME TenantInv, NEW q \in Requests, Answer(q),
         colleges' \in [Colleges -> College \cup {NoCollege}],
         staff' \in [Colleges -> SUBSET Accounts],
         policies' \in [Policies -> Rules \cup {NoPolicy}],
         ordered' \in [Colleges -> [is_active: BOOLEAN, settings: Settings]],
         TenantsAreDistinct',
         \A c \in Colleges \ Provisioned' : staff'[c] = {},
         Provisioned \subseteq Provisioned'
  PROVE  TenantInv'
<1>0. TenantsTypeOK /\ ConsoleFits
  BY DEF TenantInv
<1>1. Free \in Call /\ Free.op = "free"
  BY DEF Call, Free
<1>2. /\ console' \in [Requests -> Call] /\ console'[q] = Free
      /\ \A s \in Requests \ {q} : console'[s] = console[s]
  BY <1>0, <1>1, ConsoleSlot DEF Answer
<1>3. TenantsTypeOK'
  BY <1>2 DEF TenantsTypeOK, Call, ProvisionCall, ConfigureCall, EntriesCall, ToggleCall, PolicyCall
<1>4. \A s \in Requests : console'[s].op # "free" => s # q /\ console'[s] = console[s]
  BY <1>1, <1>2
<1>5. ConsoleFits'
  BY <1>0, <1>4 DEF ConsoleFits, ToOneCollege
<1>6. QED
  BY <1>3, <1>5 DEF TenantInv

\* A call that begins.
LEMMA Asked ==
  ASSUME TenantInv, NEW q \in Requests, NEW r \in Call, Ask(q, r),
         UNCHANGED <<users, colleges, staff, policies, ordered>>,
         r.op \in ToOneCollege => r.id \in Provisioned
  PROVE  TenantInv'
<1>0. TenantsTypeOK /\ ConsoleFits
  BY DEF TenantInv
<1>1. /\ console' \in [Requests -> Call] /\ console'[q] = r
      /\ \A s \in Requests \ {q} : console'[s] = console[s]
  BY <1>0, ConsoleSlot DEF Ask
<1>2. TenantsTypeOK'
  BY <1>0, <1>1
     DEF TenantsTypeOK, Call, ProvisionCall, ConfigureCall, EntriesCall, ToggleCall, PolicyCall
<1>3. Provisioned' = Provisioned /\ Registered' = Registered
  BY DEF Provisioned, Registered
<1>4. ConsoleFits'
  BY <1>0, <1>1, <1>3 DEF ConsoleFits
<1>5. TenantsAreDistinct' /\ \A c \in Colleges \ Provisioned' : staff'[c] = {}
  BY <1>3 DEF TenantInv, TenantsAreDistinct
<1>6. QED
  BY <1>2, <1>4, <1>5 DEF TenantInv

\* What the columns of a college become.
LEMMA Updated ==
  ASSUME NEW row \in College
  PROVE  /\ \A a \in BOOLEAN : LET new == [row EXCEPT !.is_active = a] IN
              /\ new \in College /\ new.slug = row.slug /\ new.code = row.code
              /\ new.is_active = a /\ new.settings = row.settings
         /\ \A s \in Settings : LET new == [row EXCEPT !.settings = s] IN
              /\ new \in College /\ new.slug = row.slug /\ new.code = row.code
              /\ new.is_active = row.is_active /\ new.settings = s
BY DEF College

LEMMA Merging ==
  ASSUME NEW s \in Settings, NEW t \in Settings
  PROVE  Merge(s, t) \in Settings
BY DEF Settings, Merge

Orders == [is_active: BOOLEAN, settings: Settings]

\* What a call writes to its college: another row of the same slug, with a code
\* that no other has; and a row that was as ordered, and as the call has read it,
\* is as ordered again.
Writes(q, row, order) ==
  LET c == console[q].id IN
  /\ colleges' = [colleges EXCEPT ![c] = row]
  /\ ordered' = [ordered EXCEPT ![c] = order]
  /\ row.slug = colleges[c].slug
  /\ \A d \in Provisioned \ {c} : colleges[d].code # row.code
  /\ /\ console[q].had = colleges[c]
     /\ colleges[c].settings = ordered[c].settings
     /\ colleges[c].is_active = ordered[c].is_active
     => row.settings = order.settings /\ row.is_active = order.is_active

LEMMA CollegeWritten ==
  ASSUME TenantInv, NEW q \in Requests,
         CommitToggle(q) \/ CommitImport(q) \/ CommitSettle(q) \/ CommitConfigure(q)
  PROVE  /\ console[q].op \in ToOneCollege /\ Answer(q) /\ UNCHANGED <<users, staff, policies>>
         /\ \E row \in College, order \in Orders : Writes(q, row, order)
<1> DEFINE c == console[q].id
           had == console[q].had
           old == colleges[c]
           was == ordered[c]
<1>1. console[q].op \in ToOneCollege /\ Answer(q) /\ UNCHANGED <<users, staff, policies>>
  BY DEF CommitToggle, CommitImport, CommitSettle, CommitConfigure, ToOneCollege
<1>2. /\ c \in Provisioned /\ c \in Colleges /\ had \in College
      /\ old \in College /\ was \in Orders
      /\ \A d \in Provisioned \ {c} : colleges[d].code # old.code
  <2>1. TenantsTypeOK /\ ConsoleFits /\ TenantsAreDistinct
    BY DEF TenantInv
  <2>2. c \in Provisioned /\ c \in Colleges /\ had \in College
    BY <1>1, <2>1, OnTheConsole DEF ConsoleFits
  <2>3. QED
    BY <2>1, <2>2, CollegeRows DEF TenantsTypeOK, TenantsAreDistinct, Orders
<1>3. /\ old.settings \in Settings /\ old.is_active \in BOOLEAN /\ old.code \in Codes
      /\ was.settings \in Settings /\ was.is_active \in BOOLEAN
      /\ had.settings \in Settings /\ had.is_active \in BOOLEAN
  BY <1>2 DEF College, Orders
<1>4. /\ \A a \in BOOLEAN : LET new == [was EXCEPT !.is_active = a] IN
           new \in Orders /\ new.is_active = a /\ new.settings = was.settings
      /\ \A s \in Settings : LET new == [was EXCEPT !.settings = s] IN
           new \in Orders /\ new.settings = s /\ new.is_active = was.is_active
  BY <1>2 DEF Orders
<1>5. CASE CommitToggle(q)
  <2>1. PICK x \in BOOLEAN, y \in BOOLEAN : x = ~had.is_active /\ y = ~was.is_active
    <3>1. \A b \in BOOLEAN : \E x \in BOOLEAN : x = ~b
      OBVIOUS
    <3>2. QED
      BY <1>3, <3>1
  <2> DEFINE row == [old EXCEPT !.is_active = x]
             order == [was EXCEPT !.is_active = y]
  <2>2. colleges' = [colleges EXCEPT ![c] = row] /\ ordered' = [ordered EXCEPT ![c] = order]
    BY <1>5, <2>1 DEF CommitToggle
  <2>3. /\ row \in College /\ row.slug = old.slug /\ row.code = old.code
        /\ row.settings = old.settings /\ row.is_active = x
    BY <1>2, Updated
  <2>4. order \in Orders /\ order.settings = was.settings /\ order.is_active = y
    BY <1>4
  <2>5. had = old /\ old.is_active = was.is_active => x = y
    BY <2>1
  <2>6. Writes(q, row, order)
    BY <1>2, <2>2, <2>3, <2>4, <2>5 DEF Writes
  <2>7. QED
    BY <1>1, <2>3, <2>4, <2>6
\* The settings are written.
<1>6. ASSUME NEW x \in Settings, NEW y \in Settings,
             colleges' = [colleges EXCEPT ![c].settings = x],
             ordered' = [ordered EXCEPT ![c].settings = y],
             had = old /\ old.settings = was.settings => x = y
      PROVE  \E row \in College, order \in Orders : Writes(q, row, order)
  <2> DEFINE row == [old EXCEPT !.settings = x]
             order == [was EXCEPT !.settings = y]
  <2>1. colleges' = [colleges EXCEPT ![c] = row] /\ ordered' = [ordered EXCEPT ![c] = order]
    BY <1>6
  <2>2. /\ row \in College /\ row.slug = old.slug /\ row.code = old.code
        /\ row.settings = x /\ row.is_active = old.is_active
    BY <1>2, Updated
  <2>3. order \in Orders /\ order.settings = y /\ order.is_active = was.is_active
    BY <1>4
  <2>4. Writes(q, row, order)
    BY <1>2, <1>6, <2>1, <2>2, <2>3 DEF Writes
  <2>5. QED
    BY <2>2, <2>3, <2>4
<1>7. CASE CommitImport(q)
  <2> DEFINE t == console[q].settings
  <2>1. t \in Settings
    BY <1>7, OnTheConsole DEF CommitImport, EntriesCall, TenantInv
  <2>2. /\ colleges' = [colleges EXCEPT ![c].settings = Merge(had.settings, t)]
        /\ ordered' = [ordered EXCEPT ![c].settings = Merge(was.settings, t)]
    BY <1>7 DEF CommitImport
  <2>3. Merge(had.settings, t) \in Settings /\ Merge(was.settings, t) \in Settings
    BY <1>3, <2>1, Merging
  <2>4. QED
    BY <1>1, <1>6, <2>2, <2>3
<1>8. CASE CommitSettle(q)
  <2> DEFINE t == console[q].settings
             x == IF t = had.settings THEN old.settings ELSE t
  <2>1. t \in Settings
    BY <1>8, OnTheConsole DEF CommitSettle, EntriesCall, TenantInv
  <2>2. /\ colleges' = [colleges EXCEPT ![c].settings = x]
        /\ ordered' = [ordered EXCEPT ![c].settings = t]
    BY <1>8 DEF CommitSettle
  <2>3. x \in Settings /\ (had = old => x = t)
    BY <1>3, <2>1
  <2> HIDE DEF x
  <2>4. QED
    BY <1>1, <1>6, <2>1, <2>2, <2>3
<1>9. CASE CommitConfigure(q)
  <2> DEFINE codes == console[q].codes
             activity == console[q].activity
             sent == console[q].given
             Code == codes \ {had.code}
             Active == activity \ {had.is_active}
             code == IF Code = {} THEN old.code ELSE CHOOSE x \in Code : TRUE
             active == IF Active = {} THEN old.is_active ELSE CHOOSE x \in Active : TRUE
             asked == IF sent = {} THEN old.settings ELSE CHOOSE s \in sent : TRUE
             activeOrder == IF activity = {} THEN was.is_active ELSE CHOOSE x \in activity : TRUE
             askedOrder == IF sent = {} THEN was.settings ELSE CHOOSE s \in sent : TRUE
             row == [[[old EXCEPT !.code = code] EXCEPT !.is_active = active]
                       EXCEPT !.settings = asked]
             order == [[was EXCEPT !.is_active = activeOrder] EXCEPT !.settings = askedOrder]
  <2>1. /\ colleges' = [colleges EXCEPT ![c].code = code, ![c].is_active = active,
                                       ![c].settings = asked]
        /\ ordered' = [ordered EXCEPT ![c].is_active = activeOrder, ![c].settings = askedOrder]
        /\ \A d \in Provisioned \ {c} : colleges[d].code \notin Code
    BY <1>9 DEF CommitConfigure
  <2>2. codes \in Maybe(Codes) /\ activity \in Maybe(BOOLEAN) /\ sent \in Maybe(Settings)
    BY <1>9, OnTheConsole DEF CommitConfigure, ConfigureCall, TenantInv
  <2>3. code \in Codes /\ \A d \in Provisioned \ {c} : colleges[d].code # code
    <3>1. Code \subseteq Codes
      BY <2>2 DEF Maybe
    <3>2. CASE Code = {}
      BY <1>2, <1>3, <3>2
    <3>3. CASE Code # {}
      BY <2>1, <3>1, <3>3
    <3>4. QED
      BY <3>2, <3>3
  <2>4. asked \in Settings /\ askedOrder \in Settings
        /\ (old.settings = was.settings => asked = askedOrder)
    <3>1. sent \subseteq Settings
      BY <2>2 DEF Maybe
    <3>2. QED
      BY <1>3, <3>1
  <2>5. /\ active \in BOOLEAN /\ activeOrder \in BOOLEAN
        /\ had = old /\ old.is_active = was.is_active => active = activeOrder
    <3>1. activity = {} \/ \E x \in BOOLEAN : activity = {x}
      BY <2>2 DEF Maybe
    <3>2. CASE activity = {}
      BY <1>3, <3>2
    <3>3. ASSUME NEW x \in BOOLEAN, activity = {x}
          PROVE  /\ active \in BOOLEAN /\ activeOrder \in BOOLEAN
                 /\ had = old /\ old.is_active = was.is_active => active = activeOrder
      <4>1. activeOrder = x
        BY <3>3
      <4>2. CASE x = had.is_active
        <5>1. Active = {}
          BY <3>3, <4>2
        <5>2. QED
          BY <1>3, <3>3, <4>1, <4>2, <5>1
      <4>3. CASE x # had.is_active
        <5>1. Active = {x}
          BY <3>3, <4>3
        <5>2. QED
          BY <3>3, <4>1, <5>1
      <4>4. QED
        BY <4>2, <4>3
    <3>4. QED
      BY <3>1, <3>2, <3>3
  <2> HIDE DEF code, active, asked, activeOrder, askedOrder
  <2>6. colleges' = [colleges EXCEPT ![c] = row] /\ ordered' = [ordered EXCEPT ![c] = order]
    BY <1>2, <2>1 DEF College, Orders, TenantInv, TenantsTypeOK
  <2>7. /\ row \in College /\ row.slug = old.slug /\ row.code = code
        /\ row.is_active = active /\ row.settings = asked
    BY <1>2, <2>3, <2>4, <2>5 DEF College
  <2>8. order \in Orders /\ order.is_active = activeOrder /\ order.settings = askedOrder
    BY <1>2, <2>4, <2>5 DEF Orders
  <2> HIDE DEF row, order
  <2>9. Writes(q, row, order)
    BY <2>3, <2>4, <2>5, <2>6, <2>7, <2>8 DEF Writes
  <2>10. QED
    BY <1>1, <2>7, <2>8, <2>9
<1>10. QED
  BY <1>1, <1>5, <1>7, <1>8, <1>9

\* A college and its administrator are inserted.
Founds(q, c, a) ==
  LET call == console[q] IN
  /\ \A d \in Provisioned : colleges[d].slug # call.slug /\ colleges[d].code # call.code
  /\ InsertUser(a, Administrator(call.admin, call.password))
  /\ colleges' = [colleges EXCEPT ![c] =
       [slug |-> call.slug, code |-> call.code, is_active |-> TRUE, settings |-> call.settings]]
  /\ staff' = [staff EXCEPT ![c] = {a}]
  /\ ordered' = [ordered EXCEPT ![c] = [is_active |-> TRUE, settings |-> call.settings]]

LEMMA CollegeFounded ==
  ASSUME AccountInv, TenantInv, NEW q \in Requests, console[q].op = "provision",
         NEW c \in Colleges \ Provisioned, NEW a \in Accounts, Founds(q, c, a)
  PROVE  /\ Administrator(console[q].admin, console[q].password) \in User
         /\ colleges' \in [Colleges -> College \cup {NoCollege}]
         /\ staff' \in [Colleges -> SUBSET Accounts] /\ staff'[c] = {a}
         /\ \A d \in Provisioned : staff'[d] = staff[d]
         /\ ordered' \in [Colleges -> Orders]
         /\ Provisioned' = Provisioned \cup {c}
         /\ TenantsAreDistinct'
         /\ \A d \in Colleges \ Provisioned' : staff'[d] = {}
<1> DEFINE call == console[q]
           row == [slug |-> call.slug, code |-> call.code, is_active |-> TRUE,
                   settings |-> call.settings]
           order == [is_active |-> TRUE, settings |-> call.settings]
           admin == Administrator(call.admin, call.password)
<1>0. TenantsTypeOK /\ TenantsAreDistinct /\ \A d \in Colleges \ Provisioned : staff[d] = {}
  BY DEF TenantInv
<1>1. call \in ProvisionCall
  BY <1>0, OnTheConsole
<1>2. row \in College /\ order \in Orders /\ row.slug = call.slug /\ row.code = call.code
  BY <1>1 DEF ProvisionCall, College, Orders
<1>3. admin \in User /\ (admin.verification # "none" => admin.settings)
  BY <1>1 DEF ProvisionCall, User, Administrator
<1>4. /\ \A d \in Provisioned : colleges[d].slug # call.slug /\ colleges[d].code # call.code
      /\ InsertUser(a, admin)
      /\ colleges' = [colleges EXCEPT ![c] = row]
      /\ staff' = [staff EXCEPT ![c] = {a}]
      /\ ordered' = [ordered EXCEPT ![c] = order]
  BY DEF Founds
<1> HIDE DEF row, order, admin
<1>5. Registered' = Registered \cup {a} /\ a \notin Registered
  <2>1. Registered' = Registered \cup {a}
    BY <1>3, <1>4, UserInserted
  <2>2. QED
    BY <1>4, <2>1 DEF InsertUser, Registered
<1>6. /\ colleges' \in [Colleges -> College \cup {NoCollege}]
      /\ colleges'[c] = row /\ row # NoCollege
      /\ \A d \in Colleges \ {c} : colleges'[d] = colleges[d]
  BY <1>0, <1>2, <1>4, CollegeRows DEF TenantsTypeOK
<1>7. /\ staff' \in [Colleges -> SUBSET Accounts] /\ staff'[c] = {a}
      /\ \A d \in Colleges \ {c} : staff'[d] = staff[d]
  BY <1>0, <1>4 DEF TenantsTypeOK
<1>8. ordered' \in [Colleges -> Orders]
  BY <1>0, <1>2, <1>4 DEF TenantsTypeOK, Orders
<1>9. Provisioned' = Provisioned \cup {c} /\ Provisioned \subseteq Colleges
  BY <1>6 DEF Provisioned
<1>10. TenantsAreDistinct'
  <2>1. \A d, e \in Provisioned' :
          colleges'[d].slug = colleges'[e].slug \/ colleges'[d].code = colleges'[e].code => d = e
    BY <1>0, <1>2, <1>4, <1>6, <1>9 DEF TenantsAreDistinct
  <2>2. \A d \in Provisioned' : staff'[d] # {} /\ staff'[d] \subseteq Registered'
    BY <1>0, <1>5, <1>7, <1>9 DEF TenantsAreDistinct
  <2>3. \A d \in Colleges : staff[d] \subseteq Registered
    BY <1>0 DEF TenantsAreDistinct
  <2>4. \A d, e \in Colleges : d # e => staff'[d] \cap staff'[e] = {}
    BY <1>0, <1>5, <1>7, <2>3 DEF TenantsAreDistinct
  <2>5. QED
    BY <2>1, <2>2, <2>4 DEF TenantsAreDistinct
<1>11. \A d \in Colleges \ Provisioned' : staff'[d] = {}
  BY <1>0, <1>7, <1>9
<1>12. QED
  BY <1>3, <1>6, <1>7, <1>8, <1>9, <1>10, <1>11 DEF admin

LEMMA TenantInvStep ==
  ASSUME AccountInv, TenantInv, TenantsNext
  PROVE  TenantInv'
<1>0. TenantsTypeOK /\ ConsoleFits /\ TenantsAreDistinct /\ \A c \in Colleges \ Provisioned : staff[c] = {}
  BY DEF TenantInv
<1>t. /\ colleges \in [Colleges -> College \cup {NoCollege}]
      /\ staff \in [Colleges -> SUBSET Accounts]
      /\ policies \in [Policies -> Rules \cup {NoPolicy}]
      /\ ordered \in [Colleges -> Orders]
  BY <1>0 DEF TenantsTypeOK, Orders
<1>1. ASSUME NEW q \in Requests, NEW slug \in Slugs, NEW code \in Codes, NEW admin \in Emails,
             NEW password \in Passwords, NEW sent \in Maybe(Settings),
             StartProvision(q, slug, code, admin, password, sent)
      PROVE  TenantInv'
  <2>1. PICK s \in IF sent \subseteq {Blank} THEN {DefaultSettings} ELSE sent :
          Ask(q, [op |-> "provision", slug |-> slug, code |-> code, settings |-> s,
                  admin |-> admin, password |-> password])
    BY <1>1 DEF StartProvision
  <2> DEFINE r == [op |-> "provision", slug |-> slug, code |-> code, settings |-> s,
                   admin |-> admin, password |-> password]
  <2>2. s \in Settings
    <3>1. sent \subseteq Settings
      BY DEF Maybe
    <3>2. QED
      BY <2>1, <3>1, TenantsAssumption
  <2>3. Ask(q, r) /\ UNCHANGED <<users, colleges, staff, policies, ordered>>
    BY <1>1, <2>1 DEF StartProvision
  <2>4. r \in Call /\ r.op = "provision"
    BY <2>2 DEF Call, ProvisionCall
  <2> HIDE DEF r
  <2>5. QED
    BY <2>3, <2>4, Asked DEF ToOneCollege
<1>2. ASSUME NEW q \in Requests, NEW c \in Colleges, NEW codes \in Maybe(Codes),
             NEW activity \in Maybe(BOOLEAN), NEW sent \in Maybe(Settings),
             StartConfigure(q, c, codes, activity, sent)
      PROVE  TenantInv'
  <2> DEFINE r == [op |-> "configure", id |-> c, had |-> colleges[c], codes |-> codes,
                   activity |-> activity, given |-> sent]
  <2>1. c \in Provisioned /\ Ask(q, r) /\ UNCHANGED <<users, colleges, staff, policies, ordered>>
    BY <1>2 DEF StartConfigure
  <2>2. r \in Call /\ r.op = "configure" /\ r.id = c
    BY <1>0, <2>1, CollegeRows DEF Call, ConfigureCall
  <2> HIDE DEF r
  <2>3. QED
    BY <2>1, <2>2, Asked DEF ToOneCollege
<1>3. ASSUME NEW q \in Requests, NEW c \in Colleges, StartToggle(q, c) PROVE TenantInv'
  <2> DEFINE r == [op |-> "toggle", id |-> c, had |-> colleges[c]]
  <2>1. c \in Provisioned /\ Ask(q, r) /\ UNCHANGED <<users, colleges, staff, policies, ordered>>
    BY <1>3 DEF StartToggle
  <2>2. r \in Call /\ r.op = "toggle" /\ r.id = c
    BY <1>0, <2>1, CollegeRows DEF Call, ToggleCall
  <2> HIDE DEF r
  <2>3. QED
    BY <2>1, <2>2, Asked DEF ToOneCollege
<1>4. ASSUME NEW q \in Requests, NEW c \in Colleges, NEW s \in Settings,
             StartImport(q, c, s) \/ StartSettle(q, c, s)
      PROVE  TenantInv'
  <2>1. PICK op \in {"settle", "import"} :
          Ask(q, [op |-> op, id |-> c, had |-> colleges[c], settings |-> s])
    BY <1>4 DEF StartImport, StartSettle
  <2> DEFINE r == [op |-> op, id |-> c, had |-> colleges[c], settings |-> s]
  <2>2. c \in Provisioned /\ UNCHANGED <<users, colleges, staff, policies, ordered>>
    BY <1>4 DEF StartImport, StartSettle
  <2>3. r \in Call /\ r.op \in {"settle", "import"} /\ r.id = c
    BY <1>0, <2>2, CollegeRows DEF Call, EntriesCall
  <2>4. Ask(q, r)
    BY <2>1
  <2> HIDE DEF r
  <2>5. QED
    BY <2>2, <2>3, <2>4, Asked DEF ToOneCollege
<1>5. ASSUME NEW q \in Requests, NEW p \in Policies, NEW rules \in Maybe(Rules),
             StartPolicy(q, p, rules)
      PROVE  TenantInv'
  <2> DEFINE r == [op |-> "policy", row |-> p, rule |-> policies[p], rules |-> rules]
  <2>1. Ask(q, r) /\ UNCHANGED <<users, colleges, staff, policies, ordered>>
    BY <1>5 DEF StartPolicy
  <2>2. r \in Call /\ r.op = "policy"
    BY <1>t DEF Call, PolicyCall
  <2> HIDE DEF r
  <2>3. QED
    BY <2>1, <2>2, Asked DEF ToOneCollege
<1>6. ASSUME NEW q \in Requests, CommitProvision(q) PROVE TenantInv'
  <2>1. PICK c \in Colleges \ Provisioned, a \in Accounts : Founds(q, c, a)
    BY <1>6 DEF CommitProvision, Founds
  <2>2. console[q].op = "provision" /\ Answer(q) /\ policies' = policies
    BY <1>6 DEF CommitProvision
  <2>3. QED
    BY <2>1, <2>2, CollegeFounded, Answered DEF TenantInv, TenantsTypeOK, Orders
\* A call changed one college, and what was ordered of it.
<1>7. ASSUME NEW q \in Requests, NEW row \in College, NEW order \in Orders,
             console[q].op \in ToOneCollege, Answer(q), UNCHANGED <<users, staff, policies>>,
             colleges' = [colleges EXCEPT ![console[q].id] = row],
             ordered' = [ordered EXCEPT ![console[q].id] = order],
             row.slug = colleges[console[q].id].slug,
             \A d \in Provisioned \ {console[q].id} : colleges[d].code # row.code
      PROVE  TenantInv'
  <2>1. console[q].id \in Provisioned /\ console[q].id \in Colleges
    BY <1>0, <1>7 DEF ConsoleFits, Provisioned
  <2>2. /\ colleges' \in [Colleges -> College \cup {NoCollege}]
        /\ Provisioned' = Provisioned /\ TenantsAreDistinct'
    BY <1>7, <2>1, OneCollege
  <2>3. ordered' \in [Colleges -> Orders]
    BY <1>t, <1>7, <2>1
  <2>4. QED
    BY <1>0, <1>t, <1>7, <2>2, <2>3, Answered DEF Orders
<1>8. ASSUME NEW q \in Requests,
             CommitToggle(q) \/ CommitImport(q) \/ CommitSettle(q) \/ CommitConfigure(q)
      PROVE  TenantInv'
  BY <1>7, <1>8, CollegeWritten DEF Writes
<1>9. ASSUME NEW q \in Requests, CommitPolicy(q) \/ ConsoleFails(q) PROVE TenantInv'
  <2>1. Answer(q) /\ UNCHANGED <<users, colleges, staff, ordered>>
    BY <1>9 DEF CommitPolicy, ConsoleFails
  <2>2. Provisioned' = Provisioned /\ Registered' = Registered
    BY <2>1 DEF Provisioned, Registered
  <2>3. policies' \in [Policies -> Rules \cup {NoPolicy}]
    <3>1. CASE ConsoleFails(q)
      BY <1>t, <3>1 DEF ConsoleFails
    <3>2. CASE CommitPolicy(q)
      <4> DEFINE Changes == console[q].rules \ {console[q].rule}
                 New == CHOOSE r \in Changes : TRUE
      <4>1. console[q].rules \subseteq Rules /\ console[q].row \in Policies
        BY <1>0, <3>2, OnTheConsole DEF CommitPolicy, PolicyCall, Maybe
      <4>2. Changes # {} => New \in Rules
        BY <4>1
      <4>3. \E p \in Policies : \E r \in Rules \cup {NoPolicy} : policies' = [policies EXCEPT ![p] = r]
        <5>1. \/ policies' = [policies EXCEPT ![console[q].row] = IF Changes = {} THEN @ ELSE New]
              \/ \E p \in Policies :
                   policies' = [policies EXCEPT ![p] = IF Changes = {} THEN DefaultRules ELSE New]
          BY <3>2 DEF CommitPolicy
        <5> HIDE DEF New
        <5>2. QED
          BY <1>t, <4>1, <4>2, <5>1, TenantsAssumption
      <4>4. QED
        BY <1>t, <4>3
    <3>3. QED
      BY <1>9, <3>1, <3>2
  <2>4. TenantsAreDistinct'
    BY <1>0, <2>1, <2>2 DEF TenantsAreDistinct
  <2>5. QED
    BY <1>0, <1>t, <2>1, <2>2, <2>3, <2>4, Answered DEF Orders
<1>10. QED
  BY <1>1, <1>2, <1>3, <1>4, <1>5, <1>6, <1>8, <1>9 DEF TenantsNext

LEMMA TenantInvInit == TenantsInit => TenantInv
<1> SUFFICES ASSUME TenantsInit PROVE TenantInv
  OBVIOUS
<1>1. Provisioned = {}
  BY DEF TenantsInit, Provisioned
<1>2. \A q \in Requests : console[q] = Free
  BY DEF TenantsInit, NoRequests
<1>3. TenantsTypeOK
  <2>1. console \in [Requests -> {Free}]
    BY DEF TenantsInit, NoRequests
  <2>2. /\ colleges \in [Colleges -> College \cup {NoCollege}]
        /\ staff \in [Colleges -> SUBSET Accounts]
        /\ policies \in [Policies -> Rules \cup {NoPolicy}]
    BY DEF TenantsInit
  <2>3. ordered \in [Colleges -> [is_active: BOOLEAN, settings: Settings]]
    BY TenantsAssumption DEF TenantsInit
  <2>4. QED
    BY <2>1, <2>2, <2>3 DEF TenantsTypeOK
<1>4. QED
  BY <1>1, <1>2, <1>3
     DEF TenantsInit, TenantInv, ConsoleFits, TenantsAreDistinct, ToOneCollege, Free

------------------------------------------------------------------------------
(* The accounts and the institutions *)

OfficeInv == AccountInv /\ TenantInv

LEMMA OfficeInvInit == OfficeInit => OfficeInv
<1> SUFFICES ASSUME OfficeInit PROVE OfficeInv
  OBVIOUS
<1>1. AccountInv
  BY AccountInvInit DEF OfficeInit
<1>2. TenantInv
  BY TenantInvInit DEF OfficeInit
<1>3. QED
  BY <1>1, <1>2 DEF OfficeInv

\* Accounts that are registered or change are no matter to the colleges.
LEMMA AccountsKeepTenants ==
  ASSUME TenantInv, Registered \subseteq Registered', UNCHANGED tenantVars
  PROVE  TenantInv'
<1>1. UNCHANGED <<colleges, staff, policies, console, ordered>> /\ Provisioned' = Provisioned
  BY DEF tenantVars, Provisioned
<1>2. TenantsAreDistinct'
  BY <1>1 DEF TenantInv, TenantsAreDistinct
<1>3. QED
  BY <1>1, <1>2 DEF TenantInv, TenantsTypeOK, ConsoleFits

\* A college that is there remains, with its administrators; and only with a new
\* one comes an account.
LEMMA TenantsGrow ==
  ASSUME TenantInv, TenantsNext
  PROVE  \/ /\ users' = users /\ staff' = staff /\ Provisioned' = Provisioned
         \/ \E q \in Requests : CommitProvision(q)
<1>1. ASSUME NEW q \in Requests,
             CommitToggle(q) \/ CommitImport(q) \/ CommitSettle(q) \/ CommitConfigure(q)
      PROVE  users' = users /\ staff' = staff /\ Provisioned' = Provisioned
  <2>1. PICK row \in College, order \in Orders : Writes(q, row, order)
    BY <1>1, CollegeWritten
  <2>2. UNCHANGED <<users, staff, policies>> /\ console[q].op \in ToOneCollege
    BY <1>1, CollegeWritten
  <2>3. console[q].id \in Provisioned
    BY <2>2 DEF TenantInv, ConsoleFits
  <2>4. Provisioned' = Provisioned
    BY <2>1, <2>2, <2>3, OneCollege DEF Writes
  <2>5. QED
    BY <2>2, <2>4
<1>2. ASSUME NEW q \in Requests, CommitPolicy(q) \/ ConsoleFails(q)
      PROVE  UNCHANGED <<users, colleges, staff>>
  BY <1>2 DEF CommitPolicy, ConsoleFails
<1>3. ASSUME NEW q \in Requests, NEW slug \in Slugs, NEW code \in Codes, NEW admin \in Emails,
             NEW password \in Passwords, NEW sent \in Maybe(Settings),
             StartProvision(q, slug, code, admin, password, sent)
      PROVE  UNCHANGED <<users, colleges, staff>>
  BY <1>3 DEF StartProvision
<1>4. ASSUME NEW q \in Requests, NEW c \in Colleges,
             \/ \E codes \in Maybe(Codes), activity \in Maybe(BOOLEAN), sent \in Maybe(Settings) :
                  StartConfigure(q, c, codes, activity, sent)
             \/ \E s \in Settings : StartImport(q, c, s) \/ StartSettle(q, c, s)
             \/ StartToggle(q, c)
      PROVE  UNCHANGED <<users, colleges, staff>>
  BY <1>4 DEF StartConfigure, StartImport, StartSettle, StartToggle
<1>5. ASSUME NEW q \in Requests, NEW p \in Policies, NEW rules \in Maybe(Rules),
             StartPolicy(q, p, rules)
      PROVE  UNCHANGED <<users, colleges, staff>>
  BY <1>5 DEF StartPolicy
<1>6. UNCHANGED <<users, colleges, staff>> => Provisioned' = Provisioned
  BY DEF Provisioned
<1>7. QED
  BY <1>1, <1>2, <1>3, <1>4, <1>5, <1>6 DEF TenantsNext

\* An administrator comes without a token, and is explained by the college.
LEMMA TenantsKeepAccounts ==
  ASSUME AccountInv, TenantInv, TenantsNext, UNCHANGED <<letters, audited, reception, resets>>
  PROVE  AccountInv'
<1>0. AccountsTypeOK
  BY DEF AccountInv
<1>1. CASE users' = users /\ staff' = staff /\ Provisioned' = Provisioned
  <2>1. Registered' = Registered
    BY <1>1 DEF Registered
  <2>2. AccountsTypeOK'
    BY <1>0, <1>1 DEF AccountsTypeOK
  <2>3. OneAccountPerAddress' /\ VerifiedForAReason'
    BY <1>1, <2>1 DEF AccountInv, OneAccountPerAddress, VerifiedForAReason
  <2>4. SettingsStay
    BY <1>1 DEF SettingsStay
  <2>5. QED
    BY <2>1, <2>2, <2>3, <2>4, AccountsKept
<1>2. ASSUME NEW q \in Requests, CommitProvision(q) PROVE AccountInv'
  <2> DEFINE admin == Administrator(console[q].admin, console[q].password)
  <2>1. PICK c \in Colleges \ Provisioned, a \in Accounts : Founds(q, c, a)
    BY <1>2 DEF CommitProvision, Founds
  <2>2. console[q].op = "provision" /\ InsertUser(a, admin)
    BY <1>2, <2>1 DEF CommitProvision, Founds
  <2>3. /\ admin \in User /\ staff'[c] = {a} /\ Provisioned' = Provisioned \cup {c}
        /\ \A d \in Provisioned : staff'[d] = staff[d]
    BY <2>1, <2>2, CollegeFounded
  <2>4. admin.verification # "none" => admin.settings
    BY DEF Administrator
  <2> HIDE DEF admin
  <2>5. /\ users' \in [Accounts -> User \cup {NoUser}]
        /\ Registered' = Registered \cup {a} /\ users'[a] = admin
        /\ \A b \in Registered : users'[b] = users[b]
        /\ OneAccountPerAddress'
    BY <2>2, <2>3, <2>4, UserInserted
  <2>6. AccountsTypeOK'
    BY <1>0, <2>5 DEF AccountsTypeOK
  <2>7. VerifiedForAReason'
    BY <2>3, <2>5 DEF AccountInv, VerifiedForAReason
  <2>8. QED
    BY <2>5, <2>6, <2>7, AccountsKept DEF SettingsStay
<1>3. QED
  BY <1>1, <1>2, TenantsGrow

LEMMA OfficeInvStep ==
  ASSUME OfficeInv, [OfficeNext]_officeVars
  PROVE  OfficeInv'
<1>1. CASE [AccountsNext]_accountVars /\ UNCHANGED tenantVars
  <2>1. AccountInv' /\ Registered \subseteq Registered'
    BY <1>1, AccountInvStep DEF OfficeInv
  <2>2. QED
    BY <1>1, <2>1, AccountsKeepTenants DEF OfficeInv
<1>2. CASE TenantsNext /\ UNCHANGED <<letters, audited, reception, resets>>
  BY <1>2, TenantInvStep, TenantsKeepAccounts DEF OfficeInv
<1>3. QED
  BY <1>1, <1>2 DEF OfficeNext, officeVars

LEMMA OfficeInvariance == OfficeSpec => []OfficeInv
<1>1. OfficeInv /\ [OfficeNext]_officeVars => OfficeInv'
  BY OfficeInvStep
<1>2. QED
  BY OfficeInvInit, <1>1, PTL DEF OfficeSpec

\* However registrations and provisionings overlap, an address has one account,
\* and with its token its settings.
THEOREM AddressesAreUnique == OfficeSpec => []OneAccountPerAddress
<1>1. OfficeInv => OneAccountPerAddress
  BY DEF OfficeInv, AccountInv
<1>2. QED
  BY <1>1, OfficeInvariance, PTL

\* Of all that write `users`, only three make an account verified: a token that is
\* used up, a bulk verification with its audit row, and create_college.
THEOREM VerificationsAreExplained == OfficeSpec => []VerifiedForAReason
<1>1. OfficeInv => VerifiedForAReason
  BY DEF OfficeInv, AccountInv
<1>2. QED
  BY <1>1, OfficeInvariance, PTL

\* However calls to the three consoles and registrations overlap and fail, no two
\* colleges share a slug or a code, and each has its administrator, an account that
\* has no other.
THEOREM CollegesApart == OfficeSpec => []TenantsAreDistinct
<1>1. OfficeInv => TenantsAreDistinct
  BY DEF OfficeInv, TenantInv
<1>2. QED
  BY <1>1, OfficeInvariance, PTL

------------------------------------------------------------------------------
(* One call at a time *)

OneRow == \A p, r \in Policies : policies[p] # NoPolicy /\ policies[r] # NoPolicy => p = r

\* What a call has read is what is there.
ConsoleReads ==
  \A q \in Requests :
    /\ console[q].op \in ToOneCollege => console[q].had = colleges[console[q].id]
    /\ console[q].op = "policy" =>
         /\ console[q].rule = policies[console[q].row]
         /\ console[q].rule = NoPolicy => \A p \in Policies : policies[p] = NoPolicy

ConsoleSerialInv == NoOverlap(console) /\ ConfigurationStands /\ OneRow /\ ConsoleReads

LEMMA ConsoleSerialInit == TenantsInit => ConsoleSerialInv
BY DEF TenantsInit, ConsoleSerialInv, ConfigurationStands, OneRow, ConsoleReads, Provisioned,
       NoOverlap, NoRequests, Free, ToOneCollege

LEMMA AskedAlone ==
  ASSUME TenantsTypeOK, ConsoleSerialInv, NoOverlap(console'), NEW q \in Requests, NEW r,
         Ask(q, r), UNCHANGED <<users, colleges, staff, policies, ordered>>,
         r.op \in ToOneCollege => r.had = colleges[r.id],
         r.op = "policy" =>
           /\ r.rule = policies[r.row]
           /\ r.rule = NoPolicy => \A p \in Policies : policies[p] = NoPolicy
  PROVE  ConsoleSerialInv'
<1>1. \A s \in Requests : console'[s] = r \/ console'[s] = console[s]
  BY DEF Ask, TenantsTypeOK
<1>2. ConsoleReads'
  BY <1>1 DEF ConsoleSerialInv, ConsoleReads
<1>3. QED
  BY <1>2 DEF ConsoleSerialInv, ConfigurationStands, OneRow, Provisioned

LEMMA AnsweredAlone ==
  ASSUME TenantsTypeOK, ConsoleSerialInv, NEW q \in Requests, console[q] # Free, Answer(q)
  PROVE  NoOverlap(console') /\ ConsoleReads'
<1>1. \A s \in Requests : console'[s] = Free
  BY DEF TenantsTypeOK, Answer, ConsoleSerialInv, NoOverlap
<1>2. QED
  BY <1>1 DEF NoOverlap, ConsoleReads, Free, ToOneCollege

LEMMA ConsoleSerialStep ==
  ASSUME TenantInv, ConsoleSerialInv, [TenantsNext]_tenantVars, NoOverlap(console')
  PROVE  ConsoleSerialInv'
<1>0. TenantsTypeOK /\ ConsoleFits /\ ConfigurationStands /\ OneRow /\ ConsoleReads
  BY DEF TenantInv, ConsoleSerialInv
<1>1. CASE UNCHANGED tenantVars
  BY <1>0, <1>1
     DEF tenantVars, ConsoleSerialInv, ConfigurationStands, OneRow, ConsoleReads, Provisioned
<1>2. ASSUME NEW q \in Requests, NEW slug \in Slugs, NEW code \in Codes, NEW admin \in Emails,
             NEW password \in Passwords, NEW sent \in Maybe(Settings),
             StartProvision(q, slug, code, admin, password, sent)
      PROVE  ConsoleSerialInv'
  <2>1. PICK s \in IF sent \subseteq {Blank} THEN {DefaultSettings} ELSE sent :
          Ask(q, [op |-> "provision", slug |-> slug, code |-> code, settings |-> s,
                  admin |-> admin, password |-> password])
    BY <1>2 DEF StartProvision
  <2> DEFINE r == [op |-> "provision", slug |-> slug, code |-> code, settings |-> s,
                   admin |-> admin, password |-> password]
  <2>2. Ask(q, r) /\ UNCHANGED <<users, colleges, staff, policies, ordered>>
    BY <1>2, <2>1 DEF StartProvision
  <2>3. r.op = "provision"
    OBVIOUS
  <2> HIDE DEF r
  <2>4. QED
    BY <1>0, <2>2, <2>3, AskedAlone DEF ToOneCollege
<1>3. ASSUME NEW q \in Requests, NEW c \in Colleges, NEW codes \in Maybe(Codes),
             NEW activity \in Maybe(BOOLEAN), NEW sent \in Maybe(Settings),
             StartConfigure(q, c, codes, activity, sent)
      PROVE  ConsoleSerialInv'
  <2> DEFINE r == [op |-> "configure", id |-> c, had |-> colleges[c], codes |-> codes,
                   activity |-> activity, given |-> sent]
  <2>1. Ask(q, r) /\ UNCHANGED <<users, colleges, staff, policies, ordered>>
    BY <1>3 DEF StartConfigure
  <2>2. r.op = "configure" /\ r.had = colleges[r.id]
    OBVIOUS
  <2> HIDE DEF r
  <2>3. QED
    BY <1>0, <2>1, <2>2, AskedAlone
<1>4. ASSUME NEW q \in Requests, NEW c \in Colleges, StartToggle(q, c) PROVE ConsoleSerialInv'
  <2> DEFINE r == [op |-> "toggle", id |-> c, had |-> colleges[c]]
  <2>1. Ask(q, r) /\ UNCHANGED <<users, colleges, staff, policies, ordered>>
    BY <1>4 DEF StartToggle
  <2>2. r.op = "toggle" /\ r.had = colleges[r.id]
    OBVIOUS
  <2> HIDE DEF r
  <2>3. QED
    BY <1>0, <2>1, <2>2, AskedAlone
<1>5. ASSUME NEW q \in Requests, NEW c \in Colleges, NEW s \in Settings,
             StartImport(q, c, s) \/ StartSettle(q, c, s)
      PROVE  ConsoleSerialInv'
  <2>1. PICK op \in {"settle", "import"} :
          Ask(q, [op |-> op, id |-> c, had |-> colleges[c], settings |-> s])
    BY <1>5 DEF StartImport, StartSettle
  <2> DEFINE r == [op |-> op, id |-> c, had |-> colleges[c], settings |-> s]
  <2>2. UNCHANGED <<users, colleges, staff, policies, ordered>>
    BY <1>5 DEF StartImport, StartSettle
  <2>3. Ask(q, r) /\ r.op # "policy" /\ r.had = colleges[r.id]
    BY <2>1
  <2> HIDE DEF r
  <2>4. QED
    BY <1>0, <2>2, <2>3, AskedAlone
<1>6. ASSUME NEW q \in Requests, NEW p \in Policies, NEW rules \in Maybe(Rules),
             StartPolicy(q, p, rules)
      PROVE  ConsoleSerialInv'
  <2> DEFINE r == [op |-> "policy", row |-> p, rule |-> policies[p], rules |-> rules]
  <2>1. Ask(q, r) /\ UNCHANGED <<users, colleges, staff, policies, ordered>>
    BY <1>6 DEF StartPolicy
  <2>2. /\ r.op = "policy" /\ r.rule = policies[r.row]
        /\ r.rule = NoPolicy => \A s \in Policies : policies[s] = NoPolicy
    BY <1>6 DEF StartPolicy
  <2> HIDE DEF r
  <2>3. QED
    BY <1>0, <2>1, <2>2, AskedAlone DEF ToOneCollege
<1>7. ASSUME NEW q \in Requests, CommitProvision(q) PROVE ConsoleSerialInv'
  <2> DEFINE call == console[q]
             row == [slug |-> call.slug, code |-> call.code, is_active |-> TRUE,
                     settings |-> call.settings]
             order == [is_active |-> TRUE, settings |-> call.settings]
  <2>1. PICK c \in Colleges \ Provisioned :
          colleges' = [colleges EXCEPT ![c] = row] /\ ordered' = [ordered EXCEPT ![c] = order]
    BY <1>7 DEF CommitProvision
  <2>2. /\ console[q] # Free /\ Answer(q) /\ policies' = policies
        /\ row.settings = order.settings /\ row.is_active = order.is_active
    BY <1>7 DEF CommitProvision, Free
  <2> HIDE DEF row, order
  <2>3. \A d \in Colleges : \/ d \in Provisioned /\ colleges'[d] = colleges[d] /\ ordered'[d] = ordered[d]
                            \/ colleges'[d] = row /\ ordered'[d] = order
                            \/ d \notin Provisioned'
    BY <1>0, <2>1 DEF TenantsTypeOK, Provisioned
  <2>4. ConfigurationStands'
    BY <1>0, <2>2, <2>3 DEF ConfigurationStands, Provisioned
  <2>5. QED
    BY <1>0, <2>2, <2>4, AnsweredAlone DEF ConsoleSerialInv, OneRow
<1>8. ASSUME NEW q \in Requests,
             CommitToggle(q) \/ CommitImport(q) \/ CommitSettle(q) \/ CommitConfigure(q)
      PROVE  ConsoleSerialInv'
  <2> DEFINE c == console[q].id
  <2>1. PICK row \in College, order \in Orders : Writes(q, row, order)
    BY <1>8, CollegeWritten
  <2>2. console[q].op \in ToOneCollege /\ Answer(q) /\ policies' = policies /\ console[q] # Free
    BY <1>8, CollegeWritten DEF Free, ToOneCollege
  <2>3. c \in Provisioned /\ c \in Colleges /\ console[q].had = colleges[c]
    BY <1>0, <2>2 DEF ConsoleFits, ConsoleReads, Provisioned
  <2>4. row.settings = order.settings /\ row.is_active = order.is_active
    BY <1>0, <2>1, <2>3 DEF Writes, ConfigurationStands
  <2>5. \A d \in Colleges : \/ colleges'[d] = colleges[d] /\ ordered'[d] = ordered[d]
                            \/ colleges'[d] = row /\ ordered'[d] = order
    BY <1>0, <2>1, <2>3 DEF Writes, TenantsTypeOK
  <2>6. ConfigurationStands'
    BY <1>0, <2>4, <2>5 DEF ConfigurationStands, Provisioned
  <2>7. QED
    BY <1>0, <2>2, <2>6, AnsweredAlone DEF ConsoleSerialInv, OneRow
<1>9. ASSUME NEW q \in Requests, CommitPolicy(q) PROVE ConsoleSerialInv'
  <2>1. /\ console[q].op = "policy" /\ console[q] # Free /\ Answer(q)
        /\ UNCHANGED <<colleges, ordered>>
    BY <1>9 DEF CommitPolicy, Free
  <2>2. /\ console[q].row \in Policies /\ console[q].rule = policies[console[q].row]
        /\ console[q].rule = NoPolicy => \A p \in Policies : policies[p] = NoPolicy
    BY <1>0, <2>1, OnTheConsole DEF ConsoleReads, PolicyCall
  <2>3. PICK p \in Policies :
          /\ \A r \in Policies \ {p} : policies'[r] = policies[r]
          /\ policies[p] # NoPolicy \/ \A r \in Policies : policies[r] = NoPolicy
    BY <1>0, <1>9, <2>2 DEF CommitPolicy, TenantsTypeOK
  <2>4. OneRow'
    BY <1>0, <2>3 DEF OneRow
  <2>5. ConfigurationStands'
    BY <1>0, <2>1 DEF ConfigurationStands, Provisioned
  <2>6. QED
    BY <1>0, <2>1, <2>4, <2>5, AnsweredAlone DEF ConsoleSerialInv
<1>10. ASSUME NEW q \in Requests, ConsoleFails(q) PROVE ConsoleSerialInv'
  BY <1>0, <1>10, AnsweredAlone
     DEF ConsoleFails, ConsoleSerialInv, ConfigurationStands, OneRow, Provisioned
<1>11. QED
  BY <1>1, <1>2, <1>3, <1>4, <1>5, <1>6, <1>7, <1>8, <1>9, <1>10 DEF TenantsNext

\* Two rows that are the same are one.
LEMMA OneRowIsOne == OneRow => OnePolicyRow
<1> SUFFICES ASSUME OneRow PROVE OnePolicyRow
  OBVIOUS
<1> DEFINE S == {p \in Policies : policies[p] # NoPolicy}
<1>1. CASE S = {}
  BY <1>1, FS_EmptySet DEF OnePolicyRow
<1>2. CASE S # {}
  <2>1. PICK p \in S : S = {p}
    BY <1>2 DEF OneRow
  <2>2. QED
    BY <2>1, FS_Singleton DEF OnePolicyRow
<1>3. QED
  BY <1>1, <1>2

------------------------------------------------------------------------------
(* RateLimit *)

\* The requests that the present life of the counter is about to admit.
Good == {q \in Requests : /\ gate[q].op \in {"expire", "verdict"}
                          /\ ~gate[q].old /\ gate[q].count <= MaxRequests}

\* Each request that was or is about to be admitted has its own count, so there
\* are no more of them than the counter, or the limit.
LimitInv ==
  /\ counter \in Counters /\ granted \in Nat
  /\ gate \in [Requests -> {Free} \cup
       [op: {"count", "expire", "verdict"}, count: Counters, old: BOOLEAN]]
  /\ granted + Cardinality(Good) <= counter
  /\ granted + Cardinality(Good) <= MaxRequests

LEMMA GoodIsFinite ==
  /\ IsFiniteSet(Good) /\ Cardinality(Good) \in Nat
  /\ IsFiniteSet(Good') /\ Cardinality(Good') \in Nat
<1>1. Good \subseteq Requests /\ Good' \subseteq Requests
  BY DEF Good
<1>2. QED
  BY <1>1, LimitAssumption, FS_Subset, FS_CardinalityType

LEMMA LimitInvStep ==
  ASSUME LimitInv, [LimitNext]_limitVars
  PROVE  LimitInv'
<1> USE LimitAssumption, GoodIsFinite
<1>0. counter \in Nat /\ MaxRequests \in Nat /\ MostCounted \in Nat /\ counter <= MostCounted
  BY DEF LimitInv, Counters
<1>1. CASE UNCHANGED limitVars
  <2>1. Good' = Good
    BY <1>1 DEF limitVars, Good
  <2>2. QED
    BY <1>1, <2>1 DEF limitVars, LimitInv
<1>2. ASSUME Good' \subseteq Good, UNCHANGED <<counter, granted>>,
             gate' \in [Requests -> {Free} \cup
               [op: {"count", "expire", "verdict"}, count: Counters, old: BOOLEAN]]
      PROVE  LimitInv'
  <2>1. Cardinality(Good') <= Cardinality(Good)
    BY <1>2, FS_Subset
  <2>2. QED
    BY <1>0, <1>2, <2>1 DEF LimitInv
<1>3. ASSUME NEW q \in Requests, Enter(q) \/ LimiterFails(q)
      PROVE  LimitInv'
  <2>1. /\ gate' \in [Requests -> {Free} \cup
             [op: {"count", "expire", "verdict"}, count: Counters, old: BOOLEAN]]
        /\ \A r \in Requests \ {q} : gate'[r] = gate[r]
        /\ gate'[q].op \in {"count", "free"}
        /\ UNCHANGED <<counter, granted>>
    <3>1. CASE Enter(q)
      <4>1. 0 \in Counters
        BY <1>0 DEF Counters
      <4>2. QED
        BY <3>1, <4>1 DEF Enter, LimitInv
    <3>2. CASE LimiterFails(q)
      BY <3>2 DEF LimiterFails, LimitInv, Free
    <3>3. QED
      BY <1>3, <3>1, <3>2
  <2>2. Good' \subseteq Good
    BY <2>1 DEF Good
  <2>3. QED
    BY <1>2, <2>1, <2>2
<1>4. ASSUME NEW q \in Requests, Expire(q)
      PROVE  LimitInv'
  <2>1. /\ gate[q].op = "expire"
        /\ gate[q] \in [op: {"count", "expire", "verdict"}, count: Counters, old: BOOLEAN]
    BY <1>4 DEF Expire, LimitInv, Free
  <2>2. /\ gate' \in [Requests -> {Free} \cup
             [op: {"count", "expire", "verdict"}, count: Counters, old: BOOLEAN]]
        /\ \A r \in Requests \ {q} : gate'[r] = gate[r]
        /\ gate'[q].old = gate[q].old /\ gate'[q].count = gate[q].count
        /\ UNCHANGED <<counter, granted>>
    BY <1>4, <2>1 DEF Expire, LimitInv
  <2>3. Good' \subseteq Good
    BY <2>1, <2>2 DEF Good
  <2>4. QED
    BY <1>2, <2>2, <2>3
<1>5. ASSUME NEW q \in Requests, Count(q)
      PROVE  LimitInv'
  <2> DEFINE next == IF counter < MostCounted THEN counter + 1 ELSE counter
  <2>1. next \in Counters /\ next >= counter /\ (next <= MaxRequests => next = counter + 1)
    BY <1>0 DEF Counters
  <2>2. /\ gate' \in [Requests -> {Free} \cup
             [op: {"count", "expire", "verdict"}, count: Counters, old: BOOLEAN]]
        /\ \A r \in Requests \ {q} : gate'[r] = gate[r]
        /\ gate'[q].count = next
        /\ counter' = next /\ granted' = granted
    BY <1>5, <2>1 DEF Count, LimitInv
  <2>3. q \notin Good
    BY <1>5 DEF Count, Good
  <2>4. CASE next <= MaxRequests
    <3>1. Good' \subseteq Good \cup {q}
      BY <2>2 DEF Good
    <3>2. IsFiniteSet(Good \cup {q}) /\ Cardinality(Good \cup {q}) = Cardinality(Good) + 1
      BY <2>3, FS_AddElement
    <3>3. Cardinality(Good') <= Cardinality(Good) + 1
      BY <3>1, <3>2, FS_Subset
    <3>4. QED
      BY <1>0, <2>1, <2>2, <2>4, <3>3 DEF LimitInv
  <2>5. CASE ~(next <= MaxRequests)
    <3>1. Good' \subseteq Good
      BY <2>2, <2>5 DEF Good
    <3>2. Cardinality(Good') <= Cardinality(Good)
      BY <3>1, FS_Subset
    <3>3. next \in Nat
      BY <1>0
    <3>4. QED
      BY <1>0, <2>1, <2>2, <3>2, <3>3 DEF LimitInv
  <2>6. QED
    BY <2>4, <2>5
<1>6. ASSUME NEW q \in Requests, Verdict(q)
      PROVE  LimitInv'
  <2>1. /\ gate[q].op = "verdict"
        /\ gate' = [gate EXCEPT ![q] = Free]
        /\ granted' = IF gate[q].count <= MaxRequests /\ ~gate[q].old THEN granted + 1 ELSE granted
        /\ counter' = counter
    BY <1>6 DEF Verdict
  <2>2. /\ gate' \in [Requests -> {Free} \cup
             [op: {"count", "expire", "verdict"}, count: Counters, old: BOOLEAN]]
        /\ \A r \in Requests \ {q} : gate'[r] = gate[r]
        /\ gate'[q].op = "free"
    BY <2>1 DEF LimitInv, Free
  <2>3. Good' \subseteq Good \ {q}
    BY <2>2 DEF Good
  <2>4. CASE q \in Good
    <3>1. granted' = granted + 1
      BY <2>1, <2>4 DEF Good
    <3>2. IsFiniteSet(Good \ {q}) /\ Cardinality(Good \ {q}) = Cardinality(Good) - 1
      BY <2>4, FS_RemoveElement
    <3>3. Cardinality(Good') <= Cardinality(Good) - 1
      BY <2>3, <3>2, FS_Subset
    <3>4. QED
      BY <1>0, <2>1, <2>2, <3>1, <3>3 DEF LimitInv
  <2>5. CASE q \notin Good
    <3>1. granted' = granted
      BY <2>1, <2>5 DEF Good
    <3>2. Good' \subseteq Good
      BY <2>3
    <3>3. QED
      BY <1>2, <2>1, <2>2, <3>1, <3>2
  <2>6. QED
    BY <2>4, <2>5
<1>7. CASE WindowEnds
  <2>1. /\ counter' = 0 /\ granted' = 0
        /\ gate' = [q \in Requests |-> IF gate[q] = Free THEN Free ELSE [gate[q] EXCEPT !.old = TRUE]]
    BY <1>7 DEF WindowEnds
  <2>2. \A q \in Requests : gate[q] # Free =>
          /\ [gate[q] EXCEPT !.old = TRUE] \in
               [op: {"count", "expire", "verdict"}, count: Counters, old: BOOLEAN]
          /\ [gate[q] EXCEPT !.old = TRUE].old = TRUE
    BY DEF LimitInv
  <2>3. /\ gate' \in [Requests -> {Free} \cup
             [op: {"count", "expire", "verdict"}, count: Counters, old: BOOLEAN]]
        /\ \A q \in Requests : gate'[q] = Free \/ gate'[q].old = TRUE
    BY <2>1, <2>2
  <2>4. Good' = {}
    BY <2>3 DEF Good, Free
  <2>5. Cardinality({}) = 0
    BY FS_EmptySet
  <2>6. QED
    BY <1>0, <2>1, <2>3, <2>4, <2>5 DEF LimitInv, Counters
<1>8. QED
  BY <1>1, <1>3, <1>4, <1>5, <1>6, <1>7 DEF LimitNext

LEMMA LimitInvInit ==
  ASSUME LimitInit
  PROVE  LimitInv
<1>1. /\ counter = 0 /\ granted = 0
      /\ \A q \in Requests : gate[q] = Free
      /\ gate \in [Requests -> {Free}]
  BY DEF LimitInit, NoRequests
<1>2. Good = {}
  BY <1>1 DEF Good, Free
<1>3. Cardinality({}) = 0
  BY FS_EmptySet
<1>4. QED
  BY <1>1, <1>2, <1>3, LimitAssumption DEF LimitInv, Counters

\* No life of the counter admits more than max_requests by its answer, however
\* INCR, EXPIRE and the verdicts of the requests overlap.
THEOREM TheLimitHolds == LimitSpec => []WithinLimit
<1>1. LimitInv /\ [LimitNext]_limitVars => LimitInv'
  BY LimitInvStep
<1>2. ASSUME LimitInv PROVE WithinLimit
  BY <1>2, GoodIsFinite, LimitAssumption DEF LimitInv, WithinLimit
<1>3. QED
  BY LimitInvInit, <1>1, <1>2, PTL DEF LimitSpec

\* A key without requests has no time to live: EXPIRE makes none, and the end of
\* the window takes both.
LEMMA LimitTyping ==
  LimitInv /\ LimitTypeOK /\ [LimitNext]_limitVars => LimitTypeOK'
<1> SUFFICES ASSUME LimitInv, LimitTypeOK, [LimitNext]_limitVars PROVE LimitTypeOK'
  OBVIOUS
<1>1. /\ counter' \in Counters /\ granted' \in Nat
      /\ gate' \in [Requests -> {Free} \cup
           [op: {"count", "expire", "verdict"}, count: Counters, old: BOOLEAN]]
  BY LimitInvStep DEF LimitInv
<1>2. timed' \in BOOLEAN /\ (counter' = 0 => ~timed')
  <2>1. counter \in Nat /\ MostCounted \in Nat \ {0} /\ timed \in BOOLEAN /\ (counter = 0 => ~timed)
    BY LimitAssumption DEF LimitTypeOK, Counters
  <2>2. CASE UNCHANGED limitVars
    BY <2>1, <2>2 DEF limitVars
  <2>3. ASSUME NEW q \in Requests, Count(q) PROVE timed' = timed /\ counter' # 0
    BY <2>1, <2>3 DEF Count
  <2>4. ASSUME NEW q \in Requests, Enter(q) \/ Verdict(q) \/ LimiterFails(q)
        PROVE  timed' = timed /\ counter' = counter
    BY <2>4 DEF Enter, Verdict, LimiterFails
  <2>5. ASSUME NEW q \in Requests, Expire(q)
        PROVE  timed' = (counter # 0) /\ counter' = counter
    BY <2>5 DEF Expire
  <2>6. CASE WindowEnds
    BY <2>6 DEF WindowEnds
  <2>7. (counter # 0) \in BOOLEAN
    OBVIOUS
  <2>8. QED
    BY <2>1, <2>2, <2>3, <2>4, <2>5, <2>6, <2>7 DEF LimitNext
<1>3. QED
  BY <1>1, <1>2 DEF LimitTypeOK

LEMMA LimitTypeInit == LimitInit => LimitTypeOK
<1> SUFFICES ASSUME LimitInit PROVE LimitTypeOK
  OBVIOUS
<1>1. counter \in Counters /\ granted \in Nat
  BY LimitInvInit DEF LimitInv
<1>2. timed = FALSE /\ FALSE \in BOOLEAN
  BY DEF LimitInit
<1>3. gate \in [Requests -> {Free} \cup
        [op: {"count", "expire", "verdict"}, count: Counters, old: BOOLEAN]]
  BY DEF LimitInit, NoRequests
<1>4. QED
  BY <1>1, <1>2, <1>3 DEF LimitTypeOK

------------------------------------------------------------------------------
(* LatexCompile *)

\* The second attempt is made only after the first was disturbed, and an answer
\* on its way tells the truth about the source, the service and the attempt.
LatexInv ==
  /\ client.attempt \in Attempts
  /\ disturbed \subseteq Attempts
  /\ client.attempt = 2 => 1 \in disturbed
  /\ \A reply \in replies :
       /\ reply.answer \in Responses /\ reply.attempt \in Attempts
       /\ reply.answer \in {"pdf", "enveloped"} => source = "good"
       /\ reply.answer = "asleep" => reply.attempt \in disturbed
       /\ reply.answer \in {"error", "success"} /\ source = "good" => slow
  /\ OneDisturbanceIsSurvived
  /\ client.phase = "done" \/ result = "none"

LEMMA LatexInvStep ==
  ASSUME LatexInv, [LatexNext]_latexVars
  PROVE  LatexInv'
<1> USE DEF LatexInv, OneDisturbanceIsSurvived, Attempts
<1>1. CASE UNCHANGED latexVars
  BY <1>1 DEF latexVars
<1>2. CASE Refuse
  BY <1>2 DEF Refuse, Phase, Return
<1>3. ASSUME NEW n \in Attempts, Post(n), client.phase # "done", n = 2 => 1 \in disturbed
      PROVE  LatexInv'
  <2>1. /\ client' = [phase |-> "waiting", attempt |-> n]
        /\ UNCHANGED <<configured, source, result, slow>>
    BY <1>3 DEF Post
  <2>2. CASE UNCHANGED <<replies, disturbed>>
    BY <1>3, <2>1, <2>2
  <2>3. CASE /\ replies' \in {replies, replies \cup {[attempt |-> n, answer |-> "asleep"]}}
             /\ disturbed' = disturbed \cup {n}
    <3>1. \A reply \in replies' :
            /\ reply.answer \in Responses /\ reply.attempt \in Attempts
            /\ reply.answer \in {"pdf", "enveloped"} => source = "good"
            /\ reply.answer = "asleep" => reply.attempt \in disturbed'
            /\ reply.answer \in {"error", "success"} /\ source = "good" => slow
      <4>1. \A reply \in replies' :
              reply \in replies \/ reply = [attempt |-> n, answer |-> "asleep"]
        BY <2>3
      <4>2. QED
        BY <2>3, <4>1 DEF Responses
    <3>2. QED
      BY <1>3, <2>1, <2>3, <3>1
  <2>4. QED
    BY <1>3, <2>2, <2>3 DEF Post
<1>4. CASE FirstAttempt
  <2>1. Post(1) /\ client.phase # "done"
    BY <1>4 DEF FirstAttempt, Phase
  <2>2. QED
    BY <1>3, <2>1
<1>5. CASE SecondAttempt
  <2>1. Post(2) /\ client.phase # "done" /\ client.attempt = 2
    BY <1>5 DEF SecondAttempt, Phase
  <2>2. QED
    BY <1>3, <2>1
<1>6. ASSUME NEW n \in Attempts, Receive(n)
      PROVE  LatexInv'
  <2>1. /\ client.phase = "waiting" /\ client.attempt = n
        /\ result = "none"
        /\ UNCHANGED <<configured, source, jobs, disturbed, slow>>
    BY <1>6 DEF Receive, Phase
  <2>2. PICK reply \in replies :
          /\ reply.attempt = n
          /\ IF reply.answer = "asleep" /\ n = 1 THEN Pause ELSE Return(Outcome(reply.answer))
          /\ replies' = replies \ {reply}
    BY <1>6 DEF Receive
  <2>3. CASE reply.answer = "asleep" /\ n = 1
    BY <2>1, <2>2, <2>3 DEF Pause
  <2>4. CASE ~(reply.answer = "asleep" /\ n = 1)
    <3>1. result' = Outcome(reply.answer) /\ client' = [client EXCEPT !.phase = "done"]
      BY <2>2, <2>4 DEF Return
    <3>2. client' = [phase |-> "done", attempt |-> n]
      BY <1>6, <3>1 DEF Receive, Phase
    <3>3. CASE reply.answer \in {"pdf", "enveloped"}
      BY <2>1, <2>2, <3>1, <3>2, <3>3 DEF Outcome
    <3>4. CASE reply.answer \in {"error", "success"}
      <4>1. result' # "pdf" /\ (source = "good" => slow)
        BY <3>1, <3>4 DEF Outcome
      <4>2. QED
        BY <2>1, <2>2, <3>2, <4>1
    <3>5. CASE reply.answer = "asleep" /\ n = 2
      <4>1. result' # "pdf" /\ disturbed = {1, 2}
        BY <2>1, <2>2, <3>1, <3>5 DEF Outcome
      <4>2. QED
        BY <2>1, <2>2, <3>2, <4>1
    <3>6. QED
      BY <2>4, <3>3, <3>4, <3>5 DEF Responses
  <2>5. QED
    BY <2>3, <2>4
<1>7. ASSUME NEW n \in Attempts, TimeOut(n)
      PROVE  LatexInv'
  <2>1. /\ client = [phase |-> "waiting", attempt |-> n]
        /\ disturbed' = disturbed \cup {n}
        /\ replies' = {reply \in replies : reply.attempt # n}
        /\ UNCHANGED <<configured, source, jobs, slow>>
    BY <1>7 DEF TimeOut, Phase
  <2>2. CASE n = 1
    BY <1>7, <2>1, <2>2 DEF TimeOut, Pause
  <2>3. CASE n = 2
    <3>1. result' = "failed" /\ client' = [phase |-> "done", attempt |-> 2]
      BY <1>7, <2>1, <2>3 DEF TimeOut, Return
    <3>2. disturbed' = {1, 2}
      BY <2>1, <2>3
    <3>3. QED
      BY <2>1, <3>1, <3>2
  <2>4. QED
    BY <2>2, <2>3
<1>8. ASSUME NEW n \in Attempts, Compile(n)
      PROVE  LatexInv'
  <2>1. PICK answer \in IF source = "good" THEN Responses \ {"asleep"} ELSE {"error"} :
          /\ replies' \in {replies, replies \cup {[attempt |-> n, answer |-> answer]}}
          /\ slow' = (slow \/ (source = "good" /\ Outcome(answer) # "pdf"))
    BY <1>8 DEF Compile
  <2>2. UNCHANGED <<configured, source, client, result, disturbed>>
    BY <1>8 DEF Compile
  <2>3. slow => slow'
    BY <2>1
  <2>4. /\ answer \in Responses /\ answer # "asleep"
        /\ answer \in {"pdf", "enveloped"} => source = "good"
        /\ answer \in {"error", "success"} /\ source = "good" => slow'
    BY <2>1 DEF Outcome, Responses
  <2>5. QED
    BY <2>1, <2>2, <2>3, <2>4
<1>9. CASE LoseReply
  <2>1. PICK lost \in replies : /\ replies' = replies \ {lost}
                                /\ disturbed' = disturbed \cup {lost.attempt}
                                /\ UNCHANGED <<configured, source, client, jobs, result, slow>>
    BY <1>9 DEF LoseReply
  <2>2. QED
    BY <2>1
<1>10. QED
  BY <1>1, <1>2, <1>4, <1>5, <1>6, <1>7, <1>8, <1>9 DEF LatexNext

LEMMA LatexInvInit == LatexInit => LatexInv
BY DEF LatexInit, LatexInv, OneDisturbanceIsSurvived, Attempts

\* A good source that the service compiles comes back as a PDF unless both
\* attempts were disturbed, and nothing else comes back as one.
THEOREM RetryHelps == LatexSpec => []OneDisturbanceIsSurvived
<1>1. LatexInv /\ [LatexNext]_latexVars => LatexInv'
  BY LatexInvStep
<1>2. LatexInv => OneDisturbanceIsSurvived
  BY DEF LatexInv
<1>3. QED
  BY LatexInvInit, <1>1, <1>2, PTL DEF LatexSpec

\* compile_latex_source is done exactly when it has something to return.
LEMMA LatexTypeInit == LatexInit => LatexTypeOK
<1> SUFFICES ASSUME LatexInit PROVE LatexTypeOK
  OBVIOUS
<1>1. slow = FALSE /\ FALSE \in BOOLEAN
  BY DEF LatexInit
<1>2. /\ client \in [phase: {"start", "waiting", "pausing", "done"}, attempt: Attempts]
      /\ client.phase # "done"
  BY DEF LatexInit, Attempts
<1>3. QED
  BY <1>1, <1>2 DEF LatexInit, LatexTypeOK, Results

LEMMA LatexTyping == LatexTypeOK /\ [LatexNext]_latexVars => LatexTypeOK'
<1> SUFFICES ASSUME LatexTypeOK, [LatexNext]_latexVars PROVE LatexTypeOK'
  OBVIOUS
<1> USE DEF LatexTypeOK, Attempts, Results
<1>1. ASSUME NEW r \in Results \ {"none"}, client.phase # "done", Return(r)
      PROVE  /\ client' \in [phase: {"start", "waiting", "pausing", "done"}, attempt: Attempts]
             /\ result' \in Results /\ client'.phase = "done" /\ result' # "none"
  BY <1>1 DEF Return
<1>2. ASSUME Pause, client.phase # "done"
      PROVE  /\ client' \in [phase: {"start", "waiting", "pausing", "done"}, attempt: Attempts]
             /\ result' \in Results /\ client'.phase # "done" /\ result' = "none"
  BY <1>2 DEF Pause
<1>3. CASE UNCHANGED latexVars
  BY <1>3 DEF latexVars
<1>4. CASE Refuse
  BY <1>1, <1>4 DEF Refuse, Phase
<1>5. ASSUME NEW n \in Attempts, client.phase # "done", Post(n) PROVE LatexTypeOK'
  <2>1. [attempt |-> n, answer |-> "asleep"] \in [attempt: Attempts, answer: Responses]
    BY DEF Responses
  <2>2. /\ client' = [phase |-> "waiting", attempt |-> n]
        /\ UNCHANGED <<configured, source, result, slow>>
        /\ jobs' \subseteq Attempts /\ disturbed' \subseteq Attempts
        /\ replies' \subseteq [attempt: Attempts, answer: Responses]
    BY <1>5, <2>1 DEF Post
  <2>3. QED
    BY <1>5, <2>2
<1>6. CASE FirstAttempt \/ SecondAttempt
  BY <1>5, <1>6 DEF FirstAttempt, SecondAttempt, Phase
<1>7. ASSUME NEW n \in Attempts, Receive(n) PROVE LatexTypeOK'
  <2>1. PICK reply \in replies :
          /\ IF reply.answer = "asleep" /\ n = 1 THEN Pause ELSE Return(Outcome(reply.answer))
          /\ replies' = replies \ {reply}
    BY <1>7 DEF Receive
  <2>2. Outcome(reply.answer) \in Results \ {"none"}
    BY DEF Outcome
  <2>3. client.phase # "done"
    BY <1>7 DEF Receive, Phase
  <2>4. UNCHANGED <<configured, source, jobs, disturbed, slow>>
    BY <1>7 DEF Receive
  <2>5. QED
    BY <1>1, <1>2, <2>1, <2>2, <2>3, <2>4
<1>8. ASSUME NEW n \in Attempts, TimeOut(n) PROVE LatexTypeOK'
  BY <1>1, <1>2, <1>8 DEF TimeOut, Phase
<1>9. ASSUME NEW n \in Attempts, Compile(n) PROVE LatexTypeOK'
  <2>1. PICK answer \in IF source = "good" THEN Responses \ {"asleep"} ELSE {"error"} :
          /\ replies' = IF client.attempt = n /\ client.phase = "waiting"
                        THEN replies \cup {[attempt |-> n, answer |-> answer]} ELSE replies
          /\ slow' = (slow \/ (source = "good" /\ Outcome(answer) # "pdf"))
    BY <1>9 DEF Compile
  <2>2. answer \in Responses
    BY <2>1 DEF Responses
  <2>3. replies' \subseteq [attempt: Attempts, answer: Responses]
    BY <2>1, <2>2
  <2>4. slow' \in BOOLEAN
    BY <2>1
  <2>5. jobs' \subseteq Attempts /\ UNCHANGED <<configured, source, client, result, disturbed>>
    BY <1>9 DEF Compile
  <2>6. QED
    BY <2>3, <2>4, <2>5
<1>10. CASE LoseReply
  BY <1>10 DEF LoseReply
<1>11. QED
  BY <1>3, <1>4, <1>6, <1>7, <1>8, <1>9, <1>10 DEF LatexNext

------------------------------------------------------------------------------
(* All the services *)

ServicesInv ==
  /\ ShelfInv /\ EditsTypeOK
  /\ OfficeInv
  /\ LimitInv /\ LimitTypeOK /\ LatexTypeOK

\* Of the services whose requests are taken one at a time.
ServicesSerialInv == serial => EditsInv /\ LettersInv /\ ConsoleSerialInv

\* In a step of the whole every service takes one of its own, or none.
LEMMA OneServiceAtATime ==
  ASSUME [Next]_servicesVars
  PROVE  /\ [SectionsNext]_sectionVars
         /\ [EditsNext /\ (serial => NoOverlap(edit'))]_editVars
         /\ [OfficeNext]_officeVars
         /\ serial => NoOverlap(reception') \/ reception' = reception
         /\ serial => NoOverlap(console') \/ console' = console
         /\ [LimitNext]_limitVars /\ [LatexNext]_latexVars
         /\ UNCHANGED <<part, serial>>
<1>1. CASE UNCHANGED servicesVars
  BY <1>1 DEF servicesVars, profileVars, officeVars, accountVars, tenantVars, guardVars
<1>2. CASE Next
  <2>1. UNCHANGED <<part, serial>>
    BY <1>2 DEF Next
  <2>2. CASE ProfileSteps /\ UNCHANGED <<officeVars, guardVars>>
    BY <2>1, <2>2 DEF ProfileSteps, officeVars, accountVars, tenantVars, guardVars
  <2>3. CASE OfficeSteps /\ UNCHANGED <<profileVars, guardVars>>
    BY <2>1, <2>3 DEF OfficeSteps, tenantVars, profileVars, guardVars
  <2>4. CASE GuardSteps /\ UNCHANGED <<profileVars, officeVars>>
    BY <2>1, <2>4 DEF GuardSteps, profileVars, officeVars, accountVars, tenantVars
  <2>5. QED
    BY <1>2, <2>2, <2>3, <2>4 DEF Next
<1>3. QED
  BY <1>1, <1>2

LEMMA ServicesInvInit == Init => ServicesInv /\ ServicesSerialInv
BY ShelfInvInit, EditsInvInit, OfficeInvInit, LimitInvInit, LimitTypeInit,
   LatexTypeInit, LettersInvInit, ConsoleSerialInit
DEF Init, OfficeInit, ServicesInv, ServicesSerialInv, EditsInv

LEMMA ServicesInvStep == ServicesInv /\ [Next]_servicesVars => ServicesInv'
<1> SUFFICES ASSUME ServicesInv, [Next]_servicesVars PROVE ServicesInv'
  OBVIOUS
<1>1. ShelfInv'
  BY OneServiceAtATime, ShelfInvStep DEF ServicesInv
<1>2. EditsTypeOK'
  <2>1. [EditsNext]_editVars
    BY OneServiceAtATime
  <2>2. QED
    BY <2>1, EditsTypeStep DEF ServicesInv
<1>3. OfficeInv'
  <2>1. [OfficeNext]_officeVars
    BY OneServiceAtATime
  <2>2. QED
    BY <2>1, OfficeInvStep DEF ServicesInv
<1>4. LimitInv' /\ LimitTypeOK' /\ LatexTypeOK'
  BY OneServiceAtATime, LimitInvStep, LimitTyping, LatexTyping DEF ServicesInv
<1>5. QED
  BY <1>1, <1>2, <1>3, <1>4 DEF ServicesInv

LEMMA ServicesSerialInvStep ==
  ServicesInv /\ ServicesSerialInv /\ [Next]_servicesVars => ServicesSerialInv'
<1> SUFFICES ASSUME ServicesInv, ServicesSerialInv, [Next]_servicesVars, serial
             PROVE  EditsInv' /\ LettersInv' /\ ConsoleSerialInv'
  BY OneServiceAtATime DEF ServicesSerialInv
<1>0. AccountInv /\ TenantInv /\ EditsInv /\ LettersInv /\ ConsoleSerialInv
  BY DEF ServicesInv, OfficeInv, ServicesSerialInv
<1>1. EditsInv'
  <2>1. [EditsNext]_editVars
    BY OneServiceAtATime
  <2>2. NoOverlap(edit')
    <3>1. NoOverlap(edit') \/ edit' = edit
      BY OneServiceAtATime DEF editVars
    <3>2. QED
      BY <1>0, <3>1 DEF EditsInv, NoOverlap
  <2>3. QED
    BY <1>0, <2>1, <2>2, EditsInvStep
<1>2. NoOverlap(reception') /\ NoOverlap(console')
  BY <1>0, OneServiceAtATime DEF LettersInv, ConsoleSerialInv, NoOverlap
<1>3. [OfficeNext]_officeVars
  BY OneServiceAtATime
<1>4. CASE [AccountsNext]_accountVars /\ UNCHANGED tenantVars
  BY <1>0, <1>1, <1>2, <1>4, LettersInvStep, ConsoleSerialStep
<1>5. CASE TenantsNext /\ UNCHANGED <<letters, audited, reception, resets>>
  <2>1. LettersInv'
    BY <1>0, <1>5 DEF LettersInv, LettersWorkOnce, NoOverlap
  <2>2. QED
    BY <1>0, <1>1, <1>2, <1>5, <2>1, ConsoleSerialStep
<1>6. QED
  BY <1>3, <1>4, <1>5 DEF OfficeNext, officeVars

LEMMA ServicesInvariance == Spec => [](ServicesInv /\ ServicesSerialInv)
<1>1. ServicesInv /\ ServicesSerialInv /\ [Next]_servicesVars =>
        (ServicesInv /\ ServicesSerialInv)'
  BY ServicesInvStep, ServicesSerialInvStep
<1>2. QED
  BY ServicesInvInit, <1>1, PTL DEF Spec

\* Whatever overlaps in each of the services, their rows, keys, requests and
\* answers keep their types.
THEOREM ServicesTypeCorrect == Spec => []ServicesTypeOK
<1>1. ASSUME ServicesInv PROVE ServicesTypeOK
  BY <1>1 DEF ServicesInv, OfficeInv, ServicesTypeOK, ShelfInv, AccountInv, TenantInv
<1>2. QED
  BY <1>1, ServicesInvariance, PTL

\* However registrations, new skills and new colleges overlap, the unique indexes
\* behind their checks leave one account of an address, one skill of a name and
\* one college of a slug, a code and an administrator; and nobody is verified
\* without a token used up, an audit row or a college.
THEOREM IdentitiesStaySound == Spec => []IdentitiesAreSound
<1>1. ASSUME ServicesInv PROVE IdentitiesAreSound
  BY <1>1 DEF ServicesInv, OfficeInv, IdentitiesAreSound, ShelfInv, AccountInv, TenantInv
<1>2. QED
  BY <1>1, ServicesInvariance, PTL

\* One request at a time, an acknowledged edit or configuration stands until the
\* next one, a letter sets one password, and no second policy row is made.
THEOREM AnswersStand == Spec => []AnswersStandWhenSerial
<1>1. ASSUME ServicesSerialInv PROVE AnswersStandWhenSerial
  BY <1>1, OneRowIsOne
  DEF ServicesSerialInv, AnswersStandWhenSerial, EditsInv, LettersInv, ConsoleSerialInv
<1>2. QED
  BY <1>1, ServicesInvariance, PTL
==============================================================================
