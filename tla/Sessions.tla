------------------------------ MODULE Sessions ------------------------------
(***************************************************************************)
(* The sessions of one account: signing in, presenting and refreshing a    *)
(* session, signing out, and changing the password by the account holder   *)
(* or by an operator (identity/services/SessionService, AuthService,       *)
(* commands/admin/reset-password, commands/session/revoke-all).            *)
(*                                                                         *)
(* A request is one call of these.  Each of its steps ends at an await on  *)
(* the database, so requests interleave as in the code; a time stamp is    *)
(* taken one step before the statement that stores it.  A refused request  *)
(* simply ends.                                                            *)
(***************************************************************************)
EXTENDS Naturals, FiniteSets

CONSTANTS
  Requests,      \* calls that may be in progress together
  Ttl,           \* refreshTtlMs
  MaxTime,       \* bound: the clock, in milliseconds
  MaxSessions,   \* bound: session rows ever created
  MaxSecrets,    \* bound: refresh secrets ever created
  MaxPasswords,  \* bound: passwords ever chosen after the first
  MaxRequests,   \* bound: requests ever begun
  None           \* no such session

Times == 1 .. MaxTime
Ids == 1 .. MaxSessions
Secrets == 1 .. MaxSecrets
Passwords == 0 .. MaxPasswords     \* the first one is 0, every later one is new

ASSUME SessionsAssumption ==
  /\ Ttl \in Nat \ {0} /\ MaxTime \in Nat \ {0} /\ MaxSessions \in Nat
  /\ MaxSecrets \in Nat /\ MaxPasswords \in Nat /\ MaxRequests \in Nat
  /\ None \notin Nat /\ None \notin [secret: Nat, issued: Nat, expires: Nat, revoked: Nat]

VARIABLES
  now,           \* the clock
  user,          \* the User row
  rows,          \* rows[i]: the Session row with the id i
  home,          \* home[k]: the session whose cookie goes with the secret k
  req,           \* req[r]: where the request r is
  made, minted, chosen, begun,  \* sessions, secrets, passwords, requests so far
  from,          \* from[k]: the secret that was exchanged for k, or 0
  proven,        \* proven[i]: the password the session i was opened with
  handed,        \* passwords an operator set
  raced,         \* sessions opened, or not ended, beside a password change
  regressed      \* a login or a change that ran beside a change wrote the user

watch == <<from, proven, handed, raced, regressed>>
counts == <<made, minted, chosen>>
bounds == <<counts, begun>>
vars == <<now, user, rows, home, req, bounds, watch>>

\* changed = 0 and revoked = 0 stand for a date that is NULL.
User == [password: Passwords, must: BOOLEAN, changed: 0 .. MaxTime]
Row == [secret: Secrets, issued: Times, expires: Nat, revoked: 0 .. MaxTime]

Kinds == {"login", "change", "reset", "present"}
Pcs == {"idle", "scope", "insert", "rehash", "hash", "write", "revoke",
        "row", "user", "rotate", "in"}
Request == [kind: Kinds, pc: Pcs, session: Ids \cup {None},
            secret: Secrets \cup {0}, password: Passwords, at: 0 .. MaxTime,
            doomed: BOOLEAN, raced: BOOLEAN]

Idle == [kind |-> "present", pc |-> "idle", session |-> None, secret |-> 0,
         password |-> 0, at |-> 0, doomed |-> FALSE, raced |-> FALSE]

Init ==
  /\ now = 1
  /\ user = [password |-> 0, must |-> FALSE, changed |-> 0]
  /\ rows = [i \in Ids |-> None] /\ home = [k \in Secrets |-> None]
  /\ req = [r \in Requests |-> Idle]
  /\ made = 0 /\ minted = 0 /\ chosen = 0 /\ begun = 0
  /\ from = [k \in Secrets |-> 0] /\ proven = [i \in Ids |-> 0]
  /\ handed = {} /\ raced = {} /\ regressed = FALSE

Live(i) == rows[i] # None /\ rows[i].revoked = 0

\* Requests that will write the password, and those that have read it.
Changing == {r \in Requests : req[r].pc # "idle" /\ req[r].kind \in {"change", "reset"}}
Proving == Changing \cup {r \in Requests : req[r].pc # "idle" /\ req[r].kind = "login"}

-----------------------------------------------------------------------------
(* Signing in.                                                             *)

\* A call comes in.
Begin(r) == req[r].pc = "idle" /\ begun < MaxRequests /\ begun' = begun + 1

\* A request that has read the user row.
Start(r, kind, pc, password) ==
  LET writes == kind # "login"
  IN  req' = [q \in Requests |->
         IF q = r
         THEN [Idle EXCEPT !.kind = kind, !.pc = pc, !.password = password,
                           !.raced = IF writes THEN Proving # {} ELSE Changing # {}]
         ELSE [req[q] EXCEPT !.raced = @ \/ (writes /\ q \in Proving)]]

\* The user row is read and the password, which must be the present one,
\* verified against it.
Login(r) ==
  /\ Begin(r) /\ Start(r, "login", "scope", user.password)
  /\ UNCHANGED <<now, user, rows, home, counts, watch>>

\* resolveScope has ended and issue takes the time.
Scope(r) ==
  /\ req[r].pc = "scope"
  /\ req' = [req EXCEPT ![r].pc = "insert", ![r].at = now]
  /\ UNCHANGED <<now, user, rows, home, bounds, watch>>

\* Mutant: the row keeps the digest of the secret before.
NewRowStale(q) == [secret |-> minted, issued |-> q.at, expires |-> q.at + Ttl, revoked |-> 0]

\* The row issue saves, with the digest of a new secret.
NewRow(q) == [secret |-> minted + 1, issued |-> q.at, expires |-> q.at + Ttl, revoked |-> 0]

\* issue saves the row; a login goes on to upgradeStoredHash when the hash it
\* read is below the cost configured now.
Insert(r) ==
  /\ req[r].pc = "insert" /\ made < MaxSessions /\ minted < MaxSecrets
  /\ made' = made + 1 /\ minted' = minted + 1
  /\ rows' = [rows EXCEPT ![made + 1] = NewRow(req[r])]
  /\ home' = [home EXCEPT ![minted + 1] = made + 1]
  /\ proven' = [proven EXCEPT ![made + 1] = req[r].password]
  /\ raced' = IF req[r].raced THEN raced \cup {made + 1} ELSE raced
  /\ \/ req' = [req EXCEPT ![r] = Idle]
     \/ /\ req[r].kind = "login"
        /\ req' = [req EXCEPT ![r].pc = "rehash", ![r].at = 0]
  /\ UNCHANGED <<now, user, chosen, begun, from, handed, regressed>>

\* The password that was typed is hashed again and stored, whatever the row
\* holds by now.
Rehash(r) ==
  /\ req[r].pc = "rehash"
  /\ user' = [user EXCEPT !.password = req[r].password]
  /\ regressed' = (regressed \/ req[r].raced)
  /\ req' = [req EXCEPT ![r] = Idle]
  /\ UNCHANGED <<now, rows, home, bounds, from, proven, handed, raced>>

-----------------------------------------------------------------------------
(* Changing the password.                                                  *)

\* changeOwnPassword reads the user row, verifies the present password and
\* hashes a new one; reset-password does without the verification.
Change(r, kind) ==
  /\ Begin(r) /\ chosen < MaxPasswords
  /\ Start(r, kind, "hash", chosen + 1)
  /\ chosen' = chosen + 1
  /\ UNCHANGED <<now, user, rows, home, made, minted, watch>>

Stamp(r) ==
  /\ req[r].pc = "hash"
  /\ req' = [req EXCEPT ![r].pc = "write", ![r].at = now]
  /\ UNCHANGED <<now, user, rows, home, bounds, watch>>

\* Mutant: an operator's password need not be changed.
NewUserUnforced(q) ==
  [password |-> q.password, must |-> FALSE, changed |-> q.at]

\* What a change stores in the user row.
NewUser(q) ==
  [password |-> q.password, must |-> q.kind = "reset", changed |-> q.at]

WriteUser(r) ==
  /\ req[r].pc = "write"
  /\ user' = NewUser(req[r])
  /\ req' = [req EXCEPT ![r].pc = "revoke"]
  /\ handed' = IF req[r].kind = "reset" THEN handed \cup {req[r].password} ELSE handed
  /\ regressed' = (regressed \/ req[r].raced)
  /\ UNCHANGED <<now, rows, home, bounds, from, proven, raced>>

\* The sessions the time of the change alone does not end.
Spared(r) == {i \in Ids : Live(i) /\ rows[i].issued >= req[r].at}

\* revokeAllForUser, one statement; when it fails it reports 0 and the change
\* goes on.  The account holder is then issued a session.
RevokeAll(r) ==
  /\ req[r].pc = "revoke"
  /\ \/ /\ rows' = [i \in Ids |-> IF Live(i) THEN [rows[i] EXCEPT !.revoked = now]
                                  ELSE rows[i]]
        /\ raced' = raced
     \/ rows' = rows /\ raced' = raced \cup Spared(r)
  /\ req' = [req EXCEPT ![r] = IF req[r].kind = "change"
                               THEN [req[r] EXCEPT !.pc = "insert", !.at = now]
                               ELSE Idle]
  /\ UNCHANGED <<now, user, home, bounds, from, proven, handed, regressed>>

-----------------------------------------------------------------------------
(* Presenting a session.                                                   *)

\* Mutant: the age of a session counts from its last refresh.
OutlivedChangeSince(row, changed) == changed <= row.expires - Ttl

\* The password has not changed since the session was issued.
OutlivedChange(row, changed) == changed <= row.issued

\* The session of a secret is over, or the secret has been exchanged.
Over(i, k) ==
  \/ ~Live(i) \/ rows[i].secret # k \/ ~OutlivedChange(rows[i], user.changed)
  \/ /\ rows[i].expires <= now
     /\ ~\E r \in Requests : req[r].pc \in {"user", "rotate"} /\ req[r].session = i

\* A request arrives with the cookies of the secret k.
Present(r, k) ==
  /\ Begin(r)
  /\ req' = [req EXCEPT ![r] = [Idle EXCEPT !.pc = "row", !.session = home[k],
                                 !.secret = k, !.doomed = Over(home[k], k)]]
  /\ UNCHANGED <<now, user, rows, home, counts, watch>>

\* Mutant: a revoked session passes.
PassesRevoked(row, k) == row.expires > now /\ row.secret = k

\* The row is not revoked, not expired, and the secret is its own.
Passes(row, k) == row.revoked = 0 /\ row.expires > now /\ row.secret = k

\* validate reads the row.
ReadRow(r) ==
  /\ req[r].pc = "row"
  /\ req' = [req EXCEPT ![r] = IF Passes(rows[req[r].session], req[r].secret)
                               THEN [req[r] EXCEPT !.pc = "user"] ELSE Idle]
  /\ UNCHANGED <<now, user, rows, home, bounds, watch>>

\* The request is admitted.
Admitted(q) == [Idle EXCEPT !.pc = "in", !.doomed = q.doomed]

\* validate reads the user row and compares its date with the session's, which
\* no statement ever changes.  A request to a route is admitted; a refresh takes
\* the time and goes on.
ReadUser(r) ==
  /\ req[r].pc = "user"
  /\ IF OutlivedChange(rows[req[r].session], user.changed)
     THEN \/ req' = [req EXCEPT ![r] = Admitted(req[r])]
          \/ req' = [req EXCEPT ![r].pc = "rotate", ![r].at = now]
     ELSE req' = [req EXCEPT ![r] = Idle]
  /\ UNCHANGED <<now, user, rows, home, bounds, watch>>

\* Mutants: the statement matches the id and an open row, or the id and the
\* digest only.
RotatesOpen(row, k) == row.revoked = 0
RotatesMatching(row, k) == row.secret = k

\* The WHERE clause of the rotation.
Rotates(row, k) == row.secret = k /\ row.revoked = 0

\* The conditional update of refresh; no row matched, no refresh.
Rotate(r) ==
  /\ req[r].pc = "rotate" /\ minted < MaxSecrets
  /\ LET i == req[r].session IN
       IF Rotates(rows[i], req[r].secret)
       THEN /\ rows' = [rows EXCEPT ![i].secret = minted + 1, ![i].expires = req[r].at + Ttl]
            /\ minted' = minted + 1
            /\ home' = [home EXCEPT ![minted + 1] = i]
            /\ from' = [from EXCEPT ![minted + 1] = req[r].secret]
            /\ req' = [req EXCEPT ![r] = Admitted(req[r])]
       ELSE /\ req' = [req EXCEPT ![r] = Idle]
            /\ UNCHANGED <<rows, minted, home, from>>
  /\ UNCHANGED <<now, user, made, chosen, begun, proven, handed, raced, regressed>>

-----------------------------------------------------------------------------
(* The rest.                                                               *)

\* The answer of an admitted request is sent.
Leave(r) ==
  /\ req[r].pc = "in"
  /\ req' = [req EXCEPT ![r] = Idle]
  /\ UNCHANGED <<now, user, rows, home, bounds, watch>>

\* A statement throws or the process ends; what was stored stays.
Abandon(r) ==
  /\ req[r].pc \notin {"idle", "in"}
  /\ req' = [req EXCEPT ![r] = Idle]
  /\ raced' = IF req[r].pc = "revoke" THEN raced \cup Spared(r) ELSE raced
  /\ UNCHANGED <<now, user, rows, home, bounds, from, proven, handed, regressed>>

\* Mutant: a second call writes the date again.
RevokesAgain(i) == rows[i] # None

\* The WHERE clause of revoke.
Revokes(i) == Live(i)

\* logout: the cookie names the session, the statement revokes an open one.
Logout(i) ==
  /\ Revokes(i)
  /\ rows' = [rows EXCEPT ![i].revoked = now]
  /\ UNCHANGED <<now, user, home, req, bounds, watch>>

\* session:revoke-all, an operator's command.
SignOutAll ==
  /\ \E i \in Ids : Live(i)
  /\ rows' = [i \in Ids |-> IF Live(i) THEN [rows[i] EXCEPT !.revoked = now] ELSE rows[i]]
  /\ UNCHANGED <<now, user, home, req, bounds, watch>>

Tick ==
  /\ now < MaxTime /\ now' = now + 1
  /\ UNCHANGED <<user, rows, home, req, bounds, watch>>

Step(r) ==
  \/ Login(r) \/ Scope(r) \/ Insert(r) \/ Rehash(r)
  \/ \E kind \in {"change", "reset"} : Change(r, kind)
  \/ Stamp(r) \/ WriteUser(r) \/ RevokeAll(r)
  \/ \E k \in 1 .. minted : Present(r, k)
  \/ ReadRow(r) \/ ReadUser(r) \/ Rotate(r) \/ Leave(r) \/ Abandon(r)

Next ==
  \/ \E r \in Requests : Step(r)
  \/ \E i \in Ids : Logout(i)
  \/ SignOutAll \/ Tick

Spec == Init /\ [][Next]_vars

-----------------------------------------------------------------------------
(* Properties.                                                             *)

\* The types; rows exist for the sessions made and homes for the secrets minted.
TypeOK ==
  /\ now \in Times /\ user \in User /\ req \in [Requests -> Request]
  /\ rows \in [Ids -> Row \cup {None}] /\ home \in [Secrets -> Ids \cup {None}]
  /\ made \in 0 .. MaxSessions /\ minted \in 0 .. MaxSecrets /\ chosen \in Passwords
  /\ begun \in 0 .. MaxRequests
  /\ \A i \in Ids : rows[i] # None <=> i <= made
  /\ \A k \in Secrets : home[k] # None <=> k <= minted
  /\ \A i \in 1 .. made : rows[i].secret <= minted /\ home[rows[i].secret] = i
  /\ from \in [Secrets -> Secrets \cup {0}] /\ proven \in [Ids -> Passwords]
  /\ handed \subseteq Passwords /\ raced \subseteq Ids /\ regressed \in BOOLEAN

\* A refresh secret is exchanged at most once, however many refreshes present it
\* together: no two secrets come from one, and the row holds the one that nobody
\* has exchanged ("rather than quietly minting a second live secret for one
\* session").
SecretSpentOnce ==
  /\ \A j, k \in 1 .. minted : from[j] = from[k] /\ from[j] # 0 => j = k
  /\ \A i \in 1 .. made, k \in 1 .. minted : from[k] # rows[i].secret

\* A session that is revoked stays as it was revoked: no refresh that had read it
\* before extends it and no second call overwrites the date ("which the audit
\* trail depends on staying put").
RevokedStays ==
  [][\A i \in Ids : rows[i] # None /\ rows[i].revoked # 0 => rows'[i] = rows[i]]_vars

\* A request that arrived when its session was over, by a sign-out, a password
\* change or its age, or with a secret already exchanged, is never admitted,
\* unless two password changes ran beside each other: nothing in flight revives
\* what has ended.
EndedStaysOut ==
  \A r \in Requests : req[r].pc = "in" /\ req[r].doomed => regressed

\* Once a password change is through, the sessions that still answer were opened
\* with the present password, even when the change died before it revoked them;
\* only a login that ran beside the change, or one of its millisecond, may be left.
OnlyPresentPassword ==
  Changing = {} /\ ~regressed =>
    \A i \in 1 .. made : Live(i) /\ OutlivedChange(rows[i], user.changed) /\ i \notin raced
                           => proven[i] = user.password

\* A password that an operator knows has to be changed as long as it is in use
\* ("the operator who ran this command now knows the password"), unless a login
\* beside a change put it back.
HandedIsForced == user.password \in handed /\ ~regressed => user.must
=============================================================================
