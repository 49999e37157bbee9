---------------------------- MODULE SessionsProofs ----------------------------
(***************************************************************************)
(* Proofs about the sessions of an account, for every number of requests   *)
(* and every lifetime: the types, that a secret is good once, that what is *)
(* revoked or over stays so, that a changed password ends the sessions     *)
(* opened with the old one, and that an operator's password is forced to   *)
(* be changed.                                                             *)
(***************************************************************************)
EXTENDS Sessions, TLAPS

\* What a request holds, by where it is, in a state with the clock n, m sessions,
\* k secrets and the homes h.
Sound(q, n, m, k, h) ==
  /\ q \in Request
  /\ q.pc \in {"row", "user", "rotate"} =>
       /\ q.kind = "present" /\ q.session \in 1 .. m
       /\ q.secret \in 1 .. k /\ h[q.secret] = q.session
  /\ q.pc \in {"insert", "rotate", "write", "revoke"} => q.at \in 1 .. n
  /\ q.pc \in {"scope", "rehash"} => q.kind = "login"
  /\ q.pc \in {"hash", "write", "revoke"} => q.kind \in {"change", "reset"}
  /\ q.pc = "insert" => q.kind \in {"login", "change"}
  /\ q.pc = "in" => q.kind = "present"

Points == \A r \in Requests : Sound(req[r], now, made, minted, home)

Housed == \A k \in 1 .. minted : home[k] \in 1 .. made

TypeInv == TypeOK /\ Points /\ Housed /\ user.changed <= now

\* The clock and the counts only grow, and a secret keeps its home.
Grows ==
  /\ now \in Nat /\ now' \in Nat /\ now <= now'
  /\ made \in Nat /\ made' \in Nat /\ made <= made'
  /\ minted \in Nat /\ minted' \in Nat /\ minted <= minted'
  /\ \A k \in 1 .. minted : home'[k] = home[k]

Goes(r, q) == req' = [req EXCEPT ![r] = q]

-----------------------------------------------------------------------------
(***************************************************************************)
(* Types.                                                                  *)
(***************************************************************************)

LEMMA Counts ==
  ASSUME TypeInv
  PROVE  /\ now \in Nat /\ now >= 1 /\ now <= MaxTime /\ made \in Nat /\ made <= MaxSessions
         /\ minted \in Nat /\ minted <= MaxSecrets
         /\ chosen \in Nat /\ chosen <= MaxPasswords /\ begun \in Nat
         /\ \A r \in Requests : req[r] \in Request /\ Sound(req[r], now, made, minted, home)
         /\ user \in User /\ user.changed \in Nat
         /\ now \in 0 .. MaxTime /\ 0 \in 0 .. MaxTime
BY SessionsAssumption DEF TypeInv, TypeOK, Points, Times, Passwords, User

LEMMA RowsAreRecords == \A r \in Row : r # None
BY SessionsAssumption DEF Row, Secrets, Times

LEMMA IdleSound ==
  \A n, m, k, h : Sound(Idle, n, m, k, h)
<1>1. Idle \in Request
  BY SessionsAssumption DEF Idle, Request, Kinds, Pcs, Passwords
<1>. QED BY <1>1 DEF Idle, Sound

LEMMA InitTypes == Init => TypeInv
<1>. SUFFICES ASSUME Init PROVE TypeInv
  OBVIOUS
<1>1. Points BY IdleSound DEF Init, Points
<1>2. user \in User /\ user.changed = 0
  BY SessionsAssumption DEF Init, User, Passwords
<1>3. req \in [Requests -> Request] BY IdleSound DEF Init, Sound
<1>4. rows \in [Ids -> Row \cup {None}] /\ home \in [Secrets -> Ids \cup {None}]
  BY DEF Init
<1>5. /\ \A i \in Ids : rows[i] # None <=> i <= made
      /\ \A k \in Secrets : home[k] # None <=> k <= minted
      /\ \A i \in 1 .. made : rows[i].secret <= minted /\ home[rows[i].secret] = i
  BY DEF Init, Ids, Secrets
<1>6. from \in [Secrets -> Secrets \cup {0}] /\ proven \in [Ids -> Passwords]
  BY SessionsAssumption DEF Init, Passwords
<1>7. now \in Times /\ made \in 0 .. MaxSessions /\ minted \in 0 .. MaxSecrets
      /\ chosen \in Passwords /\ begun \in 0 .. MaxRequests
  BY SessionsAssumption DEF Init, Times, Passwords
<1>8. handed \subseteq Passwords /\ raced \subseteq Ids /\ regressed \in BOOLEAN
  BY DEF Init
<1>9. TypeOK BY <1>2, <1>3, <1>4, <1>5, <1>6, <1>7, <1>8 DEF TypeOK
<1>10. Housed BY DEF Init, Housed
<1>. QED BY <1>1, <1>2, <1>9, <1>10 DEF Init, TypeInv

LEMMA SoundGrows ==
  ASSUME Grows, NEW q, Sound(q, now, made, minted, home)
  PROVE  Sound(q, now', made', minted', home')
BY DEF Sound, Grows

\* One request goes on as q.
LEMMA GoesOn ==
  ASSUME TypeInv, Grows, NEW r \in Requests, NEW q, Goes(r, q),
         Sound(q, now', made', minted', home')
  PROVE  Points' /\ req' \in [Requests -> Request]
<1>1. req \in [Requests -> Request] BY DEF TypeInv, TypeOK
<1>2. q \in Request BY DEF Sound
<1>3. ASSUME NEW o \in Requests PROVE Sound(req'[o], now', made', minted', home')
  <2>1. CASE o = r BY <1>1, <2>1 DEF Goes
  <2>2. CASE o # r
    <3>1. req'[o] = req[o] BY <1>1, <2>2 DEF Goes
    <3>. QED BY <3>1, SoundGrows DEF TypeInv, Points
  <2>. QED BY <2>1, <2>2
<1>. QED BY <1>1, <1>2, <1>3 DEF Points, Goes

\* A step that changes requests only, and keeps to what they may hold.
LEMMA OnlyRequests ==
  ASSUME TypeInv, UNCHANGED <<user, rows, home, made, minted, watch>>,
         now' \in Times, now <= now', chosen' \in Passwords, begun' \in 0 .. MaxRequests,
         req' \in [Requests -> Request], Points'
  PROVE  TypeInv'
<1>1. TypeOK' BY DEF TypeInv, TypeOK, watch
<1>2. user'.changed <= now'
  <2>1. user'.changed = user.changed /\ user.changed <= now /\ now' \in Nat
    BY SessionsAssumption DEF TypeInv, Times
  <2>. QED BY <2>1, Counts
<1>. QED BY <1>1, <1>2 DEF TypeInv, Housed

\* A call that reads the user row first.
LEMMA StartTypes ==
  ASSUME TypeInv, Grows, UNCHANGED <<now, made, minted, home>>,
         NEW r \in Requests, NEW kind \in {"login", "change", "reset"},
         NEW pc \in {"scope", "hash"}, NEW password \in Passwords,
         pc = "scope" <=> kind = "login", Start(r, kind, pc, password)
  PROVE  Points' /\ req' \in [Requests -> Request]
<1>. DEFINE writes == kind # "login"
            flag == IF writes THEN Proving # {} ELSE Changing # {}
            q == [Idle EXCEPT !.kind = kind, !.pc = pc, !.password = password, !.raced = flag]
<1>1. flag \in BOOLEAN OBVIOUS
<1>2. Idle \in Request BY IdleSound DEF Sound
<1>. HIDE DEF flag
<1>3. kind \in Kinds /\ pc \in Pcs BY DEF Kinds, Pcs
<1>4. q \in Request /\ q.kind = kind /\ q.pc = pc BY <1>1, <1>2, <1>3 DEF Request
<1>5. (pc = "scope" /\ kind = "login") \/ (pc = "hash" /\ kind \in {"change", "reset"})
  BY SMT
<1>. HIDE DEF q
<1>6. Sound(q, now, made, minted, home) BY <1>4, <1>5 DEF Sound
<1>7. ASSUME NEW o \in Requests PROVE req'[o] \in Request /\ Sound(req'[o], now', made', minted', home')
  <2>1. CASE o = r
    <3>1. req'[o] = q BY <2>1 DEF Start, q, flag
    <3>. QED BY <1>6, <3>1 DEF Sound
  <2>2. CASE o # r
    <3>. DEFINE b == req[o].raced \/ (writes /\ o \in Proving)
    <3>1. req'[o] = [req[o] EXCEPT !.raced = b] BY <2>2 DEF Start
    <3>2. b \in BOOLEAN OBVIOUS
    <3>. HIDE DEF b
    <3>3. req[o] \in Request /\ Sound(req[o], now, made, minted, home) BY Counts
    <3>4. req'[o] \in Request BY <3>1, <3>2, <3>3 DEF Request
    <3>5. /\ req'[o].pc = req[o].pc /\ req'[o].kind = req[o].kind /\ req'[o].at = req[o].at
          /\ req'[o].session = req[o].session /\ req'[o].secret = req[o].secret
      BY <3>1, <3>3 DEF Request
    <3>. QED BY <3>3, <3>4, <3>5 DEF Sound
  <2>. QED BY <2>1, <2>2
<1>8. DOMAIN req' = Requests /\ req' = [o \in Requests |-> req'[o]] BY DEF Start
<1>. QED BY <1>7, <1>8 DEF Points

\* No request moves.
LEMMA SamePoints ==
  ASSUME TypeInv, Grows, UNCHANGED req
  PROVE  Points' /\ req' \in [Requests -> Request]
BY SoundGrows DEF TypeInv, TypeOK, Points

\* A secret's home is one of the sessions made.
LEMMA Homes ==
  ASSUME TypeInv, NEW k \in 1 .. minted
  PROVE  k \in Secrets /\ home[k] \in Ids /\ home[k] \in 1 .. made
<1>1. k \in Secrets BY Counts, SessionsAssumption DEF Secrets
<1>2. home[k] \in 1 .. made BY DEF TypeInv, Housed
<1>. QED BY <1>1, <1>2, Counts, SessionsAssumption DEF Ids

LEMMA AdmittedSound ==
  ASSUME TypeInv, NEW r \in Requests
  PROVE  \A n, m, k, h : Sound(Admitted(req[r]), n, m, k, h)
<1>. DEFINE q == Admitted(req[r])
<1>1. req[r].doomed \in BOOLEAN BY Counts DEF Request
<1>2. Idle \in Request /\ Idle.kind = "present" BY IdleSound DEF Sound, Idle
<1>3. q \in Request /\ q.kind = "present" /\ q.pc = "in"
  BY <1>1, <1>2 DEF Admitted, Request, Pcs
<1>. HIDE DEF q
<1>4. \A n, m, k, h : Sound(q, n, m, k, h) BY <1>3 DEF Sound
<1>. QED BY <1>4 DEF q

\* Some open rows are revoked now, and nothing else about the rows is new.
OnlyRevoked(new) ==
  /\ new \in [Ids -> Row \cup {None}]
  /\ \A i \in Ids : \/ new[i] = rows[i]
                    \/ Live(i) /\ new[i] = [rows[i] EXCEPT !.revoked = now]

LEMMA RevokedRow ==
  ASSUME TypeInv, NEW i \in Ids, Live(i)
  PROVE  LET e == [rows[i] EXCEPT !.revoked = now]
         IN  /\ e \in Row /\ e # None /\ e.secret = rows[i].secret
             /\ e.issued = rows[i].issued /\ e.expires = rows[i].expires /\ e.revoked = now
<1>1. rows[i] \in Row BY DEF TypeInv, TypeOK, Live
<1>. DEFINE e == [rows[i] EXCEPT !.revoked = now]
<1>2. e \in Row /\ e.secret = rows[i].secret /\ e.issued = rows[i].issued
      /\ e.expires = rows[i].expires /\ e.revoked = now
  BY <1>1, Counts DEF Row
<1>. HIDE DEF e
<1>3. e # None BY <1>2, RowsAreRecords
<1>. QED BY <1>2, <1>3 DEF e

LEMMA RevokedRows ==
  ASSUME TypeInv
  PROVE  /\ [i \in Ids |-> IF Live(i) THEN [rows[i] EXCEPT !.revoked = now] ELSE rows[i]]
              \in [Ids -> Row \cup {None}]
         /\ \A i \in Ids : Live(i) => [rows EXCEPT ![i].revoked = now] \in [Ids -> Row \cup {None}]
         /\ rows \in [Ids -> Row \cup {None}]
<1>1. rows \in [Ids -> Row \cup {None}] BY DEF TypeInv, TypeOK
<1>2. \A i \in Ids : Live(i) => [rows[i] EXCEPT !.revoked = now] \in Row BY RevokedRow
<1>. QED BY <1>1, <1>2

\* A step that only revokes.
LEMMA RowsRevoked ==
  ASSUME TypeInv, OnlyRevoked(rows'),
         UNCHANGED <<now, user, home, bounds, from, proven, handed, regressed>>,
         raced' \subseteq Ids, req' \in [Requests -> Request], Points'
  PROVE  TypeInv'
<1>1. ASSUME NEW i \in Ids
      PROVE  /\ rows'[i] # None <=> rows[i] # None
             /\ rows[i] # None => rows'[i].secret = rows[i].secret
  BY RevokedRow DEF OnlyRevoked, Live
<1>2. \A i \in 1 .. made : i \in Ids BY Counts, SessionsAssumption DEF Ids
<1>3. \A i \in 1 .. made : rows'[i].secret <= minted /\ home[rows'[i].secret] = i
  BY <1>1, <1>2, Counts DEF TypeInv, TypeOK
<1>4. TypeOK' BY <1>1, <1>3 DEF TypeInv, TypeOK, OnlyRevoked, bounds, counts
<1>. QED BY <1>4 DEF TypeInv, Housed, bounds, counts

LEMMA SameRows == ASSUME TypeInv, UNCHANGED rows PROVE OnlyRevoked(rows')
BY DEF TypeInv, TypeOK, OnlyRevoked

\* Each action keeps the types.
LEMMA NextTypes == ASSUME TypeInv, [Next]_vars PROVE TypeInv'
<1>. USE DEF Goes
<1>0. /\ now \in Times /\ chosen \in Passwords /\ begun \in 0 .. MaxRequests
      /\ made \in 0 .. MaxSessions /\ minted \in 0 .. MaxSecrets
  BY DEF TypeInv, TypeOK
<1>a. UNCHANGED <<now, made, minted, home>> => Grows BY Counts DEF Grows
<1>b. begun < MaxRequests => begun + 1 \in 0 .. MaxRequests
  BY <1>0, SessionsAssumption
<1>c. now <= now BY Counts
<1>d. \A i \in 1 .. made : i \in Ids /\ rows[i] \in Row /\ rows[i] # None
  BY Counts, SessionsAssumption DEF TypeInv, TypeOK, Ids
<1>e. \A r \in Row : r # None BY RowsAreRecords
<1>1. ASSUME NEW r \in Requests, Login(r) PROVE TypeInv'
  <2>1. user.password \in Passwords BY Counts DEF User
  <2>2. Points' /\ req' \in [Requests -> Request]
    BY <1>1, <1>a, <2>1, StartTypes DEF Login, counts
  <2>. QED BY <1>1, <1>0, <1>b, <1>c, <2>2, OnlyRequests DEF Login, Begin, counts, watch
<1>2. ASSUME NEW r \in Requests, Scope(r) PROVE TypeInv'
  <2>. DEFINE q == [req[r] EXCEPT !.pc = "insert", !.at = now]
  <2>1. Sound(q, now, made, minted, home)
    <3>1. q \in Request BY Counts DEF Request, Pcs
    <3>2. q.pc = "insert" /\ q.kind = req[r].kind /\ q.at = now BY Counts DEF Request
    <3>3. req[r].kind = "login" BY <1>2, Counts DEF Scope, Sound
    <3>. HIDE DEF q
    <3>. QED BY <3>1, <3>2, <3>3, Counts DEF Sound
  <2>. HIDE DEF q
  <2>2. Goes(r, q) /\ UNCHANGED <<now, user, rows, home, bounds, watch>>
    BY <1>2 DEF Scope, q
  <2>3. Points' /\ req' \in [Requests -> Request]
    BY <1>a, <2>1, <2>2, GoesOn DEF bounds, counts
  <2>. QED BY <1>0, <1>c, <2>2, <2>3, OnlyRequests DEF bounds, counts
<1>3. ASSUME NEW r \in Requests, Insert(r) PROVE TypeInv'
  <2>0. /\ made' = made + 1 /\ minted' = minted + 1
        /\ made + 1 \in Ids /\ minted + 1 \in Secrets
        /\ made' \in 0 .. MaxSessions /\ minted' \in 0 .. MaxSecrets
    BY <1>3, <1>0, SessionsAssumption DEF Insert, Ids, Secrets
  <2>1. rows' = [rows EXCEPT ![made + 1] = NewRow(req[r])] /\ NewRow(req[r]) \in Row
        /\ NewRow(req[r]).secret = minted + 1
    <3>1. req[r].at \in Times
      BY <1>3, Counts, SessionsAssumption DEF Insert, Sound, Times
    <3>2. req[r].at + Ttl \in Nat /\ 0 \in 0 .. MaxTime
      BY <3>1, SessionsAssumption DEF Times
    <3>. QED BY <1>3, <2>0, <3>1, <3>2 DEF Insert, NewRow, Row
  <2>2. home' = [home EXCEPT ![minted + 1] = made + 1] BY <1>3 DEF Insert
  <2>3. Grows
    <3>1. \A k \in 1 .. minted : home'[k] = home[k]
      BY <2>0, <2>2, Counts DEF TypeInv, TypeOK, Secrets
    <3>. QED BY <1>3, <2>0, <3>1, Counts DEF Grows, Insert
  <2>4. Points' /\ req' \in [Requests -> Request]
    <3>1. CASE req' = [req EXCEPT ![r] = Idle] BY <2>3, <3>1, IdleSound, GoesOn
    <3>2. CASE req[r].kind = "login" /\ req' = [req EXCEPT ![r].pc = "rehash", ![r].at = 0]
      <4>. DEFINE q == [req[r] EXCEPT !.pc = "rehash", !.at = 0]
      <4>1. q \in Request /\ q.pc = "rehash" /\ q.kind = "login"
        BY <3>2, Counts, SessionsAssumption DEF Request, Pcs
      <4>2. req' = [req EXCEPT ![r] = q] BY <3>2
      <4>. HIDE DEF q
      <4>3. Sound(q, now', made', minted', home') BY <4>1 DEF Sound
      <4>. QED BY <2>3, <4>2, <4>3, GoesOn
    <3>. QED BY <1>3, <3>1, <3>2 DEF Insert
  <2>5. rows' \in [Ids -> Row \cup {None}] /\ home' \in [Secrets -> Ids \cup {None}]
    BY <2>0, <2>1, <2>2 DEF TypeInv, TypeOK
  <2>6. /\ \A i \in Ids : rows'[i] # None <=> i <= made'
        /\ \A k \in Secrets : home'[k] # None <=> k <= minted'
    <3>1. \A i \in Ids : rows[i] # None <=> i <= made BY DEF TypeInv, TypeOK
    <3>2. \A k \in Secrets : home[k] # None <=> k <= minted BY DEF TypeInv, TypeOK
    <3>3. made + 1 # None BY Counts, SessionsAssumption
    <3>4. NewRow(req[r]) # None BY <1>e, <2>1
    <3>. HIDE DEF NewRow
    <3>5. ASSUME NEW i \in Ids PROVE rows'[i] # None <=> i <= made'
      BY <2>0, <2>1, <3>1, <3>4, Counts DEF TypeInv, TypeOK, Ids
    <3>6. ASSUME NEW k \in Secrets PROVE home'[k] # None <=> k <= minted'
      BY <2>0, <2>2, <3>2, <3>3, Counts DEF TypeInv, TypeOK, Secrets
    <3>. QED BY <3>5, <3>6
  <2>7. \A i \in 1 .. made' : rows'[i].secret <= minted' /\ home'[rows'[i].secret] = i
    <3>1. ASSUME NEW i \in 1 .. made
          PROVE  rows'[i].secret <= minted' /\ home'[rows'[i].secret] = i
      <4>1. rows'[i] = rows[i] /\ rows[i].secret \in Secrets /\ rows[i].secret <= minted
            /\ home[rows[i].secret] = i
        BY <1>d, <2>0, <2>1, Counts, SMTT(30) DEF TypeInv, TypeOK, Row, Ids
      <4>. QED BY <2>0, <2>2, <4>1, Counts DEF TypeInv, TypeOK, Secrets
    <3>2. rows'[made + 1].secret = minted + 1 /\ home'[minted + 1] = made + 1
      BY <2>0, <2>1, <2>2 DEF TypeInv, TypeOK
    <3>. QED BY <2>0, <3>1, <3>2, Counts
  <2>8. proven' \in [Ids -> Passwords] /\ raced' \subseteq Ids
    <3>1. req[r].password \in Passwords BY Counts DEF Request
    <3>. QED BY <1>3, <2>0, <3>1 DEF Insert, TypeInv, TypeOK
  <2>9. UNCHANGED <<now, user, chosen, begun, from, handed, regressed>>
    BY <1>3 DEF Insert
  <2>10. TypeOK' BY <2>0, <2>4, <2>5, <2>6, <2>7, <2>8, <2>9 DEF TypeInv, TypeOK
  <2>11. Housed'
    <3>1. ASSUME NEW k \in 1 .. minted' PROVE home'[k] \in 1 .. made'
      <4>1. CASE k = minted + 1
        BY <2>0, <2>2, <4>1, Counts DEF TypeInv, TypeOK
      <4>2. CASE k # minted + 1
        <5>1. k \in 1 .. minted BY <2>0, <4>2, Counts
        <5>. QED BY <2>0, <2>3, <5>1, Homes, Counts DEF Grows
      <4>. QED BY <4>1, <4>2
    <3>. QED BY <3>1 DEF Housed
  <2>. QED BY <2>4, <2>9, <2>10, <2>11 DEF TypeInv
<1>4. ASSUME NEW r \in Requests, Rehash(r) PROVE TypeInv'
  <2>1. Points' /\ req' \in [Requests -> Request]
    BY <1>4, <1>a, IdleSound, GoesOn DEF Rehash, bounds, counts
  <2>2. user' \in User /\ user'.changed = user.changed
    <3>1. user' = [user EXCEPT !.password = req[r].password] BY <1>4 DEF Rehash
    <3>2. req[r].password \in Passwords BY Counts DEF Request
    <3>. QED BY <3>1, <3>2, Counts DEF User
  <2>3. TypeOK' /\ now' = now
    BY <1>4, <2>1, <2>2, Counts DEF Rehash, TypeInv, TypeOK, bounds, counts
  <2>4. Housed' BY <1>4 DEF Rehash, TypeInv, Housed, bounds, counts
  <2>. QED BY <2>1, <2>2, <2>3, <2>4 DEF TypeInv
<1>5. ASSUME NEW r \in Requests, NEW kind \in {"change", "reset"}, Change(r, kind) PROVE TypeInv'
  <2>1. chosen + 1 \in Passwords BY <1>5, <1>0, SessionsAssumption DEF Change, Passwords
  <2>2. Points' /\ req' \in [Requests -> Request]
    BY <1>5, <1>a, <2>1, StartTypes DEF Change
  <2>. QED BY <1>5, <1>0, <1>b, <1>c, <2>1, <2>2, OnlyRequests DEF Change, Begin, watch
<1>6. ASSUME NEW r \in Requests, Stamp(r) PROVE TypeInv'
  <2>. DEFINE q == [req[r] EXCEPT !.pc = "write", !.at = now]
  <2>1. Sound(q, now, made, minted, home)
    <3>0. now \in 0 .. MaxTime BY Counts, SessionsAssumption
    <3>1. q \in Request BY Counts, <3>0 DEF Request, Pcs
    <3>2. q.pc = "write" /\ q.kind = req[r].kind /\ q.at = now BY Counts DEF Request
    <3>3. req[r].kind \in {"change", "reset"} BY <1>6, Counts DEF Stamp, Sound
    <3>. HIDE DEF q
    <3>. QED BY <3>1, <3>2, <3>3, Counts DEF Sound
  <2>. HIDE DEF q
  <2>2. Goes(r, q) /\ UNCHANGED <<now, user, rows, home, bounds, watch>>
    BY <1>6 DEF Stamp, q
  <2>3. Points' /\ req' \in [Requests -> Request]
    BY <1>a, <2>1, <2>2, GoesOn DEF bounds, counts
  <2>. QED BY <1>0, <1>c, <2>2, <2>3, OnlyRequests DEF bounds, counts
<1>7. ASSUME NEW r \in Requests, WriteUser(r) PROVE TypeInv'
  <2>. DEFINE q == [req[r] EXCEPT !.pc = "revoke"]
  <2>1. q \in Request /\ q.pc = "revoke" /\ q.kind = req[r].kind /\ q.at = req[r].at
    BY Counts DEF Request, Pcs
  <2>2. req[r].kind \in {"change", "reset"} /\ req[r].at \in 1 .. now
    BY <1>7, Counts DEF WriteUser, Sound
  <2>3. Goes(r, q) /\ UNCHANGED <<now, rows, home, bounds, from, proven, raced>>
    BY <1>7 DEF WriteUser
  <2>. HIDE DEF q
  <2>4. Sound(q, now, made, minted, home) BY <2>1, <2>2 DEF Sound
  <2>5. Points' /\ req' \in [Requests -> Request]
    BY <1>a, <2>3, <2>4, GoesOn DEF bounds, counts
  <2>6. req[r].password \in Passwords /\ req[r].at \in 0 .. MaxTime BY Counts DEF Request
  <2>7. user' \in User /\ user'.changed <= now'
    BY <1>7, <2>2, <2>3, <2>6, Counts DEF WriteUser, NewUser, User
  <2>8. handed' \subseteq Passwords /\ regressed' \in BOOLEAN
    BY <1>7, <2>6 DEF WriteUser, TypeInv, TypeOK
  <2>9. TypeOK' BY <2>3, <2>5, <2>7, <2>8 DEF TypeInv, TypeOK, bounds, counts
  <2>10. Housed' BY <2>3 DEF TypeInv, Housed, bounds, counts
  <2>. QED BY <2>5, <2>7, <2>9, <2>10 DEF TypeInv
<1>8. ASSUME NEW r \in Requests, RevokeAll(r) PROVE TypeInv'
  <2>. DEFINE q == IF req[r].kind = "change"
                   THEN [req[r] EXCEPT !.pc = "insert", !.at = now] ELSE Idle
  <2>1. Sound(q, now, made, minted, home)
    <3>1. CASE req[r].kind # "change" BY <3>1, IdleSound
    <3>2. CASE req[r].kind = "change"
      <4>. DEFINE e == [req[r] EXCEPT !.pc = "insert", !.at = now]
      <4>1. e \in Request /\ e.pc = "insert" /\ e.kind = "change" /\ e.at = now
        BY <3>2, Counts DEF Request, Pcs
      <4>2. q = e BY <3>2
      <4>. HIDE DEF e, q
      <4>. QED BY <4>1, <4>2, Counts DEF Sound
    <3>. QED BY <3>1, <3>2
  <2>2. Goes(r, q) /\ UNCHANGED <<now, user, home, bounds, from, proven, handed, regressed>>
    BY <1>8 DEF RevokeAll
  <2>. HIDE DEF q
  <2>3. Points' /\ req' \in [Requests -> Request]
    BY <1>a, <2>1, <2>2, GoesOn DEF bounds, counts
  <2>4. OnlyRevoked(rows') BY <1>8, Counts, RevokedRows DEF RevokeAll, OnlyRevoked
  <2>5. raced' \subseteq Ids BY <1>8 DEF RevokeAll, Spared, TypeInv, TypeOK
  <2>. QED BY <2>2, <2>3, <2>4, <2>5, RowsRevoked
<1>9. ASSUME NEW r \in Requests, NEW k \in 1 .. minted, Present(r, k) PROVE TypeInv'
  <2>. DEFINE over == Over(home[k], k)
              q == [Idle EXCEPT !.pc = "row", !.session = home[k],
                                !.secret = k, !.doomed = over]
  <2>1. Sound(q, now, made, minted, home)
    <3>1. k \in Secrets /\ home[k] \in Ids /\ home[k] \in 1 .. made BY Homes
    <3>2. over \in BOOLEAN BY DEF Over
    <3>3. Idle \in Request /\ Idle.kind = "present" BY IdleSound DEF Sound, Idle
    <3>. HIDE DEF over
    <3>4. /\ q \in Request /\ q.pc = "row" /\ q.kind = "present"
          /\ q.session = home[k] /\ q.secret = k
      <4>1. home[k] \in Ids \cup {None} /\ k \in Secrets \cup {0} BY <3>1
      <4>2. "row" \in Pcs BY DEF Pcs
      <4>. QED BY <3>2, <3>3, <4>1, <4>2 DEF Request
    <3>. HIDE DEF q
    <3>. QED BY <3>1, <3>4 DEF Sound
  <2>. HIDE DEF q, over
  <2>2. Goes(r, q) /\ UNCHANGED <<now, user, rows, home, counts, watch>>
        /\ begun' \in 0 .. MaxRequests
    BY <1>9, <1>b DEF Present, Begin, q, over
  <2>3. Points' /\ req' \in [Requests -> Request]
    BY <1>a, <2>1, <2>2, GoesOn DEF counts
  <2>. QED BY <1>0, <1>c, <2>2, <2>3, OnlyRequests DEF counts
<1>10. ASSUME NEW r \in Requests, ReadRow(r) PROVE TypeInv'
  <2>. DEFINE q == IF Passes(rows[req[r].session], req[r].secret)
                   THEN [req[r] EXCEPT !.pc = "user"] ELSE Idle
  <2>1. Sound(q, now, made, minted, home)
    <3>1. CASE ~Passes(rows[req[r].session], req[r].secret) BY <3>1, IdleSound
    <3>2. CASE Passes(rows[req[r].session], req[r].secret)
      <4>. DEFINE e == [req[r] EXCEPT !.pc = "user"]
      <4>1. e \in Request /\ e.pc = "user" /\ e.kind = req[r].kind
            /\ e.session = req[r].session /\ e.secret = req[r].secret
        BY Counts DEF Request, Pcs
      <4>2. q = e BY <3>2
      <4>. HIDE DEF e, q
      <4>. QED BY <1>10, <4>1, <4>2, Counts DEF Sound, ReadRow
    <3>. QED BY <3>1, <3>2
  <2>2. Goes(r, q) /\ UNCHANGED <<now, user, rows, home, bounds, watch>>
    BY <1>10 DEF ReadRow
  <2>. HIDE DEF q
  <2>3. Points' /\ req' \in [Requests -> Request]
    BY <1>a, <2>1, <2>2, GoesOn DEF bounds, counts
  <2>. QED BY <1>0, <1>c, <2>2, <2>3, OnlyRequests DEF bounds, counts
<1>11. ASSUME NEW r \in Requests, ReadUser(r) PROVE TypeInv'
  <2>1. PICK q : Goes(r, q) /\ Sound(q, now, made, minted, home)
    <3>1. CASE req' = [req EXCEPT ![r] = Admitted(req[r])] BY <3>1, AdmittedSound
    <3>2. CASE req' = [req EXCEPT ![r].pc = "rotate", ![r].at = now]
      <4>. DEFINE e == [req[r] EXCEPT !.pc = "rotate", !.at = now]
      <4>1. e \in Request /\ e.pc = "rotate" /\ e.kind = req[r].kind /\ e.at = now
            /\ e.session = req[r].session /\ e.secret = req[r].secret
        BY Counts DEF Request, Pcs
      <4>2. Goes(r, e) BY <3>2
      <4>. HIDE DEF e
      <4>3. Sound(e, now, made, minted, home) BY <1>11, <4>1, Counts DEF Sound, ReadUser
      <4>. QED BY <4>2, <4>3
    <3>3. CASE req' = [req EXCEPT ![r] = Idle] BY <3>3, IdleSound
    <3>. QED BY <1>11, <3>1, <3>2, <3>3 DEF ReadUser
  <2>2. UNCHANGED <<now, user, rows, home, bounds, watch>> BY <1>11 DEF ReadUser
  <2>3. Points' /\ req' \in [Requests -> Request]
    BY <1>a, <2>1, <2>2, GoesOn DEF bounds, counts
  <2>. QED BY <1>0, <1>c, <2>2, <2>3, OnlyRequests DEF bounds, counts
<1>12. ASSUME NEW r \in Requests, Rotate(r) PROVE TypeInv'
  <2>. DEFINE i == req[r].session
              k == req[r].secret
  <2>1. CASE ~Rotates(rows[i], k)
    <3>1. Goes(r, Idle) /\ UNCHANGED <<now, user, rows, home, bounds, watch>>
      BY <1>12, <2>1 DEF Rotate, bounds, counts, watch
    <3>2. Points' /\ req' \in [Requests -> Request]
      BY <1>a, <3>1, IdleSound, GoesOn DEF bounds, counts
    <3>. QED BY <1>0, <1>c, <3>1, <3>2, OnlyRequests DEF bounds, counts
  <2>2. CASE Rotates(rows[i], k)
    <3>0. /\ i \in 1 .. made /\ k \in Secrets /\ minted + 1 \in Secrets
          /\ minted' = minted + 1 /\ minted' \in 0 .. MaxSecrets
          /\ req[r].at \in 1 .. now
      BY <1>12, <2>2, Counts, SessionsAssumption DEF Rotate, Sound, Secrets
    <3>1. /\ rows' = [rows EXCEPT ![i].secret = minted + 1, ![i].expires = req[r].at + Ttl]
          /\ home' = [home EXCEPT ![minted + 1] = i]
          /\ from' = [from EXCEPT ![minted + 1] = k]
          /\ Goes(r, Admitted(req[r]))
          /\ UNCHANGED <<now, user, made, chosen, begun, proven, handed, raced, regressed>>
      BY <1>12, <2>2 DEF Rotate
    <3>2. i \in Ids /\ rows[i] \in Row /\ i # None
      BY <1>d, <3>0, Counts, SessionsAssumption
    <3>. HIDE DEF i, k
    <3>. DEFINE row == [rows[i] EXCEPT !.secret = minted + 1, !.expires = req[r].at + Ttl]
    <3>3. row \in Row /\ row.secret = minted + 1
      <4>1. req[r].at + Ttl \in Nat BY <3>0, Counts, SessionsAssumption
      <4>. QED BY <3>0, <3>2, <4>1 DEF Row
    <3>4. rows' = [rows EXCEPT ![i] = row] BY <3>1
    <3>. HIDE DEF row
    <3>5. row # None BY <1>e, <3>3
    <3>6. Grows
      <4>1. \A o \in 1 .. minted : home'[o] = home[o]
        BY <3>0, <3>1, Counts DEF TypeInv, TypeOK, Secrets
      <4>. QED BY <3>0, <3>1, <4>1, Counts DEF Grows
    <3>7. Points' /\ req' \in [Requests -> Request]
      <4>1. Sound(Admitted(req[r]), now', made', minted', home') BY AdmittedSound
      <4>. QED BY <3>1, <3>6, <4>1, GoesOn
    <3>8. rows' \in [Ids -> Row \cup {None}] /\ home' \in [Secrets -> Ids \cup {None}]
          /\ from' \in [Secrets -> Secrets \cup {0}]
      <4>1. rows' \in [Ids -> Row \cup {None}] BY <3>3, <3>4 DEF TypeInv, TypeOK
      <4>2. home' \in [Secrets -> Ids \cup {None}] BY <3>1, <3>2 DEF TypeInv, TypeOK
      <4>3. from' \in [Secrets -> Secrets \cup {0}] BY <3>0, <3>1 DEF TypeInv, TypeOK
      <4>. QED BY <4>1, <4>2, <4>3
    <3>9. /\ \A o \in Ids : rows'[o] # None <=> o <= made'
          /\ \A o \in Secrets : home'[o] # None <=> o <= minted'
      <4>1. \A o \in Ids : rows[o] # None <=> o <= made BY DEF TypeInv, TypeOK
      <4>2. \A o \in Secrets : home[o] # None <=> o <= minted BY DEF TypeInv, TypeOK
      <4>3. ASSUME NEW o \in Ids PROVE rows'[o] # None <=> o <= made'
        BY <3>0, <3>1, <3>2, <3>4, <3>5, <4>1 DEF TypeInv, TypeOK
      <4>4. ASSUME NEW o \in Secrets PROVE home'[o] # None <=> o <= minted'
        BY <3>0, <3>1, <3>2, <4>2, Counts DEF TypeInv, TypeOK, Secrets
      <4>. QED BY <4>3, <4>4
    <3>10. ASSUME NEW o \in 1 .. made'
           PROVE  rows'[o].secret <= minted' /\ home'[rows'[o].secret] = o
      <4>1. CASE o = i
        BY <3>0, <3>1, <3>2, <3>3, <3>4, <4>1, Counts DEF TypeInv, TypeOK
      <4>2. CASE o # i
        <5>1. o \in 1 .. made BY <3>1
        <5>2. rows'[o] = rows[o] /\ rows[o].secret \in Secrets /\ rows[o].secret <= minted
              /\ home[rows[o].secret] = o
          BY <1>d, <3>4, <4>2, <5>1 DEF TypeInv, TypeOK, Row
        <5>. QED BY <3>0, <3>1, <5>2, Counts DEF TypeInv, TypeOK, Secrets
      <4>. QED BY <4>1, <4>2
    <3>11. TypeOK' BY <3>0, <3>1, <3>7, <3>8, <3>9, <3>10 DEF TypeInv, TypeOK
    <3>12. Housed'
      <4>1. ASSUME NEW o \in 1 .. minted' PROVE home'[o] \in 1 .. made'
        <5>1. CASE o = minted + 1
          BY <3>0, <3>1, <5>1 DEF TypeInv, TypeOK
        <5>2. CASE o # minted + 1
          <6>1. o \in 1 .. minted BY <3>0, <5>2, Counts
          <6>. QED BY <3>1, <3>6, <6>1, Homes DEF Grows
        <5>. QED BY <5>1, <5>2
      <4>. QED BY <4>1 DEF Housed
    <3>. QED BY <3>1, <3>7, <3>11, <3>12 DEF TypeInv
  <2>. QED BY <2>1, <2>2
<1>13. ASSUME NEW r \in Requests, Leave(r) PROVE TypeInv'
  <2>1. Goes(r, Idle) /\ UNCHANGED <<now, user, rows, home, bounds, watch>> BY <1>13 DEF Leave
  <2>2. Points' /\ req' \in [Requests -> Request]
    BY <1>a, <2>1, IdleSound, GoesOn DEF bounds, counts
  <2>. QED BY <1>0, <1>c, <2>1, <2>2, OnlyRequests DEF bounds, counts
<1>14. ASSUME NEW r \in Requests, Abandon(r) PROVE TypeInv'
  <2>1. Goes(r, Idle) /\ UNCHANGED <<now, user, rows, home, bounds, from, proven, handed, regressed>>
    BY <1>14 DEF Abandon
  <2>2. Points' /\ req' \in [Requests -> Request]
    BY <1>a, <2>1, IdleSound, GoesOn DEF bounds, counts
  <2>3. raced' \subseteq Ids BY <1>14 DEF Abandon, Spared, TypeInv, TypeOK
  <2>. QED BY <2>1, <2>2, <2>3, SameRows, RowsRevoked
<1>15. ASSUME NEW i \in Ids, Logout(i) PROVE TypeInv'
  <2>1. OnlyRevoked(rows') BY <1>15, Counts, RevokedRows DEF Logout, Revokes, OnlyRevoked
  <2>2. UNCHANGED <<now, user, home, req, bounds, watch>> BY <1>15 DEF Logout
  <2>3. raced' \subseteq Ids BY <2>2 DEF TypeInv, TypeOK, watch
  <2>. QED BY <1>a, <2>1, <2>2, <2>3, SamePoints, RowsRevoked DEF bounds, counts, watch
<1>16. CASE SignOutAll
  <2>1. OnlyRevoked(rows') BY <1>16, Counts, RevokedRows DEF SignOutAll, OnlyRevoked
  <2>2. UNCHANGED <<now, user, home, req, bounds, watch>> BY <1>16 DEF SignOutAll
  <2>3. raced' \subseteq Ids BY <2>2 DEF TypeInv, TypeOK, watch
  <2>. QED BY <1>a, <2>1, <2>2, <2>3, SamePoints, RowsRevoked DEF bounds, counts, watch
<1>17. CASE Tick
  <2>1. now' = now + 1 /\ now' \in Times /\ now <= now'
    BY <1>17, Counts, SessionsAssumption DEF Tick, Times
  <2>2. UNCHANGED <<user, rows, home, req, bounds, watch>> BY <1>17 DEF Tick
  <2>3. Grows BY <2>1, <2>2, Counts DEF Grows, bounds, counts
  <2>. QED BY <1>0, <2>1, <2>2, <2>3, SamePoints, OnlyRequests DEF bounds, counts
<1>18. CASE UNCHANGED vars
  <2>1. UNCHANGED <<now, user, rows, home, req, bounds, watch>> BY <1>18 DEF vars
  <2>. QED BY <1>0, <1>a, <1>c, <2>1, SamePoints, OnlyRequests DEF bounds, counts
<1>. QED
  BY <1>1, <1>2, <1>3, <1>4, <1>5, <1>6, <1>7, <1>8, <1>9, <1>10, <1>11, <1>12, <1>13, <1>14,
     <1>15, <1>16, <1>17, <1>18 DEF Next, Step

\* The types of the state of an account.
THEOREM TypeCorrect == Spec => []TypeOK
<1>1. Init => TypeInv BY InitTypes
<1>2. TypeInv /\ [Next]_vars => TypeInv' BY NextTypes
<1>3. TypeInv => TypeOK BY DEF TypeInv
<1>. QED BY <1>1, <1>2, <1>3, PTL DEF Spec

-----------------------------------------------------------------------------
(***************************************************************************)
(* What is revoked.                                                        *)
(***************************************************************************)

\* Every statement that writes a row asks that it is open, or makes a new one.
LEMMA RowsStep ==
  ASSUME TypeInv, [Next]_vars, NEW i \in Ids, rows[i] # None
  PROVE  /\ rows'[i] # None /\ rows'[i].issued = rows[i].issued
         /\ rows[i].revoked # 0 => rows'[i] = rows[i]
<1>. DEFINE Kept == /\ rows'[i] # None /\ rows'[i].issued = rows[i].issued
                    /\ rows[i].revoked # 0 => rows'[i] = rows[i]
<1>0. rows \in [Ids -> Row \cup {None}] /\ rows[i] \in Row /\ i <= made
  BY DEF TypeInv, TypeOK
<1>1. ASSUME OnlyRevoked(rows') PROVE Kept
  BY <1>1, RevokedRow DEF OnlyRevoked, Live
<1>2. CASE UNCHANGED rows BY <1>2
<1>3. ASSUME NEW r \in Requests, Insert(r) PROVE Kept
  <2>1. i # made + 1 BY <1>0, Counts DEF Ids
  <2>2. rows'[i] = rows[i] BY <1>0, <1>3, <2>1 DEF Insert
  <2>. QED BY <2>2
<1>4. ASSUME NEW r \in Requests, RevokeAll(r) PROVE Kept
  BY <1>1, <1>4, Counts, RevokedRows DEF RevokeAll, OnlyRevoked
<1>5. ASSUME NEW r \in Requests, Rotate(r) PROVE Kept
  <2>1. CASE ~Rotates(rows[req[r].session], req[r].secret) BY <1>5, <2>1 DEF Rotate
  <2>2. CASE Rotates(rows[req[r].session], req[r].secret)
    <3>. DEFINE o == req[r].session
    <3>1. rows' = [rows EXCEPT ![o].secret = minted + 1, ![o].expires = req[r].at + Ttl]
      BY <1>5, <2>2 DEF Rotate
    <3>2. rows[o].revoked = 0 BY <2>2 DEF Rotates
    <3>. HIDE DEF o
    <3>3. CASE i # o BY <1>0, <3>1, <3>3
    <3>4. CASE i = o
      <4>. DEFINE e == [rows[o] EXCEPT !.secret = minted + 1, !.expires = req[r].at + Ttl]
      <4>1. rows'[i] = e BY <1>0, <3>1, <3>4
      <4>2. e.issued = rows[o].issued BY <1>0, <3>4 DEF Row
      <4>3. rows'[i] # None BY <1>0, <1>5, NextTypes, <3>4 DEF TypeInv, TypeOK, Rotate
      <4>. QED BY <3>2, <3>4, <4>1, <4>2, <4>3
    <3>. QED BY <3>3, <3>4
  <2>. QED BY <2>1, <2>2
<1>6. ASSUME NEW o \in Ids, Logout(o) PROVE Kept
  BY <1>1, <1>6, Counts, RevokedRows DEF Logout, Revokes, OnlyRevoked
<1>7. CASE SignOutAll
  BY <1>1, <1>7, Counts, RevokedRows DEF SignOutAll, OnlyRevoked
<1>8. ASSUME NEW r \in Requests, Step(r), ~Insert(r), ~RevokeAll(r), ~Rotate(r) PROVE UNCHANGED rows
  BY <1>8 DEF Step, Login, Scope, Rehash, Change, Stamp, WriteUser, Present, ReadRow, ReadUser,
     Leave, Abandon
<1>. QED
  BY <1>2, <1>3, <1>4, <1>5, <1>6, <1>7, <1>8 DEF Next, Tick, vars

\* What is revoked stays as it was revoked, in every step of every request.
THEOREM RevokedIsFinal == Spec => RevokedStays
<1>1. Init => TypeInv BY InitTypes
<1>2. TypeInv /\ [Next]_vars => TypeInv' BY NextTypes
<1>3. TypeInv /\ [Next]_vars
        => (\A i \in Ids : rows[i] # None /\ rows[i].revoked # 0 => rows'[i] = rows[i])
  BY RowsStep
<1>. QED BY <1>1, <1>2, <1>3, PTL DEF Spec, RevokedStays

-----------------------------------------------------------------------------
(***************************************************************************)
(* A secret is exchanged once.                                             *)
(***************************************************************************)

\* No secret comes from one minted after it, and none of those to come is known.
Ancestry ==
  /\ \A k \in Secrets : k > minted => from[k] = 0
  /\ \A k \in 1 .. minted : from[k] < k

SecretInv == TypeInv /\ Ancestry /\ SecretSpentOnce

LEMMA SecretInit == Init => SecretInv
<1>. SUFFICES ASSUME Init PROVE SecretInv
  OBVIOUS
<1>1. TypeInv BY InitTypes
<1>2. Ancestry BY DEF Init, Ancestry
<1>3. SecretSpentOnce BY DEF Init, SecretSpentOnce
<1>. QED BY <1>1, <1>2, <1>3 DEF SecretInv

LEMMA SecretNext == ASSUME SecretInv, [Next]_vars PROVE SecretInv'
<1>0. TypeInv /\ TypeInv' BY NextTypes DEF SecretInv
<1>1. /\ rows \in [Ids -> Row \cup {None}] /\ home \in [Secrets -> Ids \cup {None}]
      /\ from \in [Secrets -> Secrets \cup {0}]
      /\ \A i \in 1 .. made : /\ i \in Ids /\ rows[i] \in Row /\ rows[i] # None
                              /\ rows[i].secret \in 1 .. minted /\ home[rows[i].secret] = i
      /\ minted \in Nat /\ made \in Nat /\ 1 .. minted \subseteq Secrets
  BY <1>0, Counts, SessionsAssumption, SMTT(30) DEF TypeInv, TypeOK, Ids, Secrets, Row
<1>2. ASSUME UNCHANGED <<made, minted, from>>, \A i \in 1 .. made : rows'[i].secret = rows[i].secret
      PROVE  SecretInv'
  BY <1>0, <1>2 DEF SecretInv, Ancestry, SecretSpentOnce
<1>3. CASE UNCHANGED <<made, minted, from, rows>> BY <1>2, <1>3
<1>4. ASSUME OnlyRevoked(rows'), UNCHANGED <<made, minted, from>> PROVE SecretInv'
  <2>1. \A i \in 1 .. made : rows'[i].secret = rows[i].secret
    BY <1>0, <1>1, <1>4, RevokedRow DEF OnlyRevoked
  <2>. QED BY <1>2, <1>4, <2>1
<1>5. ASSUME NEW r \in Requests, Insert(r) PROVE SecretInv'
  <2>1. /\ made' = made + 1 /\ minted' = minted + 1 /\ from' = from
        /\ made + 1 \in Ids /\ minted + 1 \in Secrets
        /\ rows' = [rows EXCEPT ![made + 1] = NewRow(req[r])]
        /\ NewRow(req[r]).secret = minted + 1
    BY <1>0, <1>5, Counts, SessionsAssumption DEF Insert, NewRow, Ids, Secrets
  <2>2. Ancestry'
    <3>1. from[minted + 1] = 0 BY <1>1, <2>1 DEF SecretInv, Ancestry
    <3>. QED BY <1>1, <2>1, <3>1 DEF SecretInv, Ancestry, Secrets
  <2>3. SecretSpentOnce'
    <3>1. from[minted + 1] = 0 BY <1>1, <2>1 DEF SecretInv, Ancestry
    <3>2. ASSUME NEW j \in 1 .. minted', NEW k \in 1 .. minted',
                 from'[j] = from'[k], from'[j] # 0
          PROVE  j = k
      BY <1>1, <2>1, <3>1, <3>2 DEF SecretInv, SecretSpentOnce
    <3>3. ASSUME NEW i \in 1 .. made', NEW k \in 1 .. minted'
          PROVE  from'[k] # rows'[i].secret
      <4>1. (k \in 1 .. minted /\ from[k] < k) \/ (k = minted + 1 /\ from[k] = 0)
        BY <1>1, <2>1, <3>1 DEF SecretInv, Ancestry
      <4>2. CASE i = made + 1
        <5>1. rows'[i].secret = minted + 1 BY <1>1, <2>1, <4>2
        <5>. QED BY <1>1, <2>1, <4>1, <5>1 DEF Secrets
      <4>3. CASE i # made + 1
        <5>1. i \in 1 .. made /\ rows'[i] = rows[i] BY <1>1, <2>1, <4>3
        <5>. QED BY <1>1, <2>1, <4>1, <5>1 DEF SecretInv, SecretSpentOnce
      <4>. QED BY <4>2, <4>3
    <3>. QED BY <3>2, <3>3 DEF SecretSpentOnce
  <2>. QED BY <1>0, <2>2, <2>3 DEF SecretInv
<1>6. ASSUME NEW r \in Requests, Rotate(r) PROVE SecretInv'
  <2>. DEFINE i == req[r].session
              s == req[r].secret
  <2>1. CASE ~Rotates(rows[i], s) BY <1>3, <1>6, <2>1 DEF Rotate
  <2>2. CASE Rotates(rows[i], s)
    <3>1. /\ i \in 1 .. made /\ s \in 1 .. minted /\ home[s] = i
          /\ minted' = minted + 1 /\ made' = made /\ minted + 1 \in Secrets
          /\ rows' = [rows EXCEPT ![i].secret = minted + 1, ![i].expires = req[r].at + Ttl]
          /\ from' = [from EXCEPT ![minted + 1] = s]
          /\ rows[i].secret = s
      BY <1>0, <1>6, <2>2, Counts, SessionsAssumption DEF Rotate, Rotates, Sound, Secrets
    <3>. HIDE DEF i, s
    <3>2. from'[minted + 1] = s /\ \A k \in 1 .. minted : from'[k] = from[k]
      BY <1>1, <3>1
    <3>3. \A k \in 1 .. minted : from[k] # s BY <3>1 DEF SecretInv, SecretSpentOnce
    <3>4. Ancestry' BY <1>1, <3>1, <3>2 DEF SecretInv, Ancestry, Secrets
    <3>5. ASSUME NEW j \in 1 .. minted', NEW k \in 1 .. minted',
                 from'[j] = from'[k], from'[j] # 0
          PROVE  j = k
      BY <1>1, <3>1, <3>2, <3>3, <3>5 DEF SecretInv, SecretSpentOnce
    <3>6. ASSUME NEW o \in 1 .. made', NEW k \in 1 .. minted'
          PROVE  from'[k] # rows'[o].secret
      <4>1. (k \in 1 .. minted /\ from'[k] = from[k] /\ from[k] < k)
            \/ (k = minted + 1 /\ from'[k] = s)
        BY <1>1, <3>1, <3>2 DEF SecretInv, Ancestry
      <4>4. from'[k] < minted + 1
        <5>1. k \in 1 .. minted => from[k] \in Nat BY <1>1 DEF Secrets
        <5>. QED BY <1>1, <3>1, <4>1, <5>1
      <4>2. CASE o = i
        <5>. DEFINE e == [rows[i] EXCEPT !.secret = minted + 1, !.expires = req[r].at + Ttl]
        <5>1. rows'[o] = e BY <1>1, <3>1, <4>2
        <5>2. e.secret = minted + 1 BY <1>1, <3>1 DEF Row
        <5>. QED BY <1>1, <4>4, <5>1, <5>2
      <4>3. CASE o # i
        <5>1. o \in 1 .. made /\ rows'[o] = rows[o] /\ home[rows[o].secret] = o
          BY <1>1, <3>1, <4>3
        <5>2. rows[o].secret # s BY <3>1, <4>3, <5>1
        <5>. QED BY <4>1, <5>1, <5>2 DEF SecretInv, SecretSpentOnce
      <4>. QED BY <4>2, <4>3
    <3>. QED BY <1>0, <3>4, <3>5, <3>6 DEF SecretInv, SecretSpentOnce
  <2>. QED BY <2>1, <2>2
<1>7. ASSUME NEW r \in Requests, RevokeAll(r) PROVE SecretInv'
  BY <1>0, <1>4, <1>7, Counts, RevokedRows DEF RevokeAll, OnlyRevoked, bounds, counts
<1>8. ASSUME NEW o \in Ids, Logout(o) PROVE SecretInv'
  BY <1>0, <1>4, <1>8, Counts, RevokedRows DEF Logout, Revokes, OnlyRevoked, bounds, counts, watch
<1>9. CASE SignOutAll
  BY <1>0, <1>4, <1>9, Counts, RevokedRows DEF SignOutAll, OnlyRevoked, bounds, counts, watch
<1>10. ASSUME NEW r \in Requests, Step(r), ~Insert(r), ~RevokeAll(r), ~Rotate(r)
       PROVE  UNCHANGED <<made, minted, from, rows>>
  BY <1>10 DEF Step, Login, Scope, Rehash, Change, Stamp, WriteUser, Present, ReadRow, ReadUser,
     Leave, Abandon, bounds, counts, watch
<1>. QED
  BY <1>3, <1>5, <1>6, <1>7, <1>8, <1>9, <1>10 DEF Next, Tick, vars, bounds, counts, watch

\* A refresh secret is exchanged at most once, whatever refreshes race with it.
THEOREM SecretIsSpent == Spec => []SecretSpentOnce
<1>1. Init => SecretInv BY SecretInit
<1>2. SecretInv /\ [Next]_vars => SecretInv' BY SecretNext
<1>3. SecretInv => SecretSpentOnce BY DEF SecretInv
<1>. QED BY <1>1, <1>2, <1>3, PTL DEF Spec

-----------------------------------------------------------------------------
(***************************************************************************)
(* What a step makes of the requests.                                      *)
(***************************************************************************)

Same(o) ==
  /\ req'[o].pc = req[o].pc /\ req'[o].kind = req[o].kind /\ req'[o].at = req[o].at
  /\ req'[o].session = req[o].session /\ req'[o].secret = req[o].secret
  /\ req'[o].password = req[o].password /\ req'[o].doomed = req[o].doomed
  /\ req[o].raced => req'[o].raced

\* A request r has read the user row.
Began(r, kind, pc, password) ==
  /\ req[r].pc = "idle" /\ UNCHANGED <<now, user, rows, home, made, minted, watch>>
  /\ req'[r].kind = kind /\ req'[r].pc = pc /\ req'[r].password = password
  /\ ~req'[r].doomed
  /\ IF kind = "login" THEN Changing # {} => req'[r].raced ELSE Proving # {} => req'[r].raced
  /\ \A o \in Requests \ {r} : Same(o) /\ (kind # "login" /\ o \in Proving => req'[o].raced)

\* A request r goes on as q.
Moves(r, q) ==
  /\ Goes(r, q) /\ q \in Request
  /\ \/ q = Idle
     \/ /\ req[r].pc # "idle" /\ q.pc \notin {"row", "in", "idle", "scope", "hash"}
        /\ q.kind = req[r].kind /\ q.raced = req[r].raced /\ q.password = req[r].password
        /\ q.doomed = req[r].doomed /\ q.session = req[r].session /\ q.secret = req[r].secret
     \/ /\ q.pc = "row" /\ q.kind = "present" /\ req[r].pc = "idle"
        /\ q.secret \in 1 .. minted /\ q.session = home[q.secret]
        /\ q.doomed = Over(q.session, q.secret)
     \/ /\ q.pc = "in" /\ q.kind = "present" /\ req[r].pc \in {"user", "rotate"}
        /\ q.doomed = req[r].doomed
  /\ q.pc = "insert" => req[r].pc = "scope" \/ (req[r].pc = "revoke" /\ req[r].kind = "change")
  /\ q.pc = "rehash" => req[r].pc = "insert" /\ req[r].kind = "login"
  /\ q.pc = "write" => req[r].pc = "hash" /\ q.at = now
  /\ q.pc = "revoke" => req[r].pc = "write" /\ q.at = req[r].at /\ WriteUser(r)
  /\ q.pc = "user" => req[r].pc = "row" /\ Passes(rows[req[r].session], req[r].secret)
  /\ q.pc = "rotate" => req[r].pc = "user"
  /\ req[r].pc = "user" /\ q # Idle => OutlivedChange(rows[req[r].session], user.changed)

LEMMA StartBegins ==
  ASSUME TypeInv, NEW r \in Requests, NEW kind \in {"login", "change", "reset"},
         NEW pc \in {"scope", "hash"}, NEW password \in Passwords, req[r].pc = "idle",
         UNCHANGED <<now, user, rows, home, made, minted, watch>>, Start(r, kind, pc, password)
  PROVE  Began(r, kind, pc, password)
<1>. DEFINE writes == kind # "login"
            flag == IF writes THEN Proving # {} ELSE Changing # {}
            q == [Idle EXCEPT !.kind = kind, !.pc = pc, !.password = password, !.raced = flag]
<1>1. flag \in BOOLEAN OBVIOUS
<1>2. Idle \in Request /\ Idle.doomed = FALSE BY IdleSound DEF Sound, Idle
<1>3. kind \in Kinds /\ pc \in Pcs BY DEF Kinds, Pcs
<1>4. req'[r] = q BY DEF Start
<1>. HIDE DEF flag
<1>5. q.kind = kind /\ q.pc = pc /\ q.password = password /\ ~q.doomed /\ q.raced = flag
  BY <1>1, <1>2, <1>3 DEF Request
<1>. HIDE DEF q
<1>6. IF kind = "login" THEN Changing # {} => req'[r].raced ELSE Proving # {} => req'[r].raced
  BY <1>4, <1>5 DEF flag
<1>7. ASSUME NEW o \in Requests \ {r}
      PROVE  Same(o) /\ (kind # "login" /\ o \in Proving => req'[o].raced)
  <2>. DEFINE b == req[o].raced \/ (writes /\ o \in Proving)
  <2>1. req'[o] = [req[o] EXCEPT !.raced = b] BY DEF Start
  <2>2. b \in BOOLEAN OBVIOUS
  <2>3. req[o] \in Request BY Counts
  <2>. HIDE DEF b
  <2>4. /\ req'[o].pc = req[o].pc /\ req'[o].kind = req[o].kind /\ req'[o].at = req[o].at
        /\ req'[o].session = req[o].session /\ req'[o].secret = req[o].secret
        /\ req'[o].password = req[o].password /\ req'[o].doomed = req[o].doomed
        /\ req'[o].raced = b
    BY <2>1, <2>2, <2>3 DEF Request
  <2>. QED BY <2>4 DEF Same, b
<1>. QED BY <1>4, <1>5, <1>6, <1>7 DEF Began

LEMMA ChangeBegins ==
  ASSUME TypeInv, NEW r \in Requests, NEW kind \in {"change", "reset"}, Change(r, kind)
  PROVE  Began(r, kind, "hash", chosen + 1)
<1>1. chosen + 1 \in Passwords BY Counts, SessionsAssumption DEF Change, Passwords
<1>. QED BY <1>1, StartBegins DEF Change, Begin

LEMMA AdmittedIs ==
  ASSUME TypeInv, NEW r \in Requests
  PROVE  LET q == Admitted(req[r])
         IN  q \in Request /\ q.pc = "in" /\ q.kind = "present" /\ q.doomed = req[r].doomed
<1>1. Idle \in Request /\ Idle.kind = "present" /\ req[r] \in Request
  BY IdleSound, Counts DEF Sound, Idle
<1>. QED BY <1>1 DEF Admitted, Request, Pcs

LEMMA IdleIs == Idle \in Request /\ Idle.pc = "idle" /\ Idle.kind = "present" /\ ~Idle.doomed
BY IdleSound DEF Sound, Idle

LEMMA Ends == ASSUME NEW r \in Requests, Goes(r, Idle) PROVE Moves(r, Idle)
BY IdleIs DEF Moves

LEMMA StepShape ==
  ASSUME TypeInv, NEW r \in Requests, Step(r)
  PROVE  \/ \E password \in Passwords : Login(r) /\ password = user.password
                                         /\ Began(r, "login", "scope", password)
         \/ \E kind \in {"change", "reset"} : Change(r, kind) /\ Began(r, kind, "hash", chosen + 1)
         \/ \E q : Moves(r, q)
<1>0. now \in 0 .. MaxTime /\ req[r] \in Request /\ Sound(req[r], now, made, minted, home)
  BY Counts
<1>1. CASE Login(r)
  <2>1. user.password \in Passwords BY Counts DEF User
  <2>. QED BY <1>1, <2>1, StartBegins DEF Login, Begin, counts
<1>2. ASSUME NEW kind \in {"change", "reset"}, Change(r, kind)
      PROVE  Began(r, kind, "hash", chosen + 1)
  BY <1>2, ChangeBegins
<1>3. CASE Scope(r)
  <2>. DEFINE q == [req[r] EXCEPT !.pc = "insert", !.at = now]
  <2>1. req[r].pc = "scope" /\ Goes(r, q) BY <1>3 DEF Scope, Goes
  <2>2. "insert" \in Pcs BY DEF Pcs
  <2>3. /\ q \in Request /\ q.pc = "insert" /\ q.at = now
        /\ q.kind = req[r].kind /\ q.raced = req[r].raced /\ q.password = req[r].password
        /\ q.doomed = req[r].doomed /\ q.session = req[r].session /\ q.secret = req[r].secret
    BY <1>0, <2>2 DEF Request
  <2>. HIDE DEF q
  <2>4. Moves(r, q) BY <1>0, <2>1, <2>2, <2>3 DEF Moves
  <2>. QED BY <2>4
<1>4. CASE Insert(r)
  <2>1. CASE req' = [req EXCEPT ![r] = Idle] BY <2>1, Ends DEF Goes
  <2>2. CASE req[r].kind = "login" /\ req' = [req EXCEPT ![r].pc = "rehash", ![r].at = 0]
    <3>. DEFINE q == [req[r] EXCEPT !.pc = "rehash", !.at = 0]
    <3>1. req[r].pc = "insert" /\ Goes(r, q) BY <1>4, <2>2 DEF Insert, Goes
    <3>2. "rehash" \in Pcs /\ 0 \in 0 .. MaxTime BY Counts DEF Pcs
    <3>3. /\ q \in Request /\ q.pc = "rehash" /\ q.at = 0
          /\ q.kind = req[r].kind /\ q.raced = req[r].raced /\ q.password = req[r].password
          /\ q.doomed = req[r].doomed /\ q.session = req[r].session /\ q.secret = req[r].secret
      BY <1>0, <3>2 DEF Request
    <3>. HIDE DEF q
    <3>4. Moves(r, q) BY <2>2, <3>1, <3>2, <3>3 DEF Moves
    <3>. QED BY <3>4
  <2>. QED BY <1>4, <2>1, <2>2 DEF Insert
<1>5. CASE Rehash(r) BY <1>5, Ends DEF Rehash, Goes
<1>6. CASE Stamp(r)
  <2>. DEFINE q == [req[r] EXCEPT !.pc = "write", !.at = now]
  <2>1. req[r].pc = "hash" /\ Goes(r, q) BY <1>6 DEF Stamp, Goes
  <2>2. "write" \in Pcs BY DEF Pcs
  <2>3. /\ q \in Request /\ q.pc = "write" /\ q.at = now
        /\ q.kind = req[r].kind /\ q.raced = req[r].raced /\ q.password = req[r].password
        /\ q.doomed = req[r].doomed /\ q.session = req[r].session /\ q.secret = req[r].secret
    BY <1>0, <2>2 DEF Request
  <2>. HIDE DEF q
  <2>4. Moves(r, q) BY <1>0, <2>1, <2>2, <2>3 DEF Moves
  <2>. QED BY <2>4
<1>7. CASE WriteUser(r)
  <2>. DEFINE q == [req[r] EXCEPT !.pc = "revoke"]
  <2>1. req[r].pc = "write" /\ Goes(r, q) BY <1>7 DEF WriteUser, Goes
  <2>2. /\ q \in Request /\ q.pc = "revoke" /\ q.at = req[r].at
        /\ q.kind = req[r].kind /\ q.raced = req[r].raced /\ q.password = req[r].password
        /\ q.doomed = req[r].doomed /\ q.session = req[r].session /\ q.secret = req[r].secret
    BY <1>0 DEF Request, Pcs
  <2>3. Moves(r, q) BY <1>7, <2>1, <2>2 DEF Moves
  <2>. QED BY <2>3
<1>8. CASE RevokeAll(r)
  <2>1. CASE req[r].kind = "change"
    <3>. DEFINE q == [req[r] EXCEPT !.pc = "insert", !.at = now]
    <3>1. req[r].pc = "revoke" /\ Goes(r, q) BY <1>8, <2>1 DEF RevokeAll, Goes
    <3>2. "insert" \in Pcs BY DEF Pcs
    <3>3. /\ q \in Request /\ q.pc = "insert" /\ q.at = now
          /\ q.kind = req[r].kind /\ q.raced = req[r].raced /\ q.password = req[r].password
          /\ q.doomed = req[r].doomed /\ q.session = req[r].session /\ q.secret = req[r].secret
      BY <1>0, <3>2 DEF Request
    <3>. HIDE DEF q
    <3>4. Moves(r, q) BY <1>0, <2>1, <3>1, <3>2, <3>3 DEF Moves
    <3>. QED BY <3>4
  <2>2. CASE req[r].kind # "change"
    <3>1. Goes(r, Idle) BY <1>8, <2>2 DEF RevokeAll, Goes
    <3>. QED BY <3>1, Ends
  <2>. QED BY <2>1, <2>2
<1>9. ASSUME NEW k \in 1 .. minted, Present(r, k) PROVE \E q : Moves(r, q)
  <2>. DEFINE over == Over(home[k], k)
              q == [Idle EXCEPT !.pc = "row", !.session = home[k], !.secret = k, !.doomed = over]
  <2>1. k \in Secrets /\ home[k] \in Ids BY Homes
  <2>2. over \in BOOLEAN BY DEF Over
  <2>3. req[r].pc = "idle" /\ Goes(r, q) BY <1>9 DEF Present, Begin, Goes
  <2>. HIDE DEF over
  <2>4. /\ q \in Request /\ q.pc = "row" /\ q.kind = "present"
        /\ q.session = home[k] /\ q.secret = k /\ q.doomed = over
    BY <2>1, <2>2, IdleIs DEF Request, Pcs
  <2>. HIDE DEF q
  <2>5. q.doomed = Over(q.session, q.secret) BY <2>4 DEF over
  <2>6. Moves(r, q) BY <2>3, <2>4, <2>5 DEF Moves
  <2>. QED BY <2>6
<1>10. CASE ReadRow(r)
  <2>1. CASE Passes(rows[req[r].session], req[r].secret)
    <3>. DEFINE q == [req[r] EXCEPT !.pc = "user"]
    <3>1. req[r].pc = "row" /\ Goes(r, q) BY <1>10, <2>1 DEF ReadRow, Goes
    <3>2. /\ q \in Request /\ q.pc = "user"
          /\ q.kind = req[r].kind /\ q.raced = req[r].raced /\ q.password = req[r].password
          /\ q.doomed = req[r].doomed /\ q.session = req[r].session /\ q.secret = req[r].secret
      BY <1>0 DEF Request, Pcs
    <3>3. Moves(r, q) BY <2>1, <3>1, <3>2 DEF Moves
    <3>. QED BY <3>3
  <2>2. CASE ~Passes(rows[req[r].session], req[r].secret)
    <3>1. Goes(r, Idle) BY <1>10, <2>2 DEF ReadRow, Goes
    <3>. QED BY <3>1, Ends
  <2>. QED BY <2>1, <2>2
<1>11. CASE ReadUser(r)
  <2>1. CASE ~OutlivedChange(rows[req[r].session], user.changed)
    <3>1. Goes(r, Idle) BY <1>11, <2>1 DEF ReadUser, Goes
    <3>. QED BY <3>1, Ends
  <2>2. CASE /\ OutlivedChange(rows[req[r].session], user.changed)
             /\ req' = [req EXCEPT ![r] = Admitted(req[r])]
    <3>1. Moves(r, Admitted(req[r])) BY <1>11, <2>2, AdmittedIs DEF Moves, ReadUser, Goes
    <3>. QED BY <3>1
  <2>3. CASE /\ OutlivedChange(rows[req[r].session], user.changed)
             /\ req' = [req EXCEPT ![r].pc = "rotate", ![r].at = now]
    <3>. DEFINE q == [req[r] EXCEPT !.pc = "rotate", !.at = now]
    <3>1. req[r].pc = "user" /\ Goes(r, q) BY <1>11, <2>3 DEF ReadUser, Goes
    <3>2. "rotate" \in Pcs BY DEF Pcs
    <3>3. /\ q \in Request /\ q.pc = "rotate" /\ q.at = now
          /\ q.kind = req[r].kind /\ q.raced = req[r].raced /\ q.password = req[r].password
          /\ q.doomed = req[r].doomed /\ q.session = req[r].session /\ q.secret = req[r].secret
      BY <1>0, <3>2 DEF Request
    <3>. HIDE DEF q
    <3>4. Moves(r, q) BY <1>0, <2>3, <3>1, <3>2, <3>3 DEF Moves
    <3>. QED BY <3>4
  <2>. QED BY <1>11, <2>1, <2>2, <2>3 DEF ReadUser
<1>12. CASE Rotate(r)
  <2>1. CASE Rotates(rows[req[r].session], req[r].secret)
    <3>1. Moves(r, Admitted(req[r])) BY <1>12, <2>1, AdmittedIs DEF Moves, Rotate, Goes
    <3>. QED BY <3>1
  <2>2. CASE ~Rotates(rows[req[r].session], req[r].secret)
    <3>1. Goes(r, Idle) BY <1>12, <2>2 DEF Rotate, Goes
    <3>. QED BY <3>1, Ends
  <2>. QED BY <2>1, <2>2
<1>13. CASE Leave(r) BY <1>13, Ends DEF Leave, Goes
<1>14. CASE Abandon(r) BY <1>14, Ends DEF Abandon, Goes
<1>. QED
  BY <1>1, <1>2, <1>3, <1>4, <1>5, <1>6, <1>7, <1>8, <1>9, <1>10, <1>11, <1>12, <1>13, <1>14
  DEF Step, Login

-----------------------------------------------------------------------------
(***************************************************************************)
(* Changes beside each other.                                              *)
(***************************************************************************)

\* Whoever is on the way beside a change knows: it is raced.
Beside == \A r \in Changing, s \in Proving : r # s => req[s].raced

\* The date a change is about to store is no older than the one stored.
Late == \A r \in Requests :
          req[r].pc = "write" /\ ~req[r].raced /\ ~regressed => req[r].at >= user.changed

LEMMA BesideNext == ASSUME TypeInv, [Next]_vars, Beside PROVE Beside'
<1>1. CASE UNCHANGED req BY <1>1 DEF Beside, Changing, Proving
<1>2. ASSUME NEW r \in Requests, NEW q, Moves(r, q) PROVE Beside'
  <2>0. /\ req'[r] = q /\ \A o \in Requests : o # r => req'[o] = req[o]
        /\ q.pc = "idle" \/ q.kind = "present"
             \/ (req[r].pc # "idle" /\ q.kind = req[r].kind /\ q.raced = req[r].raced)
    BY <1>2, IdleIs DEF Moves, Goes, TypeInv, TypeOK
  <2>1. Changing' \subseteq Changing
    BY <2>0 DEF Changing
  <2>2. Proving' \subseteq Proving /\ \A o \in Proving' : req'[o].raced = req[o].raced
    BY <2>0 DEF Changing, Proving
  <2>. QED BY <2>1, <2>2 DEF Beside
<1>3. ASSUME NEW r \in Requests, NEW kind \in {"login", "change", "reset"}, NEW pc, NEW password,
             Began(r, kind, pc, password)
      PROVE  Beside'
  <2>. SUFFICES ASSUME NEW a \in Changing', NEW b \in Proving', a # b PROVE req'[b].raced
    BY DEF Beside
  <2>1. \A o \in Requests : o # r => /\ o \in Changing' => o \in Changing
                                     /\ o \in Proving' => o \in Proving
    BY <1>3 DEF Began, Same, Changing, Proving
  <2>2. a \in Requests /\ b \in Requests BY DEF Changing, Proving
  <2>3. CASE b = r
    <3>1. a \in Changing /\ a \in Proving BY <2>1, <2>2, <2>3 DEF Proving
    <3>. QED BY <1>3, <2>3, <3>1 DEF Began
  <2>4. CASE b # r /\ a = r
    <3>1. kind # "login" BY <1>3, <2>4 DEF Began, Changing
    <3>. QED BY <1>3, <2>1, <2>2, <2>4, <3>1 DEF Began
  <2>5. CASE b # r /\ a # r
    <3>1. req[b].raced BY <2>1, <2>2, <2>5 DEF Beside
    <3>. QED BY <1>3, <2>2, <2>5, <3>1 DEF Began, Same
  <2>. QED BY <2>3, <2>4, <2>5
<1>. QED
  BY <1>1, <1>2, <1>3, StepShape DEF Next, Logout, SignOutAll, Tick, vars

\* The user row is written by a change and by a hash stored again; unless that ran
\* beside a change, the date does not go back.
LEMMA UserStep ==
  ASSUME TypeInv, [Next]_vars, ~regressed'
  PROVE  /\ ~regressed
         /\ \/ UNCHANGED user
            \/ \E r \in Requests : WriteUser(r) /\ ~req[r].raced
            \/ \E r \in Requests : Rehash(r) /\ ~req[r].raced
<1>1. ASSUME NEW r \in Requests, Step(r), ~WriteUser(r), ~Rehash(r)
      PROVE  UNCHANGED <<user, regressed>>
  BY <1>1 DEF Step, Login, Scope, Insert, Change, Stamp, RevokeAll, Present, ReadRow, ReadUser,
     Rotate, Leave, Abandon, watch
<1>2. ASSUME NEW r \in Requests, WriteUser(r) PROVE ~regressed /\ ~req[r].raced
  BY <1>2 DEF WriteUser
<1>3. ASSUME NEW r \in Requests, Rehash(r) PROVE ~regressed /\ ~req[r].raced
  BY <1>3 DEF Rehash
<1>. QED
  BY <1>1, <1>2, <1>3 DEF Next, Logout, SignOutAll, Tick, vars, watch

LEMMA ChangedGrows ==
  ASSUME TypeInv, [Next]_vars, Late, ~regressed'
  PROVE  ~regressed /\ user'.changed >= user.changed
<1>1. ~regressed BY UserStep
<1>2. CASE UNCHANGED user BY <1>1, <1>2, Counts
<1>3. ASSUME NEW r \in Requests, WriteUser(r), ~req[r].raced
      PROVE  user'.changed >= user.changed
  BY <1>1, <1>3 DEF WriteUser, NewUser, Late
<1>4. ASSUME NEW r \in Requests, Rehash(r)
      PROVE  user'.changed >= user.changed
  <2>1. user'.changed = user.changed BY <1>4, Counts DEF Rehash, User
  <2>. QED BY <2>1, Counts
<1>. QED BY <1>1, <1>2, <1>3, <1>4, UserStep

LEMMA Written ==
  ASSUME TypeInv, NEW o \in Requests, WriteUser(o)
  PROVE  req[o].pc = "write" /\ req'[o].pc = "revoke"
<1>. DEFINE q == [req[o] EXCEPT !.pc = "revoke"]
<1>1. req[o].pc = "write" /\ req'[o] = q /\ req[o] \in Request
  BY Counts DEF WriteUser, TypeInv, TypeOK
<1>2. q.pc = "revoke" BY <1>1 DEF Request
<1>. QED BY <1>1, <1>2

\* Whoever writes the user row moves on.
LEMMA WritersMove ==
  ASSUME TypeInv, NEW o \in Requests, WriteUser(o) \/ Rehash(o)
  PROVE  req'[o] # req[o]
<1>1. CASE WriteUser(o) BY <1>1, Written
<1>2. CASE Rehash(o) BY <1>2, IdleIs DEF Rehash, TypeInv, TypeOK
<1>. QED BY <1>1, <1>2

LEMMA LateNext == ASSUME TypeInv, Beside, Late, [Next]_vars PROVE Late'
<1>. SUFFICES ASSUME NEW s \in Requests, req'[s].pc = "write", ~req'[s].raced, ~regressed'
              PROVE  req'[s].at >= user'.changed
  BY DEF Late
<1>0. ~regressed BY UserStep
<1>1. CASE UNCHANGED req
  <2>1. UNCHANGED user \/ \E r \in Requests : WriteUser(r) \/ Rehash(r) BY UserStep
  <2>. QED BY <1>0, <1>1, <2>1, WritersMove DEF Late
<1>2. ASSUME NEW r \in Requests, NEW kind \in {"login", "change", "reset"}, NEW pc \in {"scope", "hash"},
             NEW password, Began(r, kind, pc, password)
      PROVE  req'[s].at >= user'.changed
  <2>1. s # r BY <1>2 DEF Began
  <2>2. req[s].pc = "write" /\ ~req[s].raced /\ req'[s].at = req[s].at /\ user' = user
    BY <1>2, <2>1 DEF Began, Same
  <2>. QED BY <1>0, <2>2 DEF Late
<1>3. ASSUME NEW r \in Requests, NEW q, Moves(r, q), Step(r)
      PROVE  req'[s].at >= user'.changed
  <2>0. req'[r] = q /\ \A o \in Requests : o # r => req'[o] = req[o]
    BY <1>3 DEF Moves, Goes, TypeInv, TypeOK
  <2>1. CASE s = r
    <3>1. req[r].pc = "hash" /\ req'[r].at = now BY <1>3, <2>0, <2>1 DEF Moves
    <3>2. user' = user \/ \E o \in Requests : WriteUser(o) \/ Rehash(o) BY UserStep
    <3>3. ASSUME NEW o \in Requests, WriteUser(o) \/ Rehash(o) PROVE FALSE
      <4>1. o = r BY <2>0, <3>3, WritersMove
      <4>. QED BY <3>1, <3>3, <4>1 DEF WriteUser, Rehash
    <3>. QED BY <2>1, <3>1, <3>2, <3>3, Counts DEF TypeInv
  <2>2. CASE s # r
    <3>0. req'[s] = req[s] BY <2>0, <2>2
    <3>1. s \in Changing
      <4>1. req[s].kind \in {"change", "reset"} BY <3>0, Counts DEF Sound
      <4>. QED BY <3>0, <4>1 DEF Changing
    <3>2. CASE UNCHANGED user BY <1>0, <3>0, <3>2 DEF Late
    <3>3. ASSUME NEW o \in Requests, WriteUser(o), o # s PROVE FALSE
      <4>1. req[o].kind \in {"change", "reset"} BY <3>3, Counts DEF Sound, WriteUser
      <4>2. o \in Changing BY <3>3, <4>1 DEF Changing, WriteUser
      <4>. QED BY <3>0, <3>1, <3>3, <4>2 DEF Beside, Proving
    <3>4. ASSUME NEW o \in Requests, Rehash(o) PROVE user'.changed = user.changed
      BY <3>4, Counts DEF Rehash, User
    <3>5. ~WriteUser(s) BY <3>0, WritersMove
    <3>6. user'.changed = user.changed BY <3>2, <3>3, <3>4, <3>5, UserStep
    <3>. QED BY <1>0, <3>0, <3>6 DEF Late
  <2>. QED BY <2>1, <2>2
<1>. QED BY <1>1, <1>2, <1>3, StepShape DEF Next, Logout, SignOutAll, Tick, vars

-----------------------------------------------------------------------------
(***************************************************************************)
(* What is over.                                                           *)
(***************************************************************************)

\* The session is over for good: only its age asks whether a request that read
\* the row in time is still on its way.
LEMMA OverStays ==
  ASSUME TypeInv, [Next]_vars, NEW k \in 1 .. minted, NEW i, i = home[k], Over(i, k),
         user'.changed >= user.changed
  PROVE  Over(i, k)'
<1>0. /\ i \in Ids /\ i \in 1 .. made /\ k \in Secrets /\ rows[i] \in Row /\ rows[i] # None
      /\ rows \in [Ids -> Row \cup {None}] /\ now \in Nat /\ user'.changed \in Nat
      /\ k \in Nat /\ k <= minted
  BY Homes, NextTypes, Counts, SessionsAssumption DEF TypeInv, TypeOK, User
<1>1. home'[k] = home[k] /\ now' >= now
  <2>1. ASSUME NEW r \in Requests, Insert(r) \/ Rotate(r) PROVE home'[k] = home[k]
    BY <1>0, <2>1, Counts DEF Insert, Rotate, TypeInv, TypeOK
  <2>2. ASSUME NEW r \in Requests, Step(r), ~Insert(r), ~Rotate(r) PROVE home' = home
    BY <2>2 DEF Step, Login, Scope, Rehash, Change, Stamp, WriteUser, RevokeAll, Present, ReadRow,
       ReadUser, Leave, Abandon
  <2>3. ASSUME NEW r \in Requests, Step(r) PROVE now' = now
    BY <2>3 DEF Step, Login, Scope, Insert, Rehash, Change, Stamp, WriteUser, RevokeAll, Present,
       ReadRow, ReadUser, Rotate, Leave, Abandon
  <2>. QED BY <1>0, <2>1, <2>2, <2>3 DEF Next, Logout, SignOutAll, Tick, vars
<1>2. rows'[i] # None /\ rows'[i].issued = rows[i].issued
      /\ (rows[i].revoked # 0 => rows'[i] = rows[i])
  BY <1>0, RowsStep
<1>4. \/ rows'[i].secret = rows[i].secret /\ rows'[i].expires = rows[i].expires
      \/ \E r \in Requests : /\ Rotate(r) /\ req[r].session = i /\ req[r].secret = rows[i].secret
                             /\ rows'[i].secret = minted + 1
  <2>. DEFINE Kept == rows'[i].secret = rows[i].secret /\ rows'[i].expires = rows[i].expires
  <2>1. CASE UNCHANGED rows BY <2>1
  <2>2. ASSUME OnlyRevoked(rows') PROVE Kept BY <1>0, <2>2, RevokedRow DEF OnlyRevoked
  <2>3. ASSUME NEW r \in Requests, Insert(r) PROVE Kept
    <3>1. i # made + 1 BY <1>0, Counts
    <3>. QED BY <1>0, <2>3, <3>1 DEF Insert
  <2>4. ASSUME NEW r \in Requests, RevokeAll(r) PROVE Kept
    BY <2>2, <2>4, Counts, RevokedRows DEF RevokeAll, OnlyRevoked
  <2>5. ASSUME NEW o \in Ids, Logout(o) PROVE Kept
    BY <2>2, <2>5, Counts, RevokedRows DEF Logout, Revokes, OnlyRevoked
  <2>6. CASE SignOutAll BY <2>2, <2>6, Counts, RevokedRows DEF SignOutAll, OnlyRevoked
  <2>7. ASSUME NEW r \in Requests, Rotate(r), rows' # rows
        PROVE  Kept \/ (req[r].session = i /\ req[r].secret = rows[i].secret
                        /\ rows'[i].secret = minted + 1)
    <3>. DEFINE o == req[r].session
                e == [rows[o] EXCEPT !.secret = minted + 1, !.expires = req[r].at + Ttl]
    <3>1. rows' = [rows EXCEPT ![o] = e] /\ rows[o].secret = req[r].secret
      BY <2>7 DEF Rotate, Rotates
    <3>2. CASE o = i
      <4>1. e.secret = minted + 1 BY <1>0, <3>2 DEF Row
      <4>. QED BY <1>0, <3>1, <3>2, <4>1
    <3>3. CASE o # i BY <1>0, <3>1, <3>3
    <3>. QED BY <3>2, <3>3
  <2>8. ASSUME NEW r \in Requests, Step(r), ~Insert(r), ~RevokeAll(r), ~Rotate(r) PROVE UNCHANGED rows
    BY <2>8 DEF Step, Login, Scope, Rehash, Change, Stamp, WriteUser, Present, ReadRow, ReadUser,
       Leave, Abandon
  <2>. QED
    BY <2>1, <2>3, <2>4, <2>5, <2>6, <2>7, <2>8 DEF Next, Tick, vars
<1>5. CASE ~Live(i) BY <1>0, <1>2, <1>5 DEF Over, Live
<1>6. CASE rows[i].secret # k
  <2>1. rows'[i].secret # k BY <1>0, <1>4, <1>6, Counts
  <2>. QED BY <2>1 DEF Over
<1>7. CASE ~OutlivedChange(rows[i], user.changed)
  <2>1. rows[i].issued \in Nat BY <1>0 DEF Row, Times
  <2>2. ~OutlivedChange(rows'[i], user'.changed)
    BY <1>0, <1>2, <1>7, <2>1, Counts DEF OutlivedChange
  <2>. QED BY <2>2 DEF Over
<1>8. CASE /\ rows[i].expires <= now /\ rows[i].secret = k
           /\ ~\E r \in Requests : req[r].pc \in {"user", "rotate"} /\ req[r].session = i
  <2>1. rows'[i].secret = rows[i].secret /\ rows'[i].expires = rows[i].expires
    BY <1>4, <1>8 DEF Rotate
  <2>2. rows'[i].expires <= now'
    <3>1. rows[i].expires \in Nat /\ now' \in Nat
      BY <1>0, NextTypes DEF Row, TypeInv, TypeOK, Times
    <3>. QED BY <1>0, <1>1, <1>8, <2>1, <3>1
  <2>3. ASSUME NEW s \in Requests, req'[s].pc \in {"user", "rotate"}, req'[s].session = i PROVE FALSE
    <3>1. ~(req[s].pc \in {"user", "rotate"} /\ req[s].session = i) BY <1>8
    <3>2. CASE UNCHANGED req BY <2>3, <3>1, <3>2
    <3>3. ASSUME NEW r \in Requests, NEW kind, NEW pc \in {"scope", "hash"}, NEW password,
                 Began(r, kind, pc, password)
          PROVE  FALSE
      BY <2>3, <3>1, <3>3 DEF Began, Same
    <3>4. ASSUME NEW r \in Requests, NEW q, Moves(r, q) PROVE FALSE
      <4>1. req'[r] = q /\ \A o \in Requests : o # r => req'[o] = req[o]
        BY <3>4 DEF Moves, Goes, TypeInv, TypeOK
      <4>2. s = r BY <2>3, <3>1, <4>1
      <4>3. q.session = req[r].session /\ (q.pc = "rotate" => req[r].pc = "user")
            /\ (q.pc = "user" => req[r].pc = "row" /\ Passes(rows[i], req[r].secret))
        BY <2>3, <3>4, <4>1, <4>2, IdleIs DEF Moves
      <4>4. q.pc = "user" /\ rows[i].expires > now BY <2>3, <3>1, <4>1, <4>2, <4>3 DEF Passes
      <4>5. rows[i].expires \in Nat BY <1>0 DEF Row
      <4>. QED BY <1>0, <1>8, <4>4, <4>5
    <3>. QED BY <3>2, <3>3, <3>4, StepShape DEF Next, Logout, SignOutAll, Tick, vars
  <2>. QED BY <2>2, <2>3 DEF Over
<1>. QED BY <1>5, <1>6, <1>7, <1>8 DEF Over

\* What a request that came in when its session was over has still to meet.
Doom == \A r \in Requests : req[r].doomed /\ ~regressed =>
  /\ req[r].pc \notin {"rotate", "in"}
  /\ req[r].pc = "row" => Over(req[r].session, req[r].secret)
  /\ req[r].pc = "user" => ~OutlivedChange(rows[req[r].session], user.changed)

LEMMA DoomNext == ASSUME TypeInv, Late, Doom, [Next]_vars PROVE Doom'
<1>. SUFFICES ASSUME NEW s \in Requests, req'[s].doomed, ~regressed'
              PROVE  /\ req'[s].pc \notin {"rotate", "in"}
                     /\ req'[s].pc = "row" => Over(req[s].session, req[s].secret)'
                     /\ req'[s].pc = "user"
                          => ~OutlivedChange(rows'[req'[s].session], user'.changed)
  BY DEF Doom
<1>0. ~regressed /\ user'.changed >= user.changed BY ChangedGrows
<1>1. Sound(req[s], now, made, minted, home) BY Counts
<1>2. ASSUME Same(s) PROVE \/ req'[s].pc \notin {"row", "user", "rotate", "in"}
                           \/ /\ req'[s].pc = "row" /\ Over(req[s].session, req[s].secret)'
                           \/ /\ req'[s].pc = "user"
                              /\ ~OutlivedChange(rows'[req'[s].session], user'.changed)
  <2>1. req[s].doomed /\ req[s].pc \notin {"rotate", "in"} BY <1>0, <1>2 DEF Same, Doom
  <2>2. CASE req[s].pc = "row"
    <3>1. req[s].secret \in 1 .. minted /\ home[req[s].secret] = req[s].session
      BY <1>1, <2>2 DEF Sound
    <3>2. PICK i, k : i = req[s].session /\ k = req[s].secret
      OBVIOUS
    <3>3. k \in 1 .. minted /\ home[k] = i /\ Over(i, k)
      BY <1>0, <2>1, <2>2, <3>1, <3>2 DEF Doom
    <3>4. Over(i, k)' BY <1>0, <3>3, OverStays
    <3>5. req'[s].session = i /\ req'[s].secret = k /\ req'[s].pc = "row"
      BY <1>2, <2>2, <3>2 DEF Same
    <3>6. Over(req[s].session, req[s].secret)' BY <3>4, <3>5 DEF Over, Live
    <3>. QED BY <3>5, <3>6
  <2>3. CASE req[s].pc = "user"
    <3>1. req[s].session \in Ids /\ rows[req[s].session] # None /\ rows[req[s].session] \in Row
      BY <1>1, <2>3, Counts, SessionsAssumption DEF Sound, TypeInv, TypeOK, Ids
    <3>2. rows'[req[s].session].issued = rows[req[s].session].issued BY <3>1, RowsStep
    <3>3. rows[req[s].session].issued \in Nat /\ user'.changed \in Nat
      BY <3>1, NextTypes, Counts DEF Row, Times, TypeInv, TypeOK, User
    <3>4. ~OutlivedChange(rows[req[s].session], user.changed) BY <1>0, <2>1, <2>3 DEF Doom
    <3>5. ~OutlivedChange(rows'[req[s].session], user'.changed)
      BY <1>0, <3>2, <3>3, <3>4, Counts DEF OutlivedChange
    <3>. QED BY <1>2, <2>3, <3>5 DEF Same
  <2>4. CASE req[s].pc \notin {"row", "user"} BY <1>2, <2>1, <2>4 DEF Same
  <2>. QED BY <2>2, <2>3, <2>4
<1>3. CASE UNCHANGED req BY <1>2, <1>3 DEF Same
<1>4. ASSUME NEW r \in Requests, NEW kind, NEW pc, NEW password, Began(r, kind, pc, password)
      PROVE  Same(s)
  BY <1>4 DEF Began
<1>5. ASSUME NEW r \in Requests, NEW q, Moves(r, q)
      PROVE  /\ req'[s].pc \notin {"rotate", "in"}
             /\ req'[s].pc = "row" => Over(req[s].session, req[s].secret)'
             /\ req'[s].pc = "user" => ~OutlivedChange(rows'[req'[s].session], user'.changed)
  <2>0. req'[r] = q /\ \A o \in Requests : o # r => req'[o] = req[o]
    BY <1>5 DEF Moves, Goes, TypeInv, TypeOK
  <2>1. CASE s # r BY <1>2, <2>0, <2>1 DEF Same
  <2>2. CASE s = r
    <3>1. q.doomed BY <2>0, <2>2
    <3>2. CASE q.pc = "row"
      <4>1. PICK i, k : i = q.session /\ k = q.secret
        OBVIOUS
      <4>2. k \in 1 .. minted /\ i = home[k] /\ Over(i, k)
        BY <1>5, <3>1, <3>2, <4>1, IdleIs DEF Moves
      <4>3. Over(i, k)' BY <1>0, <4>2, OverStays
      <4>4. req'[s].session = i /\ req'[s].secret = k BY <2>0, <2>2, <4>1
      <4>5. Over(req[s].session, req[s].secret)' BY <4>3, <4>4 DEF Over, Live
      <4>. QED BY <2>0, <2>2, <3>2, <4>5
    <3>3. CASE q.pc = "user"
      <4>1. /\ q.session = req[r].session /\ req[r].doomed /\ req[r].pc = "row"
            /\ Passes(rows[req[r].session], req[r].secret)
        BY <1>5, <3>1, <3>3, IdleIs DEF Moves
      <4>2. Over(req[r].session, req[r].secret) BY <1>0, <4>1 DEF Doom
      <4>3. /\ req[r].session \in Ids /\ rows[req[r].session] # None
            /\ rows[req[r].session] \in Row
        BY <2>2, <1>1, <4>1, Counts, SessionsAssumption DEF Sound, TypeInv, TypeOK, Ids
      <4>4. ~OutlivedChange(rows[req[r].session], user.changed)
        <5>1. rows[req[r].session].expires \in Nat BY <4>3 DEF Row
        <5>. QED BY <4>1, <4>2, <4>3, <5>1, Counts DEF Over, Passes, Live
      <4>5. rows'[req[r].session].issued = rows[req[r].session].issued BY <4>3, RowsStep
      <4>6. rows[req[r].session].issued \in Nat /\ user'.changed \in Nat
        BY <4>3, NextTypes, Counts DEF Row, Times, TypeInv, TypeOK, User
      <4>7. ~OutlivedChange(rows'[req[r].session], user'.changed)
        BY <1>0, <4>4, <4>5, <4>6, Counts DEF OutlivedChange
      <4>. QED BY <2>0, <2>2, <3>3, <4>1, <4>7
    <3>4. CASE q.pc \in {"rotate", "in"}
      <4>1. req[r].doomed /\ req[r].pc \in {"user", "rotate"}
            /\ (req[r].pc = "user" => OutlivedChange(rows[req[r].session], user.changed))
        BY <1>5, <3>1, <3>4, IdleIs DEF Moves
      <4>. QED BY <1>0, <4>1 DEF Doom
    <3>5. CASE q.pc \notin {"row", "user", "rotate", "in"} BY <2>0, <2>2, <3>5
    <3>. QED BY <3>2, <3>3, <3>4, <3>5
  <2>. QED BY <2>1, <2>2
<1>. QED BY <1>2, <1>3, <1>4, <1>5, StepShape DEF Next, Logout, SignOutAll, Tick, vars

EndedInv == TypeInv /\ Beside /\ Late /\ Doom

LEMMA EndedInit == Init => EndedInv
<1>. SUFFICES ASSUME Init PROVE EndedInv
  OBVIOUS
<1>1. \A r \in Requests : req[r].pc = "idle" /\ ~req[r].doomed BY IdleIs DEF Init
<1>. QED BY <1>1, InitTypes DEF EndedInv, Beside, Changing, Late, Doom

LEMMA EndedNext == EndedInv /\ [Next]_vars => EndedInv'
BY NextTypes, BesideNext, LateNext, DoomNext DEF EndedInv

\* What has ended stays out: no request that came in with a session that was over is
\* admitted, unless a login or a change beside a change put an older user row back.
THEOREM EndedIsOut == Spec => []EndedStaysOut
<1>1. EndedInv => EndedStaysOut BY DEF EndedInv, Doom, EndedStaysOut
<1>. QED BY <1>1, EndedInit, EndedNext, PTL DEF Spec

-----------------------------------------------------------------------------
(***************************************************************************)
(* The present password.                                                   *)
(***************************************************************************)

\* A login that ran beside no change holds the present password, and so does a
\* change that has stored its own, with its date.
Holds == ~regressed => \A r \in Requests :
  /\ req[r].kind = "login" /\ req[r].pc # "idle" /\ ~req[r].raced
       => req[r].password = user.password
  /\ req[r].kind = "change" /\ req[r].pc = "insert" => req[r].password = user.password
  /\ req[r].pc = "revoke" => req[r].password = user.password /\ req[r].at = user.changed

\* The user row does not change under a request that is not raced or is a change.
LEMMA RowKept ==
  ASSUME TypeInv, Beside, Holds, [Next]_vars, ~regressed', NEW s \in Proving,
         s \in Changing \/ ~req[s].raced, ~WriteUser(s)
  PROVE  user'.password = user.password /\ user'.changed = user.changed
<1>0. ~regressed BY UserStep
<1>1. ASSUME NEW o \in Requests, WriteUser(o), ~req[o].raced PROVE FALSE
  <2>1. o # s BY <1>1
  <2>2. req[o].kind \in {"change", "reset"} BY <1>1, Counts DEF Sound, WriteUser
  <2>3. o \in Changing BY <1>1, <2>2 DEF Changing, WriteUser
  <2>. QED BY <1>1, <2>1, <2>3 DEF Beside, Proving
<1>2. ASSUME NEW o \in Requests, Rehash(o), ~req[o].raced
      PROVE  user'.password = user.password /\ user'.changed = user.changed
  <2>1. req[o].kind = "login" BY <1>2, Counts DEF Sound, Rehash
  <2>2. req[o].password = user.password BY <1>0, <1>2, <2>1 DEF Holds, Rehash
  <2>. QED BY <1>2, <2>2, Counts DEF Rehash, User
<1>. QED BY <1>1, <1>2, UserStep

LEMMA HoldsNext == ASSUME TypeInv, Beside, Holds, [Next]_vars PROVE Holds'
<1>. SUFFICES ASSUME NEW s \in Requests, ~regressed'
              PROVE  /\ req'[s].kind = "login" /\ req'[s].pc # "idle" /\ ~req'[s].raced
                          => req'[s].password = user'.password
                     /\ req'[s].kind = "change" /\ req'[s].pc = "insert"
                          => req'[s].password = user'.password
                     /\ req'[s].pc = "revoke"
                          => req'[s].password = user'.password /\ req'[s].at = user'.changed
  BY DEF Holds
<1>. DEFINE Fine == /\ req'[s].kind = "login" /\ req'[s].pc # "idle" /\ ~req'[s].raced
                          => req'[s].password = user'.password
                    /\ req'[s].kind = "change" /\ req'[s].pc = "insert"
                          => req'[s].password = user'.password
                    /\ req'[s].pc = "revoke"
                          => req'[s].password = user'.password /\ req'[s].at = user'.changed
<1>0. ~regressed BY UserStep
<1>1. Sound(req[s], now, made, minted, home) BY Counts
<1>2. ASSUME Same(s), ~WriteUser(s) PROVE Fine
  <2>1. CASE req[s].kind = "login" /\ req[s].pc # "idle" /\ ~req'[s].raced
    <3>1. s \in Proving /\ ~req[s].raced BY <1>2, <2>1 DEF Same, Proving
    <3>2. user'.password = user.password BY <1>2, <3>1, RowKept
    <3>3. req[s].pc \notin {"revoke"} BY <1>1, <2>1 DEF Sound
    <3>. QED BY <1>0, <1>2, <2>1, <3>1, <3>2, <3>3 DEF Same, Holds
  <2>2. CASE (req[s].kind = "change" /\ req[s].pc = "insert") \/ req[s].pc = "revoke"
    <3>1. s \in Changing /\ s \in Proving BY <1>1, <2>2 DEF Changing, Proving, Sound
    <3>2. user'.password = user.password /\ user'.changed = user.changed
      BY <1>2, <3>1, RowKept
    <3>3. req[s].kind # "login" BY <1>1, <2>2 DEF Sound
    <3>. QED BY <1>0, <1>2, <2>2, <3>2, <3>3 DEF Same, Holds
  <2>. QED BY <1>2, <2>1, <2>2 DEF Same
<1>3. CASE UNCHANGED req BY <1>2, <1>3, WritersMove DEF Same
<1>4. ASSUME NEW r \in Requests, NEW password, Login(r), password = user.password,
             Began(r, "login", "scope", password)
      PROVE  Fine
  <2>1. CASE s = r BY <1>4, <2>1 DEF Began
  <2>2. CASE s # r
    <3>1. Same(s) BY <1>4, <2>2 DEF Began
    <3>2. ~WriteUser(s) BY <3>1, Written DEF Same
    <3>. QED BY <1>2, <3>1, <3>2
  <2>. QED BY <2>1, <2>2
<1>5. ASSUME NEW r \in Requests, NEW kind \in {"change", "reset"}, NEW password,
             Began(r, kind, "hash", password)
      PROVE  Fine
  <2>1. CASE s = r BY <1>5, <2>1 DEF Began
  <2>2. CASE s # r
    <3>1. Same(s) BY <1>5, <2>2 DEF Began
    <3>2. ~WriteUser(s) BY <3>1, Written DEF Same
    <3>. QED BY <1>2, <3>1, <3>2
  <2>. QED BY <2>1, <2>2
<1>6. ASSUME NEW r \in Requests, NEW q, Moves(r, q) PROVE Fine
  <2>0. req'[r] = q /\ \A o \in Requests : o # r => req'[o] = req[o]
    BY <1>6 DEF Moves, Goes, TypeInv, TypeOK
  <2>1. CASE s # r BY <1>2, <2>0, <2>1, WritersMove DEF Same
  <2>2. CASE s = r
    <3>1. CASE q.pc = "revoke"
      <4>1. WriteUser(r) /\ q.at = req[r].at /\ q.password = req[r].password
            /\ q.kind = req[r].kind /\ req[r].pc = "write"
        BY <1>6, <3>1, IdleIs DEF Moves
      <4>2. user'.password = req[r].password /\ user'.changed = req[r].at
        BY <4>1 DEF WriteUser, NewUser
      <4>3. q.kind # "login" BY <1>1, <2>2, <4>1 DEF Sound
      <4>. QED BY <2>0, <2>2, <3>1, <4>1, <4>2, <4>3
    <3>2. CASE q.pc = "insert" /\ q.kind = "change"
      <4>1. req[r].pc = "revoke" /\ req[r].kind = "change" /\ q.password = req[r].password
        BY <1>1, <1>6, <2>2, <3>2, IdleIs DEF Moves, Sound
      <4>2. s \in Changing /\ s \in Proving /\ ~WriteUser(s)
        BY <2>2, <4>1 DEF Changing, Proving, WriteUser
      <4>3. user'.password = user.password BY <4>2, RowKept
      <4>. QED BY <1>0, <2>0, <2>2, <3>2, <4>1, <4>3 DEF Holds
    <3>3. CASE q.pc # "idle" /\ q.kind = "login"
      <4>1. req[r].pc # "idle" /\ req[r].kind = "login" /\ q.password = req[r].password
            /\ q.raced = req[r].raced
        BY <1>6, <3>3, IdleIs DEF Moves
      <4>2. q.pc # "revoke" BY <1>1, <1>6, <2>2, <4>1 DEF Moves, Sound
      <4>3. CASE ~q.raced
        <5>1. s \in Proving /\ ~req[s].raced BY <2>2, <4>1, <4>3 DEF Proving
        <5>2. ~WriteUser(s) BY <1>1, <2>2, <4>1 DEF Sound, WriteUser
        <5>3. user'.password = user.password BY <5>1, <5>2, RowKept
        <5>. QED BY <1>0, <2>0, <2>2, <3>3, <4>1, <4>2, <4>3, <5>3 DEF Holds
      <4>. QED BY <2>0, <2>2, <3>3, <4>2, <4>3
    <3>4. CASE q.pc # "revoke" /\ ~(q.pc = "insert" /\ q.kind = "change")
               /\ ~(q.pc # "idle" /\ q.kind = "login")
      BY <2>0, <2>2, <3>4
    <3>. QED BY <3>1, <3>2, <3>3, <3>4
  <2>. QED BY <2>1, <2>2
<1>. QED BY <1>3, <1>4, <1>5, <1>6, StepShape DEF Next, Logout, SignOutAll, Tick, vars

\* A session opened with another password is about to be met by the change that
\* has stored the present one.
Doubtful(i) == /\ Live(i) /\ OutlivedChange(rows[i], user.changed) /\ i \notin raced
               /\ proven[i] # user.password

Awaited(i) == \E r \in Requests : req[r].pc = "revoke" /\ rows[i].issued >= req[r].at

Met == ~regressed => \A i \in 1 .. made : Doubtful(i) => Awaited(i)

\* Nothing new is in doubt when the user row stays: what a session holds is kept, and
\* only its end makes it certain.
LEMMA DoubtStays ==
  ASSUME TypeInv, Met, ~regressed, NEW i \in 1 .. made, rows'[i] # None,
         rows'[i].issued = rows[i].issued, rows[i].revoked # 0 => rows'[i] = rows[i],
         user'.password = user.password, user'.changed = user.changed,
         proven'[i] = proven[i], raced \subseteq raced', Doubtful(i)'
  PROVE  Doubtful(i) /\ Awaited(i)
<1>1. i \in Ids /\ rows[i] # None BY Counts, SessionsAssumption DEF TypeInv, TypeOK, Ids
<1>2. Doubtful(i)
  BY <1>1 DEF Doubtful, Live, OutlivedChange
<1>. QED BY <1>2 DEF Met

LEMMA MetNext == ASSUME TypeInv, Beside, Holds, Met, [Next]_vars PROVE Met'
<1>. SUFFICES ASSUME ~regressed', NEW i \in 1 .. made', Doubtful(i)' PROVE Awaited(i)'
  BY DEF Met
<1>0. ~regressed /\ made \in Nat /\ raced \subseteq Ids BY UserStep, Counts DEF TypeInv, TypeOK
<1>1. ASSUME i \in 1 .. made
      PROVE  /\ i \in Ids /\ rows'[i] # None /\ rows[i] # None
             /\ rows'[i].issued = rows[i].issued
             /\ (rows[i].revoked # 0 => rows'[i] = rows[i])
  <2>1. i \in Ids /\ rows[i] # None
    BY <1>1, Counts, SessionsAssumption DEF TypeInv, TypeOK, Ids
  <2>. QED BY <2>1, RowsStep
\* A step that leaves the user row, the passwords of the sessions and who is about
\* to revoke.
<1>2. ASSUME UNCHANGED <<made, proven>>, raced \subseteq raced',
             user'.password = user.password, user'.changed = user.changed,
             \A s \in Requests : req[s].pc = "revoke" =>
                (req'[s].pc = "revoke" /\ req'[s].at = req[s].at)
      PROVE  Awaited(i)'
  <2>1. i \in 1 .. made BY <1>2
  <2>2. rows'[i] # None /\ rows'[i].issued = rows[i].issued
        /\ (rows[i].revoked # 0 => rows'[i] = rows[i])
    BY <1>1, <2>1
  <2>3. Awaited(i) BY <1>0, <1>2, <2>1, <2>2, DoubtStays
  <2>. QED BY <1>2, <2>2, <2>3 DEF Awaited
<1>3. ASSUME NEW r \in Requests, RevokeAll(r) \/ (Abandon(r) /\ req[r].pc = "revoke")
      PROVE  Awaited(i)'
  <2>1. UNCHANGED <<made, proven, user>> /\ raced \subseteq raced'
        /\ i \in 1 .. made /\ req[r].pc = "revoke"
    BY <1>3 DEF RevokeAll, Abandon, bounds, counts
  <2>2. rows'[i] # None /\ rows'[i].issued = rows[i].issued
        /\ (rows[i].revoked # 0 => rows'[i] = rows[i])
    BY <1>1, <2>1
  <2>3. Doubtful(i) /\ Awaited(i) BY <1>0, <2>1, <2>2, DoubtStays
  <2>4. PICK s \in Requests : req[s].pc = "revoke" /\ rows[i].issued >= req[s].at
    BY <2>3 DEF Awaited
  <2>5. CASE s = r
    <3>1. CASE UNCHANGED rows /\ raced' = raced \cup Spared(r)
      <4>1. i \in Spared(r) BY <1>1, <2>1, <2>3, <2>4, <2>5 DEF Spared, Doubtful
      <4>. QED BY <3>1, <4>1 DEF Doubtful
    <3>2. CASE rows' = [o \in Ids |-> IF Live(o) THEN [rows[o] EXCEPT !.revoked = now] ELSE rows[o]]
      <4>1. i \in Ids /\ Live(i) BY <1>1, <2>1, <2>3 DEF Doubtful
      <4>2. rows'[i].revoked = now BY <3>2, <4>1, RevokedRow
      <4>3. now # 0 BY Counts
      <4>. QED BY <4>2, <4>3 DEF Doubtful, Live
    <3>. QED BY <1>3, <3>1, <3>2 DEF RevokeAll, Abandon
  <2>6. CASE s # r
    <3>1. req'[s] = req[s] BY <1>3, <2>6 DEF RevokeAll, Abandon, TypeInv, TypeOK
    <3>. QED BY <2>2, <2>4, <3>1 DEF Awaited
  <2>. QED BY <2>5, <2>6
<1>4. ASSUME NEW r \in Requests, WriteUser(r) PROVE Awaited(i)'
  <2>1. /\ UNCHANGED <<made, proven, raced, rows>> /\ ~req[r].raced
        /\ req[r].pc = "write" /\ user'.changed = req[r].at
        /\ user'.password = req[r].password
    BY <1>4 DEF WriteUser, NewUser, bounds, counts
  <2>2. req'[r].pc = "revoke" /\ req'[r].at = req[r].at
    <3>. DEFINE q == [req[r] EXCEPT !.pc = "revoke"]
    <3>1. req'[r] = q /\ req[r] \in Request BY <1>4, Counts DEF WriteUser, TypeInv, TypeOK
    <3>2. q.pc = "revoke" /\ q.at = req[r].at BY <3>1 DEF Request
    <3>. QED BY <3>1, <3>2
  <2>3. rows'[i].issued >= req[r].at
    <3>1. OutlivedChange(rows'[i], user'.changed) BY DEF Doubtful, OutlivedChange
    <3>2. i \in Ids /\ rows[i] \in Row
      BY <1>1, <2>1 DEF TypeInv, TypeOK
    <3>3. rows[i].issued \in Nat BY <3>2 DEF Row, Times
    <3>4. req[r].at \in Nat BY Counts DEF Request
    <3>. QED BY <2>1, <3>1, <3>3, <3>4 DEF OutlivedChange
  <2>. QED BY <2>2, <2>3 DEF Awaited
<1>5. ASSUME NEW r \in Requests, Insert(r) PROVE Awaited(i)'
  <2>1. /\ made' = made + 1 /\ UNCHANGED user /\ raced \subseteq raced' /\ made + 1 \in Ids
        /\ proven' = [proven EXCEPT ![made + 1] = req[r].password]
        /\ (req[r].raced => made + 1 \in raced') /\ req[r].pc = "insert"
        /\ proven \in [Ids -> Passwords]
    BY <1>5, Counts, SessionsAssumption, SMTT(30) DEF Insert, Ids, TypeInv, TypeOK
  <2>2. CASE i = made + 1
    <3>1. proven'[i] = req[r].password /\ ~req[r].raced BY <2>1, <2>2 DEF Doubtful
    <3>2. req[r].kind \in {"login", "change"} BY <2>1, Counts DEF Sound
    <3>3. req[r].password = user.password BY <1>0, <2>1, <3>1, <3>2 DEF Holds
    <3>. QED BY <2>1, <3>1, <3>3 DEF Doubtful
  <2>3. CASE i # made + 1
    <3>1. i \in 1 .. made /\ proven'[i] = proven[i] BY <1>0, <1>1, <2>1, <2>3
    <3>2. rows'[i] # None /\ rows'[i].issued = rows[i].issued
          /\ (rows[i].revoked # 0 => rows'[i] = rows[i])
      BY <1>1, <3>1
    <3>3. Awaited(i) BY <1>0, <2>1, <3>1, <3>2, DoubtStays
    <3>4. \A s \in Requests : req[s].pc = "revoke" => req'[s] = req[s]
      BY <1>5, <2>1 DEF Insert, TypeInv, TypeOK
    <3>. QED BY <3>2, <3>3, <3>4 DEF Awaited
  <2>. QED BY <2>2, <2>3
<1>6. ASSUME NEW r \in Requests, Rehash(r) PROVE Awaited(i)'
  <2>1. UNCHANGED <<made, proven, raced>> /\ ~req[r].raced /\ req[r].pc = "rehash"
    BY <1>6 DEF Rehash, bounds, counts
  <2>2. req[r].kind = "login" BY <2>1, Counts DEF Sound
  <2>3. user'.password = user.password /\ user'.changed = user.changed
    BY <1>0, <1>6, <2>1, <2>2, Counts DEF Holds, Rehash, User
  <2>4. \A s \in Requests : req[s].pc = "revoke" => req'[s] = req[s]
    BY <1>6, <2>1 DEF Rehash, TypeInv, TypeOK
  <2>. QED BY <1>2, <2>1, <2>3, <2>4
<1>7. ASSUME NEW r \in Requests, Step(r), ~Insert(r), ~RevokeAll(r), ~WriteUser(r), ~Rehash(r),
             ~(Abandon(r) /\ req[r].pc = "revoke")
      PROVE  Awaited(i)'
  <2>1. UNCHANGED <<made, proven, user>> /\ raced \subseteq raced'
    BY <1>7 DEF Step, Login, Scope, Change, Stamp, Present, ReadRow, ReadUser, Rotate, Leave,
       Abandon, bounds, counts, watch
  <2>2. ASSUME NEW s \in Requests, req[s].pc = "revoke"
        PROVE  req'[s].pc = "revoke" /\ req'[s].at = req[s].at
    <3>1. ASSUME NEW kind, NEW pc, NEW password, Began(r, kind, pc, password)
          PROVE  req'[s].pc = "revoke" /\ req'[s].at = req[s].at
      <4>1. s # r BY <2>2, <3>1 DEF Began
      <4>. QED BY <2>2, <3>1, <4>1 DEF Began, Same
    <3>2. ASSUME NEW q, Moves(r, q) PROVE req'[s].pc = "revoke" /\ req'[s].at = req[s].at
      <4>1. s # r
        BY <1>7, <2>2 DEF Step, Login, Begin, Scope, Change, Stamp, Present, ReadRow, ReadUser,
           Rotate, Leave
      <4>. QED BY <2>2, <3>2, <4>1 DEF Moves, Goes, TypeInv, TypeOK
    <3>. QED BY <1>7, <3>1, <3>2, StepShape
  <2>. QED BY <1>2, <2>1, <2>2
<1>8. CASE (\E o \in Ids : Logout(o)) \/ SignOutAll \/ Tick \/ UNCHANGED vars
  BY <1>2, <1>8 DEF Logout, SignOutAll, Tick, vars, bounds, counts, watch
<1>. QED BY <1>3, <1>4, <1>5, <1>6, <1>7, <1>8 DEF Next

PresentInv == TypeInv /\ Beside /\ Holds /\ Met

LEMMA PresentInit == Init => PresentInv
<1>. SUFFICES ASSUME Init PROVE PresentInv
  OBVIOUS
<1>1. \A r \in Requests : req[r].pc = "idle" BY IdleIs DEF Init
<1>. QED BY <1>1, InitTypes DEF Init, PresentInv, Beside, Changing, Holds, Met

LEMMA PresentNext == PresentInv /\ [Next]_vars => PresentInv'
BY NextTypes, BesideNext, HoldsNext, MetNext DEF PresentInv

\* When no change is on its way, the sessions that still answer were opened with the
\* present password.
THEOREM PasswordIsPresent == Spec => []OnlyPresentPassword
<1>1. ASSUME PresentInv PROVE OnlyPresentPassword
  <2>. SUFFICES ASSUME Changing = {}, ~regressed, NEW i \in 1 .. made, Doubtful(i) PROVE FALSE
    BY DEF OnlyPresentPassword, Doubtful
  <2>1. PICK r \in Requests : req[r].pc = "revoke" BY <1>1 DEF PresentInv, Met, Awaited
  <2>2. req[r].kind \in {"change", "reset"} BY <1>1, <2>1, Counts DEF PresentInv, Sound
  <2>. QED BY <2>1, <2>2 DEF Changing
<1>. QED BY <1>1, PresentInit, PresentNext, PTL DEF Spec

-----------------------------------------------------------------------------
(***************************************************************************)
(* What an operator handed out.                                            *)
(***************************************************************************)

\* The passwords on their way are new, and each is one change's own.
Own == /\ handed \subseteq 1 .. chosen
       /\ \A r \in Requests : req[r].pc \in {"hash", "write"} =>
            /\ req[r].password \in 1 .. chosen /\ req[r].password \notin handed
            /\ \A s \in Requests : s # r /\ req[s].pc \in {"hash", "write"}
                                     => req[s].password # req[r].password

LEMMA OwnNext == ASSUME TypeInv, [Next]_vars, Own PROVE Own'
<1>0. chosen \in Nat BY Counts
<1>1. ASSUME NEW r \in Requests, Step(r), ~WriteUser(r) PROVE UNCHANGED handed
  BY <1>1 DEF Step, Login, Scope, Insert, Rehash, Change, Stamp, RevokeAll, Present, ReadRow,
     ReadUser, Rotate, Leave, Abandon, watch
<1>2. ASSUME NEW r \in Requests, Step(r), \A kind \in {"change", "reset"} : ~Change(r, kind)
      PROVE  UNCHANGED chosen
  BY <1>2 DEF Step, Login, Scope, Insert, Rehash, Stamp, WriteUser, RevokeAll, Present, ReadRow,
     ReadUser, Rotate, Leave, Abandon, bounds, counts
<1>3. CASE UNCHANGED <<req, handed, chosen>> BY <1>3 DEF Own
<1>4. ASSUME NEW r \in Requests, NEW kind \in {"change", "reset"}, Change(r, kind),
             Began(r, kind, "hash", chosen + 1)
      PROVE  Own'
  <2>1. chosen' = chosen + 1 /\ UNCHANGED handed BY <1>4 DEF Change, watch
  <2>2. \A o \in Requests : o # r => /\ req'[o].pc = req[o].pc
                                     /\ req'[o].password = req[o].password
    BY <1>4 DEF Began, Same
  <2>3. req'[r].password = chosen + 1 BY <1>4 DEF Began
  <2>4. \A o \in Requests : o # r /\ req'[o].pc \in {"hash", "write"} => req'[o].password \in 1 .. chosen
    BY <2>2 DEF Own
  <2>. QED BY <1>0, <2>1, <2>2, <2>3, <2>4 DEF Own
<1>5. ASSUME NEW r \in Requests, Login(r), NEW password, Began(r, "login", "scope", password)
      PROVE  Own'
  <2>1. UNCHANGED <<chosen, handed>> BY <1>5 DEF Login, counts, watch
  <2>2. \A o \in Requests : o # r => /\ req'[o].pc = req[o].pc
                                     /\ req'[o].password = req[o].password
    BY <1>5 DEF Began, Same
  <2>3. req'[r].pc = "scope" BY <1>5 DEF Began
  <2>. QED BY <2>1, <2>2, <2>3 DEF Own
<1>6. ASSUME NEW r \in Requests, Step(r), NEW q, Moves(r, q) PROVE Own'
  <2>0. req'[r] = q /\ \A o \in Requests : o # r => req'[o] = req[o]
    BY <1>6 DEF Moves, Goes, TypeInv, TypeOK
  <2>1. ~\E kind \in {"change", "reset"} : Change(r, kind)
    <3>1. SUFFICES ASSUME NEW kind \in {"change", "reset"}, Change(r, kind) PROVE FALSE
      OBVIOUS
    <3>2. req'[r].pc = "hash" /\ req[r].pc = "idle" BY <3>1, ChangeBegins DEF Began
    <3>. QED BY <1>6, <2>0, <3>2, IdleIs DEF Moves
  <2>2. chosen' = chosen BY <1>2, <1>6, <2>1
  <2>3. CASE q.pc \notin {"hash", "write"}
    <3>1. CASE WriteUser(r)
      <4>1. handed' \subseteq handed \cup {req[r].password} /\ req[r].pc = "write"
        BY <3>1 DEF WriteUser
      <4>. QED BY <2>0, <2>2, <2>3, <4>1 DEF Own
    <3>2. CASE ~WriteUser(r)
      <4>1. handed' = handed BY <1>1, <1>6, <3>2
      <4>. QED BY <2>0, <2>2, <2>3, <4>1 DEF Own
    <3>. QED BY <3>1, <3>2
  <2>4. CASE q.pc \in {"hash", "write"}
    <3>1. q.pc = "write" /\ req[r].pc = "hash" /\ q.password = req[r].password
      BY <1>6, <2>4, IdleIs DEF Moves
    <3>2. handed' = handed BY <1>1, <1>6, <3>1 DEF WriteUser
    <3>. QED BY <2>0, <2>2, <3>1, <3>2 DEF Own
  <2>. QED BY <2>3, <2>4
<1>. QED
  BY <1>3, <1>4, <1>5, <1>6, StepShape
  DEF Next, Logout, SignOutAll, Tick, vars, bounds, counts, watch

HandedInv == TypeInv /\ Beside /\ Holds /\ Own /\ HandedIsForced

LEMMA HandedInit == Init => HandedInv
<1>. SUFFICES ASSUME Init PROVE HandedInv
  OBVIOUS
<1>1. \A r \in Requests : req[r].pc = "idle" BY IdleIs DEF Init
<1>. QED BY <1>1, InitTypes DEF Init, HandedInv, Beside, Changing, Holds, Own, HandedIsForced

LEMMA HandedNext == HandedInv /\ [Next]_vars => HandedInv'
<1>. SUFFICES ASSUME HandedInv, [Next]_vars PROVE HandedInv'
  OBVIOUS
<1>1. TypeInv' /\ Beside' /\ Holds' /\ Own'
  BY NextTypes, BesideNext, HoldsNext, OwnNext DEF HandedInv
<1>2. ASSUME user'.password \in handed', ~regressed' PROVE user'.must
  <2>0. ~regressed BY <1>2, UserStep DEF HandedInv
  <2>1. ASSUME NEW r \in Requests, WriteUser(r) PROVE user'.must
    <3>1. req[r].password \notin handed /\ req[r].kind \in {"change", "reset"}
      BY <2>1, Counts DEF HandedInv, Own, WriteUser, Sound
    <3>. QED BY <1>2, <2>1, <3>1 DEF WriteUser, NewUser
  <2>2. ASSUME NEW r \in Requests, Rehash(r) PROVE user'.must
    <3>1. ~req[r].raced /\ req[r].pc = "rehash" /\ handed' = handed
      BY <1>2, <2>2 DEF Rehash
    <3>2. req[r].kind = "login" BY <3>1, Counts DEF HandedInv, Sound
    <3>3. user'.password = user.password /\ user'.must = user.must
      BY <2>0, <2>2, <3>1, <3>2, Counts DEF HandedInv, Holds, Rehash, User
    <3>. QED BY <1>2, <2>0, <3>1, <3>3 DEF HandedInv, HandedIsForced
  <2>3. ASSUME UNCHANGED <<user, handed>> PROVE user'.must
    BY <1>2, <2>0, <2>3 DEF HandedInv, HandedIsForced
  <2>4. ASSUME NEW r \in Requests, Step(r), ~WriteUser(r), ~Rehash(r) PROVE UNCHANGED <<user, handed>>
    BY <2>4 DEF Step, Login, Scope, Insert, Change, Stamp, RevokeAll, Present, ReadRow,
       ReadUser, Rotate, Leave, Abandon, watch
  <2>. QED BY <2>1, <2>2, <2>3, <2>4 DEF Next, Logout, SignOutAll, Tick, vars, watch
<1>. QED BY <1>1, <1>2 DEF HandedInv, HandedIsForced

\* A password an operator knows has to be changed while it is in use.
THEOREM HandedMustChange == Spec => []HandedIsForced
<1>1. HandedInv => HandedIsForced BY DEF HandedInv
<1>. QED BY <1>1, HandedInit, HandedNext, PTL DEF Spec
=============================================================================
