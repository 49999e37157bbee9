-------------------------- MODULE SecondFactorProofs --------------------------
(***************************************************************************)
(* Proofs about the second factor, for every number of requests, factors,  *)
(* batches and codes and every window: its types, that a time step and a   *)
(* recovery code are good once, that superseded codes stay out and good    *)
(* ones get in, and that enrolments do not pile up.                        *)
(***************************************************************************)
EXTENDS SecondFactor, FiniteSetTheorems, TLAPS

\* A code names its batch.
LEMMA CodeBatch == \A c \in Codes : c[1] \in Batches
BY DEF Codes

\* What a request has read: the step it is about to store is after the watermark
\* it read, and the code and the batch it compares exist.
Points ==
  \A r \in Requests :
    /\ req[r].pc = "commit" =>
         req[r].factor \in Factors /\ req[r].step \in Steps /\ req[r].last < req[r].step
    /\ req[r].pc \in {"candidates", "redeem"} =>
         /\ req[r].code \in Codes /\ req[r].code[1] <= generated
         /\ req[r].batch \in 1 .. generated

\* Batches are dated in the order in which they were created.
Dates ==
  /\ \A b \in Batches : created[b] <= b /\ (created[b] = 0 <=> b > generated)
  /\ \A b, c \in 1 .. generated : b <= c => created[b] <= created[c]

TypeInv == TypeOK /\ Points /\ Dates

-----------------------------------------------------------------------------
(***************************************************************************)
(* Types.                                                                  *)
(***************************************************************************)

\* A request that has not arrived.
LEMMA IdleType == Idle \in Request
BY SecondFactorAssumption DEF Idle, Request, Pcs

\* The initial state has the types.
LEMMA InitTypes == Init => TypeInv
<1>. SUFFICES ASSUME Init PROVE TypeInv
  OBVIOUS
<1>1. Points BY DEF Init, Points, Idle
<1>2. Dates BY SecondFactorAssumption DEF Init, Dates, Batches
<1>3. req \in [Requests -> Request] BY IdleType DEF Init
<1>4. now \in Steps BY SecondFactorAssumption DEF Init, Steps
<1>5. TypeOK
  BY <1>3, <1>4, SecondFactorAssumption DEF Init, TypeOK, Codes
<1>. QED BY <1>1, <1>2, <1>5 DEF TypeInv

\* A step of one request that goes on as q, beside which only the time stays.
Becomes(r, q) == req' = [req EXCEPT ![r] = q]

\* Where the request goes on keeps the part of the invariant about requests.
LEMMA RequestKept ==
  ASSUME TypeInv, NEW r \in Requests, NEW q \in Request, Becomes(r, q),
         generated' \in Nat, generated' >= generated,
         q.pc = "commit" => q.factor \in Factors /\ q.step \in Steps /\ q.last < q.step,
         q.pc \in {"candidates", "redeem"} =>
           q.code \in Codes /\ q.code[1] <= generated /\ q.batch \in 1 .. generated
  PROVE  req' \in [Requests -> Request] /\ Points'
<1>1. req' \in [Requests -> Request] BY DEF TypeInv, TypeOK, Becomes
<1>2. ASSUME NEW o \in Requests
      PROVE  /\ req'[o].pc = "commit" =>
                  req'[o].factor \in Factors /\ req'[o].step \in Steps /\ req'[o].last < req'[o].step
             /\ req'[o].pc \in {"candidates", "redeem"} =>
                  /\ req'[o].code \in Codes /\ req'[o].code[1] <= generated'
                  /\ req'[o].batch \in 1 .. generated'
  <2>1. CASE o = r
    <3>1. req'[o] = q BY <2>1 DEF TypeInv, TypeOK, Becomes
    <3>. QED BY <3>1, CodeBatch, SecondFactorAssumption DEF TypeInv, TypeOK, Batches
  <2>2. CASE o # r
    <3>1. req'[o] = req[o] BY <2>2 DEF TypeInv, TypeOK, Becomes
    <3>. QED BY <3>1, CodeBatch, SecondFactorAssumption DEF TypeInv, TypeOK, Points, Batches
  <2>. QED BY <2>1, <2>2
<1>. QED BY <1>1, <1>2 DEF Points

\* The same for a request that goes on to a step with nothing to remember.
LEMMA PlainKept ==
  ASSUME TypeInv, NEW r \in Requests, NEW q \in Request, Becomes(r, q),
         generated' \in Nat, generated' >= generated,
         q.pc \notin {"commit", "candidates", "redeem"}
  PROVE  req' \in [Requests -> Request] /\ Points'
BY RequestKept

\* The same for a request that ends.
LEMMA EndKept ==
  ASSUME TypeInv, NEW r \in Requests, End(r), generated' \in Nat, generated' >= generated
  PROVE  req' \in [Requests -> Request] /\ Points'
<1>1. Becomes(r, Idle) BY DEF End, Go, Becomes
<1>2. Idle.pc = "idle" BY DEF Idle
<1>. QED BY <1>1, <1>2, IdleType, PlainKept

\* A step that only moves a request on.
LEMMA MoveTypes ==
  ASSUME TypeInv, NEW r \in Requests, NEW q \in Request, Becomes(r, q),
         UNCHANGED <<now, store, watch>>, begun' \in 0 .. MaxRequests,
         q.pc = "commit" => q.factor \in Factors /\ q.step \in Steps /\ q.last < q.step,
         q.pc \in {"candidates", "redeem"} =>
           q.code \in Codes /\ q.code[1] <= generated /\ q.batch \in 1 .. generated
  PROVE  TypeInv'
<1>1. generated' \in Nat /\ generated' >= generated BY DEF TypeInv, TypeOK, store
<1>2. req' \in [Requests -> Request] /\ Points' BY <1>1, RequestKept
<1>3. TypeOK' BY <1>2 DEF TypeInv, TypeOK, store, watch, Codes
<1>4. Dates' BY DEF TypeInv, Dates, store
<1>. QED BY <1>2, <1>3, <1>4 DEF TypeInv

\* Each action keeps the types.
LEMMA NextTypes == ASSUME TypeInv, [Next]_vars PROVE TypeInv'
<1>0. \A r \in Requests : req[r] \in Request BY DEF TypeInv, TypeOK
<1>00. /\ generated \in Nat /\ begun \in 0 .. MaxRequests /\ generated >= generated
       /\ generated + 1 \in Nat /\ generated + 1 >= generated
  BY DEF TypeInv, TypeOK
<1>01. \A r \in Requests :
         begun < MaxRequests /\ begun' = begun + 1 => begun' \in 0 .. MaxRequests
  BY <1>00, SecondFactorAssumption
<1>1. ASSUME NEW r \in Requests, Enrol(r) PROVE TypeInv'
  <2>1. [Idle EXCEPT !.pc = "save"] \in Request BY IdleType DEF Request, Pcs
  <2>a. [Idle EXCEPT !.pc = "save"].pc = "save" BY DEF Idle
  <2>b. Becomes(r, [Idle EXCEPT !.pc = "save"]) /\ generated' = generated
    BY <1>1 DEF Enrol, Begin, Becomes
  <2>2. req' \in [Requests -> Request] /\ Points'
    BY <2>1, <2>a, <2>b, <1>00, PlainKept
  <2>3. factors' \in [Factors -> Factor \cup {None}]
        /\ \A f \in Factors : f > enrolled => factors'[f] = None
    BY <1>1 DEF Enrol, WithoutPending, TypeInv, TypeOK
  <2>4. TypeOK' BY <1>1, <1>01, <2>2, <2>3 DEF Enrol, Begin, TypeInv, TypeOK, watch, Codes
  <2>5. Dates' BY <1>1 DEF Enrol, TypeInv, Dates
  <2>. QED BY <2>2, <2>4, <2>5 DEF TypeInv
<1>2. ASSUME NEW r \in Requests, SaveFactor(r) PROVE TypeInv'
  <2>2. req' \in [Requests -> Request] /\ Points'
    BY <1>2, <1>00, EndKept DEF SaveFactor
  <2>3. enrolled' \in 0 .. MaxFactors /\ enrolled + 1 \in Factors
    BY <1>2, SecondFactorAssumption DEF SaveFactor, TypeInv, TypeOK, Factors
  <2>4. factors' \in [Factors -> Factor \cup {None}]
        /\ \A f \in Factors : f > enrolled' => factors'[f] = None
    <3>1. [confirmed |-> FALSE, last |-> 0] \in Factor
      BY SecondFactorAssumption DEF Factor
    <3>. QED BY <1>2, <2>3, <3>1 DEF SaveFactor, TypeInv, TypeOK, Factors
  <2>5. TypeOK' BY <1>2, <2>2, <2>3, <2>4 DEF SaveFactor, End, Go, TypeInv, TypeOK, watch, Codes
  <2>6. Dates' BY <1>2 DEF SaveFactor, TypeInv, Dates
  <2>. QED BY <2>2, <2>5, <2>6 DEF TypeInv
<1>3. ASSUME NEW r \in Requests, NEW f \in Pending \cup Confirmed, NEW s \in Steps,
             Check(r, f, s)
      PROVE  TypeInv'
  <2>1. PICK then \in {"confirm", "answer", "disable", "batch"} :
          Begin(r, [Idle EXCEPT !.pc = "commit", !.then = then, !.factor = f,
                                !.last = factors[f].last, !.step = s])
    BY <1>3 DEF Check
  <2>. DEFINE q == [Idle EXCEPT !.pc = "commit", !.then = then, !.factor = f,
                                !.last = factors[f].last, !.step = s]
  <2>2. f \in Factors /\ factors[f] \in Factor
    BY DEF Pending, Confirmed, TypeInv, TypeOK
  <2>3. factors[f].last < s /\ factors[f].last \in 0 .. MaxStep
    BY <1>3, <2>2, SecondFactorAssumption DEF Check, Acceptable, Factor, Steps
  <2>4. q \in Request
    <3>1. f \in Factors \cup {0} /\ s \in 0 .. MaxStep /\ "commit" \in Pcs
      BY <2>2, SecondFactorAssumption DEF Steps, Pcs
    <3>. QED BY <2>3, <3>1, IdleType DEF Request
  <2>5. q.pc = "commit" /\ q.factor = f /\ q.step = s /\ q.last = factors[f].last
    BY DEF Idle
  <2>6. Becomes(r, q) /\ UNCHANGED <<now, store, watch>> BY <1>3, <2>1 DEF Check, Begin, Becomes
  <2>. HIDE DEF q
  <2>7. begun' \in 0 .. MaxRequests BY <2>1, <1>01 DEF Begin
  <2>. QED BY <2>2, <2>3, <2>4, <2>5, <2>6, <2>7, MoveTypes
<1>4. ASSUME NEW r \in Requests, Commit(r) PROVE TypeInv'
  <2>. DEFINE f == req[r].factor
              s == req[r].step
              then == req[r].then
  <2>1. f \in Factors /\ s \in Steps BY <1>4 DEF Commit, TypeInv, Points
  <2>2. PICK q \in Request : Becomes(r, q) /\ q.pc \notin {"commit", "candidates", "redeem"}
                             /\ begun' = begun
    <3>1. CASE ~Commits(req[r])
      <4>. DEFINE q == [req[r] EXCEPT !.pc = "refused"]
      <4>1. q \in Request /\ q.pc = "refused" BY <1>0 DEF Request, Pcs
      <4>. QED BY <1>4, <3>1, <4>1 DEF Commit, Refuse, Go, Becomes
    <3>2. CASE Commits(req[r]) /\ End(r)
      BY <3>2, IdleType DEF End, Go, Idle, Becomes
    <3>3. CASE Commits(req[r]) /\ Go(r, [Idle EXCEPT !.pc = "status"])
      <4>1. [Idle EXCEPT !.pc = "status"] \in Request BY IdleType DEF Request, Pcs
      <4>2. [Idle EXCEPT !.pc = "status"].pc = "status" BY DEF Idle
      <4>. QED BY <3>3, <4>1, <4>2 DEF Go, Becomes
    <3>4. CASE Commits(req[r]) /\ then \in {"disable", "batch"} /\ Go(r, [Idle EXCEPT !.pc = then])
      <4>1. [Idle EXCEPT !.pc = then] \in Request BY <3>4, IdleType DEF Request, Pcs
      <4>2. [Idle EXCEPT !.pc = then].pc = then BY DEF Idle
      <4>. QED BY <3>4, <4>1, <4>2 DEF Go, Becomes
    <3>. QED BY <1>4, <3>1, <3>2, <3>3, <3>4 DEF Commit
  <2>3. req' \in [Requests -> Request] /\ Points'
    BY <1>4, <2>2, <1>00, PlainKept DEF Commit
  <2>4. /\ factors' \in [Factors -> Factor \cup {None}]
        /\ \A g \in Factors : g > enrolled => factors'[g] = None
        /\ used' \in [Factors -> [Steps -> Nat]]
    <3>1. CASE ~Commits(req[r])
      BY <1>4, <3>1 DEF Commit, TypeInv, TypeOK
    <3>2. CASE Commits(req[r])
      <4>1. factors[f] # None /\ factors[f] \in Factor
        BY <2>1, <3>2 DEF Commits, TypeInv, TypeOK
      <4>2. [factors[f] EXCEPT !.last = s, !.confirmed = @ \/ then = "confirm"] \in Factor
        <5>1. s \in 0 .. MaxStep BY <2>1, SecondFactorAssumption DEF Steps
        <5>2. (factors[f].confirmed \/ then = "confirm") \in BOOLEAN OBVIOUS
        <5>. HIDE DEF s, then, f
        <5>. QED BY <4>1, <5>1, <5>2 DEF Factor
      <4>3. factors' = [factors EXCEPT ![f] =
                [factors[f] EXCEPT !.last = s, !.confirmed = @ \/ then = "confirm"]]
        BY <1>4, <3>2, <4>1, <2>1 DEF Commit, TypeInv, TypeOK
      <4>4. used' = [used EXCEPT ![f][s] = @ + 1] BY <1>4, <3>2 DEF Commit
      <4>. QED BY <2>1, <4>1, <4>2, <4>3, <4>4 DEF TypeInv, TypeOK
    <3>. QED BY <3>1, <3>2
  <2>5. TypeOK' BY <1>4, <2>2, <2>3, <2>4 DEF Commit, TypeInv, TypeOK, Codes
  <2>6. Dates' BY <1>4 DEF Commit, TypeInv, Dates
  <2>. QED BY <2>3, <2>5, <2>6 DEF TypeInv
<1>5. ASSUME NEW r \in Requests, Status(r) PROVE TypeInv'
  <2>1. [Idle EXCEPT !.pc = "batch"] \in Request /\ [Idle EXCEPT !.pc = "batch"].pc = "batch"
    BY IdleType DEF Request, Pcs, Idle
  <2>. QED BY <1>5, <1>00, <2>1, IdleType, MoveTypes DEF Status, End, Go, Idle, Becomes
<1>6. ASSUME NEW r \in Requests, ByPassword(r) PROVE TypeInv'
  <2>1. PICK pc \in {"disable", "batch"} : Begin(r, [Idle EXCEPT !.pc = pc])
    BY <1>6 DEF ByPassword
  <2>2. [Idle EXCEPT !.pc = pc] \in Request /\ [Idle EXCEPT !.pc = pc].pc = pc
    BY IdleType DEF Request, Pcs, Idle
  <2>. QED BY <1>6, <1>01, <2>1, <2>2, MoveTypes DEF ByPassword, Begin, Becomes
<1>7. ASSUME NEW r \in Requests, Disable(r) PROVE TypeInv'
  <2>2. req' \in [Requests -> Request] /\ Points'
    BY <1>7, <1>00, EndKept DEF Disable
  <2>3. factors' \in [Factors -> Factor \cup {None}]
        /\ \A f \in Factors : f > enrolled => factors'[f] = None
    BY <1>7 DEF Disable, TypeInv, TypeOK
  <2>4. TypeOK' BY <1>7, <2>2, <2>3 DEF Disable, End, Go, TypeInv, TypeOK, watch, Codes
  <2>5. Dates' BY <1>7 DEF Disable, TypeInv, Dates
  <2>. QED BY <2>2, <2>4, <2>5 DEF TypeInv
<1>8. ASSUME NEW r \in Requests, Generate(r) PROVE TypeInv'
  <2>1. generated' \in 0 .. MaxBatches /\ generated' = generated + 1 /\ generated + 1 \in Batches
    BY <1>8, <1>00, SecondFactorAssumption DEF Generate, TypeInv, TypeOK, Batches
  <2>2. req' \in [Requests -> Request] /\ Points'
    BY <1>8, <1>00, <2>1, EndKept DEF Generate
  <2>3. unused' \in SUBSET {c \in Codes : c[1] <= generated'}
    BY <1>8, <2>1, <1>00, CodeBatch DEF Generate, CodesOf, TypeInv, TypeOK, Batches
  <2>. DEFINE last == IF generated = 0 THEN 0 ELSE created[generated]
  <2>a. PICK at \in {last, last + 1} \ {0} : created' = [created EXCEPT ![generated + 1] = at]
    BY <1>8 DEF Generate
  <2>b. last \in Nat /\ last <= generated /\ \A b \in 1 .. generated : created[b] <= last
    <3>1. CASE generated = 0 BY <3>1
    <3>2. CASE generated # 0
      <4>1. generated \in Batches /\ generated \in 1 .. generated
        BY <3>2, <1>00, SecondFactorAssumption DEF TypeInv, TypeOK, Batches
      <4>. QED
        BY <3>2, <4>1, <1>00, SecondFactorAssumption DEF TypeInv, TypeOK, Dates, Batches
    <3>. QED BY <3>1, <3>2
  <2>. HIDE DEF last
  <2>c. \A b \in 1 .. generated : created[b] \in Nat
    BY <1>00, SecondFactorAssumption DEF TypeInv, TypeOK, Batches
  <2>4. /\ created' = [created EXCEPT ![generated + 1] = at]
        /\ at \in Nat \ {0} /\ at <= generated + 1
        /\ \A b \in 1 .. generated : created[b] <= at
    BY <2>a, <2>b, <2>c, <1>00
  <2>5. created' \in [Batches -> 0 .. MaxBatches]
    BY <2>1, <2>4, <1>00, SecondFactorAssumption DEF TypeInv, TypeOK
  <2>6. TypeOK' BY <1>8, <2>1, <2>2, <2>3, <2>5 DEF Generate, End, Go, TypeInv, TypeOK, watch, Codes
  <2>7. Dates'
    <3>1. \A b \in Batches : created'[b] <= b /\ (created'[b] = 0 <=> b > generated')
      BY <2>1, <2>4, <1>00 DEF TypeInv, TypeOK, Dates, Batches
    <3>2. \A b, c \in 1 .. generated' : b <= c => created'[b] <= created'[c]
      BY <2>1, <2>4, <1>00, SecondFactorAssumption DEF TypeInv, TypeOK, Dates, Batches
    <3>. QED BY <3>1, <3>2 DEF Dates
  <2>. QED BY <2>2, <2>6, <2>7 DEF TypeInv
<1>9. ASSUME NEW r \in Requests, NEW c \in Codes, c[1] <= generated, Consume(r, c)
      PROVE  TypeInv'
  <2>1. PICK b \in Newest :
          Begin(r, [Idle EXCEPT !.pc = "candidates", !.code = c, !.batch = b,
                                !.doomed = Superseded(c[1])])
    BY <1>9 DEF Consume
  <2>. DEFINE q == [Idle EXCEPT !.pc = "candidates", !.code = c, !.batch = b,
                                !.doomed = Superseded(c[1])]
  <2>2. b \in 1 .. generated /\ b \in Batches
    BY <1>00, SecondFactorAssumption DEF Newest, TypeInv, TypeOK, Batches
  <2>3. Superseded(c[1]) \in BOOLEAN BY DEF Superseded
  <2>4. q \in Request BY <2>2, <2>3, IdleType DEF Request, Pcs
  <2>5. q.pc = "candidates" /\ q.code = c /\ q.batch = b BY DEF Idle
  <2>6. Becomes(r, q) /\ UNCHANGED <<now, store, watch>> BY <1>9, <2>1 DEF Consume, Begin, Becomes
  <2>. HIDE DEF q
  <2>7. begun' \in 0 .. MaxRequests BY <2>1, <1>01 DEF Begin
  <2>. QED BY <1>9, <2>2, <2>4, <2>5, <2>6, <2>7, MoveTypes
<1>10. ASSUME NEW r \in Requests, Match(r) PROVE TypeInv'
  <2>1. /\ [req[r] EXCEPT !.pc = "redeem"] \in Request
        /\ [req[r] EXCEPT !.pc = "refused"] \in Request
    BY <1>0 DEF Request, Pcs
  <2>2. CASE Go(r, [req[r] EXCEPT !.pc = "redeem"])
    <3>. DEFINE q == [req[r] EXCEPT !.pc = "redeem"]
    <3>1. q.pc = "redeem" /\ q.code = req[r].code /\ q.batch = req[r].batch
      BY <1>0 DEF Request
    <3>2. q.code \in Codes /\ q.code[1] <= generated /\ q.batch \in 1 .. generated
      BY <1>10, <3>1 DEF Match, TypeInv, Points
    <3>3. Becomes(r, q) /\ UNCHANGED <<now, store, watch>> /\ begun' = begun
      BY <1>10, <2>2 DEF Match, Go, Becomes
    <3>4. q \in Request BY <2>1
    <3>. HIDE DEF q
    <3>. QED BY <1>00, <3>1, <3>2, <3>3, <3>4, MoveTypes
  <2>3. CASE Refuse(r)
    <3>1. [req[r] EXCEPT !.pc = "refused"].pc = "refused" BY <1>0 DEF Request
    <3>. QED BY <1>10, <1>00, <2>1, <2>3, <3>1, MoveTypes DEF Match, Refuse, Go, Becomes
  <2>. QED BY <1>10, <2>2, <2>3 DEF Match
<1>11. ASSUME NEW r \in Requests, Redeem(r) PROVE TypeInv'
  <2>1. PICK q \in Request : Becomes(r, q) /\ q.pc \in {"idle", "refused"} /\ begun' = begun
    <3>1. [req[r] EXCEPT !.pc = "refused"] \in Request /\ [req[r] EXCEPT !.pc = "refused"].pc = "refused"
      BY <1>0 DEF Request, Pcs
    <3>2. Idle.pc = "idle" BY DEF Idle
    <3>. QED BY <1>11, IdleType, <3>1, <3>2 DEF Redeem, End, Refuse, Go, Becomes
  <2>2. req' \in [Requests -> Request] /\ Points'
    BY <1>11, <2>1, <1>00, PlainKept DEF Redeem
  <2>3. unused' \subseteq unused /\ spent' \in [Codes -> Nat]
    BY <1>11 DEF Redeem, TypeInv, TypeOK, Points
  <2>4. TypeOK' BY <1>11, <2>1, <2>2, <2>3 DEF Redeem, TypeInv, TypeOK, Codes
  <2>5. Dates' BY <1>11 DEF Redeem, TypeInv, Dates
  <2>. QED BY <2>2, <2>4, <2>5 DEF TypeInv
<1>12. ASSUME NEW r \in Requests, ReadFactors(r) PROVE TypeInv'
  <2>1. Pending \cup Confirmed \subseteq Factors BY DEF Pending, Confirmed
  <2>. DEFINE q == [Idle EXCEPT !.pc = "codes", !.seen = Pending \cup Confirmed]
  <2>2. q \in Request BY <2>1, IdleType DEF Request, Pcs
  <2>3. q.pc = "codes" BY DEF Idle
  <2>4. Becomes(r, q) /\ UNCHANGED <<now, store, watch>> /\ begun' \in 0 .. MaxRequests
    BY <1>12, <1>01 DEF ReadFactors, Begin, Becomes
  <2>. HIDE DEF q
  <2>. QED BY <2>2, <2>3, <2>4, MoveTypes
<1>13. ASSUME NEW r \in Requests, Burn(r) PROVE TypeInv'
  <2>2. req' \in [Requests -> Request] /\ Points'
    BY <1>13, <1>00, EndKept DEF Burn
  <2>3. factors' \in [Factors -> Factor \cup {None}]
        /\ \A f \in Factors : f > enrolled => factors'[f] = None
    BY <1>13 DEF Burn, TypeInv, TypeOK
  <2>4. unused' \subseteq unused /\ burned' \in SUBSET Codes
    BY <1>13, <1>0 DEF Burn, Request, TypeInv, TypeOK
  <2>5. TypeOK' BY <1>13, <2>2, <2>3, <2>4 DEF Burn, End, Go, TypeInv, TypeOK, Codes
  <2>6. Dates' BY <1>13 DEF Burn, TypeInv, Dates
  <2>. QED BY <2>2, <2>5, <2>6 DEF TypeInv
<1>17. ASSUME NEW r \in Requests, ReadCodes(r) PROVE TypeInv'
  <2>. DEFINE q == [req[r] EXCEPT !.pc = "burn", !.codes = unused]
  <2>1. unused \in SUBSET Codes BY DEF TypeInv, TypeOK
  <2>2. q \in Request BY <1>0, <2>1 DEF Request, Pcs
  <2>3. q.pc = "burn" BY <1>0 DEF Request
  <2>4. Becomes(r, q) /\ UNCHANGED <<now, store, watch>> /\ begun' = begun
    BY <1>17 DEF ReadCodes, Go, Becomes
  <2>. HIDE DEF q
  <2>. QED BY <1>00, <2>2, <2>3, <2>4, MoveTypes
<1>14. ASSUME NEW r \in Requests, Leave(r) \/ Abandon(r) PROVE TypeInv'
  BY <1>14, <1>00, IdleType, MoveTypes DEF Leave, Abandon, End, Go, Idle, Becomes
<1>15. ASSUME Tick PROVE TypeInv'
  <2>1. now' \in Steps BY <1>15, SecondFactorAssumption DEF Tick, TypeInv, TypeOK, Steps
  <2>2. TypeOK' BY <1>15, <2>1 DEF Tick, TypeInv, TypeOK, store, watch, Codes
  <2>. QED BY <1>15, <2>2 DEF Tick, TypeInv, Points, Dates, store
<1>16. ASSUME UNCHANGED vars PROVE TypeInv'
  <2>1. TypeOK' BY <1>16 DEF vars, TypeInv, TypeOK, store, watch, Codes
  <2>. QED BY <1>16, <2>1 DEF vars, TypeInv, Points, Dates, store
<1>. QED
  BY <1>1, <1>2, <1>3, <1>4, <1>5, <1>6, <1>7, <1>8, <1>9, <1>10, <1>11, <1>12,
     <1>13, <1>14, <1>15, <1>16, <1>17 DEF Next, Step

\* The rows of factors and codes, the requests and the counts have the types
\* TypeOK gives them, and rows exist only for what was enrolled and generated.
THEOREM TypeCorrect == Spec => []TypeOK
<1>1. Spec => []TypeInv BY InitTypes, NextTypes, PTL DEF Spec
<1>2. TypeInv => TypeOK BY DEF TypeInv
<1>. QED BY <1>1, <1>2, PTL

-----------------------------------------------------------------------------
(***************************************************************************)
(* Time steps.  A step after the watermark of a factor has not been        *)
(* accepted yet; the statement that moves the watermark stores a step      *)
(* after the one it read, and only while that one is still there.          *)
(***************************************************************************)

StepInv ==
  \A f \in Factors, s \in Steps :
    /\ used[f][s] <= 1
    /\ f > enrolled => used[f][s] = 0
    /\ factors[f] # None /\ s > factors[f].last => used[f][s] = 0

\* A step that accepts no code and at most deletes factors.
OnlyDeletes ==
  /\ UNCHANGED <<enrolled, used>>
  /\ \A f \in Factors : factors'[f] \in {factors[f], None}

\* Every action but SaveFactor and Commit is one of those.
LEMMA OtherSteps ==
  ASSUME TypeInv, [Next]_vars,
         \A r \in Requests : ~SaveFactor(r) /\ ~Commit(r)
  PROVE  OnlyDeletes
<1>1. CASE UNCHANGED vars BY <1>1 DEF vars, store, watch, OnlyDeletes
<1>2. CASE Tick BY <1>2 DEF Tick, store, watch, OnlyDeletes
<1>3. ASSUME NEW r \in Requests, Step(r) PROVE OnlyDeletes
  <2>1. CASE Enrol(r)
    BY <2>1 DEF Enrol, WithoutPending, watch, OnlyDeletes
  <2>2. CASE Disable(r)
    BY <2>2 DEF Disable, watch, OnlyDeletes
  <2>3. CASE Burn(r)
    BY <2>3 DEF Burn, OnlyDeletes
  <2>4. CASE UNCHANGED <<factors, enrolled, used>>
    BY <2>4 DEF OnlyDeletes
  <2>5. Enrol(r) \/ Disable(r) \/ Burn(r) \/ UNCHANGED <<factors, enrolled, used>>
    BY <1>3 DEF Step, Check, Status, ByPassword, Generate, Consume, Match, Redeem,
                ReadFactors, ReadCodes, Leave, Abandon, store, watch
  <2>. QED BY <2>1, <2>2, <2>3, <2>4, <2>5
<1>. QED BY <1>1, <1>2, <1>3 DEF Next

\* What a new factor and an accepted code change.
LEMMA SaveFactorSteps ==
  ASSUME TypeInv, NEW r \in Requests, SaveFactor(r)
  PROVE  /\ UNCHANGED used /\ enrolled' = enrolled + 1 /\ enrolled \in Nat
         /\ \A f \in Factors :
              factors'[f] = IF f = enrolled + 1 THEN [confirmed |-> FALSE, last |-> 0] ELSE factors[f]
BY DEF SaveFactor, watch, TypeInv, TypeOK

LEMMA CommitSteps ==
  ASSUME TypeInv, NEW r \in Requests, Commit(r)
  PROVE  /\ UNCHANGED enrolled
         /\ \/ UNCHANGED <<factors, used>>
            \/ \E f \in Factors, s \in Steps :
                 /\ factors[f] # None /\ factors[f].last < s
                 /\ factors'[f] # None /\ factors'[f].last = s
                 /\ used' = [used EXCEPT ![f][s] = @ + 1]
                 /\ \A g \in Factors \ {f} : factors'[g] = factors[g]
<1>. DEFINE f == req[r].factor
            s == req[r].step
<1>1. f \in Factors /\ s \in Steps /\ req[r].last < s
  BY DEF Commit, TypeInv, Points
<1>2. CASE ~Commits(req[r]) BY <1>2 DEF Commit
<1>3. CASE Commits(req[r])
  <2>1. factors[f] # None /\ factors[f].last = req[r].last /\ factors[f] \in Factor
    BY <1>1, <1>3 DEF Commits, TypeInv, TypeOK
  <2>2. factors' = [factors EXCEPT ![f] =
           [factors[f] EXCEPT !.last = s, !.confirmed = @ \/ req[r].then = "confirm"]]
    BY <1>1, <1>3, <2>1 DEF Commit, TypeInv, TypeOK
  <2>3. factors'[f] = [factors[f] EXCEPT !.last = s, !.confirmed = @ \/ req[r].then = "confirm"]
        /\ \A g \in Factors \ {f} : factors'[g] = factors[g]
    BY <1>1, <2>2 DEF TypeInv, TypeOK
  <2>4. factors'[f].last = s /\ factors'[f] \in Factor
    <3>1. s \in 0 .. MaxStep BY <1>1, SecondFactorAssumption DEF Steps
    <3>2. (factors[f].confirmed \/ req[r].then = "confirm") \in BOOLEAN OBVIOUS
    <3>. HIDE DEF f, s
    <3>. QED BY <2>1, <2>3, <3>1, <3>2 DEF Factor
  <2>5. factors'[f] # None BY <2>4, SecondFactorAssumption DEF Factor
  <2>6. used' = [used EXCEPT ![f][s] = @ + 1] /\ enrolled' = enrolled
    BY <1>3 DEF Commit
  <2>. QED BY <1>1, <2>1, <2>3, <2>4, <2>5, <2>6
<1>. QED BY <1>2, <1>3 DEF Commit

LEMMA NextStepInv == ASSUME TypeInv, StepInv, [Next]_vars PROVE StepInv'
<1>1. ASSUME NEW r \in Requests, SaveFactor(r) PROVE StepInv'
  BY <1>1, SaveFactorSteps DEF StepInv, Factors, Steps
<1>2. ASSUME NEW r \in Requests, Commit(r) PROVE StepInv'
  <2>1. CASE UNCHANGED <<factors, used, enrolled>> BY <2>1 DEF StepInv
  <2>2. ASSUME NEW f \in Factors, NEW s \in Steps,
               factors[f] # None, factors[f].last < s,
               factors'[f] # None, factors'[f].last = s,
               used' = [used EXCEPT ![f][s] = @ + 1], enrolled' = enrolled,
               \A g \in Factors \ {f} : factors'[g] = factors[g]
        PROVE  StepInv'
    <3>1. f <= enrolled /\ factors[f].last \in Nat /\ enrolled \in Nat
      BY <2>2, SecondFactorAssumption DEF TypeInv, TypeOK, Factor, Factors
    <3>2. used[f][s] = 0 BY <2>2 DEF StepInv, Steps
    <3>3. \A g \in Factors, t \in Steps :
            used'[g][t] = IF g = f /\ t = s THEN 1 ELSE used[g][t]
      BY <2>2, <3>2 DEF TypeInv, TypeOK
    <3>4. ASSUME NEW g \in Factors, NEW t \in Steps
          PROVE  /\ used'[g][t] <= 1
                 /\ g > enrolled' => used'[g][t] = 0
                 /\ factors'[g] # None /\ t > factors'[g].last => used'[g][t] = 0
      BY <2>2, <3>1, <3>3 DEF StepInv, Steps, Factors
    <3>. QED BY <3>4 DEF StepInv
  <2>. QED BY <1>2, <2>1, <2>2, CommitSteps
<1>3. CASE OnlyDeletes BY <1>3 DEF OnlyDeletes, StepInv
<1>. QED BY <1>1, <1>2, <1>3, OtherSteps

\* The code of an authenticator for one time step is accepted at most once,
\* however many requests present it together and to whichever route.
THEOREM StepIsSpent == Spec => []StepSpentOnce
<1>1. Init => StepInv BY DEF Init, StepInv
<1>2. StepInv => StepSpentOnce BY DEF StepInv, StepSpentOnce
<1>. QED BY <1>1, <1>2, InitTypes, NextTypes, NextStepInv, PTL DEF Spec

\* The watermark of a factor never goes back.
THEOREM WatermarkOnlyAdvances == Spec => WatermarkAdvances
<1>. DEFINE Forward == \A f \in Factors : factors[f] # None /\ factors'[f] # None
                                          => factors'[f].last >= factors[f].last
<1>1. ASSUME TypeInv, [Next]_vars PROVE Forward
  <2>0. \A f \in Factors : factors[f] # None => factors[f].last \in Nat /\ f <= enrolled
    BY <1>1, SecondFactorAssumption DEF TypeInv, TypeOK, Factor, Factors
  <2>1. ASSUME NEW r \in Requests, SaveFactor(r) PROVE Forward
    <3>1. \A f \in Factors : factors[f] # None => f # enrolled + 1
      BY <1>1, <2>0, <2>1, SaveFactorSteps DEF Factors
    <3>. QED BY <1>1, <2>0, <2>1, <3>1, SaveFactorSteps
  <2>2. ASSUME NEW r \in Requests, Commit(r) PROVE Forward
    BY <1>1, <2>0, <2>2, CommitSteps DEF Steps
  <2>3. CASE OnlyDeletes BY <2>0, <2>3 DEF OnlyDeletes
  <2>. QED BY <1>1, <2>1, <2>2, <2>3, OtherSteps
<1>2. TypeInv /\ [Next]_vars => [Forward]_vars BY <1>1
<1>. QED BY <1>2, InitTypes, NextTypes, PTL DEF Spec, WatermarkAdvances

-----------------------------------------------------------------------------
(***************************************************************************)
(* Recovery codes.  A code that is unused has been neither redeemed nor    *)
(* burned, and nor has one of a batch to come, which nobody has read       *)
(* either; a code is redeemed by the statement that makes it used.         *)
(***************************************************************************)

CodeInv ==
  /\ \A c \in unused : spent[c] = 0 /\ c \notin burned
  /\ \A c \in Codes : c[1] > generated =>
       spent[c] = 0 /\ c \notin burned /\ \A r \in Requests : c \notin req[r].codes

\* A request holds no codes but those it held and, once it has read, the unused.
LEMMA CodesHeld ==
  ASSUME TypeInv, [Next]_vars, NEW o \in Requests
  PROVE  req'[o].codes \subseteq req[o].codes \cup unused
<1>0. req \in [Requests -> Request] BY DEF TypeInv, TypeOK
<1>. DEFINE Goal == req'[o].codes \subseteq req[o].codes \cup unused
<1>1. ASSUME NEW r \in Requests, NEW q, Becomes(r, q), q.codes \subseteq req[r].codes \cup unused
      PROVE  Goal
  BY <1>0, <1>1 DEF Becomes
<1>2. ASSUME NEW r \in Requests, NEW q, Begin(r, q) \/ Go(r, q), q.codes = {} PROVE Goal
  BY <1>1, <1>2 DEF Begin, Go, Becomes
<1>3. ASSUME NEW r \in Requests, NEW pc, Go(r, [req[r] EXCEPT !.pc = pc]) PROVE Goal
  <2>. DEFINE q == [req[r] EXCEPT !.pc = pc]
  <2>1. q.codes = req[r].codes BY <1>0 DEF Request
  <2>2. Becomes(r, q) BY <1>3 DEF Go, Becomes
  <2>. HIDE DEF q
  <2>. QED BY <2>1, <2>2, <1>1
<1>4. ASSUME NEW r \in Requests, End(r) PROVE Goal
  <2>1. Idle.codes = {} BY DEF Idle
  <2>. QED BY <1>2, <1>4, <2>1 DEF End
<1>5. ASSUME NEW r \in Requests, Refuse(r) PROVE Goal
  BY <1>3, <1>5 DEF Refuse
<1>6. ASSUME NEW r \in Requests, NEW pc, Begin(r, [Idle EXCEPT !.pc = pc])
                                       \/ Go(r, [Idle EXCEPT !.pc = pc])
      PROVE  Goal
  <2>1. [Idle EXCEPT !.pc = pc].codes = {} BY DEF Idle
  <2>. QED BY <1>2, <1>6, <2>1
<1>7. ASSUME NEW r \in Requests, ReadCodes(r) PROVE Goal
  <2>. DEFINE q == [req[r] EXCEPT !.pc = "burn", !.codes = unused]
  <2>1. q.codes = unused BY <1>0 DEF Request
  <2>2. Becomes(r, q) BY <1>7 DEF ReadCodes, Go, Becomes
  <2>. HIDE DEF q
  <2>. QED BY <2>1, <2>2, <1>1
<1>8. ASSUME NEW r \in Requests, NEW f \in Pending \cup Confirmed, NEW s \in Steps, Check(r, f, s)
      PROVE  Goal
  <2>1. PICK then : Begin(r, [Idle EXCEPT !.pc = "commit", !.then = then, !.factor = f,
                                          !.last = factors[f].last, !.step = s])
    BY <1>8 DEF Check
  <2>2. [Idle EXCEPT !.pc = "commit", !.then = then, !.factor = f,
                     !.last = factors[f].last, !.step = s].codes = {}
    BY DEF Idle
  <2>. QED BY <1>2, <2>1, <2>2
<1>9. ASSUME NEW r \in Requests, NEW c \in Codes, Consume(r, c) PROVE Goal
  <2>1. PICK b : Begin(r, [Idle EXCEPT !.pc = "candidates", !.code = c, !.batch = b,
                                       !.doomed = Superseded(c[1])])
    BY <1>9 DEF Consume
  <2>2. [Idle EXCEPT !.pc = "candidates", !.code = c, !.batch = b,
                     !.doomed = Superseded(c[1])].codes = {}
    BY DEF Idle
  <2>. QED BY <1>2, <2>1, <2>2
<1>10. ASSUME NEW r \in Requests, ReadFactors(r) PROVE Goal
  <2>1. [Idle EXCEPT !.pc = "codes", !.seen = Pending \cup Confirmed].codes = {}
    BY DEF Idle
  <2>. QED BY <1>2, <1>10, <2>1 DEF ReadFactors
<1>11. ASSUME NEW r \in Requests, Enrol(r) \/ ByPassword(r) PROVE Goal
  BY <1>6, <1>11 DEF Enrol, ByPassword
<1>12. ASSUME NEW r \in Requests, Commit(r) \/ Status(r) PROVE Goal
  BY <1>4, <1>5, <1>6, <1>12 DEF Commit, Status
<1>13. ASSUME NEW r \in Requests, Match(r) PROVE Goal
  BY <1>3, <1>5, <1>13 DEF Match
<1>14. ASSUME NEW r \in Requests,
              \/ SaveFactor(r) \/ Disable(r) \/ Generate(r) \/ Redeem(r) \/ Burn(r)
              \/ Leave(r) \/ Abandon(r)
       PROVE  Goal
  BY <1>14, <1>4, <1>5 DEF SaveFactor, Disable, Generate, Redeem, Burn, Leave, Abandon
<1>15. ASSUME NEW r \in Requests, Step(r) PROVE Goal
  BY <1>15, <1>7, <1>8, <1>9, <1>10, <1>11, <1>12, <1>13, <1>14 DEF Step
<1>. QED BY <1>15 DEF Next, Tick, vars

\* What a redemption does.
LEMMA RedeemSteps ==
  ASSUME TypeInv, NEW r \in Requests, Redeem(r)
  PROVE  /\ UNCHANGED <<generated, burned>>
         /\ \/ UNCHANGED <<unused, spent>>
            \/ \E k \in unused : /\ unused' = unused \ {k}
                                /\ spent' = [spent EXCEPT ![k] = @ + 1]
BY DEF Redeem, Redeems

\* No other action redeems; Generate adds the codes of the next batch and Burn
\* takes out those its request has read.
LEMMA CodeSteps ==
  ASSUME [Next]_vars
  PROVE  \/ \E r \in Requests : Redeem(r)
         \/ /\ UNCHANGED <<spent, burned>> /\ generated' = generated + 1
            /\ unused' = unused \cup CodesOf(generated + 1)
         \/ \E r \in Requests :
              /\ UNCHANGED <<spent, generated>>
              /\ unused' = unused \ req[r].codes /\ burned' = burned \cup req[r].codes
         \/ UNCHANGED <<unused, spent, burned, generated>>
<1>1. ASSUME NEW r \in Requests, Generate(r)
      PROVE  /\ UNCHANGED <<spent, burned>> /\ generated' = generated + 1
             /\ unused' = unused \cup CodesOf(generated + 1)
  BY <1>1 DEF Generate, watch
<1>2. ASSUME NEW r \in Requests, Burn(r)
      PROVE  /\ UNCHANGED <<spent, generated>>
             /\ unused' = unused \ req[r].codes /\ burned' = burned \cup req[r].codes
  BY <1>2 DEF Burn
<1>3. ASSUME NEW r \in Requests, Step(r)
      PROVE  \/ Generate(r) \/ Redeem(r) \/ Burn(r)
             \/ UNCHANGED <<unused, spent, burned, generated>>
  BY <1>3 DEF Step, Enrol, SaveFactor, Check, Commit, Status, ByPassword, Disable, Consume,
              Match, ReadFactors, ReadCodes, Leave, Abandon, store, watch
<1>. QED BY <1>1, <1>2, <1>3 DEF Next, Tick, vars, store, watch

LEMMA NextCodeInv == ASSUME TypeInv, CodeInv, [Next]_vars PROVE CodeInv'
<1>0. /\ generated \in Nat /\ spent \in [Codes -> Nat] /\ \A c \in Codes : c[1] \in Nat
      /\ \A c \in unused : c \in Codes /\ c[1] <= generated
  BY CodeBatch DEF TypeInv, TypeOK, Batches
<1>1. ASSUME NEW c \in Codes, c[1] > generated, NEW o \in Requests PROVE c \notin req'[o].codes
  BY <1>0, <1>1, CodesHeld DEF CodeInv
<1>2. ASSUME NEW r \in Requests, Redeem(r) PROVE CodeInv'
  <2>1. CASE UNCHANGED <<unused, spent, generated, burned>> BY <1>1, <2>1 DEF CodeInv
  <2>2. ASSUME NEW k \in unused, unused' = unused \ {k}, spent' = [spent EXCEPT ![k] = @ + 1],
               UNCHANGED <<generated, burned>>
        PROVE  CodeInv'
    <3>1. \A c \in Codes \ {k} : spent'[c] = spent[c] BY <1>0, <2>2
    <3>2. ~(k[1] > generated) BY <1>0
    <3>. QED BY <1>0, <1>1, <2>2, <3>1, <3>2 DEF CodeInv
  <2>. QED BY <1>2, <2>1, <2>2, RedeemSteps
<1>3. CASE /\ UNCHANGED <<spent, burned>> /\ generated' = generated + 1
           /\ unused' = unused \cup CodesOf(generated + 1)
  <2>1. \A c \in unused' : c \in Codes /\ (c \in unused \/ c[1] > generated)
    BY <1>0, <1>3 DEF CodesOf
  <2>2. \A c \in Codes : c[1] > generated' => c[1] > generated BY <1>0, <1>3
  <2>. QED BY <1>1, <1>3, <2>1, <2>2 DEF CodeInv
<1>4. ASSUME NEW r \in Requests, UNCHANGED <<spent, generated>>,
             unused' = unused \ req[r].codes, burned' = burned \cup req[r].codes
      PROVE  CodeInv'
  BY <1>1, <1>4 DEF CodeInv
<1>5. CASE UNCHANGED <<unused, spent, burned, generated>>
  BY <1>1, <1>5 DEF CodeInv
<1>. QED BY <1>2, <1>3, <1>4, <1>5, CodeSteps

\* A recovery code is redeemed at most once and never after the operator's
\* command has burned it, however redemptions and that command overlap.
THEOREM CodeIsSpent == Spec => CodeSpentOnce
<1>. DEFINE Fresh == \A c \in Codes : spent'[c] # spent[c] => spent[c] = 0 /\ c \notin burned
<1>1. Init => CodeInv BY DEF Init, CodeInv, Idle
<1>2. ASSUME TypeInv, CodeInv, [Next]_vars PROVE Fresh
  <2>1. SUFFICES ASSUME NEW k \in unused, spent' = [spent EXCEPT ![k] = @ + 1] PROVE Fresh
    BY <1>2, RedeemSteps, CodeSteps
  <2>2. \A c \in Codes \ {k} : spent'[c] = spent[c] BY <1>2, <2>1 DEF TypeInv, TypeOK
  <2>. QED BY <1>2, <2>2 DEF CodeInv
<1>3. TypeInv /\ CodeInv /\ [Next]_vars => [Fresh]_vars BY <1>2
<1>. QED BY <1>1, <1>3, InitTypes, NextTypes, NextCodeInv, PTL DEF Spec, CodeSpentOnce

-----------------------------------------------------------------------------
(***************************************************************************)
(* Batches.  A request compares the code with the codes of a batch that is *)
(* no older than the code's own; when the code was superseded on arrival,  *)
(* that batch is younger, so the code is not among its codes.              *)
(***************************************************************************)

BatchInv ==
  \A r \in Requests :
    /\ req[r].pc = "candidates" =>
         /\ created[req[r].code[1]] <= created[req[r].batch]
         /\ req[r].doomed => created[req[r].code[1]] < created[req[r].batch]
    /\ req[r].pc = "redeem" => ~req[r].doomed

\* The batches that exist keep their dates.
LEMMA DatesKept ==
  ASSUME TypeInv, [Next]_vars
  PROVE  \A b \in 1 .. generated : created'[b] = created[b] /\ b \in 1 .. generated'
<1>0. generated \in Nat /\ created \in [Batches -> 0 .. MaxBatches]
  BY DEF TypeInv, TypeOK
<1>1. ASSUME NEW r \in Requests, Generate(r)
      PROVE  \A b \in 1 .. generated : created'[b] = created[b] /\ b \in 1 .. generated'
  <2>1. /\ generated' = generated + 1
        /\ \E at : created' = [created EXCEPT ![generated + 1] = at]
    BY <1>1 DEF Generate
  <2>. QED BY <1>0, <2>1 DEF Batches
<1>2. ASSUME NEW r \in Requests, Step(r), ~Generate(r) PROVE UNCHANGED <<created, generated>>
  BY <1>2 DEF Step, Enrol, SaveFactor, Check, Commit, Status, ByPassword, Disable, Consume,
              Match, Redeem, Burn, ReadFactors, ReadCodes, Leave, Abandon, store, watch
<1>3. Tick \/ UNCHANGED vars => UNCHANGED <<created, generated>>
  BY DEF Tick, vars, store
<1>. QED BY <1>0, <1>1, <1>2, <1>3 DEF Next

\* Nobody but Consume and Match moves a request to the comparison or beyond, and
\* only Enrol one to the save of a factor.
LEMMA OtherRequests ==
  ASSUME TypeInv, [Next]_vars, NEW o \in Requests,
         \A c \in Codes : ~Consume(o, c), ~Match(o)
  PROVE  \/ req'[o] = req[o]
         \/ /\ req'[o].pc \notin {"candidates", "redeem"}
            /\ req'[o].pc = "save" => \E r \in Requests : Enrol(r)
<1>0. req \in [Requests -> Request] BY DEF TypeInv, TypeOK
<1>. DEFINE Goal == \/ req'[o] = req[o]
                    \/ /\ req'[o].pc \notin {"candidates", "redeem"}
                       /\ req'[o].pc = "save" => \E r \in Requests : Enrol(r)
<1>1. ASSUME NEW r \in Requests, NEW q, Becomes(r, q), q.pc \notin {"candidates", "redeem", "save"}
      PROVE  Goal
  BY <1>0, <1>1 DEF Becomes
<1>2. ASSUME NEW r \in Requests, r # o, NEW q, Becomes(r, q) PROVE Goal
  BY <1>0, <1>2 DEF Becomes
<1>3. ASSUME UNCHANGED req PROVE Goal BY <1>3
<1>4. ASSUME NEW r \in Requests, End(r) PROVE Goal
  <2>1. Becomes(r, Idle) /\ Idle.pc = "idle" BY <1>4 DEF End, Go, Becomes, Idle
  <2>. QED BY <2>1, <1>1
<1>5. ASSUME NEW r \in Requests, Refuse(r) PROVE Goal
  <2>. DEFINE q == [req[r] EXCEPT !.pc = "refused"]
  <2>1. Becomes(r, q) BY <1>5 DEF Refuse, Go, Becomes
  <2>2. q.pc = "refused" BY <1>0 DEF Request
  <2>. HIDE DEF q
  <2>. QED BY <2>1, <2>2, <1>1
<1>6. ASSUME NEW r \in Requests, Enrol(r) PROVE Goal
  <2>1. Becomes(r, [Idle EXCEPT !.pc = "save"]) /\ [Idle EXCEPT !.pc = "save"].pc = "save"
    BY <1>6 DEF Enrol, Begin, Becomes, Idle
  <2>. QED BY <1>0, <1>6, <2>1 DEF Becomes
<1>7. ASSUME NEW r \in Requests, NEW f \in Pending \cup Confirmed, NEW s \in Steps, Check(r, f, s)
      PROVE  Goal
  <2>1. PICK then : Becomes(r, [Idle EXCEPT !.pc = "commit", !.then = then, !.factor = f,
                                            !.last = factors[f].last, !.step = s])
    BY <1>7 DEF Check, Begin, Becomes
  <2>2. [Idle EXCEPT !.pc = "commit", !.then = then, !.factor = f,
                     !.last = factors[f].last, !.step = s].pc = "commit"
    BY DEF Idle
  <2>. QED BY <2>1, <2>2, <1>1
<1>8. ASSUME NEW r \in Requests, Commit(r) PROVE Goal
  <2>1. CASE End(r) \/ Refuse(r) BY <2>1, <1>4, <1>5
  <2>2. CASE \E pc \in {"status", "disable", "batch"} : Go(r, [Idle EXCEPT !.pc = pc])
    <3>1. PICK pc \in {"status", "disable", "batch"} : Becomes(r, [Idle EXCEPT !.pc = pc])
      BY <2>2 DEF Go, Becomes
    <3>2. [Idle EXCEPT !.pc = pc].pc = pc BY DEF Idle
    <3>. QED BY <3>1, <3>2, <1>1
  <2>. QED BY <1>8, <2>1, <2>2 DEF Commit
<1>9. ASSUME NEW r \in Requests, Status(r) PROVE Goal
  <2>1. CASE End(r) BY <2>1, <1>4
  <2>2. CASE Go(r, [Idle EXCEPT !.pc = "batch"])
    <3>1. Becomes(r, [Idle EXCEPT !.pc = "batch"]) /\ [Idle EXCEPT !.pc = "batch"].pc = "batch"
      BY <2>2 DEF Go, Becomes, Idle
    <3>. QED BY <3>1, <1>1
  <2>. QED BY <1>9, <2>1, <2>2 DEF Status
<1>10. ASSUME NEW r \in Requests, ByPassword(r) PROVE Goal
  <2>1. PICK pc \in {"disable", "batch"} : Becomes(r, [Idle EXCEPT !.pc = pc])
    BY <1>10 DEF ByPassword, Begin, Becomes
  <2>2. [Idle EXCEPT !.pc = pc].pc = pc BY DEF Idle
  <2>. QED BY <2>1, <2>2, <1>1
<1>11. ASSUME NEW r \in Requests, ReadFactors(r) PROVE Goal
  <2>1. Becomes(r, [Idle EXCEPT !.pc = "codes", !.seen = Pending \cup Confirmed])
    BY <1>11 DEF ReadFactors, Begin, Becomes
  <2>2. [Idle EXCEPT !.pc = "codes", !.seen = Pending \cup Confirmed].pc = "codes"
    BY DEF Idle
  <2>. QED BY <2>1, <2>2, <1>1
<1>17. ASSUME NEW r \in Requests, ReadCodes(r) PROVE Goal
  <2>. DEFINE q == [req[r] EXCEPT !.pc = "burn", !.codes = unused]
  <2>1. Becomes(r, q) BY <1>17 DEF ReadCodes, Go, Becomes
  <2>2. q.pc = "burn" BY <1>0 DEF Request
  <2>. HIDE DEF q
  <2>. QED BY <2>1, <2>2, <1>1
<1>12. ASSUME NEW r \in Requests, Redeem(r) PROVE Goal
  BY <1>12, <1>4, <1>5 DEF Redeem
<1>13. ASSUME NEW r \in Requests, NEW c \in Codes, Consume(r, c) PROVE Goal
  BY <1>13, <1>2 DEF Consume, Begin, Becomes
<1>14. ASSUME NEW r \in Requests, Match(r) PROVE Goal
  BY <1>14, <1>2 DEF Match, Go, Refuse, Becomes
<1>15. ASSUME NEW r \in Requests,
              SaveFactor(r) \/ Disable(r) \/ Generate(r) \/ Burn(r) \/ Leave(r) \/ Abandon(r)
       PROVE  Goal
  BY <1>15, <1>4 DEF SaveFactor, Disable, Generate, Burn, Leave, Abandon
<1>16. ASSUME NEW r \in Requests, Step(r) PROVE Goal
  BY <1>16, <1>6, <1>7, <1>8, <1>9, <1>10, <1>11, <1>12, <1>13, <1>14, <1>15, <1>17 DEF Step
<1>. QED BY <1>3, <1>16 DEF Next, Tick, vars

\* The request that compares its code.
LEMMA MatchRequest ==
  ASSUME TypeInv, NEW r \in Requests, Match(r)
  PROVE  \/ /\ req[r].code \in Candidates(req[r].batch)
            /\ req'[r].pc = "redeem" /\ req'[r].doomed = req[r].doomed
         \/ req[r].code \notin Candidates(req[r].batch) /\ req'[r].pc = "refused"
<1>1. req[r] \in Request /\ r \in DOMAIN req BY DEF TypeInv, TypeOK
<1>. QED BY <1>1 DEF Match, Go, Refuse, Request

\* The request that arrives with a recovery code.
LEMMA ConsumeRequest ==
  ASSUME TypeInv, NEW r \in Requests, NEW c \in Codes, Consume(r, c)
  PROVE  /\ req'[r].pc = "candidates" /\ req'[r].code = c
         /\ req'[r].batch \in Newest /\ req'[r].doomed = Superseded(c[1])
<1>1. PICK b \in Newest :
        req' = [req EXCEPT ![r] = [Idle EXCEPT !.pc = "candidates", !.code = c, !.batch = b,
                                               !.doomed = Superseded(c[1])]]
  BY DEF Consume, Begin
<1>2. req'[r] = [Idle EXCEPT !.pc = "candidates", !.code = c, !.batch = b,
                             !.doomed = Superseded(c[1])]
  BY <1>1 DEF TypeInv, TypeOK
<1>. QED BY <1>2 DEF Idle

LEMMA NextBatchInv == ASSUME TypeInv, BatchInv, [Next]_vars PROVE BatchInv'
<1>0. /\ generated \in 0 .. MaxBatches /\ created \in [Batches -> 0 .. MaxBatches]
      /\ 1 .. generated \subseteq Batches
  BY SecondFactorAssumption DEF TypeInv, TypeOK, Batches
<1>1. ASSUME NEW o \in Requests
      PROVE  /\ req'[o].pc = "candidates" =>
                  /\ created'[req'[o].code[1]] <= created'[req'[o].batch]
                  /\ req'[o].doomed => created'[req'[o].code[1]] < created'[req'[o].batch]
             /\ req'[o].pc = "redeem" => ~req'[o].doomed
  <2>1. ASSUME NEW c \in Codes, Consume(o, c), c[1] <= generated
        PROVE  /\ req'[o].pc = "candidates"
               /\ created'[req'[o].code[1]] <= created'[req'[o].batch]
               /\ req'[o].doomed => created'[req'[o].code[1]] < created'[req'[o].batch]
    <3>1. c[1] \in 1 .. generated BY <1>0, <2>1, CodeBatch DEF Batches
    <3>2. UNCHANGED created BY <2>1 DEF Consume, store
    <3>3. /\ req'[o].pc = "candidates" /\ req'[o].code = c
          /\ req'[o].batch \in Newest /\ req'[o].doomed = Superseded(c[1])
      BY <2>1, ConsumeRequest
    <3>4. /\ req'[o].batch \in 1 .. generated
          /\ \A i \in 1 .. generated : created[i] <= created[req'[o].batch]
      BY <3>3 DEF Newest
    <3>5. created[c[1]] <= created[req'[o].batch] BY <3>1, <3>4
    <3>6. Superseded(c[1]) => created[c[1]] < created[req'[o].batch]
      <4>1. SUFFICES ASSUME NEW i \in 1 .. generated, created[i] > created[c[1]]
                     PROVE  created[c[1]] < created[req'[o].batch]
        BY DEF Superseded
      <4>2. created[i] <= created[req'[o].batch] BY <3>4
      <4>3. /\ created[i] \in 0 .. MaxBatches /\ created[c[1]] \in 0 .. MaxBatches
            /\ created[req'[o].batch] \in 0 .. MaxBatches
        BY <1>0, <3>1, <3>4
      <4>. QED BY <4>1, <4>2, <4>3
    <3>. QED BY <3>2, <3>3, <3>5, <3>6
  <2>2. CASE Match(o)
    <3>1. CASE req[o].code \in Candidates(req[o].batch)
      <4>1. req[o].pc = "candidates" /\ req[o].code[1] = req[o].batch
        BY <2>2, <3>1 DEF Match, Candidates, CodesOf
      <4>2. ~req[o].doomed
        <5>1. req[o].batch \in 1 .. generated BY <4>1 DEF TypeInv, Points
        <5>2. created[req[o].batch] \in Nat BY <1>0, <5>1
        <5>. QED BY <4>1, <5>2 DEF BatchInv
      <4>. QED BY <2>2, <3>1, <4>2, MatchRequest
    <3>. QED BY <2>2, <3>1, MatchRequest
  <2>3. CASE req'[o] = req[o]
    <3>1. req[o].pc \in {"candidates", "redeem"} =>
            req[o].code[1] \in 1 .. generated /\ req[o].batch \in 1 .. generated
      BY <1>0, CodeBatch DEF TypeInv, Points, Batches
    <3>. QED BY <2>3, <3>1, DatesKept DEF BatchInv
  <2>4. (\E c \in Codes : Consume(o, c)) => \E c \in Codes : Consume(o, c) /\ c[1] <= generated
    <3>1. ASSUME NEW c \in Codes, Consume(o, c) PROVE c[1] <= generated
      <4>1. req[o].pc = "idle" /\ req'[o].pc = "candidates" /\ req'[o].code = c
            /\ generated' = generated
        BY <3>1, ConsumeRequest DEF Consume, Begin, store
      <4>2. Points' BY NextTypes DEF TypeInv
      <4>. QED BY <4>1, <4>2 DEF Points
    <3>. QED BY <3>1
  <2>. QED BY <2>1, <2>2, <2>3, <2>4, OtherRequests
<1>. QED BY <1>1 DEF BatchInv

\* A request that came when a newer batch had been created redeems no code of an
\* older one.
THEOREM SupersededIsRefused == Spec => []SupersededStaysOut
<1>1. Init => BatchInv BY DEF Init, BatchInv, Idle
<1>2. BatchInv => SupersededStaysOut BY DEF BatchInv, SupersededStaysOut
<1>. QED BY <1>1, <1>2, InitTypes, NextTypes, NextBatchInv, PTL DEF Spec

\* The code of the one newest batch is not refused while it is unused.
THEOREM GoodCodeIsTaken == Spec => GoodCodeWorks
<1>. DEFINE Taken ==
       \A r \in Requests :
         req[r].pc \in {"candidates", "redeem"} /\ req'[r].pc = "refused"
           => ~(req[r].code \in unused /\ Newest = {req[r].code[1]})
<1>1. ASSUME TypeInv, BatchInv, [Next]_vars PROVE Taken
  <2>1. SUFFICES ASSUME NEW o \in Requests, req[o].pc \in {"candidates", "redeem"},
                        req'[o].pc = "refused", req[o].code \in unused,
                        Newest = {req[o].code[1]}
                 PROVE  FALSE
    OBVIOUS
  <2>2. req[o].code \in Codes /\ req[o].batch \in 1 .. generated
    BY <1>1, <2>1 DEF TypeInv, Points
  <2>3. ~Match(o)
    <3>1. SUFFICES ASSUME Match(o) PROVE FALSE
      OBVIOUS
    <3>2. req[o].pc = "candidates" /\ req[o].code \notin CodesOf(req[o].batch)
      BY <1>1, <2>1, <3>1, MatchRequest DEF Match, Candidates
    <3>3. req[o].code[1] # req[o].batch BY <2>2, <3>2 DEF CodesOf
    <3>4. created[req[o].code[1]] <= created[req[o].batch] BY <1>1, <3>2 DEF BatchInv
    <3>5. \A b \in 1 .. generated : created[b] \in Nat
      BY <1>1, SecondFactorAssumption DEF TypeInv, TypeOK, Batches
    <3>6. req[o].batch \in Newest
      BY <2>1, <2>2, <3>4, <3>5 DEF Newest
    <3>. QED BY <2>1, <3>3, <3>6
  <2>4. ~Redeem(o)
    <3>1. SUFFICES ASSUME Redeem(o) PROVE FALSE
      OBVIOUS
    <3>2. End(o) BY <2>1, <3>1 DEF Redeem, Redeems
    <3>3. req'[o].pc = "idle" BY <1>1, <3>2 DEF End, Go, Idle, TypeInv, TypeOK
    <3>. QED BY <2>1, <3>3
  <2>5. ~Commit(o) /\ req'[o] # req[o]
    BY <2>1 DEF Commit
  <2>6. req \in [Requests -> Request] BY <1>1 DEF TypeInv, TypeOK
  <2>7. ASSUME NEW r \in Requests, Step(r) PROVE r = o
    <3>1. \E q : req' = [req EXCEPT ![r] = q]
      BY <2>7 DEF Step, Enrol, SaveFactor, Check, Commit, Status, ByPassword, Disable,
                  Generate, Consume, Match, Redeem, ReadFactors, ReadCodes, Burn, Leave,
                  Abandon, Begin, Go, End, Refuse
    <3>. QED BY <2>5, <2>6, <3>1
  <2>8. Step(o) BY <1>1, <2>5, <2>7 DEF Next, Tick, vars
  <2>9. Abandon(o)
    BY <2>1, <2>3, <2>4, <2>5, <2>8
       DEF Step, Enrol, SaveFactor, Check, Status, ByPassword, Disable, Generate,
           Consume, ReadFactors, ReadCodes, Burn, Leave, Begin
  <2>10. req'[o].pc = "idle" BY <2>6, <2>9 DEF Abandon, End, Go, Idle
  <2>. QED BY <2>1, <2>10
<1>2. TypeInv /\ BatchInv /\ [Next]_vars => [Taken]_vars BY <1>1
<1>3. Init => BatchInv BY DEF Init, BatchInv, Idle
<1>. QED BY <1>2, <1>3, InitTypes, NextTypes, NextBatchInv, PTL DEF Spec, GoodCodeWorks

-----------------------------------------------------------------------------
(***************************************************************************)
(* Enrolments.  A call that deletes the pending factors may leave one; the *)
(* sum of the pending factors and of the calls about to save one does not  *)
(* grow otherwise.                                                         *)
(***************************************************************************)

Saving == {r \in Requests : req[r].pc = "save"}

\* No call but Enrol adds to those about to save a factor.
LEMMA SavingKept ==
  ASSUME TypeInv, [Next]_vars, \A r \in Requests : ~Enrol(r)
  PROVE  Saving' \subseteq Saving
<1>1. SUFFICES ASSUME NEW o \in Requests, req'[o].pc = "save" PROVE req[o].pc = "save"
  BY DEF Saving
<1>2. ~Match(o) BY <1>1, MatchRequest
<1>3. \A c \in Codes : ~Consume(o, c) BY <1>1, ConsumeRequest
<1>. QED BY <1>1, <1>2, <1>3, OtherRequests

LEMMA NextPending == ASSUME TypeInv, PendingBounded, [Next]_vars PROVE PendingBounded'
<1>0. /\ IsFiniteSet(Requests) /\ IsFiniteSet(Factors)
      /\ Saving \subseteq Requests /\ Saving' \subseteq Requests
      /\ Pending \subseteq Factors /\ Pending' \subseteq Factors
  BY SecondFactorAssumption, FS_Interval DEF Saving, Pending, Factors
<1>1. /\ IsFiniteSet(Saving) /\ IsFiniteSet(Saving')
      /\ IsFiniteSet(Pending) /\ IsFiniteSet(Pending')
  BY <1>0, FS_Subset
<1>2. /\ Cardinality(Saving) \in Nat /\ Cardinality(Saving') \in Nat
      /\ Cardinality(Pending) \in Nat /\ Cardinality(Pending') \in Nat
      /\ Cardinality(Requests) \in Nat
  BY <1>0, <1>1, FS_CardinalityType
<1>3. Cardinality(Pending) + Cardinality(Saving) <= Cardinality(Requests)
  BY DEF PendingBounded, Saving
<1>4. SUFFICES Cardinality(Pending') + Cardinality(Saving') <= Cardinality(Requests)
  BY DEF PendingBounded, Saving, Pending
<1>5. ASSUME NEW r \in Requests, Enrol(r)
      PROVE  Cardinality(Pending') + Cardinality(Saving') <= Cardinality(Requests)
  <2>1. Pending' = {} BY <1>5 DEF Enrol, WithoutPending, Pending
  <2>2. Cardinality(Pending') = 0 BY <2>1, FS_EmptySet
  <2>3. Cardinality(Saving') <= Cardinality(Requests) BY <1>0, FS_Subset
  <2>. QED BY <1>2, <2>2, <2>3
<1>6. ASSUME NEW r \in Requests, SaveFactor(r), \A o \in Requests : ~Enrol(o)
      PROVE  Cardinality(Pending') + Cardinality(Saving') <= Cardinality(Requests)
  <2>1. Pending' \subseteq Pending \cup {enrolled + 1}
    BY <1>6, SaveFactorSteps DEF Pending
  <2>2. Saving' \subseteq Saving \ {r} /\ r \in Saving
    <3>1. req'[r].pc = "idle" BY <1>6 DEF SaveFactor, End, Go, Idle, TypeInv, TypeOK
    <3>2. req[r].pc = "save" BY <1>6 DEF SaveFactor
    <3>3. Saving' \subseteq Saving BY <1>6, SavingKept
    <3>. QED BY <3>1, <3>2, <3>3 DEF Saving
  <2>3. /\ IsFiniteSet(Pending \cup {enrolled + 1})
        /\ Cardinality(Pending \cup {enrolled + 1}) <= Cardinality(Pending) + 1
    BY <1>1, <1>2, FS_AddElement
  <2>4. Cardinality(Pending') <= Cardinality(Pending \cup {enrolled + 1})
        /\ Cardinality(Pending \cup {enrolled + 1}) \in Nat
    BY <2>1, <2>3, FS_Subset, FS_CardinalityType
  <2>5. IsFiniteSet(Saving \ {r}) /\ Cardinality(Saving \ {r}) = Cardinality(Saving) - 1
    BY <1>1, <2>2, FS_RemoveElement
  <2>6. Cardinality(Saving') <= Cardinality(Saving \ {r}) BY <2>2, <2>5, FS_Subset
  <2>. QED BY <1>2, <1>3, <2>3, <2>4, <2>5, <2>6
<1>7. ASSUME \A r \in Requests : ~Enrol(r) /\ ~SaveFactor(r)
      PROVE  Cardinality(Pending') + Cardinality(Saving') <= Cardinality(Requests)
  <2>1. Pending' \subseteq Pending
    <3>1. ASSUME NEW r \in Requests, Commit(r) PROVE Pending' \subseteq Pending
      <4>1. CASE ~Commits(req[r]) BY <3>1, <4>1 DEF Commit, Pending
      <4>2. CASE Commits(req[r])
        <5>. DEFINE f == req[r].factor
        <5>1. f \in Factors /\ factors[f] # None /\ factors[f] \in Factor
          BY <3>1, <4>2 DEF Commit, Commits, TypeInv, TypeOK, Points
        <5>2. \A g \in Factors \ {f} : factors'[g] = factors[g]
          BY <3>1, <4>2 DEF Commit, TypeInv, TypeOK
        <5>3. factors'[f].confirmed = (factors[f].confirmed \/ req[r].then = "confirm")
          BY <3>1, <4>2, <5>1 DEF Commit, TypeInv, TypeOK, Factor
        <5>. QED BY <5>1, <5>2, <5>3 DEF Pending
      <4>. QED BY <4>1, <4>2
    <3>2. CASE OnlyDeletes BY <3>2 DEF OnlyDeletes, Pending
    <3>. QED BY <1>7, <3>1, <3>2, OtherSteps
  <2>2. Saving' \subseteq Saving BY <1>7, SavingKept
  <2>3. Cardinality(Pending') <= Cardinality(Pending) /\ Cardinality(Saving') <= Cardinality(Saving)
    BY <1>1, <2>1, <2>2, FS_Subset
  <2>. QED BY <1>2, <1>3, <2>3
<1>8. ASSUME NEW r \in Requests, SaveFactor(r), NEW o \in Requests, Enrol(o) PROVE FALSE
  BY <1>8, SecondFactorAssumption DEF SaveFactor, Enrol, TypeInv, TypeOK
<1>. QED BY <1>5, <1>6, <1>7, <1>8

\* Abandoned enrolments do not pile up: there is at most one pending factor for
\* each call that may run beside the others.
THEOREM PendingIsBounded == Spec => []PendingBounded
<1>1. Init => PendingBounded
  <2>1. SUFFICES ASSUME Init PROVE PendingBounded
    OBVIOUS
  <2>2. Pending = {} /\ {r \in Requests : req[r].pc = "save"} = {}
    BY <2>1 DEF Init, Pending, Idle
  <2>3. Cardinality(Pending) = 0 /\ Cardinality({r \in Requests : req[r].pc = "save"}) = 0
    BY <2>2, FS_EmptySet
  <2>4. Cardinality(Requests) \in Nat BY FS_CardinalityType, SecondFactorAssumption
  <2>. QED BY <2>3, <2>4 DEF PendingBounded
<1>. QED BY <1>1, InitTypes, NextTypes, NextPending, PTL DEF Spec
=============================================================================
