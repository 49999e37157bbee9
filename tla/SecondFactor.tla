---------------------------- MODULE SecondFactor ----------------------------
(***************************************************************************)
(* The second factor of one account: its authenticators (identity/services *)
(* /TotpService), its recovery codes (identity/services/                   *)
(* RecoveryCodeService), the routes that compose them (identity/routes/    *)
(* mfa) and the operator's command that removes them all (commands/mfa/    *)
(* disable).                                                               *)
(*                                                                         *)
(* A request is one call of these; its steps end at awaits on the          *)
(* database, so requests interleave as in the code.  The code an           *)
(* authenticator shows is its factor and a time step; a recovery code is   *)
(* its batch and a number.                                                 *)
(***************************************************************************)
EXTENDS Naturals, FiniteSets

CONSTANTS
  Requests,     \* calls that may be in progress together
  Count,        \* RECOVERY_CODE_COUNT
  Window,       \* TOTP_WINDOW_STEPS
  MaxStep,      \* bound: the clock, in time steps
  MaxFactors,   \* bound: factors ever enrolled
  MaxBatches,   \* bound: batches ever generated
  MaxRequests,  \* bound: requests ever begun
  None          \* no row

Steps == 1 .. MaxStep
Factors == 1 .. MaxFactors
Batches == 1 .. MaxBatches
Codes == Batches \X (1 .. Count)

ASSUME SecondFactorAssumption ==
  /\ IsFiniteSet(Requests) /\ Count \in Nat /\ Window \in Nat
  /\ MaxStep \in Nat \ {0} /\ MaxFactors \in Nat /\ MaxBatches \in Nat
  /\ MaxRequests \in Nat
  /\ None \notin [confirmed: BOOLEAN, last: 0 .. MaxStep]

VARIABLES
  now,         \* the time step
  factors,     \* factors[f]: the MfaFactor row, or None
  enrolled,    \* factors enrolled so far
  created,     \* created[b]: createdDate of the batch b, or 0 before it exists
  unused,      \* recovery codes with consumedDate NULL
  generated,   \* batches so far
  req,         \* req[r]: where the request r is
  begun,
  used,        \* used[f][s]: times the code of f for the step s was accepted
  spent,       \* spent[c]: times the recovery code c was redeemed
  burned       \* codes whose consumedDate the operator's command has set

store == <<factors, enrolled, created, unused, generated>>
watch == <<used, spent, burned>>
vars == <<now, store, req, begun, watch>>

\* last is the step that lastUsedDate holds, or 0 when it is NULL.
Factor == [confirmed: BOOLEAN, last: 0 .. MaxStep]

Pcs == {"idle", "save", "commit", "status", "batch", "disable", "candidates",
        "redeem", "codes", "burn", "refused"}
Request == [pc: Pcs, then: {"confirm", "answer", "disable", "batch"},
            factor: Factors \cup {0}, last: 0 .. MaxStep, step: 0 .. MaxStep,
            code: Codes \cup {<<0, 0>>}, batch: Batches \cup {0},
            seen: SUBSET Factors, codes: SUBSET Codes, doomed: BOOLEAN]

Idle == [pc |-> "idle", then |-> "answer", factor |-> 0, last |-> 0, step |-> 0,
         code |-> <<0, 0>>, batch |-> 0, seen |-> {}, codes |-> {}, doomed |-> FALSE]

Init ==
  /\ now = 1
  /\ factors = [f \in Factors |-> None] /\ enrolled = 0
  /\ created = [b \in Batches |-> 0] /\ unused = {} /\ generated = 0
  /\ req = [r \in Requests |-> Idle] /\ begun = 0
  /\ used = [f \in Factors |-> [s \in Steps |-> 0]]
  /\ spent = [c \in Codes |-> 0] /\ burned = {}

Pending == {f \in Factors : factors[f] # None /\ ~factors[f].confirmed}
Confirmed == {f \in Factors : factors[f] # None /\ factors[f].confirmed}

\* A call comes in and goes on as q.
Begin(r, q) ==
  /\ req[r].pc = "idle" /\ begun < MaxRequests /\ begun' = begun + 1
  /\ req' = [req EXCEPT ![r] = q]

Go(r, q) == req' = [req EXCEPT ![r] = q] /\ UNCHANGED begun

End(r) == Go(r, Idle)
Refuse(r) == Go(r, [req[r] EXCEPT !.pc = "refused"])

-----------------------------------------------------------------------------
(* Authenticators.                                                         *)

\* Mutant: abandoned enrolments are left alone.
WithoutPendingKept == factors

\* The rows after the pending ones are deleted.
WithoutPending == [f \in Factors |-> IF f \in Pending THEN None ELSE factors[f]]

\* enrol deletes the pending factors, whoever enrolled them, ...
Enrol(r) ==
  /\ Begin(r, [Idle EXCEPT !.pc = "save"])
  /\ factors' = WithoutPending
  /\ UNCHANGED <<now, enrolled, created, unused, generated, watch>>

\* ... and then saves a new one.
SaveFactor(r) ==
  /\ req[r].pc = "save" /\ enrolled < MaxFactors
  /\ enrolled' = enrolled + 1
  /\ factors' = [factors EXCEPT ![enrolled + 1] = [confirmed |-> FALSE, last |-> 0]]
  /\ End(r)
  /\ UNCHANGED <<now, created, unused, generated, watch>>

\* verifyCode: the step is in the window and after the last accepted one.
Acceptable(s, last) == s + Window >= now /\ s <= now + Window /\ s > last

\* confirm, for a pending factor, or verify, over the confirmed ones: the rows
\* are read and the code is compared.  A request that asks to disable a factor
\* or for new recovery codes may prove itself so first.
Check(r, f, s) ==
  /\ Acceptable(s, factors[f].last)
  /\ \E then \in {"confirm", "answer", "disable", "batch"} :
       /\ then = "confirm" <=> f \in Pending
       /\ Begin(r, [Idle EXCEPT !.pc = "commit", !.then = then, !.factor = f,
                                !.last = factors[f].last, !.step = s])
  /\ UNCHANGED <<now, store, watch>>

\* Mutants: the statement names the row only, or a row that does not hold the
\* step yet.
CommitsById(q) == factors[q.factor] # None
CommitsOther(q) == factors[q.factor] # None /\ factors[q.factor].last # q.step

\* The WHERE clause of commitStep: the watermark is the one that was read, and
\* the factor still pending when it is to be confirmed.
Commits(q) ==
  /\ factors[q.factor] # None /\ factors[q.factor].last = q.last
  /\ q.then = "confirm" => ~factors[q.factor].confirmed

Commit(r) ==
  /\ req[r].pc = "commit"
  /\ LET f == req[r].factor
         s == req[r].step
         then == req[r].then
     IN  IF Commits(req[r])
         THEN /\ factors' = [factors EXCEPT ![f].last = s,
                                            ![f].confirmed = @ \/ then = "confirm"]
              /\ used' = [used EXCEPT ![f][s] = @ + 1]
              /\ \/ then = "answer" /\ End(r)
                 \/ then = "confirm" /\ Go(r, [Idle EXCEPT !.pc = "status"])
                 \/ then \in {"disable", "batch"} /\ Go(r, [Idle EXCEPT !.pc = then])
         ELSE Refuse(r) /\ UNCHANGED <<factors, used>>
  /\ UNCHANGED <<now, enrolled, created, unused, generated, spent, burned>>

\* After a confirmation: the account has a batch already, or gets its first.
Status(r) ==
  /\ req[r].pc = "status"
  /\ IF generated > 0 THEN End(r) ELSE Go(r, [Idle EXCEPT !.pc = "batch"])
  /\ UNCHANGED <<now, store, watch>>

\* A request to disable, or for new codes, that proves itself by the password.
ByPassword(r) ==
  /\ \E pc \in {"disable", "batch"} : Begin(r, [Idle EXCEPT !.pc = pc])
  /\ UNCHANGED <<now, store, watch>>

\* disable deletes one factor, or all.
Disable(r) ==
  /\ req[r].pc = "disable"
  /\ \E which \in {{f} : f \in Factors} \cup {Factors} :
       factors' = [f \in Factors |-> IF f \in which THEN None ELSE factors[f]]
  /\ End(r)
  /\ UNCHANGED <<now, enrolled, created, unused, generated, watch>>

-----------------------------------------------------------------------------
(* Recovery codes.                                                         *)

\* The batches created last; datetime('now') of SQLite tells seconds only, so
\* there may be two.
Newest == {b \in 1 .. generated : \A o \in 1 .. generated : created[o] <= created[b]}

\* Mutant: the codes are saved under another batch.
CodesOfNext(b) == {c \in Codes : c[1] = b + 1}

CodesOf(b) == {c \in Codes : c[1] = b}

\* generate has hashed the new codes and saves them, in the second of the newest
\* batch or later.
Generate(r) ==
  /\ req[r].pc = "batch" /\ generated < MaxBatches
  /\ generated' = generated + 1
  /\ LET last == IF generated = 0 THEN 0 ELSE created[generated]
     IN  \E at \in {last, last + 1} \ {0} : created' = [created EXCEPT ![generated + 1] = at]
  /\ unused' = unused \cup CodesOf(generated + 1)
  /\ End(r)
  /\ UNCHANGED <<now, factors, enrolled, watch>>

Superseded(b) == \E o \in 1 .. generated : created[o] > created[b]

\* consume reads the current batch.
Consume(r, c) ==
  /\ \E b \in Newest :
       Begin(r, [Idle EXCEPT !.pc = "candidates", !.code = c, !.batch = b,
                             !.doomed = Superseded(c[1])])
  /\ UNCHANGED <<now, store, watch>>

\* Mutants: the unused codes of every batch, or the first one only.
CandidatesOfAll(b) == unused
CandidatesFirst(b) == {c \in unused \cap CodesOf(b) : \A d \in unused \cap CodesOf(b) : c[2] <= d[2]}

\* The unused codes of a batch.
Candidates(b) == unused \cap CodesOf(b)

\* The codes left in it are read and compared with the one presented.
Match(r) ==
  /\ req[r].pc = "candidates"
  /\ IF req[r].code \in Candidates(req[r].batch)
     THEN Go(r, [req[r] EXCEPT !.pc = "redeem"])
     ELSE Refuse(r)
  /\ UNCHANGED <<now, store, watch>>

\* Mutant: the statement names the row only.
RedeemsById(c) == TRUE

\* The WHERE clause of the consumption.
Redeems(c) == c \in unused

Redeem(r) ==
  /\ req[r].pc = "redeem"
  /\ LET c == req[r].code IN
       IF Redeems(c)
       THEN /\ unused' = unused \ {c} /\ spent' = [spent EXCEPT ![c] = @ + 1]
            /\ End(r)
       ELSE Refuse(r) /\ UNCHANGED <<unused, spent>>
  /\ UNCHANGED <<now, factors, enrolled, created, generated, used, burned>>

-----------------------------------------------------------------------------
(* The rest.                                                               *)

\* mfa:disable reads the factors, ...
ReadFactors(r) ==
  /\ Begin(r, [Idle EXCEPT !.pc = "codes", !.seen = Pending \cup Confirmed])
  /\ UNCHANGED <<now, store, watch>>

\* ... then, in a transaction, the unused codes ...
ReadCodes(r) ==
  /\ req[r].pc = "codes"
  /\ Go(r, [req[r] EXCEPT !.pc = "burn", !.codes = unused])
  /\ UNCHANGED <<now, store, watch>>

\* ... and dates those codes by their ids alone and deletes those factors.  The
\* rest of the transaction is one step: nobody sees it before it commits, and a
\* statement on a row it has written waits for that.
Burn(r) ==
  /\ req[r].pc = "burn"
  /\ factors' = [f \in Factors |-> IF f \in req[r].seen THEN None ELSE factors[f]]
  /\ unused' = unused \ req[r].codes
  /\ burned' = burned \cup req[r].codes
  /\ End(r)
  /\ UNCHANGED <<now, enrolled, created, generated, used, spent>>

\* The answer of a refused request is sent.
Leave(r) == req[r].pc = "refused" /\ End(r) /\ UNCHANGED <<now, store, watch>>

\* A statement throws or the process ends.
Abandon(r) ==
  /\ req[r].pc \notin {"idle", "refused"} /\ End(r) /\ UNCHANGED <<now, store, watch>>

Tick == now < MaxStep /\ now' = now + 1 /\ UNCHANGED <<store, req, begun, watch>>

Step(r) ==
  \/ Enrol(r) \/ SaveFactor(r)
  \/ \E f \in Pending \cup Confirmed, s \in Steps : Check(r, f, s)
  \/ Commit(r) \/ Status(r) \/ ByPassword(r) \/ Disable(r) \/ Generate(r)
  \/ \E c \in Codes : c[1] <= generated /\ Consume(r, c)
  \/ Match(r) \/ Redeem(r) \/ ReadFactors(r) \/ ReadCodes(r) \/ Burn(r) \/ Leave(r)
  \/ Abandon(r)

Next == (\E r \in Requests : Step(r)) \/ Tick

Spec == Init /\ [][Next]_vars

-----------------------------------------------------------------------------
(* Properties.                                                             *)

\* The types; rows exist for what was enrolled and generated only.
TypeOK ==
  /\ now \in Steps /\ enrolled \in 0 .. MaxFactors /\ generated \in 0 .. MaxBatches
  /\ factors \in [Factors -> Factor \cup {None}]
  /\ \A f \in Factors : f > enrolled => factors[f] = None
  /\ created \in [Batches -> 0 .. MaxBatches]
  /\ unused \in SUBSET {c \in Codes : c[1] <= generated}
  /\ req \in [Requests -> Request] /\ begun \in 0 .. MaxRequests
  /\ used \in [Factors -> [Steps -> Nat]] /\ spent \in [Codes -> Nat]
  /\ burned \in SUBSET Codes

\* The code of an authenticator for one time step is accepted once, whoever
\* presents it at the same instant and to whichever route ("two requests
\* presenting the same code at the same instant cannot both win").
StepSpentOnce == \A f \in Factors, s \in Steps : used[f][s] <= 1

\* A recovery code is redeemed once, and not at all after the operator's command
\* has burned it, even by a request that read it as unused before ("individually
\* consumable").
CodeSpentOnce ==
  [][\A c \in Codes : spent'[c] # spent[c] => spent[c] = 0 /\ c \notin burned]_vars

\* The watermark of a factor never goes back, so that a code passed over can not
\* be used later either.
WatermarkAdvances ==
  [][\A f \in Factors : factors[f] # None /\ factors'[f] # None
                          => factors'[f].last >= factors[f].last]_vars

\* A request that came when a newer batch had been created redeems no code of an
\* older one ("all earlier batches invalidated").
SupersededStaysOut ==
  \A r \in Requests : req[r].pc = "redeem" => ~req[r].doomed

\* The code of the one newest batch is not refused while it is unused.
GoodCodeWorks ==
  [][\A r \in Requests :
       req[r].pc \in {"candidates", "redeem"} /\ req'[r].pc = "refused"
         => ~(req[r].code \in unused /\ Newest = {req[r].code[1]})]_vars

\* Enrolments that were abandoned do not pile up ("every one of those is a seed
\* sitting in the database for no reason"): at most one for each call that may
\* run beside the others.
PendingBounded ==
  Cardinality(Pending) + Cardinality({r \in Requests : req[r].pc = "save"})
    <= Cardinality(Requests)

\* "Removing the LAST factor also invalidates the recovery codes": once it is
\* gone, no recovery code is left to redeem.
LastFactorTakesCodes ==
  [][Confirmed # {} /\ Confirmed' = {} => (\A b \in Newest : Candidates(b) = {})']_vars
=============================================================================
