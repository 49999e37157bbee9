--------------------------- MODULE ScheduleProofs ---------------------------
(***************************************************************************)
(* Proofs about schedules, for every set of flows, requests, ticks and     *)
(* cron expressions, every page size, and any number of records and        *)
(* restarts: the types, and that at rest flow, record and job agree.       *)
(***************************************************************************)
EXTENDS Schedule, FoldLemmas, FiniteSetTheorems

\* What a request may still write: records are those of flows that exist.
RequestFits(q) ==
  /\ q.pc # "idle" => q.target \in Flows /\ flow[q.target] # None
  /\ q.pc \in {"find", "insert", "save"} => q.conf \in Configs
  /\ q.pc = "write" => q.conf \in Configs \cup {Plain, Gone}
  /\ q.pc \in {"save", "deleteRow", "status", "toggle", "delete", "upsert", "apply"}
       => q.id \in 1 .. made
  /\ q.pc \in {"save", "status", "toggle"} => q.row \in Row /\ flow[q.row.target] # None

TickFits(k) ==
  /\ k.pc # "idle" => k.id \in Ids
  /\ k.pc \in {"expire", "run", "running"} =>
       k.id \in 1 .. made /\ k.row \in Row /\ flow[k.row.target] # None

RowsFit ==
  \A i \in Ids : rows[i] # None => i <= made /\ flow[rows[i].target] # None

SyncFits ==
  /\ sync.pc \in {"off", "page", "job"} /\ sync.skip \in Nat
  /\ sync = [pc |-> sync.pc, skip |-> sync.skip, batch |-> sync.batch]
  /\ sync.pc = "job" =>
       /\ DOMAIN sync.batch \subseteq Ids /\ DOMAIN sync.batch # {}
       /\ sync.batch \in [DOMAIN sync.batch -> Row]

Points ==
  /\ \A r \in Requests : RequestFits(req[r])
  /\ \A t \in Ticks : TickFits(tick[t])
  /\ RowsFit /\ SyncFits

TypeInv == TypeOK /\ Points

ReqType == [pc: RequestStates, target: Flows \cup {None},
            conf: Configs \cup {None, Plain, Gone},
            id: 0 .. MaxRows, row: RowOrNone, on: BOOLEAN]
TickType == [pc: TickStates, id: 0 .. MaxRows, row: RowOrNone]

-----------------------------------------------------------------------------
(***************************************************************************)
(* Types.                                                                  *)
(***************************************************************************)

\* A record's next slot is a time.
LEMMA NextType == \A c \in Crons, a \in Times : ComputeNextRunAt(c, a) \in Times
<1>. SUFFICES ASSUME NEW c \in Crons, NEW a \in Times
              PROVE  ComputeNextRunAt(c, a) \in Times
  OBVIOUS
<1>. DEFINE later == {s \in Slots[c] : s > a}
<1>1. later \subseteq Times BY ScheduleAssumption
<1>2. CASE later = {}
  BY <1>2, ScheduleAssumption DEF ComputeNextRunAt, Times
<1>3. CASE later # {}
  <2>1. later \subseteq Nat BY <1>1 DEF Times
  <2>2. PICK n \in later : \A m \in later : n <= m
    <3>. HIDE DEF later
    <3>. QED BY <2>1, <1>3, LeastNat
  <2>3. Min(later) \in later
    <3>. HIDE DEF later
    <3>. QED BY <2>2 DEF Min
  <2>. QED BY <2>3, <1>1, <1>3 DEF ComputeNextRunAt
<1>. QED BY <1>2, <1>3

\* The least of the records that a page still holds.
LEMMA MinInBatch == ASSUME NEW S, S \subseteq Ids, S # {} PROVE Min(S) \in S
<1>1. S \subseteq Nat BY DEF Ids
<1>2. PICK n \in S : \A m \in S : n <= m BY <1>1, LeastNat
<1>. QED BY <1>2 DEF Min

\* Idle requests and ticks, and a record made of what a flow asks for.
LEMMA IdleTypes ==
  /\ IdleRequest \in ReqType /\ RequestFits(IdleRequest)
  /\ IdleTick \in TickType /\ TickFits(IdleTick)
BY ScheduleAssumption
   DEF IdleRequest, IdleTick, ReqType, TickType, RequestFits, TickFits, RowOrNone,
       RequestStates, TickStates

LEMMA RowForType ==
  ASSUME now \in Times, NEW f \in Flows, NEW c \in Configs, NEW on \in BOOLEAN
  PROVE  RowFor(f, c, on) \in Row /\ RowFor(f, c, on).target = f
<1>1. c \in Config BY ScheduleAssumption
<1>2. ComputeNextRunAt(c.cron, now) \in Times BY <1>1, NextType DEF Config
<1>. QED BY <1>1, <1>2 DEF RowFor, Row, Config

\* What the type invariant says of one request, one tick and one record.
LEMMA Each ==
  ASSUME TypeInv
  PROVE  /\ \A r \in Requests : req[r] \in ReqType /\ RequestFits(req[r])
         /\ \A t \in Ticks : tick[t] \in TickType /\ TickFits(tick[t])
         /\ \A i \in Ids : rows[i] \in RowOrNone /\ (rows[i] # None => rows[i] \in Row)
         /\ made \in 0 .. MaxRows /\ 1 .. made \subseteq Ids /\ now \in Times
         /\ MaxRows \in Nat /\ None \notin Row
BY ScheduleAssumption
   DEF TypeInv, TypeOK, Points, ReqType, TickType, RowOrNone, Ids

\* The initial state has the types.
LEMMA InitTypes == Init => TypeInv
<1>. SUFFICES ASSUME Init PROVE TypeInv
  OBVIOUS
<1>. DEFINE asking == {f \in Flows : flow[f] # None}
<1>1. IsFiniteSet(asking) BY ScheduleAssumption, FS_Subset
<1>2. made = Cardinality(asking) /\ made \in 0 .. MaxRows
  <2>1. Cardinality(asking) \in Nat BY <1>1, FS_CardinalityType
  <2>. QED BY <2>1, ScheduleAssumption DEF Init
<1>3. PICK of \in Bijection(1 .. made, asking), on \in SUBSET asking :
        rows = [i \in Ids |-> IF i > made THEN None
                              ELSE RowFor(of[i], flow[of[i]], of[i] \in on)]
  BY DEF Init
<1>4. now = 0 /\ now \in Times BY ScheduleAssumption DEF Init, Times
<1>5. flow \in [Flows -> Configs \cup {None, Plain, Gone}]
  BY ScheduleAssumption DEF Init
<1>6. ASSUME NEW i \in Ids, ~(i > made)
      PROVE  /\ i \in 1 .. made /\ of[i] \in asking
             /\ rows[i] = RowFor(of[i], flow[of[i]], of[i] \in on)
             /\ rows[i] \in Row /\ rows[i].target = of[i]
  <2>1. i \in 1 .. made BY <1>6, <1>2 DEF Ids
  <2>2. of[i] \in asking BY <2>1, <1>3 DEF Bijection, Injection
  <2>3. flow[of[i]] \in Configs BY <2>2, ScheduleAssumption DEF Init
  <2>4. rows[i] = RowFor(of[i], flow[of[i]], of[i] \in on) BY <1>3, <1>6
  <2>5. of[i] \in Flows BY <2>2
  <2>6. CASE of[i] \in on
    <3>1. (of[i] \in on) = TRUE BY <2>6
    <3>2. RowFor(of[i], flow[of[i]], TRUE) = rows[i] BY <3>1, <2>4
    <3>. QED BY <2>1, <2>2, <2>3, <2>4, <2>5, <3>2, <1>4, RowForType
  <2>7. CASE ~(of[i] \in on)
    <3>1. (of[i] \in on) = FALSE BY <2>7
    <3>2. RowFor(of[i], flow[of[i]], FALSE) = rows[i] BY <3>1, <2>4
    <3>. QED BY <2>1, <2>2, <2>3, <2>4, <2>5, <3>2, <1>4, RowForType
  <2>. QED BY <2>6, <2>7
<1>7. rows \in [Ids -> RowOrNone]
  <2>1. \A i \in Ids : rows[i] \in RowOrNone
    <3>. SUFFICES ASSUME NEW i \in Ids PROVE rows[i] \in RowOrNone
      OBVIOUS
    <3>1. CASE i > made BY <3>1, <1>3 DEF RowOrNone
    <3>2. CASE ~(i > made) BY <3>2, <1>6 DEF RowOrNone
    <3>. QED BY <3>1, <3>2
  <2>. QED BY <2>1, <1>3
<1>8. jobs \in [Ids -> Crons \cup {None}]
  <2>1. \A i \in Ids : Enabled(i) => rows[i].cron \in Crons
    BY <1>7 DEF Enabled, RowOrNone, Row
  <2>. QED BY <2>1 DEF Init
<1>9. RowsFit
  <2>. SUFFICES ASSUME NEW i \in Ids, rows[i] # None
                PROVE  i <= made /\ flow[rows[i].target] # None
    BY DEF RowsFit
  <2>1. ~(i > made) BY <1>3
  <2>2. i \in 1 .. made /\ rows[i].target \in asking BY <2>1, <1>6
  <2>. QED BY <2>2
<1>10. SyncFits BY DEF Init, SyncFits, Booting, NoSync
<1>11. req \in [Requests -> ReqType] /\ tick \in [Ticks -> TickType]
  BY IdleTypes DEF Init
<1>12. Points BY <1>9, <1>10, IdleTypes DEF Init, Points
<1>13. TypeOK
  <2>1. queueMode \in BOOLEAN /\ ops \in 0 .. MaxOps /\ restarts \in 0 .. MaxRestarts
    BY ScheduleAssumption DEF Init
  <2>2. /\ fired \subseteq Ids /\ leftover \subseteq Ids
        /\ mixed \in BOOLEAN /\ disturbed \in BOOLEAN
    BY DEF Init
  <2>3. sync.pc \in {"off", "page", "job"} /\ sync.skip \in Nat BY <1>10 DEF SyncFits
  <2>. QED
    BY <1>2, <1>4, <1>5, <1>7, <1>8, <1>11, <2>1, <2>2, <2>3 DEF TypeOK, ReqType, TickType
<1>. QED BY <1>12, <1>13 DEF TypeInv

\* Flows and records that were there stay known.
Stays ==
  /\ flow' \in [Flows -> Configs \cup {None, Plain, Gone}]
  /\ made' \in 0 .. MaxRows /\ made' >= made
  /\ \A f \in Flows : flow[f] # None => flow'[f] # None

LEMMA Unmoved == ASSUME TypeInv, UNCHANGED <<flow, made>> PROVE Stays
BY DEF Stays, TypeInv, TypeOK

LEMMA FitsKept ==
  ASSUME TypeInv, Stays
  PROVE  /\ \A q \in ReqType : RequestFits(q) => RequestFits(q)'
         /\ \A k \in TickType : TickFits(k) => TickFits(k)'
<1>0. made \in Nat /\ made' \in Nat /\ made' >= made
  BY DEF Stays, TypeInv, TypeOK
<1>00. 1 .. made \subseteq 1 .. made' BY <1>0
<1>1. ASSUME NEW q \in ReqType, RequestFits(q) PROVE RequestFits(q)'
  <2>1. q.row \in Row => q.row.target \in Flows BY DEF Row
  <2>. QED BY <1>00, <1>1, <2>1 DEF RequestFits, Stays
<1>2. ASSUME NEW k \in TickType, TickFits(k) PROVE TickFits(k)'
  <2>1. k.row \in Row => k.row.target \in Flows BY DEF Row
  <2>. QED BY <1>00, <1>2, <2>1 DEF TickFits, Stays
<1>. QED BY <1>1, <1>2

\* A step of the request r that goes on as q.
Becomes(r, q) == req' = [req EXCEPT ![r] = q]

LEMMA RequestKept ==
  ASSUME TypeInv, Stays, NEW r \in Requests, NEW q \in ReqType, Becomes(r, q),
         RequestFits(q)'
  PROVE  req' \in [Requests -> ReqType] /\ (\A o \in Requests : RequestFits(req[o]))'
<1>1. req' \in [Requests -> ReqType] BY Each DEF Becomes, TypeInv, TypeOK, ReqType
<1>2. ASSUME NEW o \in Requests PROVE RequestFits(req[o])'
  <2>1. CASE o = r
    <3>1. req'[o] = q BY <2>1 DEF Becomes, TypeInv, TypeOK
    <3>. QED BY <3>1 DEF RequestFits
  <2>2. CASE o # r
    <3>1. req'[o] = req[o] BY <2>2 DEF Becomes, TypeInv, TypeOK
    <3>2. RequestFits(req[o]) /\ req[o] \in ReqType BY Each
    <3>3. \E e \in ReqType : e = req[o] /\ RequestFits(e) BY <3>2
    <3>4. PICK e \in ReqType : e = req[o] /\ RequestFits(e) BY <3>3
    <3>5. RequestFits(e)' BY <3>4, FitsKept
    <3>. QED BY <3>1, <3>4, <3>5 DEF RequestFits
  <2>. QED BY <2>1, <2>2
<1>. QED BY <1>1, <1>2

LEMMA RequestsSame ==
  ASSUME TypeInv, Stays, UNCHANGED req
  PROVE  req' \in [Requests -> ReqType] /\ (\A o \in Requests : RequestFits(req[o]))'
<1>1. req' \in [Requests -> ReqType] BY DEF TypeInv, TypeOK, ReqType
<1>2. ASSUME NEW o \in Requests PROVE RequestFits(req[o])'
  <2>1. PICK e \in ReqType : e = req[o] /\ RequestFits(e) BY Each
  <2>2. RequestFits(e)' BY <2>1, FitsKept
  <2>. QED BY <2>1, <2>2 DEF RequestFits
<1>. QED BY <1>1, <1>2

\* A step of the tick t that goes on as k.
TickBecomes(t, k) == tick' = [tick EXCEPT ![t] = k]

LEMMA TickKept ==
  ASSUME TypeInv, Stays, NEW t \in Ticks, NEW k \in TickType, TickBecomes(t, k),
         TickFits(k)'
  PROVE  tick' \in [Ticks -> TickType] /\ (\A o \in Ticks : TickFits(tick[o]))'
<1>1. tick' \in [Ticks -> TickType] BY Each DEF TickBecomes, TypeInv, TypeOK, TickType
<1>2. ASSUME NEW o \in Ticks PROVE TickFits(tick[o])'
  <2>1. CASE o = t
    <3>1. tick'[o] = k BY <2>1 DEF TickBecomes, TypeInv, TypeOK
    <3>. QED BY <3>1 DEF TickFits
  <2>2. CASE o # t
    <3>1. tick'[o] = tick[o] BY <2>2 DEF TickBecomes, TypeInv, TypeOK
    <3>2. PICK e \in TickType : e = tick[o] /\ TickFits(e) BY Each
    <3>3. TickFits(e)' BY <3>2, FitsKept
    <3>. QED BY <3>1, <3>2, <3>3 DEF TickFits
  <2>. QED BY <2>1, <2>2
<1>. QED BY <1>1, <1>2

LEMMA TicksSame ==
  ASSUME TypeInv, Stays, UNCHANGED tick
  PROVE  tick' \in [Ticks -> TickType] /\ (\A o \in Ticks : TickFits(tick[o]))'
<1>1. tick' \in [Ticks -> TickType] BY DEF TypeInv, TypeOK, TickType
<1>2. ASSUME NEW o \in Ticks PROVE TickFits(tick[o])'
  <2>1. PICK e \in TickType : e = tick[o] /\ TickFits(e) BY Each
  <2>2. TickFits(e)' BY <2>1, FitsKept
  <2>. QED BY <2>1, <2>2 DEF TickFits
<1>. QED BY <1>1, <1>2

\* Records: none changed, or one of a known flow.
LEMMA RowsSame ==
  ASSUME TypeInv, Stays, UNCHANGED rows
  PROVE  rows' \in [Ids -> RowOrNone] /\ RowsFit'
<1>1. \A i \in Ids : rows[i] # None => rows[i].target \in Flows BY Each DEF Row
<1>. QED BY <1>1, Each DEF TypeInv, TypeOK, Points, RowsFit, Stays, Ids

LEMMA RowKept ==
  ASSUME TypeInv, Stays, NEW i \in 1 .. made', NEW x \in RowOrNone,
         rows' = [rows EXCEPT ![i] = x],
         x # None => flow'[x.target] # None
  PROVE  rows' \in [Ids -> RowOrNone] /\ RowsFit'
<1>1. \A j \in Ids : rows[j] # None => rows[j].target \in Flows BY Each DEF Row
<1>2. rows' \in [Ids -> RowOrNone] BY DEF TypeInv, TypeOK
<1>3. made \in Nat /\ made' \in Nat /\ made' >= made BY DEF Stays, TypeInv, TypeOK
<1>4. ASSUME NEW j \in Ids, rows'[j] # None
      PROVE  j <= made' /\ flow'[rows'[j].target] # None
  <2>1. CASE j = i
    <3>1. rows'[j] = x BY <2>1 DEF TypeInv, TypeOK
    <3>. QED BY <2>1, <3>1, <1>3, <1>4
  <2>2. CASE j # i
    <3>1. rows'[j] = rows[j] BY <2>2 DEF TypeInv, TypeOK
    <3>2. j <= made /\ flow[rows[j].target] # None
      BY <3>1, <1>4 DEF TypeInv, Points, RowsFit
    <3>3. j <= made' BY <3>2, <1>3 DEF Ids
    <3>. QED BY <3>1, <3>2, <3>3, <1>1, <1>4 DEF Stays
  <2>. QED BY <2>1, <2>2
<1>. QED BY <1>2, <1>4 DEF RowsFit

\* What the properties remember has its type.
LEMMA WatchTypes ==
  ASSUME TypeInv, Watch
  PROVE  mixed' \in BOOLEAN /\ disturbed' \in BOOLEAN /\ leftover' \subseteq Ids
BY DEF TypeInv, TypeOK, Watch

\* The parts make the invariant.
LEMMA Assemble ==
  ASSUME TypeInv, Watch, Stays,
         queueMode' \in BOOLEAN, now' \in Times,
         ops' \in 0 .. MaxOps, restarts' \in 0 .. MaxRestarts,
         rows' \in [Ids -> RowOrNone], RowsFit',
         jobs' \in [Ids -> Crons \cup {None}], fired' \subseteq Ids,
         req' \in [Requests -> ReqType], (\A o \in Requests : RequestFits(req[o]))',
         tick' \in [Ticks -> TickType], (\A o \in Ticks : TickFits(tick[o]))',
         SyncFits'
  PROVE  TypeInv'
<1>1. mixed' \in BOOLEAN /\ disturbed' \in BOOLEAN /\ leftover' \subseteq Ids BY WatchTypes
<1>2. sync'.pc \in {"off", "page", "job"} /\ sync'.skip \in Nat BY DEF SyncFits
<1>3. flow' \in [Flows -> Configs \cup {None, Plain, Gone}] /\ made' \in 0 .. MaxRows
  BY DEF Stays
<1>4. TypeOK' BY <1>1, <1>2, <1>3 DEF TypeOK, ReqType, TickType
<1>5. Points' BY DEF Points
<1>. QED BY <1>4, <1>5 DEF TypeInv

\* A step of a request, whatever it does to flows, records and jobs.
LEMMA RequestTypes ==
  ASSUME TypeInv, Watch, Stays, NEW r \in Requests, NEW q \in ReqType, Becomes(r, q),
         RequestFits(q)',
         rows' \in [Ids -> RowOrNone], RowsFit', jobs' \in [Ids -> Crons \cup {None}],
         UNCHANGED <<queueMode, now, restarts, fired, tick, sync>>,
         ops' \in 0 .. MaxOps
  PROVE  TypeInv'
<1>1. req' \in [Requests -> ReqType] /\ (\A o \in Requests : RequestFits(req[o]))'
  BY RequestKept
<1>2. tick' \in [Ticks -> TickType] /\ (\A o \in Ticks : TickFits(tick[o]))'
  BY TicksSame
<1>3. SyncFits' BY DEF SyncFits, TypeInv, Points
<1>4. /\ queueMode' \in BOOLEAN /\ now' \in Times /\ restarts' \in 0 .. MaxRestarts
      /\ fired' \subseteq Ids
  BY DEF TypeInv, TypeOK
<1>. QED BY <1>1, <1>2, <1>3, <1>4, Assemble

\* A step of a request that changes nothing but where it is.
LEMMA MoveTypes ==
  ASSUME TypeInv, Watch, NEW r \in Requests,
         \E q \in ReqType : Becomes(r, q) /\ RequestFits(q), UNCHANGED store, UNCHANGED jobs,
         UNCHANGED <<queueMode, now, restarts, fired, tick, sync>>,
         ops' \in 0 .. MaxOps
  PROVE  TypeInv'
<1>1. Stays BY Unmoved DEF store
<1>0. PICK q \in ReqType : Becomes(r, q) /\ RequestFits(q) OBVIOUS
<1>2. RequestFits(q)' BY <1>0, <1>1, FitsKept
<1>3. rows' \in [Ids -> RowOrNone] /\ RowsFit' BY <1>1, RowsSame DEF store
<1>4. jobs' \in [Ids -> Crons \cup {None}] BY DEF TypeInv, TypeOK
<1>5. UNCHANGED <<queueMode, now, restarts, fired, tick, sync>> OBVIOUS
<1>. QED BY <1>0, <1>1, <1>2, <1>3, <1>4, <1>5, RequestTypes

\* The effects of the two outcomes that most steps have.
LEMMA GoTo ==
  ASSUME TypeInv, NEW r \in Requests, NEW pc \in RequestStates
  PROVE  /\ [req[r] EXCEPT !.pc = pc] \in ReqType
         /\ Go(r, pc) => Becomes(r, [req[r] EXCEPT !.pc = pc])
         /\ Done(r) => Becomes(r, IdleRequest)
BY Each DEF Go, Done, Becomes, TypeInv, TypeOK, ReqType

\* The calls that arrive keep the types.
LEMMA BeginTypes ==
  ASSUME TypeInv, Watch, NEW r \in Requests, Request(r)
  PROVE  TypeInv'
<1>0. ASSUME Begin(r)
      PROVE  /\ UNCHANGED <<queueMode, now, restarts, fired, tick, sync>>
             /\ UNCHANGED jobs /\ ops' \in 0 .. MaxOps
  BY <1>0, ScheduleAssumption DEF Begin, TypeInv, TypeOK
<1>1. ASSUME NEW f \in Flows, NEW on \in BOOLEAN, Toggle(r, f, on) PROVE TypeInv'
  <2>1. PICK i \in RowsOf(f) :
          req' = [req EXCEPT ![r] = [IdleRequest EXCEPT
                    !.pc = IF on THEN "status" ELSE "toggle",
                    !.target = f, !.id = i, !.row = rows[i], !.on = on]]
    BY <1>1 DEF Toggle
  <2>. DEFINE q == [IdleRequest EXCEPT
                    !.pc = IF on THEN "status" ELSE "toggle",
                    !.target = f, !.id = i, !.row = rows[i], !.on = on]
  <2>2. i \in Ids /\ rows[i] \in Row /\ rows[i].target = f BY Each DEF RowsOf
  <2>3. i \in 1 .. made /\ flow[f] # None
    BY <2>2, Each DEF TypeInv, Points, RowsFit, Ids
  <2>4. q \in ReqType
    <3>1. i \in 0 .. MaxRows BY <2>3, Each
    <3>. QED BY <2>2, <3>1, ScheduleAssumption DEF ReqType, IdleRequest, RequestStates, RowOrNone
  <2>5. RequestFits(q) BY <2>2, <2>3 DEF RequestFits, IdleRequest
  <2>6. Becomes(r, q) BY <2>1 DEF Becomes
  <2>7. Begin(r) /\ UNCHANGED store BY <1>1 DEF Toggle
  <2>. QED BY <1>0, <2>4, <2>5, <2>6, <2>7, MoveTypes
<1>2. ASSUME NEW f \in Flows, NEW c \in Configs \cup {Plain}, Create(r, f, c) PROVE TypeInv'
  <2>. DEFINE q == [IdleRequest EXCEPT !.pc = "find", !.target = f, !.conf = c, !.on = TRUE]
  <2>0. c # None BY ScheduleAssumption
  <2>1. Stays BY <1>2, <2>0, Each DEF Create, Stays, TypeInv, TypeOK
  <2>2. rows' \in [Ids -> RowOrNone] /\ RowsFit' BY <1>2, <2>1, RowsSame DEF Create
  <2>3. jobs' \in [Ids -> Crons \cup {None}] BY <1>0, <1>2 DEF Create, TypeInv, TypeOK
  <2>4. flow'[f] # None BY <1>2, <2>0 DEF Create, TypeInv, TypeOK
  <2>5. CASE c # Plain /\ AfterFlow(c) = "find"
    <3>1. Becomes(r, q) BY <1>2, <2>5 DEF Create, Becomes
    <3>2. q \in ReqType
      BY <2>5, IdleTypes, ScheduleAssumption DEF ReqType, IdleRequest, RequestStates, RowOrNone
    <3>3. RequestFits(q)' BY <2>4, <2>5 DEF RequestFits, IdleRequest
    <3>. QED BY <1>0, <1>2, <2>1, <2>2, <2>3, <3>1, <3>2, <3>3, RequestTypes DEF Create
  <2>6. CASE ~(c # Plain /\ AfterFlow(c) = "find")
    <3>1. UNCHANGED req BY <1>2, <2>6 DEF Create
    <3>2. Becomes(r, req[r]) BY <3>1 DEF Becomes, TypeInv, TypeOK
    <3>3. PICK e \in ReqType : e = req[r] /\ RequestFits(e) BY Each
    <3>4. RequestFits(e)' BY <2>1, <3>3, FitsKept
    <3>. QED BY <1>0, <1>2, <2>1, <2>2, <2>3, <3>2, <3>3, <3>4, RequestTypes DEF Create
  <2>. QED BY <2>5, <2>6
<1>3. ASSUME NEW f \in Flows, NEW c \in Configs \cup {Plain, Gone}, ReadFlow(r, f, c)
      PROVE  TypeInv'
  <2>. DEFINE q == [IdleRequest EXCEPT !.pc = "write", !.target = f, !.conf = c]
  <2>1. Becomes(r, q) BY <1>3 DEF ReadFlow, Becomes
  <2>2. q \in ReqType
    BY IdleTypes, ScheduleAssumption DEF ReqType, IdleRequest, RequestStates, RowOrNone
  <2>3. RequestFits(q) BY <1>3 DEF RequestFits, IdleRequest, ReadFlow
  <2>4. Begin(r) /\ UNCHANGED store BY <1>3 DEF ReadFlow
  <2>. QED BY <1>0, <2>1, <2>2, <2>3, <2>4, MoveTypes
<1>. QED BY <1>1, <1>2, <1>3 DEF Request

\* The steps of requests keep the types.
LEMMA RequestStepTypes ==
  ASSUME TypeInv, Watch, NEW r \in Requests, RequestStep(r)
  PROVE  TypeInv'
<1>0. ASSUME Moves(r)
      PROVE  /\ UNCHANGED <<queueMode, now, restarts, fired, tick, sync>>
             /\ ops' \in 0 .. MaxOps
  BY <1>0 DEF Moves, TypeInv, TypeOK
<1>00. req[r] \in ReqType /\ RequestFits(req[r]) BY Each
<1>01. ASSUME UNCHANGED jobs PROVE jobs' \in [Ids -> Crons \cup {None}]
  BY <1>01 DEF TypeInv, TypeOK
<1>1. ASSUME WriteFlow(r) PROVE TypeInv'
  <2>. DEFINE f == req[r].target
              c == req[r].conf
  <2>1. f \in Flows /\ c \in Configs \cup {Plain, Gone} /\ c # None
    BY <1>1, <1>00, ScheduleAssumption DEF WriteFlow, At, RequestFits
  <2>2. Stays BY <1>1, <2>1, Each DEF WriteFlow, Stays, TypeInv, TypeOK
  <2>3. rows' \in [Ids -> RowOrNone] /\ RowsFit' BY <1>1, <2>2, RowsSame DEF WriteFlow
  <2>4. CASE AfterFlow(c) = "idle"
    <3>1. Becomes(r, IdleRequest) BY <1>1, <2>4, GoTo DEF WriteFlow, RequestStates
    <3>2. RequestFits(IdleRequest)' BY <2>2, IdleTypes, FitsKept
    <3>. QED BY <1>0, <1>01, <1>1, <2>2, <2>3, <3>1, <3>2, IdleTypes, RequestTypes DEF WriteFlow
  <2>5. CASE AfterFlow(c) # "idle"
    <3>. DEFINE q == [req[r] EXCEPT !.pc = AfterFlow(c)]
    <3>1. AfterFlow(c) \in {"find", "findOld"}
          /\ (AfterFlow(c) = "find" => c \in Configs)
      BY <2>1, <2>5 DEF AfterFlow
    <3>2. q \in ReqType /\ Becomes(r, q) BY <1>1, <2>5, <3>1, GoTo DEF WriteFlow, RequestStates
    <3>3. RequestFits(q)
      BY <1>00, <1>1, <2>1, <3>1 DEF RequestFits, ReqType, WriteFlow, At
    <3>4. PICK e \in ReqType : Becomes(r, e) /\ RequestFits(e) BY <3>2, <3>3
    <3>5. RequestFits(e)' BY <2>2, <3>4, FitsKept
    <3>. QED BY <1>0, <1>01, <1>1, <2>2, <2>3, <3>4, <3>5, RequestTypes DEF WriteFlow
  <2>. QED BY <2>4, <2>5
<1>2. ASSUME FindRow(r) PROVE TypeInv'
  <2>1. CASE Go(r, "insert")
    <3>. DEFINE q == [req[r] EXCEPT !.pc = "insert"]
    <3>1. q \in ReqType /\ Becomes(r, q) BY <2>1, GoTo DEF RequestStates
    <3>2. RequestFits(q) BY <1>00, <1>2 DEF RequestFits, ReqType, FindRow, At
    <3>. QED BY <1>0, <1>2, <3>1, <3>2, MoveTypes DEF FindRow
  <2>2. ASSUME NEW i \in RowsOf(req[r].target),
               req' = [req EXCEPT ![r].pc = "save", ![r].id = i, ![r].row = rows[i]]
        PROVE  TypeInv'
    <3>. DEFINE q == [req[r] EXCEPT !.pc = "save", !.id = i, !.row = rows[i]]
    <3>0. i \in Ids /\ rows[i] # None BY DEF RowsOf
    <3>1. i \in 1 .. made /\ rows[i] \in Row /\ flow[rows[i].target] # None
      BY <3>0, Each DEF TypeInv, Points, RowsFit, Ids
    <3>11. i \in 0 .. MaxRows BY <3>1, Each
    <3>2. q \in ReqType /\ Becomes(r, q)
      BY <1>00, <2>2, <3>1, <3>11 DEF ReqType, RequestStates, RowOrNone, Becomes, TypeInv, TypeOK
    <3>3. RequestFits(q) BY <1>00, <1>2, <3>1 DEF RequestFits, ReqType, FindRow, At
    <3>. QED BY <1>0, <1>2, <3>2, <3>3, MoveTypes DEF FindRow
  <2>. QED BY <1>2, <2>1, <2>2 DEF FindRow
<1>3. ASSUME NEW i \in 1 .. made', NEW on \in BOOLEAN, Stays,
             req[r].pc \in {"insert", "save"}, AfterSave(r, i, on)
      PROVE  \E q \in ReqType : Becomes(r, q) /\ RequestFits(q)'
  <2>0. made' \in 0 .. MaxRows BY <1>3 DEF Stays
  <2>1. CASE req[r].on /\ ~on
    <3>1. Becomes(r, IdleRequest) BY <1>3, <2>1, GoTo DEF AfterSave, RequestStates
    <3>. QED BY <1>3, <3>1, IdleTypes, FitsKept
  <2>2. CASE ~(req[r].on /\ ~on)
    <3>1. i \in 0 .. MaxRows BY <2>0, Each
    <3>2. [req[r] EXCEPT !.pc = IF on THEN "upsert" ELSE "delete", !.id = i, !.row = None]
            \in ReqType
      BY <1>00, <3>1 DEF ReqType, RequestStates, RowOrNone
    <3>3. Becomes(r, [req[r] EXCEPT !.pc = IF on THEN "upsert" ELSE "delete",
                                    !.id = i, !.row = None])
      BY <1>3, <2>2 DEF AfterSave, Becomes, TypeInv, TypeOK
    <3>4. req[r].target \in Flows /\ flow[req[r].target] # None
      BY <1>00, <1>3 DEF RequestFits
    <3>5. PICK q \in ReqType :
            /\ Becomes(r, q) /\ q.target = req[r].target
            /\ q.pc = (IF on THEN "upsert" ELSE "delete") /\ q.id = i /\ q.row = None
      BY <1>00, <3>2, <3>3 DEF ReqType
    <3>6. flow'[q.target] # None BY <1>3, <3>4, <3>5 DEF Stays
    <3>7. RequestFits(q)' BY <1>3, <3>4, <3>5, <3>6 DEF RequestFits
    <3>. QED BY <3>5, <3>7
  <2>. QED BY <2>1, <2>2
<1>4. ASSUME InsertRow(r) PROVE TypeInv'
  <2>. DEFINE on == CanScheduleEnable(req[r].conf)
              f == req[r].target
              c == req[r].conf
  <2>1. f \in Flows /\ c \in Configs /\ flow[f] # None
    BY <1>4, <1>00 DEF InsertRow, At, RequestFits
  <2>2. Stays /\ made + 1 \in 1 .. made'
    BY <1>4, Each DEF InsertRow, Stays, TypeInv, TypeOK
  <2>3. PICK e \in BOOLEAN : e = on
    <3>1. on \in BOOLEAN BY DEF CanScheduleEnable
    <3>. QED BY <3>1
  <2>4. RowFor(f, c, e) \in Row /\ RowFor(f, c, e).target = f BY <2>1, Each, RowForType
  <2>5. rows' = [rows EXCEPT ![made + 1] = RowFor(f, c, e)] /\ AfterSave(r, made + 1, e)
    BY <1>4, <2>3 DEF InsertRow
  <2>6. flow'[f] # None BY <2>1, <2>2 DEF Stays
  <2>7. rows' \in [Ids -> RowOrNone] /\ RowsFit'
    BY <2>2, <2>4, <2>5, <2>6, RowKept DEF RowOrNone
  <2>8. PICK q \in ReqType : Becomes(r, q) /\ RequestFits(q)'
    BY <1>3, <1>4, <2>2, <2>5 DEF InsertRow, At
  <2>. QED BY <1>0, <1>01, <1>4, <2>2, <2>7, <2>8, RequestTypes DEF InsertRow
<1>5. ASSUME SaveRow(r) PROVE TypeInv'
  <2>. DEFINE on == CanScheduleEnable(req[r].conf) /\ (req[r].on \/ req[r].row.enabled)
              f == req[r].target
              c == req[r].conf
              i == req[r].id
  <2>1. f \in Flows /\ c \in Configs /\ flow[f] # None /\ i \in 1 .. made
    BY <1>5, <1>00 DEF SaveRow, At, RequestFits
  <2>2. Stays /\ i \in 1 .. made'
    BY <1>5, <2>1, Unmoved DEF SaveRow
  <2>3. PICK e \in BOOLEAN : e = on
    <3>1. on \in BOOLEAN BY DEF CanScheduleEnable
    <3>. QED BY <3>1
  <2>4. RowFor(f, c, e) \in Row /\ RowFor(f, c, e).target = f BY <2>1, Each, RowForType
  <2>5. rows' = [rows EXCEPT ![i] = RowFor(f, c, e)] /\ AfterSave(r, i, e)
    BY <1>5, <2>3 DEF SaveRow
  <2>6. flow'[f] # None BY <2>1, <2>2 DEF Stays
  <2>7. rows' \in [Ids -> RowOrNone] /\ RowsFit'
    BY <2>2, <2>4, <2>5, <2>6, RowKept DEF RowOrNone
  <2>8. PICK q \in ReqType : Becomes(r, q) /\ RequestFits(q)'
    BY <1>3, <1>5, <2>2, <2>5 DEF SaveRow, At
  <2>. QED BY <1>0, <1>01, <1>5, <2>2, <2>7, <2>8, RequestTypes DEF SaveRow
<1>6. ASSUME FindOldRow(r) PROVE TypeInv'
  <2>1. CASE Done(r)
    <3>1. Becomes(r, IdleRequest) BY <2>1, GoTo DEF RequestStates
    <3>. QED BY <1>0, <1>6, <3>1, IdleTypes, MoveTypes DEF FindOldRow
  <2>2. ASSUME NEW i \in RowsOf(req[r].target),
               req' = [req EXCEPT ![r].pc = "deleteRow", ![r].id = i]
        PROVE  TypeInv'
    <3>. DEFINE q == [req[r] EXCEPT !.pc = "deleteRow", !.id = i]
    <3>0. i \in Ids /\ rows[i] # None BY DEF RowsOf
    <3>1. i \in 1 .. made BY <3>0, Each DEF TypeInv, Points, RowsFit, Ids
    <3>11. i \in 0 .. MaxRows BY <3>1, Each
    <3>2. q \in ReqType /\ Becomes(r, q)
      BY <1>00, <2>2, <3>11 DEF ReqType, RequestStates, Becomes, TypeInv, TypeOK
    <3>3. RequestFits(q) BY <1>00, <1>6, <3>1 DEF RequestFits, ReqType, FindOldRow, At
    <3>. QED BY <1>0, <1>6, <3>2, <3>3, MoveTypes DEF FindOldRow
  <2>. QED BY <1>6, <2>1, <2>2 DEF FindOldRow
<1>7. ASSUME DeleteRow(r) PROVE TypeInv'
  <2>. DEFINE q == [req[r] EXCEPT !.pc = "delete"]
  <2>1. Stays BY <1>7, Unmoved DEF DeleteRow
  <2>2. req[r].id \in 1 .. made' BY <1>00, <1>7 DEF DeleteRow, At, RequestFits
  <2>3. rows' \in [Ids -> RowOrNone] /\ RowsFit'
    BY <1>7, <2>1, <2>2, RowKept DEF DeleteRow, RowOrNone
  <2>4. q \in ReqType /\ Becomes(r, q) BY <1>7, GoTo DEF DeleteRow, RequestStates
  <2>5. RequestFits(q) BY <1>00, <1>7 DEF RequestFits, ReqType, DeleteRow, At
  <2>6. PICK e \in ReqType : Becomes(r, e) /\ RequestFits(e) BY <2>4, <2>5
  <2>7. RequestFits(e)' BY <2>1, <2>6, FitsKept
  <2>. QED BY <1>0, <1>01, <1>7, <2>1, <2>3, <2>6, <2>7, RequestTypes DEF DeleteRow
<1>8. ASSUME ScheduleStatus(r) PROVE TypeInv'
  <2>1. CASE Done(r)
    <3>1. Becomes(r, IdleRequest) BY <2>1, GoTo DEF RequestStates
    <3>. QED BY <1>0, <1>8, <3>1, IdleTypes, MoveTypes DEF ScheduleStatus
  <2>2. CASE Go(r, "toggle")
    <3>. DEFINE q == [req[r] EXCEPT !.pc = "toggle"]
    <3>1. q \in ReqType /\ Becomes(r, q) BY <2>2, GoTo DEF RequestStates
    <3>2. RequestFits(q) BY <1>00, <1>8 DEF RequestFits, ReqType, ScheduleStatus, At
    <3>. QED BY <1>0, <1>8, <3>1, <3>2, MoveTypes DEF ScheduleStatus
  <2>. QED BY <1>8, <2>1, <2>2 DEF ScheduleStatus
<1>9. ASSUME SaveToggle(r) PROVE TypeInv'
  <2>. DEFINE x == [req[r].row EXCEPT !.enabled = req[r].on]
              q == [req[r] EXCEPT !.pc = IF req[r].on THEN "upsert" ELSE "delete", !.row = None]
  <2>1. Stays BY <1>9, Unmoved DEF SaveToggle
  <2>2. req[r].id \in 1 .. made' /\ req[r].row \in Row /\ flow[req[r].row.target] # None
    BY <1>00, <1>9 DEF SaveToggle, At, RequestFits
  <2>3. x \in Row /\ x.target = req[r].row.target BY <1>00, <2>2 DEF Row, ReqType
  <2>4. flow'[x.target] # None BY <1>9, <2>2, <2>3 DEF SaveToggle
  <2>5. rows' = [rows EXCEPT ![req[r].id] = x] BY <1>9 DEF SaveToggle
  <2>60. PICK y \in RowOrNone : y = x BY <2>3 DEF RowOrNone
  <2>61. PICK i \in 1 .. made' : i = req[r].id BY <2>2
  <2>6. rows' \in [Ids -> RowOrNone] /\ RowsFit'
    BY <2>1, <2>60, <2>61, <2>4, <2>5, RowKept
  <2>7. q \in ReqType /\ Becomes(r, q)
    BY <1>00, <1>9 DEF SaveToggle, ReqType, RequestStates, RowOrNone, Becomes, TypeInv, TypeOK
  <2>8. RequestFits(q) BY <1>00, <1>9 DEF RequestFits, ReqType, SaveToggle, At
  <2>9. PICK e \in ReqType : Becomes(r, e) /\ RequestFits(e) BY <2>7, <2>8
  <2>10. RequestFits(e)' BY <2>1, <2>9, FitsKept
  <2>. QED BY <1>0, <1>01, <1>9, <2>1, <2>6, <2>9, <2>10, RequestTypes DEF SaveToggle
<1>10. ASSUME NotifyUpsert(r) PROVE TypeInv'
  <2>. DEFINE q == [req[r] EXCEPT !.pc = "apply", !.row = rows[req[r].id]]
  <2>1. req[r].id \in 1 .. made BY <1>00, <1>10 DEF NotifyUpsert, At, RequestFits
  <2>2. rows[req[r].id] \in RowOrNone BY <2>1, Each
  <2>3. q \in ReqType /\ Becomes(r, q)
    BY <1>00, <1>10, <2>2 DEF NotifyUpsert, ReqType, RequestStates, Becomes, TypeInv, TypeOK
  <2>4. RequestFits(q) BY <1>00, <1>10 DEF RequestFits, ReqType, NotifyUpsert, At
  <2>. QED BY <1>0, <1>10, <2>3, <2>4, MoveTypes DEF NotifyUpsert
<1>11. ASSUME NotifyDelete(r) \/ ApplyUpsert(r) PROVE TypeInv'
  <2>1. Stays BY <1>11, Unmoved DEF NotifyDelete, ApplyUpsert, store
  <2>2. rows' \in [Ids -> RowOrNone] /\ RowsFit'
    BY <1>11, <2>1, RowsSame DEF NotifyDelete, ApplyUpsert, store
  <2>3. Becomes(r, IdleRequest) BY <1>11, GoTo DEF NotifyDelete, ApplyUpsert, RequestStates
  <2>4. RequestFits(IdleRequest)' BY <2>1, IdleTypes, FitsKept
  <2>5. jobs' \in [Ids -> Crons \cup {None}]
    <3>1. \A x \in Row : x.cron \in Crons BY DEF Row
    <3>2. req[r].row = None \/ req[r].row \in Row BY <1>00 DEF ReqType, RowOrNone
    <3>. QED BY <1>11, <3>1, <3>2 DEF NotifyDelete, ApplyUpsert, TypeInv, TypeOK
  <2>6. Moves(r) BY <1>11 DEF NotifyDelete, ApplyUpsert
  <2>. QED BY <1>0, <2>1, <2>2, <2>3, <2>4, <2>5, <2>6, IdleTypes, RequestTypes
<1>. QED
  BY <1>1, <1>2, <1>4, <1>5, <1>6, <1>7, <1>8, <1>9, <1>10, <1>11 DEF RequestStep

\* A step of a tick, whatever it does to records and jobs.
LEMMA TickTypes ==
  ASSUME TypeInv, Watch, NEW t \in Ticks,
         \E k \in TickType : TickBecomes(t, k) /\ TickFits(k),
         rows' \in [Ids -> RowOrNone], RowsFit', jobs' \in [Ids -> Crons \cup {None}],
         fired' \subseteq Ids, UNCHANGED <<bounds, flow, made, req, sync>>
  PROVE  TypeInv'
<1>1. Stays BY Unmoved
<1>2. PICK k \in TickType : TickBecomes(t, k) /\ TickFits(k) OBVIOUS
<1>3. TickFits(k)' BY <1>1, <1>2, FitsKept
<1>4. tick' \in [Ticks -> TickType] /\ (\A o \in Ticks : TickFits(tick[o]))'
  BY <1>1, <1>2, <1>3, TickKept
<1>5. req' \in [Requests -> ReqType] /\ (\A o \in Requests : RequestFits(req[o]))'
  BY <1>1, RequestsSame
<1>6. SyncFits' BY DEF SyncFits, TypeInv, Points
<1>7. /\ queueMode' \in BOOLEAN /\ now' \in Times /\ restarts' \in 0 .. MaxRestarts
      /\ ops' \in 0 .. MaxOps
  BY DEF TypeInv, TypeOK, bounds
<1>. QED BY <1>1, <1>4, <1>5, <1>6, <1>7, Assemble

\* The firings and their steps keep the types.
LEMMA TickStepTypes ==
  ASSUME TypeInv, Watch, NEW t \in Ticks,
         TickStep(t) \/ \E i \in Ids : Fire(t, i)
  PROVE  TypeInv'
<1>0. tick[t] \in TickType /\ TickFits(tick[t]) BY Each
<1>00. /\ rows \in [Ids -> RowOrNone] /\ jobs \in [Ids -> Crons \cup {None}]
       /\ fired \subseteq Ids /\ tick \in [Ticks -> TickType]
  BY DEF TypeInv, TypeOK, TickType
<1>01. UNCHANGED <<rows, flow, made>> => rows' \in [Ids -> RowOrNone] /\ RowsFit'
  BY Unmoved, RowsSame
<1>02. TickMoves => UNCHANGED <<bounds, flow, made, req, sync>> /\ fired' \subseteq Ids
  BY <1>00 DEF TickMoves
<1>03. TickDone(t) => \E k \in TickType : TickBecomes(t, k) /\ TickFits(k)
  BY IdleTypes DEF TickDone, TickBecomes
<1>04. ASSUME NEW pc \in TickStates, TickGo(t, pc), tick[t].pc # "idle",
              pc \in {"expire", "run", "running"} =>
                tick[t].id \in 1 .. made /\ tick[t].row \in Row /\ flow[tick[t].row.target] # None
       PROVE  \E k \in TickType : TickBecomes(t, k) /\ TickFits(k)
  <2>1. [tick[t] EXCEPT !.pc = pc] \in TickType BY <1>0 DEF TickType
  <2>2. TickBecomes(t, [tick[t] EXCEPT !.pc = pc]) BY <1>00, <1>04 DEF TickGo, TickBecomes
  <2>3. TickFits([tick[t] EXCEPT !.pc = pc]) BY <1>0, <1>04 DEF TickFits, TickType
  <2>. QED BY <2>1, <2>2, <2>3
<1>1. ASSUME NEW i \in Ids, Fire(t, i) PROVE TypeInv'
  <2>. DEFINE k == [IdleTick EXCEPT !.pc = "load", !.id = i]
  <2>1. k \in TickType /\ TickFits(k)
    <3>1. i \in 0 .. MaxRows BY Each DEF Ids
    <3>. QED BY <3>1 DEF IdleTick, TickType, TickFits, TickStates, RowOrNone
  <2>2. TickBecomes(t, k) BY <1>1 DEF Fire, TickBecomes
  <2>3. UNCHANGED <<rows, flow, made, jobs>> /\ UNCHANGED <<bounds, flow, made, req, sync>>
    BY <1>1 DEF Fire, store
  <2>4. fired' \subseteq Ids BY <1>00, <1>1 DEF Fire
  <2>. QED BY <1>00, <1>01, <2>1, <2>2, <2>3, <2>4, TickTypes
<1>2. ASSUME Load(t) PROVE TypeInv'
  <2>. DEFINE row == rows[tick[t].id]
  <2>1. tick[t].id \in Ids BY <1>0, <1>2 DEF Load, TickAt, TickFits
  <2>2. row \in RowOrNone
        /\ (row # None =>
             row \in Row /\ flow[row.target] # None /\ tick[t].id \in 1 .. made)
    BY <2>1, Each DEF TypeInv, Points, RowsFit, Ids
  <2>3. Verdict(row) \in TickStates
        /\ (Verdict(row) \in {"expire", "run", "running"} => row # None)
    BY DEF Verdict, TickStates
  <2>4. \E k \in TickType : TickBecomes(t, k) /\ TickFits(k)
    <3>1. CASE Verdict(row) = "idle" BY <1>2, <1>03, <3>1 DEF Load
    <3>2. CASE Verdict(row) # "idle"
      <4>1. tick' = [tick EXCEPT ![t].pc = Verdict(row), ![t].row = row]
        BY <1>2, <3>2 DEF Load
      <4>2. [tick[t] EXCEPT !.pc = Verdict(row), !.row = row] \in TickType
        BY <1>0, <2>2, <2>3 DEF TickType
      <4>3. TickBecomes(t, [tick[t] EXCEPT !.pc = Verdict(row), !.row = row])
        BY <1>00, <4>1 DEF TickBecomes
      <4>4. TickFits([tick[t] EXCEPT !.pc = Verdict(row), !.row = row])
        BY <1>0, <2>1, <2>2, <2>3 DEF TickFits, TickType
      <4>. QED BY <4>2, <4>3, <4>4
    <3>. QED BY <3>1, <3>2
  <2>5. UNCHANGED <<rows, flow, made, jobs>> /\ TickMoves BY <1>2 DEF Load, TickMoves
  <2>. QED BY <1>00, <1>01, <1>02, <2>4, <2>5, TickTypes
<1>3. ASSUME Expire(t) PROVE TypeInv'
  <2>. DEFINE x == [tick[t].row EXCEPT !.enabled = FALSE]
  <2>1. tick[t].id \in 1 .. made /\ tick[t].row \in Row /\ flow[tick[t].row.target] # None
    BY <1>0, <1>3 DEF Expire, TickAt, TickFits
  <2>2. x \in Row /\ x.target = tick[t].row.target BY <2>1 DEF Row
  <2>3. PICK y \in RowOrNone : y = x BY <2>2 DEF RowOrNone
  <2>4. Stays /\ made' = made /\ flow' = flow BY <1>3, Unmoved DEF Expire, TickMoves
  <2>5. PICK i \in 1 .. made' : i = tick[t].id BY <2>1, <2>4
  <2>6. rows' = [rows EXCEPT ![i] = y] BY <1>3, <2>3, <2>5 DEF Expire
  <2>7. flow'[y.target] # None BY <2>1, <2>2, <2>3, <2>4
  <2>8. rows' \in [Ids -> RowOrNone] /\ RowsFit' BY <2>4, <2>6, <2>7, RowKept
  <2>9. \E k \in TickType : TickBecomes(t, k) /\ TickFits(k)
    BY <1>3, <1>04 DEF Expire, TickAt, TickStates
  <2>10. TickMoves /\ UNCHANGED jobs BY <1>3 DEF Expire
  <2>. QED BY <1>00, <1>02, <2>8, <2>9, <2>10, TickTypes
<1>4. ASSUME Drop(t) PROVE TypeInv'
  <2>1. TickMoves /\ UNCHANGED <<rows, flow, made>> /\ TickDone(t)
    BY <1>4 DEF Drop, TickMoves
  <2>2. jobs' \in [Ids -> Crons \cup {None}] BY <1>00, <1>4 DEF Drop
  <2>. QED BY <1>01, <1>02, <1>03, <2>1, <2>2, TickTypes
<1>5. ASSUME Run(t) PROVE TypeInv'
  <2>1. TickMoves /\ UNCHANGED <<rows, jobs, flow, made>> BY <1>5 DEF Run, TickMoves
  <2>2. tick[t].id \in 1 .. made /\ tick[t].row \in Row /\ flow[tick[t].row.target] # None
    BY <1>0, <1>5 DEF Run, TickAt, TickFits
  <2>3. \E k \in TickType : TickBecomes(t, k) /\ TickFits(k)
    BY <1>5, <2>2, <1>03, <1>04 DEF Run, TickAt, TickStates
  <2>. QED BY <1>00, <1>01, <1>02, <2>1, <2>3, TickTypes
<1>6. ASSUME Fail(t) PROVE TypeInv'
  <2>1. TickMoves /\ UNCHANGED <<rows, jobs, flow, made>> /\ TickDone(t)
    BY <1>6 DEF Fail, TickMoves
  <2>. QED BY <1>00, <1>01, <1>02, <1>03, <2>1, TickTypes
<1>7. ASSUME Succeed(t) PROVE TypeInv'
  <2>1. TickMoves /\ UNCHANGED <<jobs, flow, made>> /\ TickDone(t)
    BY <1>7 DEF Succeed, TickMoves
  <2>2. CASE rows[tick[t].id] = None
    <3>1. UNCHANGED rows BY <1>7, <2>2 DEF Succeed
    <3>. QED BY <1>00, <1>01, <1>02, <1>03, <2>1, <3>1, TickTypes
  <2>3. CASE rows[tick[t].id] # None
    <3>. DEFINE n == ComputeNextRunAt(tick[t].row.cron, now)
                x == [rows[tick[t].id] EXCEPT !.next = n]
    <3>1. tick[t].id \in 1 .. made /\ tick[t].row \in Row
      BY <1>0, <1>7 DEF Succeed, TickAt, TickFits
    <3>2. n \in Times BY <3>1, Each, NextType DEF Row
    <3>3. rows[tick[t].id] \in Row /\ flow[rows[tick[t].id].target] # None
      BY <2>3, <3>1, Each DEF TypeInv, Points, RowsFit
    <3>4. x \in Row /\ x.target = rows[tick[t].id].target BY <3>2, <3>3 DEF Row
    <3>5. PICK y \in RowOrNone : y = x BY <3>4 DEF RowOrNone
    <3>6. Stays /\ made' = made /\ flow' = flow BY <2>1, Unmoved
    <3>7. PICK i \in 1 .. made' : i = tick[t].id BY <3>1, <3>6
    <3>8. rows' = [rows EXCEPT ![i] = y]
      BY <1>00, <1>7, <2>3, <3>1, <3>5, <3>7, Each DEF Succeed
    <3>9. flow'[y.target] # None BY <3>3, <3>4, <3>5, <3>6
    <3>10. rows' \in [Ids -> RowOrNone] /\ RowsFit' BY <3>6, <3>8, <3>9, RowKept
    <3>. QED BY <1>00, <1>02, <1>03, <2>1, <3>10, TickTypes
  <2>. QED BY <2>2, <2>3
<1>. QED
  BY <1>1, <1>2, <1>3, <1>4, <1>5, <1>6, <1>7 DEF TickStep

\* The sync, restarts and the clock keep the types.
LEMMA SyncTypes ==
  ASSUME TypeInv, Watch, SyncPage \/ SyncJob
  PROVE  TypeInv'
<1>0. /\ rows \in [Ids -> RowOrNone] /\ jobs \in [Ids -> Crons \cup {None}] /\ SyncFits
  BY DEF TypeInv, TypeOK, Points
<1>1. /\ UNCHANGED <<bounds, fired, flow, rows, made, req, tick>> /\ Stays
  BY Unmoved DEF SyncPage, SyncJob, SyncMoves, store
<1>2. /\ req' \in [Requests -> ReqType] /\ (\A o \in Requests : RequestFits(req[o]))'
      /\ tick' \in [Ticks -> TickType] /\ (\A o \in Ticks : TickFits(tick[o]))'
      /\ rows' \in [Ids -> RowOrNone] /\ RowsFit'
  BY <1>1, RequestsSame, TicksSame, RowsSame
<1>3. /\ queueMode' \in BOOLEAN /\ now' \in Times /\ restarts' \in 0 .. MaxRestarts
      /\ ops' \in 0 .. MaxOps /\ fired' \subseteq Ids
  BY <1>1 DEF TypeInv, TypeOK, bounds
<1>4. CASE SyncPage
  <2>1. Page \subseteq Ids /\ Page \in SUBSET Ids BY DEF Page
  <2>2. Cardinality(Page) \in Nat
    <3>1. IsFiniteSet(Ids) BY FS_Interval, ScheduleAssumption DEF Ids
    <3>. QED BY <2>1, <3>1, FS_Subset, FS_CardinalityType
  <2>3. \A i \in Page : rows[i] \in Row BY Each DEF Page, Enabled
  <2>4. SyncFits'
    <3>1. CASE Page = {}
      <4>1. sync' = NoSync BY <1>4, <3>1 DEF SyncPage
      <4>. QED BY <4>1 DEF NoSync, SyncFits
    <3>2. CASE Page # {}
      <4>. DEFINE n == sync.skip + Cardinality(Page)
                  b == [i \in Page |-> rows[i]]
      <4>1. sync' = [pc |-> "job", skip |-> n, batch |-> b] BY <1>4, <3>2 DEF SyncPage
      <4>2. n \in Nat BY <1>0, <2>2 DEF SyncFits
      <4>3. DOMAIN b = Page /\ b \in [Page -> Row] BY <2>3
      <4>. HIDE DEF n, b
      <4>4. /\ sync'.pc = "job" /\ sync'.skip = n /\ sync'.batch = b
            /\ sync' = [pc |-> sync'.pc, skip |-> sync'.skip, batch |-> sync'.batch]
        BY <4>1
      <4>. QED BY <2>1, <3>2, <4>2, <4>3, <4>4 DEF SyncFits
    <3>. QED BY <3>1, <3>2
  <2>5. jobs' \in [Ids -> Crons \cup {None}] BY <1>0, <1>4 DEF SyncPage
  <2>. QED BY <1>1, <1>2, <1>3, <2>4, <2>5, Assemble
<1>5. CASE SyncJob
  <2>. DEFINE i == Min(DOMAIN sync.batch)
              rest == DOMAIN sync.batch \ {i}
  <2>1. /\ DOMAIN sync.batch \subseteq Ids /\ DOMAIN sync.batch # {}
        /\ sync.batch \in [DOMAIN sync.batch -> Row]
    BY <1>0, <1>5 DEF SyncFits, SyncJob
  <2>2. i \in DOMAIN sync.batch BY <2>1, MinInBatch
  <2>. HIDE DEF i
  <2>3. sync.batch[i].cron \in Crons
    <3>1. sync.batch[i] \in Row BY <2>1, <2>2
    <3>. QED BY <3>1 DEF Row
  <2>4. jobs' = [jobs EXCEPT ![i] = sync.batch[i].cron] BY <1>5 DEF SyncJob, i
  <2>5. jobs' \in [Ids -> Crons \cup {None}] BY <1>0, <2>3, <2>4
  <2>6. sync' = IF rest = {} THEN [sync EXCEPT !.pc = "page", !.batch = <<>>]
                ELSE [sync EXCEPT !.batch = Restrict(sync.batch, rest)]
    BY <1>5 DEF SyncJob, i
  <2>7. SyncFits'
    <3>1. CASE rest = {}
      <4>1. sync' = [pc |-> "page", skip |-> sync.skip, batch |-> <<>>]
        BY <1>0, <2>6, <3>1 DEF SyncFits
      <4>. QED BY <1>0, <4>1 DEF SyncFits
    <3>2. CASE rest # {}
      <4>. DEFINE b == Restrict(sync.batch, rest)
      <4>1. DOMAIN b = rest /\ b \in [rest -> Row] BY <2>1 DEF Restrict
      <4>. HIDE DEF b
      <4>2. sync.pc = "job" BY <1>5 DEF SyncJob
      <4>3. sync' = [pc |-> "job", skip |-> sync.skip, batch |-> b]
        BY <1>0, <2>6, <3>2, <4>2 DEF SyncFits, b
      <4>4. /\ sync'.pc = "job" /\ sync'.skip = sync.skip /\ sync'.batch = b
            /\ sync' = [pc |-> sync'.pc, skip |-> sync'.skip, batch |-> sync'.batch]
        BY <4>3
      <4>. QED BY <1>0, <2>1, <3>2, <4>1, <4>4 DEF SyncFits
    <3>. QED BY <3>1, <3>2
  <2>. QED BY <1>1, <1>2, <1>3, <2>5, <2>7, Assemble
<1>. QED BY <1>4, <1>5

LEMMA EventTypes ==
  ASSUME TypeInv, Watch, Restart \/ WorkerRestart \/ Advance
  PROVE  TypeInv'
<1>0. /\ rows \in [Ids -> RowOrNone] /\ jobs \in [Ids -> Crons \cup {None}] /\ SyncFits
      /\ tick \in [Ticks -> TickType] /\ fired \subseteq Ids
  BY DEF TypeInv, TypeOK, Points, TickType
<1>1. UNCHANGED <<queueMode, ops, flow, rows, made>> /\ Stays
  BY Unmoved DEF Restart, WorkerRestart, Advance, store
<1>2. rows' \in [Ids -> RowOrNone] /\ RowsFit' /\ queueMode' \in BOOLEAN /\ ops' \in 0 .. MaxOps
  BY <1>1, RowsSame DEF TypeInv, TypeOK
<1>3. RequestFits(IdleRequest)' /\ TickFits(IdleTick)' BY <1>1, IdleTypes, FitsKept
<1>4. CASE Restart
  <2>1. restarts' \in 0 .. MaxRestarts /\ now' \in Times /\ fired' \subseteq Ids
    BY <1>4, ScheduleAssumption DEF Restart, TypeInv, TypeOK
  <2>2. req' \in [Requests -> ReqType] /\ (\A o \in Requests : RequestFits(req[o]))'
    <3>1. req' = [r \in Requests |-> IdleRequest] BY <1>4 DEF Restart
    <3>. QED BY <1>3, <3>1, IdleTypes DEF RequestFits
  <2>3. SyncFits' BY <1>4 DEF Restart, SyncFits, Booting, NoSync
  <2>4. /\ jobs' \in [Ids -> Crons \cup {None}]
        /\ tick' \in [Ticks -> TickType] /\ (\A o \in Ticks : TickFits(tick[o]))'
    <3>1. CASE queueMode
      <4>1. UNCHANGED <<tick, jobs>> BY <1>4, <3>1 DEF Restart
      <4>. QED BY <1>0, <1>1, <4>1, TicksSame
    <3>2. CASE ~queueMode
      <4>1. tick' = [t \in Ticks |-> IdleTick] /\ jobs' = [i \in Ids |-> None]
        BY <1>4, <3>2 DEF Restart
      <4>. QED BY <1>3, <4>1, IdleTypes DEF TickFits
    <3>. QED BY <3>1, <3>2
  <2>. QED BY <1>1, <1>2, <2>1, <2>2, <2>3, <2>4, Assemble
<1>5. CASE WorkerRestart
  <2>1. restarts' \in 0 .. MaxRestarts /\ now' \in Times /\ fired' \subseteq Ids
    <3>1. UNCHANGED <<now, fired>> /\ restarts < MaxRestarts /\ restarts' = restarts + 1
      BY <1>5 DEF WorkerRestart
    <3>2. now \in Times /\ restarts \in 0 .. MaxRestarts BY DEF TypeInv, TypeOK
    <3>. QED BY <1>0, <3>1, <3>2, ScheduleAssumption
  <2>2. req' \in [Requests -> ReqType] /\ (\A o \in Requests : RequestFits(req[o]))'
    BY <1>1, <1>5, RequestsSame DEF WorkerRestart
  <2>3. SyncFits' /\ jobs' \in [Ids -> Crons \cup {None}]
    BY <1>0, <1>5 DEF WorkerRestart, SyncFits
  <2>4. PICK again \in SUBSET {t \in Ticks : tick[t].pc # "idle"} :
          tick' = [t \in Ticks |-> IF t \in again
                                   THEN [tick[t] EXCEPT !.pc = "load", !.row = None]
                                   ELSE IdleTick]
    BY <1>5 DEF WorkerRestart
  <2>5. ASSUME NEW t \in Ticks PROVE tick'[t] \in TickType /\ TickFits(tick[t])'
    <3>1. CASE t \in again
      <4>1. tick'[t] = [tick[t] EXCEPT !.pc = "load", !.row = None] BY <2>4, <3>1
      <4>2. tick[t] \in TickType /\ tick[t].id \in Ids BY <3>1, Each DEF TickFits
      <4>3. tick'[t] \in TickType BY <4>1, <4>2 DEF TickType, TickStates, RowOrNone
      <4>4. tick'[t].pc = "load" /\ tick'[t].id \in Ids BY <4>1, <4>2 DEF TickType
      <4>. QED BY <4>3, <4>4 DEF TickFits
    <3>2. CASE t \notin again
      <4>1. tick'[t] = IdleTick BY <2>4, <3>2
      <4>. QED BY <1>3, <4>1, IdleTypes DEF TickFits
    <3>. QED BY <3>1, <3>2
  <2>6. tick' \in [Ticks -> TickType] BY <2>4, <2>5
  <2>7. (\A o \in Ticks : TickFits(tick[o]))' BY <2>5
  <2>. QED BY <1>1, <1>2, <2>1, <2>2, <2>3, <2>6, <2>7, Assemble
<1>6. CASE Advance
  <2>1. restarts' \in 0 .. MaxRestarts /\ fired' \subseteq Ids /\ SyncFits'
        /\ jobs' \in [Ids -> Crons \cup {None}]
    BY <1>0, <1>6 DEF Advance, TypeInv, TypeOK, SyncFits
  <2>2. now' \in Times BY <1>6, ScheduleAssumption DEF Advance, TypeInv, TypeOK, Times
  <2>3. req' \in [Requests -> ReqType] /\ (\A o \in Requests : RequestFits(req[o]))'
    BY <1>1, <1>6, RequestsSame DEF Advance
  <2>4. tick' \in [Ticks -> TickType] /\ (\A o \in Ticks : TickFits(tick[o]))'
    BY <1>1, <1>6, TicksSame DEF Advance
  <2>. QED BY <1>1, <1>2, <2>1, <2>2, <2>3, <2>4, Assemble
<1>. QED BY <1>4, <1>5, <1>6

\* Every step keeps the types.
LEMMA NextTypes == ASSUME TypeInv, [Next]_vars PROVE TypeInv'
<1>1. CASE UNCHANGED vars
  <2>1. UNCHANGED <<queueMode, now, flow, rows, made, jobs, fired, req, tick, sync, ops,
                    restarts, mixed, disturbed, leftover>>
    BY <1>1 DEF vars, state, store, watch, bounds
  <2>2. Stays /\ SyncFits' BY <2>1, Unmoved DEF TypeInv, Points, SyncFits
  <2>3. Points'
    BY <2>1, <2>2, RequestsSame, TicksSame, RowsSame DEF Points
  <2>4. TypeOK' BY <2>1 DEF TypeInv, TypeOK
  <2>. QED BY <2>3, <2>4 DEF TypeInv
<1>2. CASE Next
  <2>1. Watch /\ Step BY <1>2 DEF Next
  <2>. QED
    BY <2>1, BeginTypes, RequestStepTypes, TickStepTypes, SyncTypes, EventTypes DEF Step
<1>. QED BY <1>1, <1>2

\* Every variable has its type in every reachable state: no handler stores a
\* record of a flow that never was, or leaves a step without what it needs.
THEOREM TypeCorrect == Spec => []TypeOK
<1>1. Init => TypeInv BY InitTypes
<1>2. TypeInv /\ [Next]_vars => TypeInv' BY NextTypes
<1>3. TypeInv => TypeOK BY DEF TypeInv
<1>. QED BY <1>1, <1>2, <1>3, PTL DEF Spec

-----------------------------------------------------------------------------
(***************************************************************************)
(* The pages of the sync: the rank of an enabled record among the enabled  *)
(* ones grows with its age, and leaves no gap.                             *)
(***************************************************************************)

UpTo(i) == {j \in 1 .. i : Enabled(j)}

LEMMA RankType ==
  ASSUME NEW i \in Ids
  PROVE  /\ IsFiniteSet(UpTo(i)) /\ Rank(i) = Cardinality(UpTo(i)) /\ Rank(i) \in Nat
         /\ Enabled(i) => Rank(i) >= 1
<1>1. i \in Nat BY DEF Ids
<1>2. IsFiniteSet(1 .. i) BY <1>1, FS_Interval
<1>3. IsFiniteSet(UpTo(i)) BY <1>2, FS_Subset DEF UpTo
<1>4. Rank(i) = Cardinality(UpTo(i)) BY DEF Rank, UpTo
<1>5. Cardinality(UpTo(i)) \in Nat BY <1>3, FS_CardinalityType
<1>6. ASSUME Enabled(i) PROVE Rank(i) >= 1
  <2>1. i \in UpTo(i) BY <1>6 DEF UpTo, Ids
  <2>2. Cardinality(UpTo(i)) # 0 BY <1>3, <2>1, FS_EmptySet
  <2>. QED BY <1>4, <1>5, <2>2
<1>. QED BY <1>3, <1>4, <1>5, <1>6

RanksFromOne == \A i \in Ids : Enabled(i) => Rank(i) \in Nat /\ Rank(i) >= 1

LEMMA RankPositive == RanksFromOne
BY RankType DEF RanksFromOne

LEMMA RankGrows ==
  ASSUME NEW i \in Ids, NEW j \in Ids, i < j, Enabled(j)
  PROVE  Rank(i) < Rank(j)
<1>1. j \in UpTo(j) /\ UpTo(i) \subseteq UpTo(j) \ {j} BY DEF UpTo, Ids
<1>2. /\ IsFiniteSet(UpTo(j) \ {j})
      /\ Cardinality(UpTo(j) \ {j}) = Cardinality(UpTo(j)) - 1
  BY <1>1, RankType, FS_RemoveElement
<1>3. Cardinality(UpTo(i)) <= Cardinality(UpTo(j) \ {j}) BY <1>1, <1>2, FS_Subset
<1>. QED BY <1>2, <1>3, RankType

\* The first enabled record beyond a rank comes right after it.
LEMMA NoGap ==
  ASSUME NEW n \in Nat, NEW k \in Ids, Enabled(k), Rank(k) > n
  PROVE  \E i \in Ids : Enabled(i) /\ Rank(i) = n + 1
<1>. DEFINE S == {i \in Ids : Enabled(i) /\ Rank(i) > n}
<1>1. S \subseteq Nat /\ S # {} BY DEF Ids
<1>2. PICK i \in S : \A m \in S : i <= m
  <2>. HIDE DEF S
  <2>. QED BY <1>1, LeastNat
<1>3. i \in Ids /\ Enabled(i) /\ Rank(i) > n BY <1>2
<1>. DEFINE P == UpTo(i) \ {i}
<1>4. IsFiniteSet(P) /\ Cardinality(P) = Rank(i) - 1
  <2>1. i \in UpTo(i) BY <1>3 DEF UpTo, Ids
  <2>. QED BY <1>3, <2>1, RankType, FS_RemoveElement
<1>5. P \subseteq Ids /\ \A j \in P : j < i /\ Enabled(j)
  BY <1>3, ScheduleAssumption DEF UpTo, Ids
<1>6. \A j \in P : Rank(j) <= n
  <2>. SUFFICES ASSUME NEW j \in P PROVE Rank(j) <= n
    OBVIOUS
  <2>0. j \in Ids /\ j < i /\ Enabled(j) BY <1>5
  <2>1. j \notin S
    <3>. SUFFICES ASSUME j \in S PROVE FALSE
      OBVIOUS
    <3>1. i <= j BY <1>2
    <3>. QED BY <2>0, <3>1, <1>3 DEF Ids
  <2>2. ~(Rank(j) > n) BY <2>0, <2>1
  <2>. QED BY <2>0, <2>2, RankType
<1>7. Cardinality(P) <= n
  <2>1. CASE P = {} BY <2>1, FS_EmptySet
  <2>2. CASE P # {}
    <3>. DEFINE D == {m \in Nat : \E j \in P : m = i - j}
    <3>1. D \subseteq Nat OBVIOUS
    <3>2. D # {}
      <4>1. PICK j \in P : TRUE BY <2>2
      <4>2. i - j \in Nat BY <1>3, <1>5 DEF Ids
      <4>3. i - j \in D BY <4>2
      <4>. QED BY <4>3
    <3>3. PICK d \in D : \A m \in D : d <= m
      <4>. HIDE DEF D
      <4>. QED BY <3>1, <3>2, LeastNat
    <3>4. PICK m \in P : d = i - m BY <3>3
    <3>5. \A j \in P : j <= m
      <4>. SUFFICES ASSUME NEW j \in P PROVE j <= m
        OBVIOUS
      <4>0. j \in Nat /\ m \in Nat /\ i \in Nat /\ j < i BY <1>3, <1>5 DEF Ids
      <4>1. i - j \in D BY <4>0
      <4>2. d <= i - j BY <3>3, <4>1
      <4>. QED BY <3>4, <4>0, <4>2
    <3>6. m \in Ids /\ Enabled(m) BY <1>5
    <3>7. P \subseteq UpTo(m)
      <4>. SUFFICES ASSUME NEW j \in P PROVE j \in UpTo(m)
        OBVIOUS
      <4>1. j \in Ids /\ Enabled(j) /\ j <= m BY <1>5, <3>5
      <4>. QED BY <3>6, <4>1 DEF UpTo, Ids
    <3>8. Cardinality(P) <= Rank(m)
      <4>1. IsFiniteSet(UpTo(m)) /\ Rank(m) = Cardinality(UpTo(m)) BY <3>6, RankType
      <4>. HIDE DEF P
      <4>. QED BY <3>7, <4>1, FS_Subset
    <3>9. Rank(m) <= n /\ Rank(m) \in Nat BY <1>6, <3>6, RankType
    <3>10. Cardinality(P) \in Nat
      <4>. HIDE DEF P
      <4>. QED BY <1>4, FS_CardinalityType
    <3>. HIDE DEF P
    <3>. QED BY <3>8, <3>9, <3>10
  <2>. QED BY <2>1, <2>2
<1>8. Rank(i) \in Nat BY <1>3, RankType
<1>9. Rank(i) = n + 1
  <2>. HIDE DEF P
  <2>. QED BY <1>3, <1>4, <1>7, <1>8
<1>. QED BY <1>3, <1>9

\* An empty page means that every enabled record has been seen, and a page
\* covers the ranks by which the sync moves on.
LEMMA PageCovers ==
  ASSUME sync.skip \in Nat
  PROVE  /\ Cardinality(Page) \in Nat
         /\ Page = {} => \A i \in Ids : Enabled(i) => Rank(i) <= sync.skip
         /\ \A i \in Ids : Enabled(i) /\ Rank(i) <= sync.skip + Cardinality(Page)
                             => Rank(i) <= sync.skip \/ i \in Page
<1>. DEFINE n == sync.skip
            T == (n + 1) .. (n + PageSize)
<1>0. PageSize \in Nat \ {0} BY ScheduleAssumption
<1>1. Page \in SUBSET Ids /\ \A i \in Page : Enabled(i) /\ Rank(i) \in T
  BY DEF Page
<1>2. IsFiniteSet(Page) /\ Cardinality(Page) \in Nat
  <2>1. IsFiniteSet(Ids) BY FS_Interval, ScheduleAssumption DEF Ids
  <2>. QED BY <1>1, <2>1, FS_Subset, FS_CardinalityType
<1>3. IsFiniteSet(T) /\ Cardinality(T) = PageSize
  BY <1>0, FS_Interval, SMTT(30)
<1>4. Cardinality(Page) <= PageSize
  <2>. SUFFICES ASSUME PageSize < Cardinality(Page) PROVE FALSE
    BY <1>0, <1>2
  <2>. DEFINE f == [i \in Page |-> Rank(i)]
  <2>1. f \in [Page -> T] BY <1>1
  <2>2. PICK x, y \in Page : x # y /\ f[x] = f[y]
    <3>. HIDE DEF f, T
    <3>. QED BY <1>2, <1>3, <2>1, FS_PigeonHole
  <2>3. x \in Ids /\ y \in Ids /\ Enabled(x) /\ Enabled(y) /\ Rank(x) = Rank(y)
    BY <1>1, <2>2
  <2>4. x < y \/ y < x BY <2>2, <2>3 DEF Ids
  <2>5. Rank(x) \in Nat /\ Rank(y) \in Nat BY <2>3, RankType
  <2>. QED BY <2>3, <2>4, <2>5, RankGrows
<1>5. ASSUME Page = {}, NEW i \in Ids, Enabled(i) PROVE Rank(i) <= n
  <2>. SUFFICES ASSUME Rank(i) > n PROVE FALSE
    BY RankType
  <2>1. PICK k \in Ids : Enabled(k) /\ Rank(k) = n + 1 BY <1>5, NoGap
  <2>2. k \in Page BY <1>0, <2>1 DEF Page
  <2>. QED BY <1>5, <2>2
<1>6. ASSUME NEW i \in Ids, Enabled(i), Rank(i) <= n + Cardinality(Page), ~(Rank(i) <= n)
      PROVE  i \in Page
  <2>1. Rank(i) \in Nat BY RankType
  <2>2. Rank(i) \in (n + 1) .. (n + PageSize) BY <1>0, <1>2, <1>4, <1>6, <2>1
  <2>. QED BY <1>6, <2>2 DEF Page
<1>. QED BY <1>2, <1>5, <1>6

-----------------------------------------------------------------------------
(***************************************************************************)
(* Jobs follow records.                                                    *)
(***************************************************************************)

\* At most one request or disabling tick is under way.
Alone == \A x, y \in Writers : x = y

\* The job of the record i is right; or somebody is about to make it so.
Sound(i) ==
  IF Enabled(i) THEN jobs[i] = rows[i].cron ELSE jobs[i] = None \/ i \in leftover

Excused(i) ==
  \/ \E r \in Requests : req[r].pc \in {"upsert", "apply", "delete"} /\ req[r].id = i
  \/ \E t \in Ticks : tick[t].pc = "drop" /\ tick[t].id = i

\* During the sync: right, in the page at hand, or on a later page.
Registered(i) ==
  IF Enabled(i)
  THEN \/ jobs[i] = rows[i].cron
       \/ sync.pc = "job" /\ i \in DOMAIN sync.batch
       \/ Rank(i) > sync.skip
  ELSE jobs[i] = None \/ i \in leftover

PageIsFresh ==
  sync.pc = "job" =>
    \A i \in DOMAIN sync.batch : Enabled(i) /\ sync.batch[i].cron = rows[i].cron

\* What a request and a tick rely on as long as nobody is beside them.
RequestGood(r) ==
  /\ req[r].pc = "delete" => ~Enabled(req[r].id)
  /\ req[r].pc = "apply" =>
       IF req[r].row # None /\ req[r].row.enabled
       THEN Enabled(req[r].id) /\ req[r].row.cron = rows[req[r].id].cron
       ELSE ~Enabled(req[r].id)
  /\ req[r].pc \in {"find", "insert"} /\ req[r].on => RowsOf(req[r].target) = {}
  /\ req[r].pc \in {"write", "save"} => ~req[r].on

TickGood(t) == tick[t].pc = "drop" => ~Enabled(tick[t].id)

Undisturbed ==
  /\ Alone
  /\ Syncing => Writers = {} /\ PageIsFresh /\ \A i \in Ids : Registered(i)
  /\ ~Syncing => \A i \in Ids : Sound(i) \/ Excused(i)
  /\ \A r \in Requests : RequestGood(r)
  /\ \A t \in Ticks : TickGood(t)

JobsInv == ~disturbed => Undisturbed

\* Who is a writer.
LEMMA WriterIs ==
  /\ \A r \in Requests : req[r].pc # "idle" => r \in Writers
  /\ \A t \in Ticks : tick[t].pc \in {"expire", "drop"} => t \in Writers
  /\ Writers = {} => \A r \in Requests : req[r].pc = "idle"
  /\ Writers = {} => \A t \in Ticks : tick[t].pc \notin {"expire", "drop"}
BY DEF Writers

LEMMA AloneOrOverlap == ~Overlap => Alone
<1>. SUFFICES ASSUME ~Overlap PROVE Alone
  OBVIOUS
<1>1. IsFiniteSet(Writers)
  <2>1. Writers \in SUBSET (Requests \cup Ticks) BY DEF Writers
  <2>2. IsFiniteSet(Requests \cup Ticks) BY ScheduleAssumption, FS_Union
  <2>. QED BY <2>1, <2>2, FS_Subset
<1>2. Cardinality(Writers) \in Nat BY <1>1, FS_CardinalityType
<1>3. Cardinality(Writers) = 0 \/ Cardinality(Writers) = 1 BY <1>2 DEF Overlap
<1>4. Writers = {} \/ \E x : Writers = {x} BY <1>1, <1>3, FS_EmptySet, FS_Singleton
<1>. QED BY <1>4 DEF Alone

\* A writer that is alone: the others are idle or harmless.
LEMMA OthersIdle ==
  ASSUME Alone
  PROVE  /\ \A r \in Requests : req[r].pc # "idle" =>
              /\ \A o \in Requests : o # r => req[o].pc = "idle"
              /\ \A t \in Ticks : tick[t].pc \notin {"expire", "drop"}
         /\ \A t \in Ticks : tick[t].pc \in {"expire", "drop"} =>
              /\ \A r \in Requests : req[r].pc = "idle"
              /\ \A o \in Ticks : o # t => tick[o].pc \notin {"expire", "drop"}
BY WriterIs, ScheduleAssumption DEF Alone

\* What the flag says when it is off after a step.
LEMMA StillUndisturbed ==
  ASSUME Watch, disturbed \in BOOLEAN, ~disturbed'
  PROVE  /\ Alone' /\ (Syncing => Writers = {})'
         /\ Boots \/ (~disturbed /\ ~Died)
         /\ Boots => leftover' = {i \in Ids : jobs'[i] # None}
         /\ ~Boots => leftover' = leftover \ {i \in Ids : jobs'[i] = None}
<1>1. ~Overlap' /\ ~(Syncing' /\ Writers' # {}) /\ ~(disturbed /\ ~Boots) /\ ~(Died /\ ~Boots)
  BY DEF Watch
<1>2. (~Overlap => Alone)' BY AloneOrOverlap, PTL
<1>. QED BY <1>1, <1>2 DEF Watch

\* What stays right: a record, and a job that is not touched.
Like(i) ==
  /\ rows'[i] # None <=> rows[i] # None
  /\ rows[i] # None => /\ rows'[i].enabled = rows[i].enabled
                       /\ rows'[i].cron = rows[i].cron
                       /\ rows'[i].target = rows[i].target

LEMMA SoundKept ==
  ASSUME NEW i \in Ids, Like(i), jobs'[i] = jobs[i], Sound(i),
         leftover' = leftover \ {k \in Ids : jobs'[k] = None}
  PROVE  Sound(i)'
BY DEF Sound, Like, Enabled

LEMMA RankKept ==
  ASSUME NEW i \in Ids, \A k \in Ids : Like(k)
  PROVE  Rank(i)' = Rank(i)
<1>1. \A k \in 1 .. i : k \in Ids BY ScheduleAssumption DEF Ids
<1>2. {k \in 1 .. i : Enabled(k)}' = {k \in 1 .. i : Enabled(k)}
  BY <1>1 DEF Like, Enabled
<1>. QED BY <1>2 DEF Rank

\* A server that boots, whatever was before.
LEMMA BootingJobs ==
  ASSUME sync' = Booting, Alone', (Syncing => Writers = {})',
         \A i \in Ids : ~Enabled(i)' => jobs'[i] = None \/ i \in leftover'
  PROVE  Undisturbed'
<1>1. sync'.pc = "page" /\ sync'.skip = 0 BY DEF Booting, NoSync
<1>2. Syncing' /\ (Writers = {})' BY <1>1 DEF Syncing
<1>3. /\ \A r \in Requests : req'[r].pc = "idle"
      /\ \A t \in Ticks : tick'[t].pc \notin {"expire", "drop"}
  BY <1>2 DEF Writers
<1>4. (\A r \in Requests : RequestGood(r))' /\ (\A t \in Ticks : TickGood(t))'
  BY <1>3 DEF RequestGood, TickGood
<1>5. ASSUME NEW i \in Ids PROVE Registered(i)'
  <2>1. RanksFromOne' BY RankPositive, PTL
  <2>2. Enabled(i)' => Rank(i)' \in Nat /\ Rank(i)' >= 1 BY <2>1 DEF RanksFromOne
  <2>. QED BY <1>1, <1>5, <2>2 DEF Registered
<1>6. PageIsFresh' BY <1>1 DEF PageIsFresh
<1>. QED BY <1>2, <1>4, <1>5, <1>6 DEF Undisturbed

\* A step that leaves records alike and jobs alone, and answers for itself.
LEMMA Harmless ==
  ASSUME TypeInv, Undisturbed, Alone', (Syncing => Writers = {})',
         leftover' = leftover \ {i \in Ids : jobs'[i] = None},
         \A i \in Ids : Like(i), UNCHANGED <<jobs, sync>>,
         \A r \in Requests : RequestGood(r)',
         \A r \in Requests : req[r].pc \in {"upsert", "apply", "delete"} => req'[r] = req[r],
         \A t \in Ticks : TickGood(t)',
         \A t \in Ticks : tick[t].pc = "drop" => tick'[t] = tick[t]
  PROVE  Undisturbed'
<1>1. ASSUME NEW i \in Ids, ~Syncing PROVE Sound(i)' \/ Excused(i)'
  <2>1. CASE Sound(i) BY <2>1, SoundKept
  <2>2. CASE Excused(i)
    BY <2>2 DEF Excused
  <2>. QED BY <1>1, <2>1, <2>2 DEF Undisturbed
<1>2. ASSUME NEW i \in Ids, Syncing PROVE Registered(i)'
  <2>1. Registered(i) /\ Rank(i)' = Rank(i) BY <1>2, RankKept DEF Undisturbed
  <2>2. Like(i) OBVIOUS
  <2>. QED BY <2>1, <2>2 DEF Registered, Like, Enabled
<1>3. Syncing => PageIsFresh'
  <2>. SUFFICES ASSUME Syncing, sync.pc = "job", NEW i \in DOMAIN sync.batch
                PROVE  Enabled(i)' /\ sync'.batch[i].cron = rows'[i].cron
    BY DEF PageIsFresh
  <2>1. i \in Ids BY DEF TypeInv, Points, SyncFits
  <2>2. Enabled(i) /\ sync.batch[i].cron = rows[i].cron BY DEF Undisturbed, PageIsFresh
  <2>. QED BY <2>1, <2>2 DEF Like, Enabled
<1>4. Syncing' <=> Syncing BY DEF Syncing
<1>5. (\A r \in Requests : RequestGood(r))' /\ (\A t \in Ticks : TickGood(t))' OBVIOUS
<1>6. (Syncing => PageIsFresh /\ \A i \in Ids : Registered(i))' BY <1>2, <1>3, <1>4
<1>7. (~Syncing => \A i \in Ids : Sound(i) \/ Excused(i))' BY <1>1, <1>4
<1>. QED BY <1>5, <1>6, <1>7 DEF Undisturbed

\* What stays good beside a harmless step.
LEMMA GoodKept ==
  ASSUME TypeInv, NEW r \in Requests, RequestGood(r), \A i \in Ids : Like(i), req'[r] = req[r]
  PROVE  RequestGood(r)'
<1>1. req[r].pc \in {"delete", "apply"} => req[r].id \in Ids
  BY Each DEF RequestFits
<1>2. RowsOf(req[r].target)' = RowsOf(req[r].target)
  BY DEF RowsOf, Like
<1>3. req[r].pc \in {"delete", "apply"} => Like(req[r].id) BY <1>1
<1>. QED BY <1>2, <1>3 DEF RequestGood, Like, Enabled

LEMMA TickGoodKept ==
  ASSUME TypeInv, NEW t \in Ticks, TickGood(t), \A i \in Ids : Like(i), tick'[t] = tick[t]
  PROVE  TickGood(t)'
<1>1. tick[t].pc = "drop" => tick[t].id \in Ids BY Each DEF TickFits
<1>. QED BY <1>1 DEF TickGood, Like, Enabled

\* A step of a request that is alone.
LEMMA LoneStep ==
  ASSUME TypeInv, Undisturbed, Alone', NEW r \in Requests, req[r].pc # "idle",
         UNCHANGED <<tick, sync>>, \A o \in Requests \ {r} : req'[o] = req[o],
         RequestGood(r)', \A i \in Ids : Sound(i)' \/ Excused(i)'
  PROVE  Undisturbed'
<1>1. ~Syncing BY WriterIs DEF Undisturbed
<1>2. ~Syncing' BY <1>1 DEF Syncing
<1>3. /\ \A o \in Requests : o # r => req[o].pc = "idle"
      /\ \A t \in Ticks : tick[t].pc \notin {"expire", "drop"}
  BY OthersIdle DEF Undisturbed
<1>4. \A t \in Ticks : TickGood(t)' BY <1>3 DEF TickGood
<1>5. ASSUME NEW o \in Requests PROVE RequestGood(o)'
  <2>1. CASE o = r BY <2>1
  <2>2. CASE o # r
    <3>1. req'[o].pc = "idle" BY <1>3, <2>2
    <3>. QED BY <3>1 DEF RequestGood
  <2>. QED BY <2>1, <2>2
<1>. QED BY <1>2, <1>4, <1>5 DEF Undisturbed

\* What a request that is alone finds: only its own record may be out of step.
LEMMA LoneFinds ==
  ASSUME TypeInv, Undisturbed, NEW r \in Requests, req[r].pc # "idle"
  PROVE  /\ ~Syncing /\ RequestGood(r)
         /\ \A i \in Ids :
              Sound(i) \/ (req[r].pc \in {"upsert", "apply", "delete"} /\ req[r].id = i)
<1>1. ~Syncing BY WriterIs DEF Undisturbed
<1>2. /\ \A o \in Requests : o # r => req[o].pc = "idle"
      /\ \A t \in Ticks : tick[t].pc \notin {"expire", "drop"}
  BY OthersIdle DEF Undisturbed
<1>3. ASSUME NEW i \in Ids
      PROVE  Sound(i) \/ (req[r].pc \in {"upsert", "apply", "delete"} /\ req[r].id = i)
  <2>1. CASE Sound(i) BY <2>1
  <2>2. CASE Excused(i) BY <1>2, <2>2 DEF Excused
  <2>. QED BY <1>1, <2>1, <2>2 DEF Undisturbed
<1>4. RequestGood(r) BY DEF Undisturbed
<1>. QED BY <1>1, <1>3, <1>4

\* Calls that arrive leave records and jobs alone.
LEMMA BeginJobs ==
  ASSUME TypeInv, Undisturbed, Alone', (Syncing => Writers = {})',
         leftover' = leftover \ {i \in Ids : jobs'[i] = None},
         NEW r \in Requests, Request(r)
  PROVE  Undisturbed'
<1>1. UNCHANGED <<rows, jobs, sync, tick>> /\ req[r].pc = "idle"
  BY DEF Request, Toggle, Create, ReadFlow, Begin, store, At
<1>2. \A i \in Ids : Like(i) BY <1>1 DEF Like
<1>3. \A o \in Requests \ {r} : req'[o] = req[o]
  BY DEF Request, Toggle, Create, ReadFlow, TypeInv, TypeOK
<1>4. /\ req'[r].pc \in {"idle", "write", "find", "status", "toggle"}
      /\ req'[r].pc = "write" => ~req'[r].on
      /\ req'[r].pc = "find" => req'[r].target \in Flows /\ flow[req'[r].target] = None
  <2>0. req \in [Requests -> ReqType] BY DEF TypeInv, TypeOK, ReqType
  <2>1. ASSUME NEW f \in Flows, NEW on \in BOOLEAN, Toggle(r, f, on)
        PROVE  req'[r].pc \in {"status", "toggle"}
    BY <2>0, <2>1 DEF Toggle, IdleRequest
  <2>2. ASSUME NEW f \in Flows, NEW c \in Configs \cup {Plain, Gone}, ReadFlow(r, f, c)
        PROVE  req'[r].pc = "write" /\ ~req'[r].on
    BY <2>0, <2>2 DEF ReadFlow, IdleRequest
  <2>3. ASSUME NEW f \in Flows, NEW c \in Configs \cup {Plain}, Create(r, f, c)
        PROVE  \/ req'[r].pc = "idle"
               \/ req'[r].pc = "find" /\ req'[r].target = f /\ flow[f] = None
    BY <1>1, <2>0, <2>3 DEF Create, IdleRequest
  <2>. QED BY <2>1, <2>2, <2>3 DEF Request
<1>6. ASSUME NEW f \in Flows, flow[f] = None PROVE (RowsOf(f))' = {}
  BY <1>1, <1>6 DEF RowsOf, TypeInv, Points, RowsFit
<1>7. RequestGood(r)'
  <2>1. CASE req'[r].pc = "find"
    <3>1. PICK f \in Flows : f = req'[r].target /\ flow[f] = None BY <1>4, <2>1
    <3>2. (RowsOf(f))' = {} BY <1>6, <3>1
    <3>3. (RowsOf(req[r].target))' = {} BY <3>1, <3>2 DEF RowsOf
    <3>. QED BY <2>1, <3>3 DEF RequestGood
  <2>2. CASE req'[r].pc # "find" BY <1>4, <2>2 DEF RequestGood
  <2>. QED BY <2>1, <2>2
<1>8. \A o \in Requests : RequestGood(o)'
  BY <1>2, <1>3, <1>7, GoodKept DEF Undisturbed
<1>9. \A t \in Ticks : TickGood(t)'
  BY <1>1, <1>2, TickGoodKept DEF Undisturbed
<1>. QED BY <1>1, <1>2, <1>3, <1>8, <1>9, Harmless

\* A step of a request that leaves records and jobs alone.
LEMMA LookJobs ==
  ASSUME TypeInv, Undisturbed, Alone', (Syncing => Writers = {})',
         leftover' = leftover \ {i \in Ids : jobs'[i] = None},
         NEW r \in Requests, req[r].pc \notin {"idle", "upsert", "apply", "delete"},
         UNCHANGED <<rows, jobs, sync, tick>>,
         \A o \in Requests \ {r} : req'[o] = req[o],
         RequestGood(r)'
  PROVE  Undisturbed'
<1>1. \A i \in Ids : Like(i) BY DEF Like
<1>2. \A o \in Requests : RequestGood(o)'
  BY <1>1, GoodKept DEF Undisturbed
<1>3. \A t \in Ticks : TickGood(t)'
  BY <1>1, TickGoodKept DEF Undisturbed
<1>. QED BY <1>1, <1>2, <1>3, Harmless

\* The steps of requests.
LEMMA RequestJobs ==
  ASSUME TypeInv, Undisturbed, Alone', (Syncing => Writers = {})',
         leftover' = leftover \ {i \in Ids : jobs'[i] = None},
         NEW r \in Requests, RequestStep(r)
  PROVE  Undisturbed'
<1>. DEFINE i == req[r].id
            f == req[r].target
<1>0. req[r] \in ReqType /\ RequestFits(req[r]) BY Each
<1>1. /\ req[r].pc # "idle" /\ UNCHANGED <<tick, sync>>
      /\ \A o \in Requests \ {r} : req'[o] = req[o]
  BY DEF RequestStep, WriteFlow, FindRow, InsertRow, SaveRow, FindOldRow, DeleteRow,
         ScheduleStatus, SaveToggle, NotifyDelete, NotifyUpsert, ApplyUpsert, Moves,
         Go, Done, AfterSave, At, TypeInv, TypeOK
<1>2. /\ ~Syncing /\ RequestGood(r)
      /\ \A k \in Ids :
           Sound(k) \/ (req[r].pc \in {"upsert", "apply", "delete"} /\ req[r].id = k)
  BY <1>1, LoneFinds
<1>3. req[r].pc \in {"save", "deleteRow", "toggle", "delete", "upsert", "apply"} => i \in Ids
  BY <1>0, Each DEF RequestFits
<1>4. rows \in [Ids -> RowOrNone] /\ jobs \in [Ids -> Crons \cup {None}]
      /\ req \in [Requests -> ReqType] /\ None \notin Row
  BY ScheduleAssumption DEF TypeInv, TypeOK, ReqType
<1>5. ASSUME NEW k \in Ids, rows'[k] = rows[k], jobs'[k] = jobs[k], Sound(k)
      PROVE  Sound(k)'
  BY <1>5, SoundKept DEF Like
<1>a. CASE WriteFlow(r) \/ FindOldRow(r) \/ ScheduleStatus(r)
  <2>1. UNCHANGED <<rows, jobs>> /\ req[r].pc \in {"write", "findOld", "status"}
    BY <1>a DEF WriteFlow, FindOldRow, ScheduleStatus, At, store
  <2>2. req'[r].pc \in {"idle", "find", "findOld", "deleteRow", "toggle"}
        /\ (req'[r].pc = "find" => ~req'[r].on)
    <3>1. CASE WriteFlow(r)
      <4>1. AfterFlow(req[r].conf) \in {"idle", "find", "findOld"} BY DEF AfterFlow
      <4>2. ~req[r].on BY <1>2, <3>1 DEF WriteFlow, At, RequestGood
      <4>3. Done(r) \/ Go(r, AfterFlow(req[r].conf)) BY <3>1 DEF WriteFlow
      <4>4. /\ Done(r) => req'[r].pc = "idle"
            /\ Go(r, AfterFlow(req[r].conf)) =>
                 req'[r].pc = AfterFlow(req[r].conf) /\ req'[r].on = req[r].on
        BY <1>4 DEF Done, Go, IdleRequest, ReqType
      <4>. HIDE DEF f, i
      <4>. QED BY <4>1, <4>2, <4>3, <4>4
    <3>2. CASE FindOldRow(r)
      <4>1. CASE Done(r) BY <1>4, <4>1 DEF Done, IdleRequest
      <4>2. ASSUME NEW k \in RowsOf(f), req' = [req EXCEPT ![r].pc = "deleteRow", ![r].id = k]
            PROVE  req'[r].pc = "deleteRow"
        BY <1>4, <4>2 DEF ReqType
      <4>. QED BY <3>2, <4>1, <4>2 DEF FindOldRow
    <3>3. CASE ScheduleStatus(r)
      <4>1. Done(r) \/ Go(r, "toggle") BY <3>3 DEF ScheduleStatus
      <4>. QED BY <1>4, <4>1 DEF Done, Go, IdleRequest, ReqType
    <3>. QED BY <1>a, <3>1, <3>2, <3>3
  <2>3. RequestGood(r)' BY <2>2 DEF RequestGood
  <2>. QED BY <1>1, <2>1, <2>3, LookJobs
<1>b. CASE FindRow(r)
  <2>1. UNCHANGED <<rows, jobs>> /\ req[r].pc = "find" BY <1>b DEF FindRow, At, store
  <2>2. req[r].on => RowsOf(f) = {} BY <1>2, <2>1 DEF RequestGood
  <2>3. RequestGood(r)'
    <3>1. CASE RowsOf(f) = {} /\ Go(r, "insert")
      <4>1. req'[r].pc = "insert" /\ req'[r].target = f BY <1>4, <3>1 DEF Go, ReqType
      <4>2. (RowsOf(req[r].target))' = {} BY <2>1, <3>1, <4>1 DEF RowsOf
      <4>. QED BY <4>1, <4>2 DEF RequestGood
    <3>2. ASSUME NEW k \in RowsOf(f),
                 req' = [req EXCEPT ![r].pc = "save", ![r].id = k, ![r].row = rows[k]]
          PROVE  RequestGood(r)'
      <4>1. req'[r].pc = "save" /\ req'[r].on = req[r].on BY <1>4, <3>2 DEF ReqType
      <4>. QED BY <2>2, <3>2, <4>1 DEF RequestGood
    <3>. QED BY <1>b, <3>1, <3>2 DEF FindRow
  <2>. QED BY <1>1, <2>1, <2>3, LookJobs
<1>c. ASSUME NEW k \in Ids, NEW on \in BOOLEAN, NEW x \in Row,
             rows' = [rows EXCEPT ![k] = x], x.enabled = on, UNCHANGED jobs,
             AfterSave(r, k, on), req[r].pc \in {"insert", "save"},
             req[r].on => rows[k] = None
      PROVE  Undisturbed'
  <2>1. rows'[k] = x /\ \A m \in Ids \ {k} : rows'[m] = rows[m] BY <1>4, <1>c
  <2>2. \A m \in Ids : Sound(m) BY <1>2, <1>c
  <2>3. \A m \in Ids \ {k} : Sound(m)' BY <1>5, <1>c, <2>1, <2>2
  <2>4. CASE req[r].on /\ ~on
    <3>1. req'[r].pc = "idle" BY <1>4, <1>c, <2>4 DEF AfterSave, Done, IdleRequest
    <3>2. jobs[k] = None \/ k \in leftover BY <1>c, <2>2, <2>4 DEF Sound, Enabled
    <3>3. Sound(k)' BY <1>4, <1>c, <2>1, <2>4, <3>2 DEF Sound, Enabled
    <3>4. RequestGood(r)' BY <3>1 DEF RequestGood
    <3>. QED BY <1>1, <2>3, <3>3, <3>4, LoneStep
  <2>5. CASE ~(req[r].on /\ ~on)
    <3>1. req' = [req EXCEPT ![r].pc = IF on THEN "upsert" ELSE "delete",
                             ![r].id = k, ![r].row = None]
      BY <1>c, <2>5 DEF AfterSave
    <3>2. req'[r].pc = (IF on THEN "upsert" ELSE "delete") /\ req'[r].id = k
      BY <1>4, <3>1 DEF ReqType
    <3>3. Excused(k)' BY <3>2 DEF Excused
    <3>4. RequestGood(r)' BY <1>c, <2>1, <3>2 DEF RequestGood, Enabled
    <3>. QED BY <1>1, <2>3, <3>3, <3>4, LoneStep
  <2>. QED BY <2>4, <2>5
<1>d. CASE InsertRow(r)
  <2>. DEFINE on == CanScheduleEnable(req[r].conf)
              c == req[r].conf
  <2>1. f \in Flows /\ c \in Configs
    BY <1>d, <1>0 DEF InsertRow, At, RequestFits
  <2>2. PICK k \in Ids : k = made + 1
    BY <1>d, Each DEF InsertRow, Ids
  <2>3. PICK e \in BOOLEAN : e = on
    <3>1. on \in BOOLEAN BY DEF CanScheduleEnable
    <3>. QED BY <3>1
  <2>4. RowFor(f, c, e) \in Row /\ RowFor(f, c, e).enabled = e
    BY <2>1, Each, RowForType DEF RowFor
  <2>5. PICK x \in Row : x = RowFor(f, c, e) BY <2>4
  <2>6. rows' = [rows EXCEPT ![k] = x] /\ AfterSave(r, k, e) /\ UNCHANGED jobs
    BY <1>d, <2>2, <2>3, <2>5 DEF InsertRow
  <2>7. rows[k] = None BY <2>2, Each DEF TypeInv, Points, RowsFit, Ids
  <2>8. req[r].pc = "insert" BY <1>d DEF InsertRow, At
  <2>. QED BY <1>c, <2>4, <2>5, <2>6, <2>7, <2>8
<1>e. CASE SaveRow(r)
  <2>. DEFINE on == CanScheduleEnable(req[r].conf) /\ (req[r].on \/ req[r].row.enabled)
              c == req[r].conf
  <2>1. f \in Flows /\ c \in Configs /\ req[r].pc = "save"
    BY <1>e, <1>0 DEF SaveRow, At, RequestFits
  <2>2. PICK k \in Ids : k = i BY <1>3, <2>1
  <2>3. PICK e \in BOOLEAN : e = on
    <3>1. on \in BOOLEAN BY DEF CanScheduleEnable
    <3>. QED BY <3>1
  <2>4. RowFor(f, c, e) \in Row /\ RowFor(f, c, e).enabled = e
    BY <2>1, Each, RowForType DEF RowFor
  <2>5. PICK x \in Row : x = RowFor(f, c, e) BY <2>4
  <2>6. rows' = [rows EXCEPT ![k] = x] /\ AfterSave(r, k, e) /\ UNCHANGED jobs
    BY <1>e, <2>2, <2>3, <2>5 DEF SaveRow
  <2>7. ~req[r].on BY <1>2, <2>1 DEF RequestGood
  <2>. QED BY <1>c, <2>1, <2>4, <2>5, <2>6, <2>7
<1>f. CASE DeleteRow(r)
  <2>0. req[r].pc = "deleteRow" BY <1>3, <1>f DEF DeleteRow, At
  <2>1. PICK k \in Ids : k = i BY <1>3, <2>0
  <2>2. rows' = [rows EXCEPT ![k] = None] /\ UNCHANGED jobs /\ Go(r, "delete")
    BY <1>f, <2>1 DEF DeleteRow
  <2>3. req'[r].pc = "delete" /\ req'[r].id = k BY <1>4, <2>1, <2>2 DEF Go, ReqType
  <2>4. Excused(k)' BY <2>3 DEF Excused
  <2>5. \A m \in Ids \ {k} : Sound(m)'
    <3>1. \A m \in Ids \ {k} : rows'[m] = rows[m] BY <1>4, <2>2
    <3>. QED BY <1>2, <1>5, <2>0, <2>1, <2>2, <3>1
  <2>6. RequestGood(r)' BY <1>4, <2>0, <2>1, <2>2, <2>3 DEF RequestGood, Enabled
  <2>7. \A m \in Ids : Sound(m)' \/ Excused(m)' BY <2>4, <2>5, <2>3
  <2>. QED BY <1>1, <2>6, <2>7, LoneStep
<1>g. CASE SaveToggle(r)
  <2>. DEFINE x == [req[r].row EXCEPT !.enabled = req[r].on]
  <2>0. req[r].pc = "toggle" BY <1>3, <1>g DEF SaveToggle, At
  <2>1. PICK k \in Ids : k = i BY <1>3, <2>0
  <2>2. req[r].row \in Row BY <1>0, <2>0, <2>1 DEF RequestFits
  <2>3. rows' = [rows EXCEPT ![k] = x] /\ UNCHANGED jobs BY <1>g, <2>1 DEF SaveToggle
  <2>4. x.enabled = req[r].on BY <2>2 DEF Row
  <2>5. /\ req'[r].pc = IF req[r].on THEN "upsert" ELSE "delete"
        /\ req'[r].id = k
    BY <1>4, <1>g, <2>1 DEF SaveToggle, ReqType
  <2>6. Excused(k)' BY <2>5 DEF Excused
  <2>7. \A m \in Ids \ {k} : Sound(m)'
    <3>1. \A m \in Ids \ {k} : rows'[m] = rows[m] BY <1>4, <2>3
    <3>. QED BY <1>2, <1>5, <2>0, <2>1, <2>3, <3>1
  <2>8. RequestGood(r)' BY <1>4, <2>0, <2>1, <2>3, <2>4, <2>5 DEF RequestGood, Enabled
  <2>9. \A m \in Ids : Sound(m)' \/ Excused(m)' BY <2>5, <2>6, <2>7
  <2>. QED BY <1>1, <2>8, <2>9, LoneStep
<1>h. CASE NotifyDelete(r)
  <2>0. req[r].pc = "delete" BY <1>3, <1>h DEF NotifyDelete, At
  <2>1. PICK k \in Ids : k = i BY <1>3, <2>0
  <2>2. UNCHANGED rows /\ jobs' = [jobs EXCEPT ![k] = None] BY <1>h, <2>1 DEF NotifyDelete, store
  <2>3. req'[r].pc = "idle" BY <1>4, <1>h DEF NotifyDelete, Done, IdleRequest
  <2>4. ~Enabled(k) BY <1>2, <2>0, <2>1 DEF RequestGood
  <2>5. Sound(k)' BY <1>4, <2>0, <2>1, <2>2, <2>4 DEF Sound, Enabled
  <2>6. \A m \in Ids \ {k} : Sound(m)'
    <3>1. \A m \in Ids \ {k} : jobs'[m] = jobs[m] BY <1>4, <2>2
    <3>. QED BY <1>2, <1>5, <2>0, <2>1, <2>2, <3>1
  <2>7. RequestGood(r)' BY <2>3 DEF RequestGood
  <2>8. \A m \in Ids : Sound(m)' \/ Excused(m)' BY <2>5, <2>6
  <2>. QED BY <1>1, <2>7, <2>8, LoneStep
<1>i. CASE NotifyUpsert(r)
  <2>0. req[r].pc = "upsert" BY <1>3, <1>i DEF NotifyUpsert, At
  <2>1. PICK k \in Ids : k = i BY <1>3, <2>0
  <2>2. UNCHANGED <<rows, jobs>> BY <1>i DEF NotifyUpsert, store
  <2>3. req'[r].pc = "apply" /\ req'[r].id = k /\ req'[r].row = rows[k]
    BY <1>4, <1>i, <2>1 DEF NotifyUpsert, ReqType
  <2>4. Excused(k)' BY <2>3 DEF Excused
  <2>5. \A m \in Ids \ {k} : Sound(m)' BY <1>2, <1>5, <2>0, <2>1, <2>2
  <2>6. RequestGood(r)' BY <2>2, <2>3 DEF RequestGood, Enabled
  <2>7. \A m \in Ids : Sound(m)' \/ Excused(m)' BY <2>3, <2>4, <2>5
  <2>. QED BY <1>1, <2>6, <2>7, LoneStep
<1>j. CASE ApplyUpsert(r)
  <2>0. req[r].pc = "apply" BY <1>3, <1>j DEF ApplyUpsert, At
  <2>1. PICK k \in Ids : k = i BY <1>3, <2>0
  <2>2. /\ UNCHANGED rows
        /\ jobs' = [jobs EXCEPT ![k] =
                      IF req[r].row = None THEN None
                      ELSE IF req[r].row.enabled THEN req[r].row.cron ELSE None]
    BY <1>j, <2>1 DEF ApplyUpsert, store
  <2>3. req'[r].pc = "idle" BY <1>4, <1>j DEF ApplyUpsert, Done, IdleRequest
  <2>4. IF req[r].row # None /\ req[r].row.enabled
        THEN Enabled(k) /\ req[r].row.cron = rows[k].cron
        ELSE ~Enabled(k)
    BY <1>2, <2>0, <2>1 DEF RequestGood
  <2>5. Sound(k)' BY <1>4, <2>0, <2>1, <2>2, <2>4 DEF Sound, Enabled
  <2>6. \A m \in Ids \ {k} : Sound(m)'
    <3>1. \A m \in Ids \ {k} : jobs'[m] = jobs[m] BY <1>4, <2>2
    <3>. QED BY <1>2, <1>5, <2>0, <2>1, <2>2, <3>1
  <2>7. RequestGood(r)' BY <2>3 DEF RequestGood
  <2>8. \A m \in Ids : Sound(m)' \/ Excused(m)' BY <2>5, <2>6
  <2>. QED BY <1>1, <2>7, <2>8, LoneStep
<1>. QED
  BY <1>a, <1>b, <1>d, <1>e, <1>f, <1>g, <1>h, <1>i, <1>j DEF RequestStep

\* Firings and their steps.
LEMMA TickJobs ==
  ASSUME TypeInv, Undisturbed, Alone', (Syncing => Writers = {})',
         leftover' = leftover \ {i \in Ids : jobs'[i] = None},
         NEW t \in Ticks, TickStep(t) \/ \E i \in Ids : Fire(t, i)
  PROVE  Undisturbed'
<1>0. tick[t] \in TickType /\ TickFits(tick[t]) BY Each
<1>1. /\ tick \in [Ticks -> TickType] /\ rows \in [Ids -> RowOrNone]
      /\ jobs \in [Ids -> Crons \cup {None}] /\ None \notin Row
  BY ScheduleAssumption DEF TypeInv, TypeOK, TickType
<1>2. UNCHANGED <<req, sync>> /\ \A o \in Ticks \ {t} : tick'[o] = tick[o]
  BY <1>1 DEF TickStep, Fire, Load, Expire, Drop, Run, Succeed, Fail, TickMoves, TickDone, TickGo
<1>3. ASSUME UNCHANGED jobs, \A i \in Ids : Like(i), tick[t].pc # "drop", TickGood(t)'
      PROVE  Undisturbed'
  <2>1. \A r \in Requests : RequestGood(r)' BY <1>2, <1>3, GoodKept DEF Undisturbed
  <2>2. \A o \in Ticks : TickGood(o)' BY <1>2, <1>3, TickGoodKept DEF Undisturbed
  <2>3. /\ \A r \in Requests : req[r].pc \in {"upsert", "apply", "delete"} => req'[r] = req[r]
        /\ \A o \in Ticks : tick[o].pc = "drop" => tick'[o] = tick[o]
    BY <1>2, <1>3
  <2>. QED BY <1>2, <1>3, <2>1, <2>2, <2>3, Harmless
<1>4. ASSUME tick'[t].pc # "drop" PROVE TickGood(t)'
  BY <1>4 DEF TickGood
<1>5. TickDone(t) => tick'[t].pc = "idle" BY <1>1 DEF TickDone, IdleTick
<1>6. UNCHANGED rows => \A i \in Ids : Like(i) BY DEF Like
<1>7. ASSUME tick[t].pc \in {"expire", "drop"}
      PROVE  /\ ~Syncing /\ ~Syncing' /\ \A r \in Requests : req'[r].pc = "idle"
             /\ \A o \in Ticks \ {t} : tick[o].pc # "drop" /\ tick'[o].pc # "drop"
             /\ tick[t].id \in Ids
             /\ \A i \in Ids : Sound(i) \/ (tick[t].pc = "drop" /\ tick[t].id = i)
  <2>1. ~Syncing /\ ~Syncing' BY <1>2, <1>7, WriterIs DEF Undisturbed, Syncing
  <2>2. /\ \A r \in Requests : req[r].pc = "idle"
        /\ \A o \in Ticks : o # t => tick[o].pc \notin {"expire", "drop"}
    BY <1>7, OthersIdle DEF Undisturbed
  <2>3. ASSUME NEW i \in Ids PROVE Sound(i) \/ (tick[t].pc = "drop" /\ tick[t].id = i)
    <3>1. CASE Sound(i) BY <3>1
    <3>2. CASE Excused(i) BY <2>2, <3>2 DEF Excused
    <3>. QED BY <2>1, <3>1, <3>2 DEF Undisturbed
  <2>. QED BY <1>0, <1>2, <1>7, <2>1, <2>2, <2>3 DEF TickFits
<1>8. ASSUME tick[t].pc \in {"expire", "drop"}, TickGood(t)',
             \A i \in Ids : Sound(i)' \/ Excused(i)'
      PROVE  Undisturbed'
  <2>1. ~Syncing' BY <1>7, <1>8
  <2>2. \A r \in Requests : RequestGood(r)' BY <1>7, <1>8 DEF RequestGood
  <2>3. \A o \in Ticks : TickGood(o)' BY <1>7, <1>8 DEF TickGood
  <2>. QED BY <1>8, <2>1, <2>2, <2>3 DEF Undisturbed
<1>a. ASSUME NEW i \in Ids, Fire(t, i) PROVE Undisturbed'
  <2>1. UNCHANGED <<rows, jobs>> /\ tick[t].pc = "idle" /\ tick'[t].pc = "load"
    BY <1>1, <1>a DEF Fire, TickAt, IdleTick, store
  <2>. QED BY <1>3, <1>4, <1>6, <2>1
<1>b. CASE Load(t)
  <2>1. UNCHANGED <<rows, jobs>> /\ tick[t].pc = "load" BY <1>b DEF Load, TickAt
  <2>2. PICK k \in Ids : k = tick[t].id BY <1>0, <2>1 DEF TickFits
  <2>3. TickGood(t)'
    <3>1. CASE Verdict(rows[k]) = "idle"
      BY <1>4, <1>5, <1>b, <2>2, <3>1 DEF Load
    <3>2. CASE Verdict(rows[k]) # "idle"
      <4>1. tick'[t].pc = Verdict(rows[k]) /\ tick'[t].id = k
        BY <1>1, <1>b, <2>2, <3>2 DEF Load, TickType
      <4>2. Verdict(rows[k]) = "drop" => ~Enabled(k) BY DEF Verdict, Enabled
      <4>. QED BY <2>1, <4>1, <4>2 DEF TickGood, Enabled
    <3>. QED BY <3>1, <3>2
  <2>. QED BY <1>3, <1>6, <2>1, <2>3
<1>c. CASE Expire(t)
  <2>1. tick[t].pc = "expire" /\ UNCHANGED jobs BY <1>c DEF Expire, TickAt
  <2>2. PICK k \in Ids : k = tick[t].id BY <1>0, <2>1 DEF TickFits
  <2>3. tick[t].row \in Row BY <1>0, <2>1 DEF TickFits
  <2>4. rows' = [rows EXCEPT ![k] = [tick[t].row EXCEPT !.enabled = FALSE]]
    BY <1>c, <2>2 DEF Expire
  <2>5. ~(rows'[k]).enabled BY <1>1, <2>3, <2>4 DEF Row
  <2>6. tick'[t].pc = "drop" /\ tick'[t].id = k
    BY <1>1, <1>c, <2>2 DEF Expire, TickGo, TickType
  <2>7. TickGood(t)' BY <2>5, <2>6 DEF TickGood, Enabled
  <2>8. Excused(k)' BY <2>6 DEF Excused
  <2>9. \A m \in Ids \ {k} : Sound(m)'
    <3>1. \A m \in Ids \ {k} : Like(m) BY <1>1, <2>4 DEF Like
    <3>2. \A m \in Ids : Sound(m) BY <1>7, <2>1
    <3>. QED BY <2>1, <3>1, <3>2, SoundKept
  <2>10. \A m \in Ids : Sound(m)' \/ Excused(m)' BY <2>8, <2>9
  <2>. QED BY <1>8, <2>1, <2>7, <2>10
<1>d. CASE Drop(t)
  <2>1. tick[t].pc = "drop" /\ UNCHANGED rows BY <1>d DEF Drop, TickAt
  <2>2. PICK k \in Ids : k = tick[t].id BY <1>0, <2>1 DEF TickFits
  <2>3. jobs' = [jobs EXCEPT ![k] = None] BY <1>d, <2>2 DEF Drop
  <2>4. TickGood(t)' BY <1>4, <1>5, <1>d DEF Drop
  <2>5. ~Enabled(k) BY <2>1, <2>2 DEF Undisturbed, TickGood
  <2>6. Sound(k)' BY <1>1, <2>1, <2>3, <2>5 DEF Sound, Enabled
  <2>7. \A m \in Ids \ {k} : Sound(m)'
    <3>1. \A m \in Ids \ {k} : Like(m) /\ jobs'[m] = jobs[m] BY <1>1, <2>1, <2>3 DEF Like
    <3>2. \A m \in Ids \ {k} : Sound(m) BY <1>7, <2>1, <2>2
    <3>. QED BY <3>1, <3>2, SoundKept
  <2>8. \A m \in Ids : Sound(m)' \/ Excused(m)' BY <2>6, <2>7
  <2>. QED BY <1>8, <2>1, <2>4, <2>8
<1>e. CASE Run(t) \/ Fail(t)
  <2>1. UNCHANGED <<rows, jobs>> /\ tick[t].pc \in {"run", "running"}
    BY <1>e DEF Run, Fail, TickAt
  <2>2. tick'[t].pc \in {"idle", "running"}
    BY <1>1, <1>e DEF Run, Fail, TickDone, TickGo, IdleTick, TickType
  <2>. QED BY <1>3, <1>4, <1>6, <2>1, <2>2
<1>f. CASE Succeed(t)
  <2>1. UNCHANGED jobs /\ tick[t].pc = "running" /\ tick'[t].pc = "idle"
    BY <1>5, <1>f DEF Succeed, TickAt
  <2>2. PICK k \in Ids : k = tick[t].id BY <1>0, <2>1 DEF TickFits
  <2>3. \A i \in Ids : Like(i)
    <3>1. CASE rows[k] = None BY <1>6, <1>f, <2>2, <3>1 DEF Succeed
    <3>2. CASE rows[k] # None
      <4>1. PICK n : rows' = [rows EXCEPT ![k].next = n] BY <1>f, <2>2, <3>2 DEF Succeed
      <4>2. rows[k] \in Row BY <3>2, Each
      <4>3. /\ rows'[k] # None /\ rows'[k].target = rows[k].target
            /\ rows'[k].enabled = rows[k].enabled /\ rows'[k].cron = rows[k].cron
        <5>. DEFINE at == ComputeNextRunAt(tick[t].row.cron, now)
        <5>1. tick[t].row \in Row BY <1>0, <2>1 DEF TickFits
        <5>2. at \in Times BY <5>1, Each, NextType DEF Row
        <5>3. rows'[k] = [rows[k] EXCEPT !.next = at]
          BY <1>1, <1>f, <2>2, <3>2 DEF Succeed
        <5>. HIDE DEF at
        <5>4. [rows[k] EXCEPT !.next = at] \in Row BY <4>2, <5>2 DEF Row
        <5>. QED BY <1>1, <4>2, <5>3, <5>4 DEF Row
      <4>. QED BY <1>1, <3>2, <4>1, <4>3 DEF Like
    <3>. QED BY <3>1, <3>2
  <2>. QED BY <1>3, <1>4, <2>1, <2>3
<1>. QED BY <1>a, <1>b, <1>c, <1>d, <1>e, <1>f DEF TickStep

\* The sync at boot: each enabled record is behind, in the page at hand, or ahead.
LEMMA SyncJobs ==
  ASSUME TypeInv, Undisturbed, Alone', (Syncing => Writers = {})',
         leftover' = leftover \ {i \in Ids : jobs'[i] = None},
         SyncPage \/ SyncJob
  PROVE  Undisturbed'
<1>0. /\ rows \in [Ids -> RowOrNone] /\ jobs \in [Ids -> Crons \cup {None}] /\ SyncFits
  BY DEF TypeInv, TypeOK, Points
<1>1. UNCHANGED <<rows, req, tick>> BY DEF SyncPage, SyncJob, SyncMoves, store
<1>2. \A i \in Ids : Like(i) /\ Rank(i)' = Rank(i)
  <2>1. \A i \in Ids : Like(i) BY <1>1 DEF Like
  <2>. QED BY <2>1, RankKept
<1>3. Syncing BY DEF SyncPage, SyncJob, Syncing
<1>4. PageIsFresh /\ \A i \in Ids : Registered(i) BY <1>3 DEF Undisturbed
<1>5. (\A r \in Requests : RequestGood(r))' /\ (\A t \in Ticks : TickGood(t))'
  BY <1>1, <1>2, GoodKept, TickGoodKept DEF Undisturbed
<1>6. ASSUME NEW i \in Ids, jobs'[i] = jobs[i], ~Enabled(i)
      PROVE  ~Enabled(i)' /\ (jobs'[i] = None \/ i \in leftover')
  BY <1>2, <1>4, <1>6 DEF Registered, Like, Enabled
<1>7. ASSUME PageIsFresh', \A i \in Ids : Syncing' => Registered(i)',
             \A i \in Ids : ~Syncing' => Sound(i)'
      PROVE  Undisturbed'
  <2>1. (Syncing => Writers = {} /\ PageIsFresh /\ \A i \in Ids : Registered(i))' BY <1>7
  <2>2. (~Syncing => \A i \in Ids : Sound(i) \/ Excused(i))' BY <1>7
  <2>. QED BY <1>5, <2>1, <2>2 DEF Undisturbed
<1>8. CASE SyncPage
  <2>0. UNCHANGED jobs /\ sync.pc = "page" /\ sync.skip \in Nat BY <1>0, <1>8 DEF SyncPage, SyncFits
  <2>1. CASE Page = {}
    <3>1. sync' = NoSync BY <1>8, <2>1 DEF SyncPage
    <3>2. ~Syncing' /\ PageIsFresh' BY <3>1 DEF Syncing, PageIsFresh, NoSync
    <3>3. ASSUME NEW i \in Ids PROVE Sound(i)'
      <4>1. CASE Enabled(i)
        <5>1. Rank(i) <= sync.skip /\ Rank(i) \in Nat BY <2>0, <2>1, <4>1, PageCovers, RankType
        <5>2. jobs[i] = rows[i].cron BY <1>4, <2>0, <4>1, <5>1 DEF Registered
        <5>. QED BY <1>2, <2>0, <4>1, <5>2 DEF Sound, Like, Enabled
      <4>2. CASE ~Enabled(i) BY <1>6, <2>0, <4>2 DEF Sound
      <4>. QED BY <4>1, <4>2
    <3>. QED BY <1>7, <3>2, <3>3
  <2>2. CASE Page # {}
    <3>. DEFINE b == [i \in Page |-> rows[i]]
                n == sync.skip + Cardinality(Page)
    <3>1. sync' = [pc |-> "job", skip |-> n, batch |-> b] BY <1>8, <2>2 DEF SyncPage
    <3>2. sync'.pc = "job" /\ sync'.skip = n /\ DOMAIN sync'.batch = Page
          /\ \A i \in Page : sync'.batch[i] = rows[i]
      BY <3>1
    <3>3. Syncing' BY <3>2 DEF Syncing
    <3>4. PageIsFresh'
      <4>1. \A i \in Page : i \in Ids /\ Enabled(i) BY DEF Page
      <4>. HIDE DEF b, n
      <4>. QED BY <1>1, <3>2, <4>1 DEF PageIsFresh, Enabled
    <3>5. ASSUME NEW i \in Ids PROVE Registered(i)'
      <4>1. CASE Enabled(i)
        <5>1. jobs[i] = rows[i].cron \/ Rank(i) > sync.skip
          BY <1>4, <2>0, <4>1 DEF Registered
        <5>2. Rank(i) \in Nat /\ n \in Nat BY <2>0, PageCovers, RankType
        <5>3. Rank(i) <= n => Rank(i) <= sync.skip \/ i \in Page BY <2>0, <4>1, PageCovers
        <5>4. jobs[i] = rows[i].cron \/ i \in Page \/ Rank(i) > n
          BY <2>0, <5>1, <5>2, <5>3
        <5>5. Enabled(i)' /\ rows'[i] = rows[i] /\ jobs'[i] = jobs[i] /\ Rank(i)' = Rank(i)
          BY <1>1, <1>2, <2>0, <4>1 DEF Enabled
        <5>. HIDE DEF b, n
        <5>. QED BY <3>2, <5>4, <5>5 DEF Registered
      <4>2. CASE ~Enabled(i) BY <1>6, <2>0, <4>2 DEF Registered
      <4>. QED BY <4>1, <4>2
    <3>. QED BY <1>7, <3>3, <3>4, <3>5
  <2>. QED BY <2>1, <2>2
<1>9. CASE SyncJob
  <2>. DEFINE rest == DOMAIN sync.batch \ {Min(DOMAIN sync.batch)}
  <2>0. sync.pc = "job" BY <1>9 DEF SyncJob
  <2>1. /\ DOMAIN sync.batch \subseteq Ids /\ DOMAIN sync.batch # {}
        /\ sync.batch \in [DOMAIN sync.batch -> Row] /\ sync.skip \in Nat
    BY <1>0, <2>0 DEF SyncFits
  <2>2. PICK k \in Ids : k = Min(DOMAIN sync.batch) /\ k \in DOMAIN sync.batch
    BY <2>1, MinInBatch
  <2>3. Enabled(k) /\ sync.batch[k].cron = rows[k].cron BY <1>4, <2>0, <2>2 DEF PageIsFresh
  <2>4. jobs' = [jobs EXCEPT ![k] = rows[k].cron] BY <1>9, <2>2, <2>3 DEF SyncJob
  <2>5. jobs'[k] = rows[k].cron /\ \A i \in Ids \ {k} : jobs'[i] = jobs[i] BY <1>0, <2>4
  <2>6. sync' = IF rest = {} THEN [sync EXCEPT !.pc = "page", !.batch = <<>>]
                ELSE [sync EXCEPT !.batch = Restrict(sync.batch, rest)]
    BY <1>9 DEF SyncJob
  <2>7. sync'.pc \in {"page", "job"} /\ sync'.skip = sync.skip
        /\ (sync'.pc = "job" => /\ DOMAIN sync'.batch = rest
                                /\ \A i \in rest : sync'.batch[i] = sync.batch[i])
        /\ (sync'.pc = "page" => rest = {})
    <3>1. CASE rest = {}
      <4>1. sync' = [pc |-> "page", skip |-> sync.skip, batch |-> <<>>]
        BY <1>0, <2>6, <3>1 DEF SyncFits
      <4>. QED BY <3>1, <4>1
    <3>2. CASE rest # {}
      <4>. DEFINE b == Restrict(sync.batch, rest)
      <4>1. DOMAIN b = rest /\ \A i \in rest : b[i] = sync.batch[i] BY DEF Restrict
      <4>. HIDE DEF b
      <4>2. sync' = [pc |-> "job", skip |-> sync.skip, batch |-> b]
        BY <1>0, <2>0, <2>6, <3>2 DEF SyncFits, b
      <4>. QED BY <4>1, <4>2
    <3>. QED BY <3>1, <3>2
  <2>8. Syncing' BY <2>7 DEF Syncing
  <2>9. PageIsFresh'
    <3>1. \A i \in rest : i \in Ids /\ Enabled(i) /\ sync.batch[i].cron = rows[i].cron
      BY <1>4, <2>0, <2>1 DEF PageIsFresh
    <3>. QED BY <1>1, <2>7, <3>1 DEF PageIsFresh, Enabled
  <2>10. ASSUME NEW i \in Ids PROVE Registered(i)'
    <3>1. CASE i = k
      <4>1. Enabled(i)' /\ jobs'[i] = rows'[i].cron BY <1>1, <2>3, <2>5, <3>1 DEF Enabled
      <4>. QED BY <4>1 DEF Registered
    <3>2. CASE i # k /\ Enabled(i)
      <4>1. \/ jobs[i] = rows[i].cron \/ i \in DOMAIN sync.batch \/ Rank(i) > sync.skip
        BY <1>4, <3>2 DEF Registered
      <4>2. i \in DOMAIN sync.batch => i \in rest BY <2>2, <3>2
      <4>3. i \in rest => sync'.pc = "job" /\ i \in DOMAIN sync'.batch BY <2>7
      <4>4. Enabled(i)' /\ rows'[i] = rows[i] /\ jobs'[i] = jobs[i] /\ Rank(i)' = Rank(i)
        BY <1>1, <1>2, <2>5, <3>2 DEF Enabled
      <4>. QED BY <2>7, <4>1, <4>2, <4>3, <4>4 DEF Registered
    <3>3. CASE i # k /\ ~Enabled(i) BY <1>6, <2>5, <3>3 DEF Registered
    <3>. QED BY <3>1, <3>2, <3>3
  <2>. QED BY <1>7, <2>8, <2>9, <2>10
<1>. QED BY <1>8, <1>9

\* Restarts without a boot anew, and the clock.
LEMMA EventJobs ==
  ASSUME TypeInv, Undisturbed, Alone', (Syncing => Writers = {})', ~Died, ~Boots,
         leftover' = leftover \ {i \in Ids : jobs'[i] = None},
         Restart \/ WorkerRestart \/ Advance
  PROVE  Undisturbed'
<1>0. restarts \in Nat BY DEF TypeInv, TypeOK
<1>1. CASE Restart
  <2>1. sync' = Booting /\ sync = Booting /\ UNCHANGED rows
    BY <1>1 DEF Restart, Boots, store
  <2>2. \A i \in Ids : jobs'[i] = None \/ jobs'[i] = jobs[i] BY <1>1 DEF Restart
  <2>3. Syncing BY <2>1 DEF Syncing, Booting, NoSync
  <2>4. ASSUME NEW i \in Ids, ~Enabled(i)' PROVE jobs'[i] = None \/ i \in leftover'
    <3>1. ~Enabled(i) BY <2>1, <2>4 DEF Enabled
    <3>2. jobs[i] = None \/ i \in leftover BY <2>3, <3>1 DEF Undisturbed, Registered
    <3>. QED BY <2>2, <3>2
  <2>. QED BY <2>1, <2>4, BootingJobs
<1>2. CASE WorkerRestart
  <2>1. UNCHANGED <<rows, jobs, sync, req>> /\ restarts' = restarts + 1
    BY <1>2 DEF WorkerRestart, store
  <2>2. restarts' > restarts BY <1>0, <2>1
  <2>3. Writers = {} BY <2>2 DEF Died
  <2>4. \A i \in Ids : Like(i) BY <2>1 DEF Like
  <2>5. \A r \in Requests : RequestGood(r)' BY <2>1, <2>4, GoodKept DEF Undisturbed
  <2>6. ASSUME NEW t \in Ticks PROVE tick'[t].pc # "drop"
    <3>1. PICK again \in SUBSET {o \in Ticks : tick[o].pc # "idle"} :
            tick' = [o \in Ticks |-> IF o \in again
                                     THEN [tick[o] EXCEPT !.pc = "load", !.row = None]
                                     ELSE IdleTick]
      BY <1>2 DEF WorkerRestart
    <3>2. tick[t] \in TickType BY Each
    <3>. QED BY <3>1, <3>2 DEF IdleTick, TickType
  <2>7. \A t \in Ticks : TickGood(t)' BY <2>6 DEF TickGood
  <2>8. \A t \in Ticks : tick[t].pc = "drop" => tick'[t] = tick[t] BY <2>3, WriterIs
  <2>9. \A r \in Requests : req[r].pc \in {"upsert", "apply", "delete"} => req'[r] = req[r]
    BY <2>1
  <2>. QED BY <2>1, <2>4, <2>5, <2>7, <2>8, <2>9, Harmless
<1>3. CASE Advance
  <2>1. UNCHANGED <<rows, jobs, sync, req, tick>> BY <1>3 DEF Advance, store
  <2>2. \A i \in Ids : Like(i) BY <2>1 DEF Like
  <2>3. \A r \in Requests : RequestGood(r)' BY <2>1, <2>2, GoodKept DEF Undisturbed
  <2>4. \A t \in Ticks : TickGood(t)' BY <2>1, <2>2, TickGoodKept DEF Undisturbed
  <2>. QED BY <2>1, <2>2, <2>3, <2>4, Harmless
<1>. QED BY <1>1, <1>2, <1>3

\* Every step keeps the invariant of the jobs.
LEMMA NextJobs == ASSUME TypeInv, JobsInv, [Next]_vars PROVE JobsInv'
<1>1. CASE UNCHANGED vars
  <2>1. UNCHANGED <<flow, rows, made, jobs, req, tick, sync, disturbed, leftover>>
    BY <1>1 DEF vars, state, store, watch
  <2>. SUFFICES ASSUME Undisturbed PROVE Undisturbed'
    BY <2>1 DEF JobsInv
  <2>3. \A i \in Ids : Like(i) BY <2>1 DEF Like
  <2>4. \A r \in Requests : RequestGood(r)' BY <2>1, <2>3, GoodKept DEF Undisturbed
  <2>5. \A t \in Ticks : TickGood(t)' BY <2>1, <2>3, TickGoodKept DEF Undisturbed
  <2>6. Writers' = Writers /\ (Syncing' <=> Syncing) BY <2>1 DEF Writers, Syncing
  <2>7. \A i \in Ids : /\ Sound(i)' <=> Sound(i)
                       /\ Registered(i)' <=> Registered(i)
                       /\ Excused(i)' <=> Excused(i)
    <3>1. \A i \in Ids : Rank(i)' = Rank(i) BY <2>3, RankKept
    <3>. QED BY <2>1, <3>1 DEF Sound, Registered, Excused, Enabled
  <2>8. PageIsFresh' <=> PageIsFresh BY <2>1 DEF PageIsFresh, Enabled
  <2>9. Alone' BY <2>6 DEF Undisturbed, Alone
  <2>. QED BY <2>4, <2>5, <2>6, <2>7, <2>8, <2>9 DEF Undisturbed
<1>2. CASE Next
  <2>1. Watch /\ Step BY <1>2 DEF Next
  <2>2. SUFFICES ASSUME ~disturbed' PROVE Undisturbed'
    BY DEF JobsInv
  <2>3. disturbed \in BOOLEAN BY DEF TypeInv, TypeOK
  <2>4. /\ Alone' /\ (Syncing => Writers = {})'
        /\ Boots \/ (~disturbed /\ ~Died)
        /\ Boots => leftover' = {i \in Ids : jobs'[i] # None}
        /\ ~Boots => leftover' = leftover \ {i \in Ids : jobs'[i] = None}
    BY <2>1, <2>2, <2>3, StillUndisturbed
  <2>5. CASE Boots
    <3>1. sync' = Booting BY <2>5 DEF Boots
    <3>. QED BY <2>4, <2>5, <3>1, BootingJobs
  <2>6. CASE ~Boots
    <3>1. Undisturbed /\ leftover' = leftover \ {i \in Ids : jobs'[i] = None}
      BY <2>4, <2>6 DEF JobsInv
    <3>. QED
      BY <2>1, <2>4, <2>6, <3>1, BeginJobs, RequestJobs, TickJobs, SyncJobs, EventJobs DEF Step
  <2>. QED BY <2>5, <2>6
<1>. QED BY <1>1, <1>2

LEMMA InitJobs == Init => JobsInv
<1>. SUFFICES ASSUME Init PROVE Undisturbed
  BY DEF JobsInv
<1>1. sync = Booting /\ sync.pc = "page" /\ sync.skip = 0 BY DEF Init, Booting, NoSync
<1>2. (\A r \in Requests : req[r].pc = "idle") /\ (\A t \in Ticks : tick[t].pc = "idle")
  BY DEF Init, IdleRequest, IdleTick
<1>3. Writers = {} BY <1>2 DEF Writers
<1>4. ASSUME NEW i \in Ids PROVE Registered(i)
  <2>1. Enabled(i) => Rank(i) > sync.skip BY <1>1, RankType
  <2>2. ~Enabled(i) => jobs[i] = None BY DEF Init
  <2>. QED BY <2>1, <2>2 DEF Registered
<1>5. PageIsFresh BY <1>1 DEF PageIsFresh
<1>6. Syncing BY <1>1 DEF Syncing
<1>. QED BY <1>2, <1>3, <1>4, <1>5, <1>6
         DEF Undisturbed, Alone, RequestGood, TickGood

\* Once nothing is under way, jobs and records agree, whatever saves, switches,
\* expiries and restarts came before, as long as no two overlapped since the
\* boot: for every page size, the sync at boot passes over no record.
THEOREM JobsFollow == Spec => []JobsFollowRecords
<1>1. Init => TypeInv /\ JobsInv BY InitTypes, InitJobs
<1>2. TypeInv /\ JobsInv /\ [Next]_vars => TypeInv' /\ JobsInv' BY NextTypes, NextJobs
<1>3. TypeInv /\ JobsInv => JobsFollowRecords
  <2>. SUFFICES ASSUME TypeInv, JobsInv, Settled, ~disturbed, NEW i \in Ids
                PROVE  IF Enabled(i) THEN jobs[i] = rows[i].cron
                       ELSE jobs[i] = None \/ i \in leftover
    BY DEF JobsFollowRecords
  <2>1. Writers = {} /\ ~Syncing BY DEF Settled
  <2>2. ~Excused(i) BY <2>1, WriterIs DEF Excused
  <2>3. Sound(i) BY <2>1, <2>2 DEF JobsInv, Undisturbed
  <2>. QED BY <2>3 DEF Sound
<1>. QED BY <1>1, <1>2, <1>3, PTL DEF Spec

-----------------------------------------------------------------------------
(***************************************************************************)
(* Records follow flows.                                                   *)
(***************************************************************************)

Unique(f) == \A i, j \in RowsOf(f) : i = j

Enables(c) == c.cron # Fallback /\ c.input

\* The record i has what c asks for.
Fits(i, c) ==
  /\ rows[i].cron = c.cron /\ rows[i].ends = c.ends /\ rows[i].input = c.input
  /\ rows[i].enabled => Enables(c)

Follows(f) ==
  IF flow[f] \in {None, Plain, Gone} THEN RowsOf(f) = {}
  ELSE flow[f].mode => \E i \in Ids : RowsOf(f) = {i} /\ Fits(i, flow[f])

\* The steps between the save of a flow and the save of its record.
Busy == {"find", "insert", "save", "findOld", "deleteRow"}
AtWork(f) == \E r \in Requests : req[r].pc \in Busy /\ req[r].target = f

\* A record that was read is the stored one, but for the switch and nextRunAt.
Fresh(x, i) ==
  /\ rows[i] # None /\ x.target = rows[i].target
  /\ x.cron = rows[i].cron /\ x.ends = rows[i].ends /\ x.input = rows[i].input

RequestTrue(r) ==
  LET f == req[r].target IN
  /\ req[r].pc \in {"find", "insert", "save"} => req[r].conf = flow[f]
  /\ req[r].pc = "insert" => RowsOf(f) = {}
  /\ req[r].pc \in {"save", "deleteRow"} => RowsOf(f) = {req[r].id}
  /\ req[r].pc \in {"findOld", "deleteRow"} => flow[f] \in {Plain, Gone}
  /\ req[r].pc \in {"status", "toggle"} => Fresh(req[r].row, req[r].id) /\ req[r].row.target = f
  /\ req[r].pc = "toggle" /\ req[r].on => Enables(flow[f])

TickTrue(t) == tick[t].pc = "expire" => Fresh(tick[t].row, tick[t].id)

Serial ==
  /\ Alone
  /\ \A f \in Flows : Unique(f) /\ (AtWork(f) \/ Follows(f))
  /\ \A r \in Requests : RequestTrue(r)
  /\ \A t \in Ticks : TickTrue(t)

RecordInv == ~mixed => Serial

\* A record that a step leaves as its flow wants it.
Alike(i) ==
  /\ rows'[i] # None <=> rows[i] # None
  /\ rows[i] # None =>
       /\ rows'[i].target = rows[i].target /\ rows'[i].cron = rows[i].cron
       /\ rows'[i].ends = rows[i].ends /\ rows'[i].input = rows[i].input
       /\ rows'[i].enabled => rows[i].enabled

LEMMA FollowsKept ==
  ASSUME NEW f \in Flows, flow'[f] = flow[f], RowsOf(f)' = RowsOf(f),
         \A i \in RowsOf(f) : Alike(i)
  PROVE  (Unique(f) => Unique(f)') /\ (Follows(f) => Follows(f)')
<1>1. ASSUME NEW i \in Ids, RowsOf(f) = {i}, Fits(i, flow[f]) PROVE Fits(i, flow[f])'
  <2>1. Alike(i) /\ rows[i] # None BY <1>1 DEF RowsOf
  <2>. QED BY <1>1, <2>1 DEF Fits, Alike, Enables
<1>2. Follows(f) => Follows(f)' BY <1>1 DEF Follows
<1>. QED BY <1>2 DEF Unique

LEMMA RowsOfAlike ==
  ASSUME NEW f, \A i \in Ids : Alike(i)
  PROVE  RowsOf(f)' = RowsOf(f)
BY DEF RowsOf, Alike

LEMMA RequestTrueKept ==
  ASSUME TypeInv, NEW r \in Requests, RequestTrue(r), req'[r] = req[r],
         \A i \in Ids : Alike(i),
         req[r].pc # "idle" => flow'[req[r].target] = flow[req[r].target]
  PROVE  RequestTrue(r)'
<1>1. RequestFits(req[r]) /\ 1 .. made \subseteq Ids BY Each
<1>2. req[r].pc \in {"status", "toggle"} => req[r].id \in Ids BY <1>1 DEF RequestFits
<1>3. RowsOf(req[r].target)' = RowsOf(req[r].target) BY DEF RowsOf, Alike
<1>4. req[r].pc \in {"status", "toggle"} => Fresh(req[r].row, req[r].id)'
  BY <1>2 DEF RequestTrue, Fresh, Alike
<1>. QED BY <1>3, <1>4 DEF RequestTrue, Enables

LEMMA TickTrueKept ==
  ASSUME TypeInv, NEW t \in Ticks, TickTrue(t), tick'[t] = tick[t], \A i \in Ids : Alike(i)
  PROVE  TickTrue(t)'
<1>1. TickFits(tick[t]) BY Each
<1>2. tick[t].pc = "expire" => tick[t].id \in Ids BY <1>1 DEF TickFits
<1>. QED BY <1>2 DEF TickTrue, Fresh, Alike

\* A step that leaves flows and records alike.
LEMMA AlikeStep ==
  ASSUME TypeInv, Serial, Alone', UNCHANGED flow, \A i \in Ids : Alike(i),
         \A r \in Requests : RequestTrue(r)', \A t \in Ticks : TickTrue(t)',
         \A r \in Requests : req[r].pc \in Busy =>
           req'[r].pc \in Busy /\ req'[r].target = req[r].target
  PROVE  Serial'
<1>1. ASSUME NEW f \in Flows PROVE Unique(f)' /\ (AtWork(f)' \/ Follows(f)')
  <2>1. Unique(f)' /\ (Follows(f) => Follows(f)')
    BY RowsOfAlike, FollowsKept DEF Serial, RowsOf
  <2>2. AtWork(f) => AtWork(f)' BY DEF AtWork
  <2>. QED BY <2>1, <2>2 DEF Serial
<1>. QED BY <1>1 DEF Serial

\* A step of a request that is alone and writes only the flow f and its records.
LEMMA LoneWrite ==
  ASSUME TypeInv, Serial, Alone', NEW r \in Requests, NEW f \in Flows,
         req[r].pc # "idle", UNCHANGED tick, \A o \in Requests \ {r} : req'[o] = req[o],
         req[r].target = f,
         \A g \in Flows \ {f} : flow'[g] = flow[g],
         \A i \in Ids : \/ rows'[i] = rows[i]
                        \/ /\ rows[i] = None \/ rows[i].target = f
                           /\ rows'[i] = None \/ rows'[i].target = f,
         RequestTrue(r)', Unique(f)',
         Follows(f)' \/ (req'[r].pc \in Busy /\ req'[r].target = f)
  PROVE  Serial'
<1>1. /\ \A o \in Requests : o # r => req[o].pc = "idle"
      /\ \A t \in Ticks : tick[t].pc \notin {"expire", "drop"}
  BY OthersIdle DEF Serial
<1>2. ASSUME NEW o \in Requests PROVE RequestTrue(o)'
  <2>1. CASE o = r BY <2>1
  <2>2. CASE o # r
    <3>1. req'[o].pc = "idle" BY <1>1, <2>2
    <3>. QED BY <3>1 DEF RequestTrue
  <2>. QED BY <2>1, <2>2
<1>3. \A t \in Ticks : TickTrue(t)' BY <1>1 DEF TickTrue
<1>4. ASSUME NEW g \in Flows PROVE Unique(g)' /\ (AtWork(g)' \/ Follows(g)')
  <2>1. CASE g = f BY <2>1 DEF AtWork
  <2>2. CASE g # f
    <3>1. RowsOf(g)' = RowsOf(g) /\ \A i \in RowsOf(g) : Alike(i)
      BY <2>2 DEF RowsOf, Alike
    <3>2. ~AtWork(g) BY <1>1, <2>2 DEF AtWork, Busy
    <3>3. Unique(g) /\ Follows(g) BY <3>2 DEF Serial
    <3>. QED BY <2>2, <3>1, <3>3, FollowsKept
  <2>. QED BY <2>1, <2>2
<1>. QED BY <1>2, <1>3, <1>4 DEF Serial

\* A record of f written over the only one, or as the first one.
LEMMA OneRow ==
  ASSUME NEW f \in Flows, NEW k \in Ids, NEW x \in Row, x.target = f,
         rows \in [Ids -> RowOrNone], rows' = [rows EXCEPT ![k] = x],
         RowsOf(f) \subseteq {k}
  PROVE  RowsOf(f)' = {k} /\ Unique(f)'
<1>1. x # None BY ScheduleAssumption
<1>2. rows'[k] = x /\ \A i \in Ids \ {k} : rows'[i] = rows[i] OBVIOUS
<1>3. RowsOf(f)' = {k} BY <1>1, <1>2 DEF RowsOf
<1>. QED BY <1>3 DEF Unique

\* Calls that arrive.
LEMMA BeginRecords ==
  ASSUME TypeInv, Serial, Alone', NEW r \in Requests, Request(r)
  PROVE  Serial'
<1>0. req \in [Requests -> ReqType] /\ flow \in [Flows -> Configs \cup {None, Plain, Gone}]
      /\ rows \in [Ids -> RowOrNone]
  BY DEF TypeInv, TypeOK, ReqType
<1>1. UNCHANGED <<rows, tick>> /\ req[r].pc = "idle"
  BY DEF Request, Toggle, Create, ReadFlow, Begin, store, At
<1>2. \A i \in Ids : Alike(i) BY <1>1 DEF Alike
<1>3. \A o \in Requests \ {r} : req'[o] = req[o]
  BY <1>0 DEF Request, Toggle, Create, ReadFlow
<1>4. \A t \in Ticks : TickTrue(t)' BY <1>1, <1>2, TickTrueKept DEF Serial
<1>5. ASSUME UNCHANGED flow, RequestTrue(r)' PROVE Serial'
  <2>1. \A o \in Requests : RequestTrue(o)'
    <3>1. ASSUME NEW o \in Requests, o # r PROVE RequestTrue(o)'
      BY <1>2, <1>3, <1>5, <3>1, RequestTrueKept DEF Serial
    <3>. QED BY <1>5, <3>1
  <2>2. \A o \in Requests : req[o].pc \in Busy =>
          req'[o].pc \in Busy /\ req'[o].target = req[o].target
    BY <1>1, <1>3 DEF Busy
  <2>. QED BY <1>2, <1>4, <1>5, <2>1, <2>2, AlikeStep
<1>6. ASSUME NEW f \in Flows, NEW on \in BOOLEAN, Toggle(r, f, on) PROVE Serial'
  <2>1. PICK i \in RowsOf(f) :
          req' = [req EXCEPT ![r] = [IdleRequest EXCEPT
                    !.pc = IF on THEN "status" ELSE "toggle",
                    !.target = f, !.id = i, !.row = rows[i], !.on = on]]
    BY <1>6 DEF Toggle
  <2>2. /\ req'[r].pc = IF on THEN "status" ELSE "toggle"
        /\ req'[r].target = f /\ req'[r].id = i /\ req'[r].row = rows[i] /\ req'[r].on = on
    BY <1>0, <2>1 DEF IdleRequest
  <2>3. rows[i] # None /\ rows[i].target = f BY DEF RowsOf
  <2>4. RequestTrue(r)' BY <1>1, <2>2, <2>3 DEF RequestTrue, Fresh
  <2>5. UNCHANGED flow BY <1>6 DEF Toggle, store
  <2>. QED BY <1>5, <2>4, <2>5
<1>7. ASSUME NEW f \in Flows, NEW c \in Configs \cup {Plain, Gone}, ReadFlow(r, f, c)
      PROVE  Serial'
  <2>1. req'[r].pc = "write" BY <1>0, <1>7 DEF ReadFlow, IdleRequest
  <2>2. RequestTrue(r)' BY <2>1 DEF RequestTrue
  <2>3. UNCHANGED flow BY <1>7 DEF ReadFlow, store
  <2>. QED BY <1>5, <2>2, <2>3
<1>8. ASSUME NEW f \in Flows, NEW c \in Configs \cup {Plain}, Create(r, f, c)
      PROVE  Serial'
  <2>1. flow[f] = None /\ flow' = [flow EXCEPT ![f] = c] BY <1>8 DEF Create
  <2>2. RowsOf(f) = {}
    BY <2>1 DEF RowsOf, TypeInv, Points, RowsFit
  <2>3. \A g \in Flows : RowsOf(g)' = RowsOf(g) BY <1>1 DEF RowsOf
  <2>4. \A o \in Requests : req[o].pc # "idle" => req[o].target \in Flows /\ req[o].target # f
    BY <2>1, Each DEF RequestFits
  <2>5. ASSUME NEW o \in Requests, o # r PROVE RequestTrue(o)'
    <3>1. req[o].pc # "idle" => flow'[req[o].target] = flow[req[o].target]
      BY <1>0, <2>1, <2>4
    <3>. QED BY <1>2, <1>3, <2>5, <3>1, RequestTrueKept DEF Serial
  <2>6. ASSUME NEW g \in Flows, g # f PROVE Unique(g)' /\ (AtWork(g)' \/ Follows(g)')
    <3>1. Unique(g)' /\ (Follows(g) => Follows(g)')
      BY <1>0, <1>2, <2>1, <2>3, <2>6, FollowsKept DEF Serial, RowsOf
    <3>2. AtWork(g) => AtWork(g)' BY <1>1, <1>3 DEF AtWork, Busy
    <3>. QED BY <3>1, <3>2 DEF Serial
  <2>7. Unique(f)' BY <2>2, <2>3 DEF Unique
  <2>8. flow'[f] = c BY <1>0, <2>1
  <2>9. CASE c # Plain /\ AfterFlow(c) = "find"
    <3>1. req'[r].pc = "find" /\ req'[r].target = f /\ req'[r].conf = c
      BY <1>0, <1>8, <2>9, ZenonT(30) DEF Create, IdleRequest
    <3>2. RequestTrue(r)' BY <2>8, <3>1 DEF RequestTrue
    <3>3. AtWork(f)' BY <3>1 DEF AtWork, Busy
    <3>. QED BY <1>4, <2>5, <2>6, <2>7, <3>2, <3>3 DEF Serial
  <2>10. CASE ~(c # Plain /\ AfterFlow(c) = "find")
    <3>1. UNCHANGED req BY <1>8, <2>10 DEF Create
    <3>2. RequestTrue(r)' BY <1>1, <3>1 DEF RequestTrue
    <3>3. Follows(f)'
      <4>1. CASE c = Plain BY <2>2, <2>3, <2>8, <4>1 DEF Follows
      <4>2. CASE c # Plain
        <5>1. c \notin {None, Plain, Gone} BY <4>2, ScheduleAssumption
        <5>2. ~c.mode BY <2>10, <4>2, <5>1 DEF AfterFlow
        <5>. QED BY <2>8, <5>1, <5>2 DEF Follows
      <4>. QED BY <4>1, <4>2
    <3>. QED BY <1>4, <2>5, <2>6, <2>7, <3>2, <3>3 DEF Serial
  <2>. QED BY <2>9, <2>10
<1>. QED BY <1>6, <1>7, <1>8 DEF Request

\* The steps of requests.
LEMMA RequestRecords ==
  ASSUME TypeInv, Serial, Alone', NEW r \in Requests, RequestStep(r)
  PROVE  Serial'
<1>0. req[r] \in ReqType /\ RequestFits(req[r]) BY Each
<1>1. /\ req[r].pc # "idle" /\ UNCHANGED tick
      /\ \A o \in Requests \ {r} : req'[o] = req[o]
  BY DEF RequestStep, WriteFlow, FindRow, InsertRow, SaveRow, FindOldRow, DeleteRow,
         ScheduleStatus, SaveToggle, NotifyDelete, NotifyUpsert, ApplyUpsert, Moves,
         Go, Done, AfterSave, At, TypeInv, TypeOK
<1>2. PICK f \in Flows : f = req[r].target BY <1>0, <1>1 DEF RequestFits
<1>3. RequestTrue(r) /\ Unique(f) BY DEF Serial
<1>4. /\ rows \in [Ids -> RowOrNone] /\ req \in [Requests -> ReqType] /\ None \notin Row
      /\ flow \in [Flows -> Configs \cup {None, Plain, Gone}]
  BY ScheduleAssumption DEF TypeInv, TypeOK, ReqType
<1>5. req[r].pc \notin Busy => Follows(f)
  <2>. SUFFICES ASSUME req[r].pc \notin Busy PROVE ~AtWork(f)
    BY DEF Serial
  <2>1. \A o \in Requests : o # r => req[o].pc = "idle" BY <1>1, OthersIdle DEF Serial
  <2>. QED BY <2>1 DEF AtWork, Busy
<1>6. /\ Done(r) => req'[r].pc = "idle"
      /\ \A pc \in RequestStates : Go(r, pc) => req'[r] = [req[r] EXCEPT !.pc = pc]
  BY <1>4 DEF Done, Go, IdleRequest
<1>7. ASSUME req'[r].pc \in {"idle", "delete", "upsert", "apply", "write"} PROVE RequestTrue(r)'
  BY <1>7 DEF RequestTrue
<1>8. UNCHANGED rows => RowsOf(f)' = RowsOf(f) /\ (Unique(f) => Unique(f)')
  BY DEF RowsOf, Unique
<1>9. UNCHANGED <<rows, flow>> => (Follows(f) => Follows(f)')
  BY <1>8 DEF Follows, Fits, Enables
<1>a. CASE WriteFlow(r)
  <2>. DEFINE c == req[r].conf
  <2>1. /\ UNCHANGED rows /\ flow' = [flow EXCEPT ![f] = c] /\ req[r].pc = "write"
        /\ IF AfterFlow(c) = "idle" THEN Done(r) ELSE Go(r, AfterFlow(c))
    BY <1>2, <1>a DEF WriteFlow, At
  <2>2. c \in Configs \cup {Plain, Gone} BY <1>0, <2>1 DEF RequestFits
  <2>3. flow'[f] = c /\ \A g \in Flows \ {f} : flow'[g] = flow[g] BY <1>4, <2>1
  <2>4. CASE AfterFlow(c) = "idle"
    <3>1. c \notin {None, Plain, Gone} /\ ~c.mode BY <2>2, <2>4, ScheduleAssumption DEF AfterFlow
    <3>2. Follows(f)' BY <2>3, <3>1 DEF Follows
    <3>3. RequestTrue(r)' BY <1>6, <1>7, <2>1, <2>4
    <3>. QED BY <1>1, <1>2, <1>3, <1>8, <2>1, <2>3, <3>2, <3>3, LoneWrite
  <2>5. CASE AfterFlow(c) # "idle"
    <3>1. PICK pc \in {"find", "findOld"} : pc = AfterFlow(c) BY <2>5 DEF AfterFlow
    <3>2. pc = "findOld" => c \in {Plain, Gone} BY <3>1 DEF AfterFlow
    <3>3. req'[r] = [req[r] EXCEPT !.pc = pc]
      BY <1>6, <2>1, <2>5, <3>1 DEF RequestStates
    <3>4. req'[r].pc = pc /\ req'[r].target = f /\ req'[r].conf = c
      BY <1>0, <1>2, <3>3 DEF ReqType
    <3>5. RequestTrue(r)' BY <2>3, <3>1, <3>2, <3>4 DEF RequestTrue
    <3>. QED BY <1>1, <1>2, <1>3, <1>8, <2>1, <2>3, <3>1, <3>4, <3>5, LoneWrite DEF Busy
  <2>. QED BY <2>4, <2>5
<1>b. CASE FindRow(r)
  <2>1. UNCHANGED <<rows, flow>> /\ req[r].pc = "find" BY <1>b DEF FindRow, At, store
  <2>2. req[r].conf = flow[f] BY <1>2, <1>3, <2>1 DEF RequestTrue
  <2>3. CASE RowsOf(f) = {} /\ Go(r, "insert")
    <3>1. req'[r].pc = "insert" /\ req'[r].target = f /\ req'[r].conf = req[r].conf
      BY <1>0, <1>2, <1>6, <2>3 DEF ReqType, RequestStates
    <3>2. (RowsOf(req[r].target))' = {} BY <2>1, <2>3, <3>1 DEF RowsOf
    <3>3. RequestTrue(r)' BY <2>1, <2>2, <3>1, <3>2 DEF RequestTrue
    <3>. QED BY <1>1, <1>2, <1>3, <1>8, <2>1, <3>1, <3>3, LoneWrite DEF Busy
  <2>4. ASSUME NEW k \in RowsOf(f),
               req' = [req EXCEPT ![r].pc = "save", ![r].id = k, ![r].row = rows[k]]
        PROVE  Serial'
    <3>1. /\ req'[r].pc = "save" /\ req'[r].target = f /\ req'[r].conf = req[r].conf
          /\ req'[r].id = k
      BY <1>2, <1>4, <2>4 DEF ReqType
    <3>2. RowsOf(f) = {k} BY <1>3, <2>4 DEF Unique
    <3>3. (RowsOf(req[r].target))' = {k} BY <2>1, <3>1, <3>2 DEF RowsOf
    <3>4. RequestTrue(r)' BY <2>1, <2>2, <3>1, <3>3 DEF RequestTrue
    <3>. QED BY <1>1, <1>2, <1>3, <1>8, <2>1, <3>1, <3>4, LoneWrite DEF Busy
  <2>. QED BY <1>2, <1>b, <2>3, <2>4 DEF FindRow
<1>c. ASSUME NEW k \in Ids, NEW on \in BOOLEAN, NEW c \in Configs, c = req[r].conf,
             rows' = [rows EXCEPT ![k] = RowFor(f, c, on)], on => CanScheduleEnable(c),
             UNCHANGED flow, AfterSave(r, k, on), req[r].pc \in {"insert", "save"},
             RowsOf(f) \subseteq {k}, rows[k] = None \/ rows[k].target = f
      PROVE  Serial'
  <2>1. PICK x \in Row : x = RowFor(f, c, on) BY Each, RowForType
  <2>2. x.target = f BY <2>1, Each, RowForType
  <2>3. rows' = [rows EXCEPT ![k] = x] BY <1>c, <2>1
  <2>4. rows'[k] = x /\ \A i \in Ids \ {k} : rows'[i] = rows[i] BY <1>4, <2>3
  <2>5. RowsOf(f)' = {k} /\ Unique(f)' BY <1>4, <1>c, <2>2, <2>3, OneRow
  <2>6. flow'[f] = c /\ flow' = flow BY <1>2, <1>3, <1>c DEF RequestTrue
  <2>7. x.cron = c.cron /\ x.ends = c.ends /\ x.input = c.input /\ (x.enabled => Enables(c))
    BY <1>c, <2>1 DEF RowFor, CanScheduleEnable, Enables
  <2>8. Fits(k, flow[f])' BY <2>4, <2>6, <2>7 DEF Fits, Enables
  <2>9. c \notin {None, Plain, Gone} BY ScheduleAssumption
  <2>10. Follows(f)' BY <2>5, <2>6, <2>8, <2>9 DEF Follows
  <2>11. RequestTrue(r)'
    <3>1. req'[r].pc \in {"idle", "delete", "upsert"}
      BY <1>4, <1>6, <1>c DEF AfterSave, ReqType
    <3>. QED BY <1>7, <3>1
  <2>12. \A i \in Ids : \/ rows'[i] = rows[i]
                        \/ /\ rows[i] = None \/ rows[i].target = f
                           /\ rows'[i] = None \/ rows'[i].target = f
    BY <1>c, <2>2, <2>4
  <2>. QED BY <1>1, <1>2, <2>5, <2>6, <2>10, <2>11, <2>12, LoneWrite
<1>d. CASE InsertRow(r)
  <2>1. req[r].pc = "insert" BY <1>d DEF InsertRow, At
  <2>2. PICK c \in Configs : c = req[r].conf BY <1>0, <2>1 DEF RequestFits
  <2>3. PICK k \in Ids : k = made + 1 BY <1>d, Each DEF InsertRow, Ids
  <2>4. PICK e \in BOOLEAN : e = CanScheduleEnable(req[r].conf)
    <3>1. CanScheduleEnable(req[r].conf) \in BOOLEAN BY DEF CanScheduleEnable
    <3>. QED BY <3>1
  <2>5. rows' = [rows EXCEPT ![k] = RowFor(f, c, e)] /\ AfterSave(r, k, e) /\ UNCHANGED flow
    BY <1>2, <1>d, <2>2, <2>3, <2>4 DEF InsertRow
  <2>6. rows[k] = None BY <2>3, Each DEF TypeInv, Points, RowsFit, Ids
  <2>7. RowsOf(f) = {} BY <1>2, <1>3, <2>1 DEF RequestTrue
  <2>. QED BY <1>c, <2>1, <2>2, <2>4, <2>5, <2>6, <2>7
<1>e. CASE SaveRow(r)
  <2>1. req[r].pc = "save" BY <1>e DEF SaveRow, At
  <2>2. PICK c \in Configs : c = req[r].conf BY <1>0, <2>1 DEF RequestFits
  <2>3. PICK k \in Ids : k = req[r].id BY <1>0, <2>1, Each DEF RequestFits
  <2>4. PICK e \in BOOLEAN :
          e = (CanScheduleEnable(req[r].conf) /\ (req[r].on \/ req[r].row.enabled))
    <3>1. (CanScheduleEnable(req[r].conf) /\ (req[r].on \/ req[r].row.enabled)) \in BOOLEAN
      BY DEF CanScheduleEnable
    <3>. QED BY <3>1
  <2>5. rows' = [rows EXCEPT ![k] = RowFor(f, c, e)] /\ AfterSave(r, k, e) /\ UNCHANGED flow
    BY <1>2, <1>e, <2>2, <2>3, <2>4 DEF SaveRow
  <2>6. RowsOf(f) = {k} BY <1>2, <1>3, <2>1, <2>3 DEF RequestTrue
  <2>7. rows[k].target = f BY <2>6 DEF RowsOf
  <2>. QED BY <1>c, <2>1, <2>2, <2>4, <2>5, <2>6, <2>7
<1>f. CASE FindOldRow(r)
  <2>1. UNCHANGED <<rows, flow>> /\ req[r].pc = "findOld" BY <1>f DEF FindOldRow, At, store
  <2>2. flow[f] \in {Plain, Gone} BY <1>2, <1>3, <2>1 DEF RequestTrue
  <2>3. CASE RowsOf(f) = {} /\ Done(r)
    <3>1. Follows(f)' BY <1>8, <2>1, <2>2, <2>3 DEF Follows
    <3>2. RequestTrue(r)' BY <1>6, <1>7, <2>3
    <3>. QED BY <1>1, <1>2, <1>3, <1>8, <2>1, <3>1, <3>2, LoneWrite
  <2>4. ASSUME NEW k \in RowsOf(f),
               req' = [req EXCEPT ![r].pc = "deleteRow", ![r].id = k]
        PROVE  Serial'
    <3>1. req'[r].pc = "deleteRow" /\ req'[r].target = f /\ req'[r].id = k
      BY <1>2, <1>4, <2>4 DEF ReqType
    <3>2. RowsOf(f) = {k} BY <1>3, <2>4 DEF Unique
    <3>3. (RowsOf(req[r].target))' = {k} BY <2>1, <3>1, <3>2 DEF RowsOf
    <3>4. RequestTrue(r)' BY <2>1, <2>2, <3>1, <3>3 DEF RequestTrue
    <3>. QED BY <1>1, <1>2, <1>3, <1>8, <2>1, <3>1, <3>4, LoneWrite DEF Busy
  <2>. QED BY <1>2, <1>f, <2>3, <2>4 DEF FindOldRow
<1>g. CASE DeleteRow(r)
  <2>1. req[r].pc = "deleteRow" /\ UNCHANGED flow /\ Go(r, "delete") BY <1>g DEF DeleteRow, At
  <2>2. PICK k \in Ids : k = req[r].id BY <1>0, <2>1, Each DEF RequestFits
  <2>3. rows' = [rows EXCEPT ![k] = None] BY <1>g, <2>2 DEF DeleteRow
  <2>4. RowsOf(f) = {k} /\ flow[f] \in {Plain, Gone} BY <1>2, <1>3, <2>1, <2>2 DEF RequestTrue
  <2>5. rows'[k] = None /\ \A i \in Ids \ {k} : rows'[i] = rows[i] BY <1>4, <2>3
  <2>6. RowsOf(f)' = {} BY <2>4, <2>5 DEF RowsOf
  <2>7. Unique(f)' /\ Follows(f)' BY <2>1, <2>4, <2>6 DEF Unique, Follows
  <2>8. RequestTrue(r)'
    <3>1. req'[r].pc = "delete" BY <1>0, <1>6, <2>1 DEF ReqType, RequestStates
    <3>. QED BY <1>7, <3>1
  <2>9. rows[k].target = f BY <2>4 DEF RowsOf
  <2>10. \A i \in Ids : \/ rows'[i] = rows[i]
                        \/ /\ rows[i] = None \/ rows[i].target = f
                           /\ rows'[i] = None \/ rows'[i].target = f
    BY <2>5, <2>9
  <2>. QED BY <1>1, <1>2, <2>1, <2>7, <2>8, <2>10, LoneWrite
<1>h. CASE ScheduleStatus(r)
  <2>1. UNCHANGED <<rows, flow>> /\ req[r].pc = "status" BY <1>h DEF ScheduleStatus, At, store
  <2>2. Follows(f)' BY <1>5, <1>9, <2>1 DEF Busy
  <2>3. RequestTrue(r)'
    <3>1. CASE Done(r) BY <1>6, <1>7, <3>1
    <3>2. CASE ~Done(r)
      <4>1. PICK i \in RowsOf(f) \cup {0} : CanEnableNow(f, i) /\ Go(r, "toggle")
        BY <1>2, <1>h, <3>2 DEF ScheduleStatus
      <4>2. Enables(flow[f]) BY <4>1 DEF CanEnableNow, Enables
      <4>3. /\ req'[r].pc = "toggle" /\ req'[r].target = f /\ req'[r].id = req[r].id
            /\ req'[r].row = req[r].row
        BY <1>0, <1>2, <1>6, <4>1 DEF ReqType, RequestStates
      <4>4. Fresh(req[r].row, req[r].id) /\ req[r].row.target = f
        BY <1>2, <1>3, <2>1 DEF RequestTrue
      <4>. QED BY <2>1, <4>2, <4>3, <4>4 DEF RequestTrue, Fresh, Enables
    <3>. QED BY <3>1, <3>2
  <2>. QED BY <1>1, <1>2, <1>3, <1>8, <2>1, <2>2, <2>3, LoneWrite
<1>i. CASE SaveToggle(r)
  <2>1. req[r].pc = "toggle" /\ UNCHANGED flow BY <1>i DEF SaveToggle, At
  <2>2. PICK k \in Ids : k = req[r].id BY <1>0, <2>1, Each DEF RequestFits
  <2>3. PICK x \in Row : x = [req[r].row EXCEPT !.enabled = req[r].on]
    <3>1. req[r].row \in Row BY <1>0, <2>1 DEF RequestFits
    <3>. QED BY <1>0, <3>1 DEF Row, ReqType
  <2>4. rows' = [rows EXCEPT ![k] = x] BY <1>i, <2>2, <2>3 DEF SaveToggle
  <2>5. rows'[k] = x /\ \A i \in Ids \ {k} : rows'[i] = rows[i] BY <1>4, <2>4
  <2>6. /\ rows[k] # None /\ rows[k].target = f
        /\ x.target = f /\ x.cron = rows[k].cron /\ x.ends = rows[k].ends
        /\ x.input = rows[k].input
        /\ x.enabled => Enables(flow[f])
    <3>1. Fresh(req[r].row, k) /\ req[r].row.target = f
          /\ (req[r].on => Enables(flow[f]))
      BY <1>2, <1>3, <2>1, <2>2 DEF RequestTrue
    <3>2. req[r].row \in Row BY <1>0, <2>1 DEF RequestFits
    <3>3. /\ x.target = req[r].row.target /\ x.cron = req[r].row.cron
          /\ x.ends = req[r].row.ends /\ x.input = req[r].row.input /\ x.enabled = req[r].on
      BY <2>3, <3>2 DEF Row
    <3>. QED BY <3>1, <3>3 DEF Fresh
  <2>7. RowsOf(f) = {k} BY <1>3, <2>6 DEF RowsOf, Unique
  <2>8. RowsOf(f)' = {k} /\ Unique(f)' BY <1>4, <2>4, <2>6, <2>7, OneRow
  <2>9. Follows(f) BY <1>5, <2>1 DEF Busy
  <2>10. Follows(f)'
    <3>1. flow[f] \notin {None, Plain, Gone} BY <2>7, <2>9 DEF Follows
    <3>2. flow[f].mode => Fits(k, flow[f]) BY <2>7, <2>9, <3>1 DEF Follows
    <3>3. flow[f].mode => Fits(k, flow[f])' BY <2>1, <2>5, <2>6, <3>2 DEF Fits, Enables
    <3>. QED BY <2>1, <2>8, <3>1, <3>3 DEF Follows
  <2>11. RequestTrue(r)'
    <3>1. req'[r].pc \in {"upsert", "delete"} BY <1>4, <1>i DEF SaveToggle, ReqType
    <3>. QED BY <1>7, <3>1
  <2>12. \A i \in Ids : \/ rows'[i] = rows[i]
                        \/ /\ rows[i] = None \/ rows[i].target = f
                           /\ rows'[i] = None \/ rows'[i].target = f
    BY <2>5, <2>6
  <2>. QED BY <1>1, <1>2, <2>1, <2>8, <2>10, <2>11, <2>12, LoneWrite
<1>j. CASE NotifyDelete(r) \/ NotifyUpsert(r) \/ ApplyUpsert(r)
  <2>1. UNCHANGED <<rows, flow>> /\ req[r].pc \in {"delete", "upsert", "apply"}
    BY <1>j DEF NotifyDelete, NotifyUpsert, ApplyUpsert, At, store
  <2>2. Follows(f)' BY <1>5, <1>9, <2>1 DEF Busy
  <2>3. req'[r].pc \in {"idle", "apply"}
    BY <1>4, <1>6, <1>j DEF NotifyDelete, NotifyUpsert, ApplyUpsert, ReqType
  <2>4. RequestTrue(r)' BY <1>7, <2>3
  <2>. QED BY <1>1, <1>2, <1>3, <1>8, <2>1, <2>2, <2>4, LoneWrite
<1>. QED
  BY <1>a, <1>b, <1>d, <1>e, <1>f, <1>g, <1>h, <1>i, <1>j DEF RequestStep

\* A step of a tick: only the expiry and the end of a run write a record, and
\* leave what the flow asked for.
LEMMA TickRecords ==
  ASSUME TypeInv, Serial, Alone', NEW t \in Ticks, TickStep(t) \/ \E i \in Ids : Fire(t, i)
  PROVE  Serial'
<1>0. tick[t] \in TickType /\ TickFits(tick[t]) BY Each
<1>1. /\ tick \in [Ticks -> TickType] /\ rows \in [Ids -> RowOrNone] /\ None \notin Row
  BY ScheduleAssumption DEF TypeInv, TypeOK, TickType
<1>2. UNCHANGED <<req, flow>> /\ \A o \in Ticks \ {t} : tick'[o] = tick[o]
  BY <1>1 DEF TickStep, Fire, Load, Expire, Drop, Run, Succeed, Fail, TickMoves, TickDone,
              TickGo, store
<1>3. ASSUME \A i \in Ids : Alike(i), TickTrue(t)' PROVE Serial'
  <2>1. \A r \in Requests : RequestTrue(r)' BY <1>2, <1>3, RequestTrueKept DEF Serial
  <2>2. \A o \in Ticks : TickTrue(o)' BY <1>2, <1>3, TickTrueKept DEF Serial
  <2>. QED BY <1>2, <1>3, <2>1, <2>2, AlikeStep
<1>4. ASSUME tick'[t].pc # "expire" PROVE TickTrue(t)'
  BY <1>4 DEF TickTrue
<1>5. TickDone(t) => tick'[t].pc = "idle" BY <1>1 DEF TickDone, IdleTick
<1>6. UNCHANGED rows => \A i \in Ids : Alike(i) BY DEF Alike
<1>a. ASSUME NEW i \in Ids, Fire(t, i) PROVE Serial'
  <2>1. UNCHANGED rows /\ tick'[t].pc = "load" BY <1>1, <1>a DEF Fire, IdleTick, store
  <2>. QED BY <1>3, <1>4, <1>6, <2>1
<1>b. CASE Load(t)
  <2>1. UNCHANGED rows /\ tick[t].pc = "load" BY <1>b DEF Load, TickAt
  <2>2. PICK k \in Ids : k = tick[t].id BY <1>0, <2>1 DEF TickFits
  <2>3. TickTrue(t)'
    <3>1. CASE Verdict(rows[k]) = "idle"
      BY <1>4, <1>5, <1>b, <2>2, <3>1 DEF Load
    <3>2. CASE Verdict(rows[k]) # "idle"
      <4>1. tick'[t].pc = Verdict(rows[k]) /\ tick'[t].id = k /\ tick'[t].row = rows[k]
        BY <1>1, <1>b, <2>2, <3>2 DEF Load, TickType
      <4>2. Verdict(rows[k]) = "expire" => rows[k] # None BY DEF Verdict
      <4>. QED BY <2>1, <4>1, <4>2 DEF TickTrue, Fresh
    <3>. QED BY <3>1, <3>2
  <2>. QED BY <1>3, <1>6, <2>1, <2>3
<1>c. CASE Expire(t)
  <2>1. tick[t].pc = "expire" BY <1>c DEF Expire, TickAt
  <2>2. PICK k \in Ids : k = tick[t].id BY <1>0, <2>1 DEF TickFits
  <2>3. PICK x \in Row : x = tick[t].row BY <1>0, <2>1 DEF TickFits
  <2>4. PICK y \in Row : y = [x EXCEPT !.enabled = FALSE] BY <2>3 DEF Row
  <2>5. rows' = [rows EXCEPT ![k] = y] BY <1>c, <2>2, <2>3, <2>4 DEF Expire
  <2>6. rows'[k] = y /\ \A i \in Ids \ {k} : rows'[i] = rows[i] BY <1>1, <2>5
  <2>7. Fresh(x, k) BY <2>1, <2>2, <2>3 DEF Serial, TickTrue
  <2>8. /\ y.target = x.target /\ y.cron = x.cron /\ y.ends = x.ends /\ y.input = x.input
        /\ ~y.enabled /\ y # None
    BY <1>1, <2>4 DEF Row
  <2>9. Alike(k) BY <2>6, <2>7, <2>8 DEF Alike, Fresh
  <2>10. \A i \in Ids : Alike(i) BY <2>6, <2>9 DEF Alike
  <2>11. tick'[t].pc = "drop" BY <1>1, <1>c DEF Expire, TickGo, TickType
  <2>. QED BY <1>3, <1>4, <2>10, <2>11
<1>d. CASE Drop(t)
  <2>1. UNCHANGED rows /\ tick'[t].pc = "idle" BY <1>5, <1>d DEF Drop
  <2>. QED BY <1>3, <1>4, <1>6, <2>1
<1>e. CASE Run(t) \/ Fail(t)
  <2>1. UNCHANGED rows BY <1>e DEF Run, Fail
  <2>2. tick'[t].pc \in {"idle", "running"}
    BY <1>1, <1>e DEF Run, Fail, TickDone, TickGo, IdleTick, TickType
  <2>. QED BY <1>3, <1>4, <1>6, <2>1, <2>2
<1>f. CASE Succeed(t)
  <2>1. tick[t].pc = "running" /\ tick'[t].pc = "idle" BY <1>5, <1>f DEF Succeed, TickAt
  <2>2. PICK k \in Ids : k = tick[t].id BY <1>0, <2>1 DEF TickFits
  <2>3. \A i \in Ids : Alike(i)
    <3>1. CASE rows[k] = None BY <1>6, <1>f, <2>2, <3>1 DEF Succeed
    <3>2. CASE rows[k] # None
      <4>. DEFINE at == ComputeNextRunAt(tick[t].row.cron, now)
      <4>1. tick[t].row \in Row BY <1>0, <2>1 DEF TickFits
      <4>2. at \in Times BY <4>1, Each, NextType DEF Row
      <4>3. rows' = [rows EXCEPT ![k].next = at] BY <1>f, <2>2, <3>2 DEF Succeed
      <4>4. rows[k] \in Row BY <3>2, Each
      <4>. HIDE DEF at
      <4>5. PICK y \in Row : y = [rows[k] EXCEPT !.next = at] BY <4>2, <4>4 DEF Row
      <4>6. rows' = [rows EXCEPT ![k] = y] BY <4>3, <4>5
      <4>7. rows'[k] = y /\ \A i \in Ids \ {k} : rows'[i] = rows[i] BY <1>1, <4>6
      <4>8. /\ y.target = rows[k].target /\ y.cron = rows[k].cron /\ y.ends = rows[k].ends
            /\ y.input = rows[k].input /\ y.enabled = rows[k].enabled /\ y # None
        BY <1>1, <4>4, <4>5 DEF Row
      <4>9. Alike(k) BY <3>2, <4>7, <4>8 DEF Alike
      <4>. QED BY <4>7, <4>9 DEF Alike
    <3>. QED BY <3>1, <3>2
  <2>. QED BY <1>3, <1>4, <2>1, <2>3
<1>. QED BY <1>a, <1>b, <1>c, <1>d, <1>e, <1>f DEF TickStep

\* The sync, restarts in which no writer died, and the clock.
LEMMA EventRecords ==
  ASSUME TypeInv, Serial, Alone', ~Died,
         SyncPage \/ SyncJob \/ Restart \/ WorkerRestart \/ Advance
  PROVE  Serial'
<1>0. restarts \in Nat /\ tick \in [Ticks -> TickType] BY DEF TypeInv, TypeOK, TickType
<1>1. UNCHANGED <<flow, rows>>
  BY DEF SyncPage, SyncJob, SyncMoves, Restart, WorkerRestart, Advance, store
<1>2. \A i \in Ids : Alike(i) BY <1>1 DEF Alike
<1>3. CASE SyncPage \/ SyncJob \/ Advance
  <2>1. UNCHANGED <<req, tick>> BY <1>3 DEF SyncPage, SyncJob, SyncMoves, Advance
  <2>2. \A r \in Requests : RequestTrue(r)' BY <1>1, <1>2, <2>1, RequestTrueKept DEF Serial
  <2>3. \A t \in Ticks : TickTrue(t)' BY <1>2, <2>1, TickTrueKept DEF Serial
  <2>. QED BY <1>1, <1>2, <2>1, <2>2, <2>3, AlikeStep
<1>4. CASE Restart \/ WorkerRestart
  <2>1. restarts' > restarts
    <3>1. restarts' = restarts + 1 BY <1>4 DEF Restart, WorkerRestart
    <3>. QED BY <1>0, <3>1
  <2>2. Writers = {} BY <2>1 DEF Died
  <2>3. /\ \A r \in Requests : req[r].pc = "idle"
        /\ \A t \in Ticks : tick[t].pc \notin {"expire", "drop"}
    BY <2>2, WriterIs
  <2>4. \A r \in Requests : req'[r].pc = "idle"
    <3>1. CASE Restart BY <3>1 DEF Restart, IdleRequest
    <3>2. CASE WorkerRestart BY <2>3, <3>2 DEF WorkerRestart
    <3>. QED BY <1>4, <3>1, <3>2
  <2>5. ASSUME NEW t \in Ticks PROVE tick'[t].pc # "expire"
    <3>1. CASE Restart BY <2>3, <3>1 DEF Restart, IdleTick
    <3>2. CASE WorkerRestart
      <4>1. PICK again \in SUBSET {o \in Ticks : tick[o].pc # "idle"} :
              tick' = [o \in Ticks |-> IF o \in again
                                       THEN [tick[o] EXCEPT !.pc = "load", !.row = None]
                                       ELSE IdleTick]
        BY <3>2 DEF WorkerRestart
      <4>2. tick[t] \in TickType BY <1>0
      <4>. QED BY <4>1, <4>2 DEF IdleTick, TickType
    <3>. QED BY <1>4, <3>1, <3>2
  <2>6. \A r \in Requests : RequestTrue(r)' BY <2>4 DEF RequestTrue
  <2>7. \A t \in Ticks : TickTrue(t)' BY <2>5 DEF TickTrue
  <2>. QED BY <1>1, <1>2, <2>3, <2>6, <2>7, AlikeStep DEF Busy
<1>. QED BY <1>3, <1>4

\* Every step keeps the invariant of the records.
LEMMA NextRecords == ASSUME TypeInv, RecordInv, [Next]_vars PROVE RecordInv'
<1>1. CASE UNCHANGED vars
  <2>1. UNCHANGED <<flow, rows, req, tick, mixed>>
    BY <1>1 DEF vars, state, store, watch
  <2>. SUFFICES ASSUME Serial PROVE Serial'
    BY <2>1 DEF RecordInv
  <2>2. \A i \in Ids : Alike(i) BY <2>1 DEF Alike
  <2>3. Writers' = Writers BY <2>1 DEF Writers
  <2>4. Alone' BY <2>3 DEF Serial, Alone
  <2>5. \A r \in Requests : RequestTrue(r)' BY <2>1, <2>2, RequestTrueKept DEF Serial
  <2>6. \A t \in Ticks : TickTrue(t)' BY <2>1, <2>2, TickTrueKept DEF Serial
  <2>. QED BY <2>1, <2>2, <2>4, <2>5, <2>6, AlikeStep
<1>2. CASE Next
  <2>1. Watch /\ Step BY <1>2 DEF Next
  <2>2. SUFFICES ASSUME ~mixed' PROVE Serial'
    BY DEF RecordInv
  <2>3. mixed \in BOOLEAN BY DEF TypeInv, TypeOK
  <2>4. ~mixed /\ ~Overlap' /\ ~Died BY <2>1, <2>2, <2>3 DEF Watch
  <2>5. (~Overlap => Alone)' BY AloneOrOverlap, PTL
  <2>6. Serial /\ Alone' BY <2>4, <2>5 DEF RecordInv
  <2>. QED
    BY <2>1, <2>4, <2>6, BeginRecords, RequestRecords, TickRecords, EventRecords DEF Step
<1>. QED BY <1>1, <1>2

LEMMA InitRecords == Init => RecordInv
<1>. SUFFICES ASSUME Init PROVE Serial
  BY DEF RecordInv
<1>. DEFINE asking == {f \in Flows : flow[f] # None}
<1>0. TypeInv BY InitTypes
<1>1. (\A r \in Requests : req[r].pc = "idle") /\ (\A t \in Ticks : tick[t].pc = "idle")
  BY DEF Init, IdleRequest, IdleTick
<1>2. Alone BY <1>1 DEF Writers, Alone
<1>3. PICK of \in Bijection(1 .. made, asking), on \in SUBSET asking :
        /\ \A f \in on : CanScheduleEnable(flow[f])
        /\ rows = [i \in Ids |-> IF i > made THEN None
                                ELSE RowFor(of[i], flow[of[i]], of[i] \in on)]
  BY DEF Init
<1>4. made \in Nat /\ made <= MaxRows /\ MaxRows \in Nat BY <1>0, Each
<1>5. \A i \in Ids : i \in 1 .. made <=> ~(i > made) BY <1>4 DEF Ids
<1>6. /\ \A i \in 1 .. made : of[i] \in asking
      /\ \A i, j \in 1 .. made : of[i] = of[j] => i = j
      /\ \A f \in asking : \E i \in 1 .. made : of[i] = f
  BY <1>3 DEF Bijection, Injection, Surjection, IsInjective
<1>7. ASSUME NEW i \in Ids, rows[i] # None
      PROVE  i \in 1 .. made /\ rows[i].target = of[i] /\ Fits(i, flow[of[i]])
  <2>1. i \in 1 .. made BY <1>3, <1>5, <1>7
  <2>2. rows[i] = RowFor(of[i], flow[of[i]], of[i] \in on) BY <1>3, <1>5, <2>1
  <2>3. rows[i].enabled => of[i] \in on
    <3>1. rows[i].enabled = (of[i] \in on) BY <2>2 DEF RowFor
    <3>. QED BY <3>1
  <2>4. of[i] \in on => Enables(flow[of[i]]) BY <1>3 DEF CanScheduleEnable, Enables
  <2>. QED BY <2>1, <2>2, <2>3, <2>4 DEF RowFor, Fits
<1>8. ASSUME NEW f \in Flows PROVE Unique(f) /\ Follows(f)
  <2>1. Unique(f) BY <1>6, <1>7 DEF Unique, RowsOf
  <2>2. CASE flow[f] = None
    <3>1. RowsOf(f) = {} BY <1>6, <1>7, <2>2 DEF RowsOf
    <3>. QED BY <2>1, <2>2, <3>1 DEF Follows
  <2>3. CASE flow[f] # None
    <3>1. PICK i \in 1 .. made : of[i] = f BY <1>6, <2>3
    <3>2. i \in Ids BY <1>4 DEF Ids
    <3>3. rows[i] # None
      <4>1. rows[i] = RowFor(of[i], flow[of[i]], of[i] \in on) BY <1>3, <1>5, <3>1, <3>2
      <4>. DEFINE x == RowFor(f, flow[f], f \in on)
      <4>2. rows[i] \in RowOrNone BY <1>0, <3>2, Each
      <4>3. x \in Row
        <5>1. flow[f] \in Configs BY <2>3, ScheduleAssumption DEF Init
        <5>2. now \in Times BY <1>0, Each
        <5>3. CASE f \in on
          <6>1. (f \in on) = TRUE BY <5>3
          <6>2. x = RowFor(f, flow[f], TRUE) BY <6>1
          <6>. QED BY <5>1, <5>2, <6>2, RowForType
        <5>4. CASE ~(f \in on)
          <6>1. (f \in on) = FALSE BY <5>4
          <6>2. x = RowFor(f, flow[f], FALSE) BY <6>1
          <6>. QED BY <5>1, <5>2, <6>2, RowForType
        <5>. QED BY <5>3, <5>4
      <4>. QED BY <3>1, <4>1, <4>3, ScheduleAssumption
    <3>4. RowsOf(f) = {i} /\ Fits(i, flow[f])
      <4>1. rows[i].target = f /\ Fits(i, flow[f]) BY <1>7, <3>1, <3>2, <3>3
      <4>2. \A j \in RowsOf(f) : j \in 1 .. made /\ of[j] = f BY <1>7 DEF RowsOf
      <4>3. \A j \in RowsOf(f) : j = i BY <1>6, <3>1, <4>2
      <4>4. i \in RowsOf(f) BY <3>2, <3>3, <4>1 DEF RowsOf
      <4>. QED BY <4>1, <4>3, <4>4
    <3>5. flow[f] \notin {None, Plain, Gone}
      <4>1. flow[f] \in Configs BY <2>3, ScheduleAssumption DEF Init
      <4>. QED BY <4>1, ScheduleAssumption
    <3>. QED BY <2>1, <3>2, <3>4, <3>5 DEF Follows
  <2>. QED BY <2>2, <2>3
<1>. QED BY <1>1, <1>2, <1>8 DEF Serial, RequestTrue, TickTrue

\* Once nothing is under way, a flow that asks for a schedule has exactly one
\* record, as it asks for it now, and any other flow has none: creations,
\* updates, deletions, switches, expiries and the ends of runs, one after the
\* other, never leave a record behind.
THEOREM RecordsFollow == Spec => []RecordFollowsFlow
<1>1. Init => TypeInv /\ RecordInv BY InitTypes, InitRecords
<1>2. TypeInv /\ RecordInv /\ [Next]_vars => TypeInv' /\ RecordInv' BY NextTypes, NextRecords
<1>3. TypeInv /\ RecordInv => RecordFollowsFlow
  <2>. SUFFICES ASSUME TypeInv, RecordInv, Settled, ~mixed, NEW f \in Flows
                PROVE  IF flow[f] \in {None, Plain, Gone} THEN RowsOf(f) = {}
                       ELSE flow[f].mode =>
                              \E i \in Ids :
                                /\ RowsOf(f) = {i}
                                /\ rows[i].cron = flow[f].cron /\ rows[i].ends = flow[f].ends
                                /\ rows[i].input = flow[f].input
                                /\ rows[i].enabled => flow[f].cron # Fallback /\ flow[f].input
    BY DEF RecordFollowsFlow
  <2>1. \A r \in Requests : req[r].pc = "idle" BY WriterIs DEF Settled
  <2>2. ~AtWork(f) BY <2>1 DEF AtWork, Busy
  <2>3. Follows(f) BY <2>2 DEF RecordInv, Serial
  <2>. QED BY <2>3 DEF Follows, Fits, Enables
<1>. QED BY <1>1, <1>2, <1>3, PTL DEF Spec
=============================================================================
