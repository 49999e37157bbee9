------------------------------ MODULE Schedule ------------------------------
(***************************************************************************)
(* Scheduled flows: the Start node of a flow says when it shall run        *)
(* (services/chatflows), a schedule record repeats it with a switch to     *)
(* turn it off (services/schedule), a job of node-cron or of BullMQ fires  *)
(* at the slots of its cron expression (schedule/ScheduleBeat,             *)
(* queue/ScheduleQueue), and every firing loads the record again and runs  *)
(* the flow, skips it or turns the schedule off (schedule/                 *)
(* ScheduleExecutor).                                                      *)
(*                                                                         *)
(* A request is one call that saves, deletes or switches a flow; a tick is *)
(* one firing of a job.  Each step ends at an await of the code, so the    *)
(* steps of requests, ticks and the sync at boot interleave as there.      *)
(***************************************************************************)
EXTENDS Naturals, FiniteSets, FiniteSetsExt, Functions

CONSTANTS
  Flows,        \* the AGENTFLOW chatflows
  Requests,     \* calls that may be in progress together
  Ticks,        \* firings that may be in progress together
  Crons,        \* cron expressions
  Fallback,     \* FALLBACK_CRON_EXPRESSION, stored for an invalid expression
  Slots,        \* Slots[c]: the times c matches; MaxTime recurs
  Configs,      \* what Start nodes may ask for, see Config
  Stored,       \* what the flows stored at the first boot ask for, or None
  Modes,        \* values of isQueueMode to consider
  PageSize,     \* SCHEDULE_BATCH_SIZE
  MaxTime,      \* bound: the clock; MaxTime stands for all later times too
  MaxRows,      \* bound: schedule records ever created
  MaxOps,       \* bound: requests ever made
  MaxRestarts,  \* bound: restarts of a process
  None,         \* no record, no job, no flow
  Plain,        \* a flow whose Start node asks for no schedule
  Gone          \* a deleted flow

Never == MaxTime + 1                 \* the end date of a schedule without one
Times == 0 .. MaxTime
Ids == 1 .. MaxRows                  \* in the order of createdDate

\* What a Start node asks for: cron is Fallback when it is invalid, input is
\* FALSE for an empty text, mode is FALSE when no input mode is chosen.
Config == [cron: Crons, input: BOOLEAN, ends: 0 .. Never, mode: BOOLEAN]

Row == [target: Flows, cron: Crons, enabled: BOOLEAN, input: BOOLEAN,
        ends: 0 .. Never, next: Times]

ASSUME ScheduleAssumption ==
  /\ IsFiniteSet(Flows) /\ IsFiniteSet(Requests) /\ IsFiniteSet(Ticks)
  /\ Requests \cap Ticks = {}
  /\ None # Plain /\ None # Gone /\ Plain # Gone
  /\ \A x \in {None, Plain, Gone} : x \notin Config /\ x \notin Row
  /\ Fallback \in Crons /\ Configs \subseteq Config /\ Stored \subseteq Configs \cup {None}
  /\ Modes \subseteq BOOLEAN
  /\ MaxTime \in Nat \ {0} /\ PageSize \in Nat \ {0} /\ MaxRows \in Nat
  /\ MaxOps \in Nat /\ MaxRestarts \in Nat
  /\ Slots \in [Crons -> SUBSET Times] /\ \A c \in Crons : MaxTime \in Slots[c]

VARIABLES
  queueMode,    \* BullMQ instead of node-cron
  now,          \* the clock
  flow,         \* flow[f]: what the saved flow asks for, None before it exists
  rows,         \* rows[i]: the ScheduleRecord with the id i
  made,         \* records created so far
  jobs,         \* jobs[i]: the cron expression the job of record i repeats at
  fired,        \* the jobs that fired at the present time
  req,          \* req[r]: where the request r is
  tick,         \* tick[t]: where the tick t is
  sync,         \* where _syncAllJobs is
  ops, restarts,
  mixed,        \* two requests or disabling ticks overlapped, or one died
  disturbed,    \* since the boot, two of them or the sync overlapped
  leftover      \* jobs of BullMQ that were there before the boot

store == <<flow, rows, made>>
watch == <<mixed, disturbed, leftover>>
bounds == <<queueMode, now, ops, restarts>>
state == <<store, jobs, fired, req, tick, sync, bounds>>
vars == <<state, watch>>

IdleRequest == [pc |-> "idle", target |-> None, conf |-> None, id |-> 0,
                row |-> None, on |-> FALSE]
IdleTick == [pc |-> "idle", id |-> 0, row |-> None]
NoSync == [pc |-> "off", skip |-> 0, batch |-> <<>>]
Booting == [NoSync EXCEPT !.pc = "page"]

Enabled(i) == rows[i] # None /\ rows[i].enabled
RowsOf(f) == {i \in Ids : rows[i] # None /\ rows[i].target = f}

\* canScheduleEnable, on what the Start node asks for.
CanScheduleEnable(c) == c.mode /\ c.cron # Fallback /\ c.input /\ now < c.ends

\* Mutant: the time after the present one, on no schedule.
NextTick(cron, after) == after + 1

\* The next slot strictly after a time.
ComputeNextRunAt(cron, after) ==
  LET later == {s \in Slots[cron] : s > after}
  IN  IF later = {} THEN MaxTime ELSE Min(later)

\* The requests and ticks about to change a record or a job.
Writers == {r \in Requests : req[r].pc # "idle"}
             \cup {t \in Ticks : tick[t].pc \in {"expire", "drop"}}
Syncing == sync.pc # "off"

\* The record a configuration asks for.
RowFor(f, c, enabled) ==
  [target |-> f, cron |-> c.cron, enabled |-> enabled, input |-> c.input,
   ends |-> c.ends, next |-> ComputeNextRunAt(c.cron, now)]

\* The server boots on the flows and records that are stored; BullMQ still has
\* its jobs, node-cron has none.
Init ==
  /\ queueMode \in Modes /\ now = 0 /\ ops = 0 /\ restarts = 0
  /\ flow \in [Flows -> {c \in Stored : c # None => c.mode}]
  /\ LET asking == {f \in Flows : flow[f] # None} IN
       /\ made = Cardinality(asking) /\ made <= MaxRows
       /\ \E of \in Bijection(1 .. made, asking), on \in SUBSET asking :
            /\ \A f \in on : CanScheduleEnable(flow[f])
            /\ rows = [i \in Ids |-> IF i > made THEN None
                                    ELSE RowFor(of[i], flow[of[i]], of[i] \in on)]
  /\ jobs = [i \in Ids |-> IF queueMode /\ Enabled(i) THEN rows[i].cron ELSE None]
  /\ fired = {}
  /\ req = [r \in Requests |-> IdleRequest]
  /\ tick = [t \in Ticks |-> IdleTick]
  /\ sync = Booting
  /\ mixed = FALSE /\ disturbed = FALSE /\ leftover = {}

-----------------------------------------------------------------------------
(* The requests.  The server listens once the sync at boot is done.        *)

At(r, pc) == req[r].pc = pc
Go(r, pc) == req' = [req EXCEPT ![r].pc = pc]
Done(r) == req' = [req EXCEPT ![r] = IdleRequest]

Begin(r) ==
  /\ At(r, "idle") /\ ~Syncing /\ ops < MaxOps
  /\ ops' = ops + 1
  /\ UNCHANGED <<queueMode, now, restarts, jobs, fired, tick, sync>>

Moves(r) ==
  UNCHANGED <<queueMode, now, ops, restarts, fired, tick, sync>>

\* What follows the save of the flow c; without a mode the request fails there.
AfterFlow(c) ==
  IF c \in {Plain, Gone} THEN "findOld" ELSE IF c.mode THEN "find" ELSE "idle"

Create(r, f, c) ==
  /\ Begin(r) /\ flow[f] = None
  /\ flow' = [flow EXCEPT ![f] = c]
  /\ IF c # Plain /\ AfterFlow(c) = "find"
     THEN req' = [req EXCEPT ![r] = [IdleRequest EXCEPT
                    !.pc = "find", !.target = f, !.conf = c, !.on = TRUE]]
     ELSE UNCHANGED req
  /\ UNCHANGED <<rows, made>>

\* An update or, with c = Gone, a deletion: the flow is read first.
ReadFlow(r, f, c) ==
  /\ Begin(r) /\ flow[f] \notin {None, Gone}
  /\ req' = [req EXCEPT ![r] = [IdleRequest EXCEPT
               !.pc = "write", !.target = f, !.conf = c]]
  /\ UNCHANGED store

WriteFlow(r) ==
  /\ At(r, "write") /\ Moves(r)
  /\ flow' = [flow EXCEPT ![req[r].target] = req[r].conf]
  /\ IF AfterFlow(req[r].conf) = "idle" THEN Done(r) ELSE Go(r, AfterFlow(req[r].conf))
  /\ UNCHANGED <<rows, made, jobs>>

\* createOrUpdateSchedule: findOne, any record of the flow.
FindRow(r) ==
  /\ At(r, "find") /\ Moves(r)
  /\ \/ /\ RowsOf(req[r].target) = {}
        /\ Go(r, "insert")
     \/ \E i \in RowsOf(req[r].target) :
          req' = [req EXCEPT ![r].pc = "save", ![r].id = i, ![r].row = rows[i]]
  /\ UNCHANGED <<store, jobs>>

\* Mutant: an update tells the beat only of an enabled record.
AfterSaveQuiet(r, i, enabled) ==
  IF ~enabled THEN Done(r)
  ELSE req' = [req EXCEPT ![r].pc = "upsert", ![r].id = i, ![r].row = None]

\* A creation tells the beat only of an enabled record; an update always does.
AfterSave(r, i, enabled) ==
  IF req[r].on /\ ~enabled THEN Done(r)
  ELSE req' = [req EXCEPT ![r].pc = IF enabled THEN "upsert" ELSE "delete",
                          ![r].id = i, ![r].row = None]

InsertRow(r) ==
  LET on == CanScheduleEnable(req[r].conf) IN
  /\ At(r, "insert") /\ made < MaxRows /\ Moves(r)
  /\ made' = made + 1
  /\ rows' = [rows EXCEPT ![made + 1] = RowFor(req[r].target, req[r].conf, on)]
  /\ AfterSave(r, made + 1, on)
  /\ UNCHANGED <<flow, jobs>>

\* Mutant: an end date that is no longer asked for stays.
SaveRowKeepsEnd(r) ==
  LET able == CanScheduleEnable(req[r].conf)
      on == able /\ (req[r].on \/ req[r].row.enabled)
      ends == IF req[r].conf.ends = Never THEN req[r].row.ends ELSE req[r].conf.ends IN
  /\ At(r, "save") /\ Moves(r)
  /\ rows' = [rows EXCEPT ![req[r].id] =
                [RowFor(req[r].target, req[r].conf, on) EXCEPT !.ends = ends]]
  /\ AfterSave(r, req[r].id, on)
  /\ UNCHANGED <<flow, made, jobs>>

\* The save of the record as it was found, with what the flow asks for: an
\* update leaves the switch alone unless the schedule cannot be enabled.
SaveRow(r) ==
  LET able == CanScheduleEnable(req[r].conf)
      on == able /\ (req[r].on \/ req[r].row.enabled) IN
  /\ At(r, "save") /\ Moves(r)
  /\ rows' = [rows EXCEPT ![req[r].id] = RowFor(req[r].target, req[r].conf, on)]
  /\ AfterSave(r, req[r].id, on)
  /\ UNCHANGED <<flow, made, jobs>>

\* deleteScheduleForTarget, of a flow that is no longer scheduled or is gone.
FindOldRow(r) ==
  /\ At(r, "findOld") /\ Moves(r)
  /\ \/ RowsOf(req[r].target) = {} /\ Done(r)
     \/ \E i \in RowsOf(req[r].target) :
          req' = [req EXCEPT ![r].pc = "deleteRow", ![r].id = i]
  /\ UNCHANGED <<store, jobs>>

DeleteRow(r) ==
  /\ At(r, "deleteRow") /\ Moves(r)
  /\ rows' = [rows EXCEPT ![req[r].id] = None]
  /\ Go(r, "delete")
  /\ UNCHANGED <<flow, made, jobs>>

\* toggleScheduleEnabled: findOne, then getScheduleStatus when enabling.
Toggle(r, f, on) ==
  /\ Begin(r)
  /\ \E i \in RowsOf(f) :
       req' = [req EXCEPT ![r] = [IdleRequest EXCEPT
                 !.pc = IF on THEN "status" ELSE "toggle",
                 !.target = f, !.id = i, !.row = rows[i], !.on = on]]
  /\ UNCHANGED store

\* Without a record (i = 0) the flow alone decides.
CanEnableNow(f, i) ==
  LET row == IF i = 0 THEN None ELSE rows[i] IN
  /\ flow[f] \notin {None, Gone, Plain}
  /\ flow[f].cron # Fallback /\ flow[f].input
  /\ row = None => flow[f].mode
  /\ now < (IF flow[f].ends # Never \/ row = None THEN flow[f].ends ELSE row.ends)

\* A record that was deleted since it was found is no obstacle.
ScheduleStatus(r) ==
  /\ At(r, "status") /\ Moves(r)
  /\ \E i \in RowsOf(req[r].target) \cup {0} :
       /\ i = 0 => RowsOf(req[r].target) = {}
       /\ IF CanEnableNow(req[r].target, i) THEN Go(r, "toggle") ELSE Done(r)
  /\ UNCHANGED <<store, jobs>>

SaveToggle(r) ==
  /\ At(r, "toggle") /\ Moves(r)
  /\ rows' = [rows EXCEPT ![req[r].id] = [req[r].row EXCEPT !.enabled = req[r].on]]
  /\ req' = [req EXCEPT ![r].pc = IF req[r].on THEN "upsert" ELSE "delete", ![r].row = None]
  /\ UNCHANGED <<flow, made, jobs>>

\* ScheduleBeat.onScheduleChanged.
NotifyDelete(r) ==
  /\ At(r, "delete") /\ Moves(r)
  /\ jobs' = [jobs EXCEPT ![req[r].id] = None]
  /\ Done(r)
  /\ UNCHANGED store

NotifyUpsert(r) ==
  /\ At(r, "upsert") /\ Moves(r)
  /\ req' = [req EXCEPT ![r].pc = "apply", ![r].row = rows[req[r].id]]
  /\ UNCHANGED <<store, jobs>>

ApplyUpsert(r) ==
  LET row == req[r].row IN
  /\ At(r, "apply") /\ Moves(r)
  /\ jobs' = [jobs EXCEPT ![req[r].id] =
                IF row = None THEN None ELSE IF row.enabled THEN row.cron ELSE None]
  /\ Done(r)
  /\ UNCHANGED store

RequestStep(r) ==
  \/ WriteFlow(r) \/ FindRow(r) \/ InsertRow(r) \/ SaveRow(r)
  \/ FindOldRow(r) \/ DeleteRow(r) \/ ScheduleStatus(r) \/ SaveToggle(r)
  \/ NotifyDelete(r) \/ NotifyUpsert(r) \/ ApplyUpsert(r)

-----------------------------------------------------------------------------
(* The ticks.                                                              *)

TickAt(t, pc) == tick[t].pc = pc
TickGo(t, pc) == tick' = [tick EXCEPT ![t].pc = pc]
TickDone(t) == tick' = [tick EXCEPT ![t] = IdleTick]
TickMoves == UNCHANGED <<bounds, fired, flow, made, req, sync>>

\* A job fires once at a slot of its expression (MaxTime is every later slot);
\* a queued one is taken later.
Fire(t, i) ==
  /\ TickAt(t, "idle") /\ i \notin fired
  /\ jobs[i] # None /\ now \in Slots[jobs[i]]
  /\ fired' = IF now < MaxTime THEN fired \cup {i} ELSE {}
  /\ tick' = [tick EXCEPT ![t] = [IdleTick EXCEPT !.pc = "load", !.id = i]]
  /\ UNCHANGED <<bounds, store, jobs, req, sync>>

Expired(row) == now >= row.ends \/ ~row.input

\* Mutant: a firing right at nextRunAt is too early.
NotYetOrNow(row) == row.next >= now

NotYet(row) == row.next > now

\* What executeScheduleJob does with the record it loaded; a skipped firing
\* only writes a log.
Verdict(row) ==
  IF row = None THEN "drop"
  ELSE IF ~row.enabled THEN "drop"
  ELSE IF Expired(row) THEN "expire"
  ELSE IF NotYet(row) THEN "idle" ELSE "run"

Load(t) ==
  /\ TickAt(t, "load") /\ TickMoves
  /\ LET row == rows[tick[t].id] IN
       IF Verdict(row) = "idle" THEN TickDone(t)
       ELSE tick' = [tick EXCEPT ![t].pc = Verdict(row), ![t].row = row]
  /\ UNCHANGED <<rows, jobs>>

\* onRecordExpiredOrInvalid saves the record that was loaded.
Expire(t) ==
  /\ TickAt(t, "expire") /\ TickMoves
  /\ rows' = [rows EXCEPT ![tick[t].id] = [tick[t].row EXCEPT !.enabled = FALSE]]
  /\ TickGo(t, "drop")
  /\ UNCHANGED jobs

Drop(t) ==
  /\ TickAt(t, "drop") /\ TickMoves
  /\ jobs' = [jobs EXCEPT ![tick[t].id] = None]
  /\ TickDone(t)
  /\ UNCHANGED rows

\* The flow is read when the run begins, and the run fails without it.
Run(t) ==
  /\ TickAt(t, "run") /\ TickMoves
  /\ IF flow[tick[t].row.target] = Gone THEN TickDone(t) ELSE TickGo(t, "running")
  /\ UNCHANGED <<rows, jobs>>

Fail(t) ==
  /\ TickAt(t, "running") /\ TickMoves
  /\ TickDone(t)
  /\ UNCHANGED <<rows, jobs>>

\* The end of a run that went well: updateScheduleAfterRun, with the expression
\* as it was before the run.
Succeed(t) ==
  LET i == tick[t].id IN
  /\ TickAt(t, "running") /\ TickMoves
  /\ IF rows[i] = None THEN UNCHANGED rows
     ELSE rows' = [rows EXCEPT ![i].next = ComputeNextRunAt(tick[t].row.cron, now)]
  /\ TickDone(t)
  /\ UNCHANGED jobs

TickStep(t) ==
  \/ Load(t) \/ Expire(t) \/ Drop(t) \/ Run(t)
  \/ Succeed(t) \/ Fail(t)

-----------------------------------------------------------------------------
(* The sync at boot, restarts and the clock.                               *)

SyncMoves == UNCHANGED <<bounds, fired, store, req, tick>>

\* getEnabledSchedulesBatch: the next page of the enabled records, by age.
Rank(i) == Cardinality({j \in 1 .. i : Enabled(j)})
Page == {i \in Ids : Enabled(i) /\ Rank(i) \in (sync.skip + 1) .. (sync.skip + PageSize)}

SyncPage ==
  /\ sync.pc = "page" /\ SyncMoves
  /\ sync' = IF Page = {} THEN NoSync
             ELSE [pc |-> "job", skip |-> sync.skip + Cardinality(Page),
                   batch |-> [i \in Page |-> rows[i]]]
  /\ UNCHANGED jobs

SyncJob ==
  LET i == Min(DOMAIN sync.batch)
      rest == DOMAIN sync.batch \ {i} IN
  /\ sync.pc = "job" /\ SyncMoves
  /\ jobs' = [jobs EXCEPT ![i] = sync.batch[i].cron]
  /\ sync' = IF rest = {} THEN [sync EXCEPT !.pc = "page", !.batch = <<>>]
             ELSE [sync EXCEPT !.batch = Restrict(sync.batch, rest)]

\* The server dies and boots again: requests are lost and, with node-cron, so
\* are the ticks and every job.
Restart ==
  /\ restarts < MaxRestarts
  /\ restarts' = restarts + 1
  /\ req' = [r \in Requests |-> IdleRequest]
  /\ sync' = Booting
  /\ IF queueMode THEN UNCHANGED <<tick, jobs>>
     ELSE /\ tick' = [t \in Ticks |-> IdleTick]
          /\ jobs' = [i \in Ids |-> None]
  /\ UNCHANGED <<queueMode, now, ops, fired, store>>

\* A worker dies: BullMQ hands some of its stalled jobs out again.
WorkerRestart ==
  /\ queueMode /\ restarts < MaxRestarts
  /\ restarts' = restarts + 1
  /\ \E again \in SUBSET {t \in Ticks : tick[t].pc # "idle"} :
       tick' = [t \in Ticks |-> IF t \in again
                                THEN [tick[t] EXCEPT !.pc = "load", !.row = None]
                                ELSE IdleTick]
  /\ UNCHANGED <<queueMode, now, ops, fired, store, jobs, req, sync>>

Advance ==
  /\ now' = IF now < MaxTime THEN now + 1 ELSE now
  /\ fired' = {}
  /\ UNCHANGED <<queueMode, ops, restarts, store, jobs, req, tick, sync>>

-----------------------------------------------------------------------------
(* What the properties remember about the past.                            *)

Overlap == Cardinality(Writers) > 1
Died == Writers # {} /\ restarts' > restarts
Boots == sync' = Booting /\ sync # Booting

Watch ==
  /\ mixed' = (mixed \/ Overlap' \/ Died)
  /\ disturbed' = ((disturbed /\ ~Boots) \/ Overlap'
                     \/ (Syncing' /\ Writers' # {}) \/ (Died /\ ~Boots))
  /\ leftover' = IF Boots THEN {i \in Ids : jobs'[i] # None} ELSE leftover \ {i \in Ids : jobs'[i] = None}

Request(r) ==
  \/ \E f \in Flows, on \in BOOLEAN : Toggle(r, f, on)
  \/ \E f \in Flows, c \in Configs \cup {Plain} : Create(r, f, c)
  \/ \E f \in Flows, c \in Configs \cup {Plain, Gone} : ReadFlow(r, f, c)

Step ==
  \/ \E r \in Requests : Request(r) \/ RequestStep(r)
  \/ \E t \in Ticks : TickStep(t) \/ \E i \in Ids : Fire(t, i)
  \/ SyncPage \/ SyncJob
  \/ Restart \/ WorkerRestart \/ Advance

Next == Step /\ Watch

\* A process that is up goes on with what it has begun, time passes, and the
\* cron library or BullMQ fires a job that stays registered at its slots.
Fairness ==
  /\ WF_state(\E r \in Requests : RequestStep(r))
  /\ WF_state(\E t \in Ticks : TickStep(t))
  /\ WF_state(SyncPage \/ SyncJob) /\ WF_state(Advance)
  /\ \A i \in Ids : SF_state(\E t \in Ticks : Fire(t, i))

Spec == Init /\ [][Next]_vars
LiveSpec == Spec /\ Fairness

-----------------------------------------------------------------------------
(* Properties.                                                             *)

RowOrNone == Row \cup {None}
RequestStates == {"idle", "find", "insert", "save", "write", "findOld", "deleteRow",
                  "status", "toggle", "delete", "upsert", "apply"}
TickStates == {"idle", "load", "drop", "expire", "run", "running"}

\* Every variable has its type; records, jobs and steps keep to their shapes.
TypeOK ==
  /\ queueMode \in BOOLEAN /\ now \in Times
  /\ ops \in 0 .. MaxOps /\ restarts \in 0 .. MaxRestarts /\ made \in 0 .. MaxRows
  /\ flow \in [Flows -> Configs \cup {None, Plain, Gone}]
  /\ rows \in [Ids -> RowOrNone]
  /\ jobs \in [Ids -> Crons \cup {None}]
  /\ fired \subseteq Ids /\ leftover \subseteq Ids
  /\ req \in [Requests -> [pc: RequestStates, target: Flows \cup {None},
                           conf: Configs \cup {None, Plain, Gone},
                           id: 0 .. MaxRows, row: RowOrNone, on: BOOLEAN]]
  /\ tick \in [Ticks -> [pc: TickStates, id: 0 .. MaxRows, row: RowOrNone]]
  /\ sync.pc \in {"off", "page", "job"} /\ sync.skip \in Nat
  /\ mixed \in BOOLEAN /\ disturbed \in BOOLEAN

Settled == Writers = {} /\ ~Syncing

\* Once nothing is under way, every enabled record has a job that repeats at
\* the record's present cron expression and no other record has one, whatever
\* saves, switches, expiries, deletions and restarts came before, as long as
\* no two of them overlapped since the boot.  Only BullMQ may keep, over a
\* boot, the job of a record that a dying request had changed.
JobsFollowRecords ==
  Settled /\ ~disturbed =>
    \A i \in Ids : IF Enabled(i) THEN jobs[i] = rows[i].cron
                   ELSE jobs[i] = None \/ i \in leftover

\* Once nothing is under way, a flow that asks for a schedule has exactly one
\* record, with what it asks for now, and enabled only if it could be; any
\* other flow has none.  (Serial histories without a request that died.)
RecordFollowsFlow ==
  Settled /\ ~mixed =>
    \A f \in Flows :
      IF flow[f] \in {None, Plain, Gone} THEN RowsOf(f) = {}
      ELSE flow[f].mode =>
             \E i \in Ids :
               /\ RowsOf(f) = {i}
               /\ rows[i].cron = flow[f].cron /\ rows[i].ends = flow[f].ends
               /\ rows[i].input = flow[f].input
               /\ rows[i].enabled => flow[f].cron # Fallback /\ flow[f].input

\* However requests, ticks and restarts overlap, no job idles for ever: it is
\* removed, which is what becomes of one whose record is gone or turned off, or
\* it runs the flow, so that nextRunAt never holds a schedule back for good.
JobsRunOrGo ==
  \A i \in Ids :
    jobs[i] # None ~> \/ jobs[i] = None
                     \/ \E t \in Ticks : tick[t].id = i /\ TickAt(t, "run")
=============================================================================
