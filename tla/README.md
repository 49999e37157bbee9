# Flow-Wiser: a verification development in TLA+

Flow-Wiser is a server that runs flows drawn on a canvas. This directory holds
TLA+ models of the parts of it where several requests, processes or stored
records meet, the TLC configurations that check them on small instances, and
proofs checked by TLAPS that hold for every instance. Paths below are relative
to `src/packages/server/src` unless they start with `src/`.

Modelled: the **AgentFlow engine** with its Execution rows, the **version store**
with the saves, restores and deletions that feed it, **schedules**, **prediction
requests** and webhooks with their streams, abort controllers, workers and count,
**sessions**, and the **second factor** with its recovery codes. All are checked
and proved about. Section 6 says what is left out.

## 1. Inventory

| Component | State it keeps | Operations | What makes it hard | What makes it correct |
|---|---|---|---|---|
| AgentFlow engine (`utils/buildAgentflow.ts`) | per request: queue, waiting nodes, record, loop counts, human input; shared: Execution rows | start, resume, retry, run a node, pause, fail, abort, finish | requests of one session overlap on a row that is read, merged and saved; joins of parallel and conditional branches; a resume works on a record written by an earlier request and perhaps on an edited flow | settled rows tell the truth about their record; no row is left in progress by a live server; an answer opens the gate it is for, once; no node starves or runs twice |
| Execution rows (`database/entities/Execution.ts`, `services/executions`) | state and record per row | add, update, list, delete | several writers, none conditional | a life without going back: running, paused, running, closed |
| Version store (`versioning/*`) | working tree, index, branch of one git repository | captureFlow, captureDeletion, history, readAt, tag | captures overlap and may stop anywhere; a flow is two files | history is complete, append-only and names the right people |
| Chatflow service (`services/chatflows`) | ChatFlow rows | create, update, delete, publish | calls versioning and schedules after the row is saved | the row and what is derived from it agree at rest |
| Schedules (`schedule/*`, `queue/ScheduleQueue.ts`, `services/schedule`) | schedule records, repeat jobs of node-cron or BullMQ | save or delete a flow, switch, fire, sync at boot | flow, record and job change one after the other; a tick works on a record it loaded earlier; the sync pages by offset | at rest flow, record and job agree; no job idles for ever |
| Predictions and abort pool (`utils/buildChatflow.ts`, `AbortControllerPool.ts`, `utils/SSEStreamer.ts`, `queue/PredictionQueue.ts`, `queue/RedisEventSubscriber.ts`, `commands/worker.ts`) | controllers by flow and chat; streams and channels by chat; a job queue | predict, stream, abort, clean up | keys come from the client and are shared by overlapping requests; aborts and subscriptions are messages | a request that overlaps with none of its key keeps its stream and can be aborted; nothing is left behind |
| Sessions (`identity/services/SessionService.ts`, `AuthService.ts`) | the user row, session rows with a secret hash | sign in, validate, refresh, sign out, change or reset the password | refreshes race each other, a revocation and a change, which is three statements | one secret is good once; what has ended stays ended |
| Second factor (`identity/services/TotpService.ts`, `RecoveryCodeService.ts`, `routes/mfa.ts`) | factors with a watermark, batches of codes | enrol, confirm, verify, disable, generate, consume | concurrent use of one code; enrolments that race | a code is good once, and only while its batch is current |
| Credential rotation (`commands/credential/rotate-encryption.ts`, `utils/credentialEnvelope.ts`) | credential rows, keyring | encrypt, decrypt, rotate all | rotation writes from rows read earlier | no credential is lost or made unreadable |
| Usage quotas (`utils/quotaUsage.ts`) | counters in a cache | check, add | check and increment are apart | usage never exceeds the limit by more than what is in flight |
| Webhook listeners (`services/webhook-listener/registry.ts`, `queue/Redis*.ts`) | leases, subscriptions | register, renew, dispatch | leases end while events are on their way | an event reaches a listener that is still there |
| Identity migration, document stores, other CRUD services, legacy graphs, node library, user interfaces, API docs | rows, external stores, browser state | - | little protocol of their own | listed in PROJECT.json with the reason each is left out |

How they interact. A prediction request looks up the flow, registers an abort
controller and calls the engine, directly or through the prediction queue; a
webhook does the same. A schedule tick calls the engine with neither a stream nor
a controller, and counts as a prediction. The engine reads and writes Execution
rows and nothing else that other requests see. A save of the canvas writes the
ChatFlow row, then updates the schedule record and tells the beat, then captures
a version. A restore is an ordinary save of old content. Sessions guard all of
these; quotas are read before a run and written after it.

The hazards of this code, each with its line and with the properties that watch
it, are listed in PROJECT.json.

## 2. Modules

| Module | Models | Composes |
|---|---|---|
| `AgentFlowGraph` | a flow and the engine's pure routing functions: decision parents, joins, branches to ignore, fan-out to children | - |
| `AgentFlow` | `executeAgentFlow` for all requests of one session; safety of the session | extends `AgentFlowGraph`; implements `ExecutionLifecycle` |
| `ExecutionLifecycle` | abstract: what the rows of a session promise their readers | - |
| `AgentFlowRouting` | what routing owes the author of a flow, by shape of flow | extends `AgentFlow` |
| `FlowHistory` | abstract: what the history of a flow promises | - |
| `VersionStore` | requests that save, restore and delete flows, and their captures, step by step | implements `FlowHistory` |
| `Schedule` | scheduled flows: requests, ticks, the sync at boot, restarts, the clock | flows, records and jobs of `services/chatflows`, `services/schedule` and `schedule/*` |
| `Sessions` | the sessions of one account, statement by statement | `SessionService`, `AuthService` and two operator commands |
| `SecondFactor` | the factors and recovery codes of one account | `TotpService`, `RecoveryCodeService`, the routes and an operator command |
| `Prediction` | prediction requests, webhooks and runs of schedules at one server, in direct and queue mode | streams, abort pools, workers and the count |
| `MCAgentFlowSession`, `MCAgentFlowRouting`, `MCVersionStore`, `MCSchedule`, `MCSessions`, `MCSecondFactor`, `MCPrediction` | instances for TLC | |
| `FoldLemmas`, `AgentFlowProofs`, `AgentFlowRoutingProofs`, `VersionStoreProofs`, `SessionsProofs`, `SecondFactorProofs`, `PredictionProofs`, `ScheduleProofs` | proofs | |

Operators named as mutants in a comment are not part of any specification: each
is a plausible bug in the definition it stands before, and shows that a property
would notice it.

### AgentFlow and the code

`run[r]` holds the local variables of `executeAgentFlow` (queue, `waitingNodes`,
`loopCounts`, `agentFlowExecutedData`, `currentHumanInput`, `iterations`);
`execs` the Execution rows of the session in the order of `createdDate`;
`pc` where the request is between two database calls.

| Action | Code |
|---|---|
| `Start`, `RejectStart` | the branch without human input: `checkForMultipleStartNodes`, start node, `addExecution` |
| `Resume`, `RejectResume` | the branch with human input: newest row, resumable states, the node named or last stopped, refusals |
| `TrimError` | a retry first stores the record without its error entry |
| `ClaimRead`, `ClaimSave` | `updateExecution({state: INPROGRESS})`: `findOneBy`, then merge and save. Two actions, since another request may write in between |
| `PauseNode`, `FinishNode`, `FailNode`, `AbortNode`, `SkipUnknown`, `IterationLimit` | one turn of the `while` loop, with `executeNode`, `processNodeOutputs` or the catch block |
| `Complete` | the final status and the last `updateExecution` |
| `Abort`, `Crash`, `EditFlow` | the environment: `abortChatMessage`, the death of a process, a save of the canvas between two requests |

Abstractions. A node run is its outcome; its output, messages and streaming are
left out. The other calls of `updateExecution` write both fields of the row, so
what they load does not matter and each is one action. `Abort` may hit any active
request at any time, which covers whatever the abort pool may do. Sticky notes,
which the engine filters out, are not nodes. The ignored and skipped branches of
a condition come from its outcome, chosen freely. The order of rows by creation
date is taken to be total. The sub-flow of an Iteration node is not modelled.

`AgentFlowRouting` states its properties for shapes of flow. `OnCanvas` is what
the canvas lets an author draw: `isValidConnectionAgentflowV2` refuses an edge
that closes a cycle, an edge is stored once under its id, and only decision nodes
have more than one handle. `SimpleHandles` and `WellFormed` are narrower, and are
not enforced by any code: they say for which flows the engine does what its
author expects.

### VersionStore and the code

`row` is the ChatFlow row (and, as an auxiliary, who wrote it), `file`, `index`
and `log` the working tree, index and branch of the repository, `task[r]` where
a request is in its save and capture. A content is the pair of normalised texts
of `flows/<id>.json` and `meta/<id>.json`.

| Action | Code |
|---|---|
| `Create`, `Update`, `Restore`, `Delete` | the request reads what it needs: the row, and for a restore the file at a commit |
| `SaveRow`, `DeleteRow` | the write of the row in `services/chatflows` |
| `CompareFile`, `WriteFile`, `Add`, `Commit` | `captureFlow`: one action for each await, first the flow file, then the meta file |
| `RemoveFile`, `Unstage`, `Commit` | `captureDeletion` |
| `Interrupt` | an error that `captureFlowVersion` swallows, or the death of the process, at any await of the capture |

Abstractions. git is a library: `add`, `remove` and `commit` are atomic, as its
index lock makes them. `writeFile` is atomic. Messages, timestamps, tags, the depth limit of
`git.log` (100 entries, unless the caller asks for more), and the
lookup of the acting user are left out: the author is the request. Flow ids are
never used again. Flows brought in by an import are not captured by the code and
are not modelled.

### Schedule and the code

`flow[f]` is what the Start node of the saved flow asks for, `rows` the
`ScheduleRecord`s in the order of their creation, `jobs[i]` the cron expression
at which the job of record `i` repeats, `req`, `tick` and `sync` where the
requests, the firings and `_syncAllJobs` are between two awaits. A cron
expression is the set of times it matches.

| Action | Code |
|---|---|
| `Create`, `ReadFlow`, `WriteFlow` | `saveChatflow`, `updateChatflow`, `deleteChatflow`: the flow first, then the schedule of what it says |
| `FindRow`, `InsertRow`, `SaveRow` | `createOrUpdateSchedule`; the save writes the row as it was found, with new fields |
| `FindOldRow`, `DeleteRow` | `deleteScheduleForTarget` |
| `Toggle`, `ScheduleStatus`, `SaveToggle` | `toggleScheduleEnabled` and `getScheduleStatus` |
| `NotifyDelete`, `NotifyUpsert`, `ApplyUpsert` | `ScheduleBeat.onScheduleChanged`: it reads the record again and replaces the job |
| `Fire`, `Load`, `Expire`, `Drop`, `Run`, `Succeed`, `Fail` | a firing and `executeScheduleJob`: verdict on the loaded record, the two callbacks, the run, `updateScheduleAfterRun` |
| `SyncPage`, `SyncJob` | `_syncAllJobs` with its offset |
| `Restart`, `WorkerRestart`, `Advance` | a server or worker that dies and boots; time |

Abstractions. Trigger logs, database errors, several API replicas and what a run
does are left out; a run ends well or badly at any time. One firing at a time
is modelled, so two ticks of one job do not overlap. The two reads of
`getScheduleStatus` are one action. `toggleScheduleEnabled` goes on when the
record it found is gone by then but the flow asks for a schedule again, and its
save brings the record back: that takes three requests, one more than the run
has, so only the theorems cover it.

### Sessions and the code

`user` is the user row, `rows` the session rows, `home[k]` the session that the
cookie with secret `k` names, `req[r]` a request with what it has read.

| Action | Code |
|---|---|
| `Login`, `Scope`, `Insert`, `Rehash` | `AuthService.login`, `SessionService.issue`, `upgradeStoredHash` |
| `Change`, `Stamp`, `WriteUser`, `RevokeAll` | `changeOwnPassword` and the `reset-password` command: verify, hash, store, `revokeAllForUser` (which may fail and be ignored), and a new session for the holder |
| `Present`, `ReadRow`, `ReadUser` | `SessionService.validate`: two reads |
| `Rotate` | `refresh`: the conditional update |
| `Logout`, `SignOutAll` | `revoke`, the `session:revoke-all` command |
| `Leave`, `Abandon`, `Tick` | the answer; a failure or death of the process at any await; time |

Abstractions. A hash is what it is the hash of. The lockout, several accounts,
peppers, `touch`, the cookie jar and SSO are left out, and so is the command that
clears the demand for a new password. `from`, `proven`, `handed`, `raced` and
`regressed` are auxiliaries that remember the past for the properties.

### SecondFactor and the code

`factors` are the `MfaFactor` rows with the step that `lastUsedDate` holds,
`created` and `unused` the batches and the codes whose `consumedDate` is NULL;
`spent` counts redemptions and `burned` holds the codes the operator's command
dated.

| Action | Code |
|---|---|
| `Enrol`, `SaveFactor` | `TotpService.enrol`: two statements |
| `Check`, `Commit` | `confirm` and `verify`: the rows are read and the code compared; `commitStep` is conditional on the watermark |
| `Status`, `Generate` | the route after a confirmation: `status`, then `RecoveryCodeService.generate` |
| `ByPassword`, `Disable` | `disable` of one factor or all, after a code or the password |
| `Consume`, `Match`, `Redeem` | `consume`: the current batch, its unused codes, the conditional update |
| `ReadFactors`, `ReadCodes`, `Burn` | the `mfa:disable` command: the factors are read; in a transaction the unused codes are read, and then dated by their ids alone |
| `Leave`, `Abandon`, `Tick` | the answer; a failure or death at any await; time |

Abstractions. A code of an authenticator is its factor and time step; a recovery
code its batch and number; hashing and encryption are left out, as is
`MfaPolicyService`. The updates of the command's transaction are one action, since
nobody sees them before it commits; its read is an action of its own, since at the
default isolation of Postgres and MySQL it locks nothing. (SQLite refuses the
redemption or the command there, which is `Abandon`.) `routes/mfa.ts` says of itself that it is not mounted: the
module models what its handlers do over the services. Dates of batches have the
resolution of a second, so two may be newest.

### Prediction and the code

`req[r]` is a request with the door it comes in by (a prediction, a webhook, or a
schedule), its flow and its chat; `pool` and `workerPool` are the
`AbortControllerPool`s, `clients` the map of the `SSEStreamer`, `channels`
`subscribedChannels`, `wire` the commands that Redis has yet to answer, `events`
the abort events under way.

| Action | Code |
|---|---|
| `Arrive`, `Leave` | `createPrediction`, `createAndStreamInternalPrediction` and `createWebhook`: `addClient`, and `subscribe` unless it is a webhook; the error handler and the `finally` blocks, where a webhook removes the client of its chat even if it did not stream |
| `Forbid` | `createPrediction` from an origin that is not allowed |
| `AbortSpeech`, `WriteFails` | `streamTTSAbortEvent`, which ends and deletes the client of a chat, whatever it is there for; a write, or a heartbeat, that throws |
| `Fire`, `Finish` | `_executeAgentflow` of a schedule: `checkPredictions`, the run; then the same `ReadUsage` and `WriteUsage` |
| `Answer`, `Sweep` | Redis answers a command; `startPeriodicCleanup` |
| `NotFound`, `Refuse`, `Admit` | `utilBuildChatflow` up to `checkPredictions`, and its catch block |
| `RunHere`, `Enqueue`, `Succeed`, `Fail` | `executeFlow` here, or a job; the removal of the controller |
| `ReadUsage`, `WriteUsage` | `updatePredictionsUsage`: read, then write |
| `Pick`, `Crash` | `PredictionQueue.processJob` on a worker; a worker that dies and its stalled jobs |
| `AbortHere`, `Publish`, `Deliver` | `abortChatMessage` in the two modes; the listener of `commands/worker` |

Abstractions. One server that does not die; no errors of Redis; the content of a
stream and the monthly expiry of the count are left out. So are the observers
of a stream and the webhook listeners: a listener that watches a flow subscribes to
the channels of its executions and would keep one that the model gives up. An
asynchronous webhook is one whose answer is sent when it arrives, or at any rate
by its end. An internal streaming request without a chat id has the client key
`undefined` in the code; here every request has a chat. A scheduled run's chat is
new, so it has none here, and it has neither a stream nor a controller; the death of
the worker it is on is left out. The write of the count is not awaited
(`utils/quotaUsage.ts:101`), but the cache is in the memory of the server, or answers
a connection in order, so a later read sees it. `streamTTSAbortEvent` is called by
the abort of a speech; nothing in the repository publishes the `tts_abort` event by
which `RedisEventSubscriber` would call it too. A limit exists only where a
subscription sets one. `met`, `asked`, `counted` and `lost` are auxiliaries.

## 3. Runs

The longest runs are `schedule` (about two minutes), `sessions` (5.6 million
states) and `prediction` (3 million). `CHECK_DEADLOCK FALSE` is set wherever the
model has a fixed number of requests and stops when they are done; time always
goes on in `schedule`, where deadlock is checked.

| Run | Instance | Shows |
|---|---|---|
| `session` | eight flows, three requests that may overlap, every event except edits | `TypeOK`; a settled row agrees with its record (`StateMatchesRecord`); an INPROGRESS row has somebody at work on it, or a crash or the iteration limit left it (`InProgressIsOwned`); a gate is passed only with an answer given for it (`GateNeedsOwnAnswer`), and an answer passes one gate (`AnswerSpentOnce`) |
| `serial` | three flows, three requests one after another, with edits in between | the rows implement `ExecutionLifecycle` (`LifecycleKept`) |
| `live` | five flows, two requests, every event | under fairness each request ends (`RequestsEnd`) |
| `routing` | every acyclic flow of four nodes over chosen kinds in two edge orders, and of five nodes over a narrower choice; two requests | `UnconditionalNodesRun`, `JoinsFireOnce`, `LoopIsBounded`, `AnswerObeyedIfSimple` |
| `overlap` (violation) | two gates, three requests | two resumes of one pause that overlap: one reopens an execution that the other has finished |
| `versions` | two flows, three contents, three requests that may overlap, fail and delete | `TypeOK`; the history implements `FlowHistory` while captures neither overlap nor fail (`HistoryKept`), and misses no edit (`LastVersionIsCurrent`); overlapping captures leave nothing uncommitted (`QuietTreeIsCommitted`) |
| `lost_version` (violation) | failures, no overlap | after a failed capture, the next save of the same content records nothing |
| `schedule` | one flow, two cron expressions with different slots, an expression that cannot be enabled, an end date; two requests and a tick at a time, a restart, both backends | `TypeOK`; flow, record and job agree at rest (`RecordFollowsFlow`, `JobsFollowRecords`); under fairness a job that stays fires until it runs the flow (`JobsRunOrGo`) |
| `sessions` | two sessions, three secrets, three passwords, two requests at a time of four, four instants | `TypeOK`; `SecretSpentOnce`, `RevokedStays`, `EndedStaysOut`, `OnlyPresentPassword`, `HandedIsForced` |
| `second_factor` | three factors, two batches of two codes, two requests at a time of six, three steps with a window of one | `TypeOK`; `StepSpentOnce`, `CodeSpentOnce`, `SupersededStaysOut`, `PendingBounded`, `WatermarkAdvances`, `GoodCodeWorks` |
| `second_factor_last` (violation) | the same | the recovery codes outlive the last factor |
| `prediction` | three predictions, webhooks or runs of schedules, two flows, one chat, one worker that may die, one abort, one stream that may be lost, a limit of one, both modes; `MCApart` bounds how these meet, see below | `TypeOK`; `LoneRunIsAbortable`, `AbortIsNotLost`, `OnlyAskedStop`, `LoneStreamIsKept`, `QuietLeavesNothing`, `OvershootIsOverlap` |

The three violations are disagreements between the code and what its comments
say; PROJECT.json quotes the lines.

What the properties leave to the code. Several properties hold only under a
condition they name, and the condition is there because the code does something
else without it:

- A fork beside a gate that pauses loses the queued siblings, and only the first
  edge drawn from the handle of a condition is held back (`UnconditionalNodesRun`,
  `AnswerObeyedIfSimple`).
- Captures that overlap may commit an edit under the name of another user
  (`HistoryKept` asks that they do not overlap).
- The sync at boot pages by offset, so a record can be passed over while ticks
  disable others; two saves of one flow may leave two records; a tick may write
  an old record back, and a switch a deleted one (`disturbed`, `mixed`).
  `JobsFollowRecords` and `RecordFollowsFlow` exclude these overlaps and so would not
  notice that one of them got worse; `JobsRunOrGo` excludes none.
- A login that upgrades the hash beside a password change restores the old
  password (`regressed`), which `EndedStaysOut`, `OnlyPresentPassword` and
  `HandedIsForced` exclude.
- Two streams of one chat end or orphan each other, a webhook without a stream
  ends the stream of its chat, and two runs of one flow and chat take each other's
  controller (`LoneStream`, `LoneRun`). An abort of speech ends a prediction's
  stream while it runs (`lost`). `QuietLeavesNothing` excludes none of these. In
  queue mode a late abort may stop the next run of its flow and chat
  (`OnlyAskedStop` is about direct mode).
- `mfa:disable` dates by id alone the codes it read as unused before, so that a
  redemption in between loses its date and the code is both redeemed and burned,
  although the comment at `commands/mfa/disable.ts:76` says that consumed rows keep
  theirs. `CodeSpentOnce` is about the other order: what is burned is never redeemed.
- In queue mode nobody subscribes for the stream of a webhook
  (`controllers/webhook/index.ts:88`), so that, unless a listener or another stream of
  the chat has subscribed, it gets no event of its run but the metadata at the end.
  `LoneStreamIsKept` asks for the channel of predictions only.

Bounds, and why they are enough. Three requests are what the longest
interesting histories of a session need: start, resume, and a retry or a second
resume that overlaps. Two gates in sequence, in parallel and in a loop are the
ways an answer can meet a gate that it is not for. `MaxIterations` is 4 so that
the limit is reached (`Spin`), and 20, out of reach, where routing is
the question. A join needs a decision node, two branches and a join behind them,
which is five nodes with the start; both edge orders matter because the code
takes the first edge found. For the version store, two requests can disturb
each other and the third is the next save; three contents differ in one file, the
other, or both.

For schedules, two records are what it takes to pass one over, two requests to
disturb each other, and `MaxTime` stands for every later time, at which every
expression matches, so that nothing is lost at the horizon. For sessions, a
third secret is one that a refresh makes from the second; two requests at a time
race, and the others of the four set the scene. For the second factor, one
factor is confirmed, one pending and one races it; two batches make one
superseded. For predictions, two requests overlap and the third shows what they
leave to a later one; the second flow tells flow from chat, and
one worker that dies hands the job to itself, so that the theorems, which are for
any number of workers and chats and for any doors together, cover the rest.
Streams are kept by chat and the count is one for all: neither depends on the flow,
on aborts of runs or on workers. The constraint `MCApart` therefore explores lost
streams, webhooks and runs of schedules, one of the three at a time, beside
predictions of one flow without aborts and deaths, and two flows, aborts and deaths
with predictions alone. How all of them meet is left to the theorems.

Requests, and where nothing orders them flows, are interchangeable, so `session`,
`serial`, `versions`, `sessions`, `second_factor` and `prediction` declare them
symmetric; `live` and `schedule` do not, as symmetry is unsound for liveness.

Fairness. Only `live` and `schedule` assume any. In `live` it is weak fairness
of `Step(r)` for each request: once a request is let in, its promise chain is
driven by the event loop to the end. The arrival of requests, aborts, crashes and
edits are not fair. That a node or the database always returns is part of this
assumption. In `schedule` it is weak fairness of the steps of requests, of ticks
and of the sync, for the same reason, and of the clock; and strong fairness of
the firing of each job, since a timer is enabled only at its slots, again and
again, and the cron library or BullMQ fires it at one of them. Saves,
switches and restarts are not fair.

## 4. Proofs

Every theorem is for all values of the constants: any set of flows of the shape
`IsFlow`, any set of requests, any limit, any events. The assumptions are the
named `ASSUME`s of the modules, which TLC evaluates in each run.

| Theorem | Statement | Argument |
|---|---|---|
| `AgentFlowProofs!TypeCorrect` | `Spec => []TypeOK` | `TypeInv` adds `Points`: an active request points at an existing row. Without it a write to `execs[run[r].exec]` has no type |
| `RowsAreOwned` | `Spec => []InProgressIsOwned` | inductive with the types: a row becomes INPROGRESS only by a step of a request that stays active, and a request that ends settles its row |
| `GateIsSafe`, `AnswerIsSpent` | `Spec => GateNeedsOwnAnswer`, `Spec => AnswerSpentOnce` | `AnswerInv`: as long as an active request holds an answer, its queue holds nothing but the node the answer is for. So the first turn spends the answer or drops the node, and it does not matter that a node clears only its own answer |
| `RowsAreTrue` | `Spec => []StateMatchesRecord` | `RecordInv`: a request at work never holds a TERMINATED entry, since a cancelled execution is not resumed and a cancelled request is at its end. Otherwise a later error would be written over a record that reads TERMINATED |
| `LifecycleImplemented` | `ASSUME "overlap" \notin Env PROVE Spec => LifecycleKept` | `SerialInv`: one request at most is active, it works on the newest row, the row it claims is as it read it, and is INPROGRESS while it runs; then each write of a row is a step of the abstract execution or none |
| `AgentFlowRoutingProofs!AnswerIsObeyed` | `Spec => AnswerObeyedIfSimple` | by `AnswerInv` the answer meets its gate in a request whose queue and waiting nodes are otherwise empty; each handle of a gate carries one edge, so that `DetermineNodesToIgnore` names all the handle leads to, and the fan-out gives an ignored node nothing |
| `UnconditionalNodesAlwaysRun` | `Spec => []UnconditionalNodesRun` | `RoutingInv`, see below |
| `JoinsFireOnceAlways` | `ASSUME Scoped PROVE Spec => []JoinsFireOnce` | `RoutingInv`. `Scoped` says that `Env` has neither `"named"` nor `"edit"`: a client that resumes a node other than the paused one, or a flow that was edited under a paused execution, can run a node again |
| `LoopIsAlwaysBounded` | `Spec => []LoopIsBounded` | `LoopInv`: the rounds of the loop, see below |
| `VersionStoreProofs!TypeCorrect` | `Spec => []TypeOK` | by action |
| `LastIsCurrent`, `HistoryImplemented` | `Spec => []LastVersionIsCurrent`, `Spec => HistoryKept` | while no two captures overlap and none has failed, `OneByOne`: one request at most is served, what it has yet to write makes up the difference between row, files and index of its flow (`Progress`), and all other flows are settled. `LastInv`: the last version of a flow is the flow file of the last commit, by the equations of `Changes` |
| `TreeIsCommitted` | `Spec => []QuietTreeIsCommitted` | `TreeInv`: a file that differs from the index is owed by some request that has yet to stage it, an index that differs from the last commit by some request that has yet to commit - not always the request that caused it. When nobody is served nobody owes anything |
| `SessionsProofs!TypeCorrect` | `Spec => []TypeOK` | `TypeInv` adds where each request is and what it must hold there, and that a cookie leads to the session that has its secret |
| `SecretIsSpent` | `Spec => []SecretSpentOnce` | every secret but a row's own is older in the chain of exchanges; the rotation is conditional on the row's own, so the spent one never matches again |
| `RevokedIsFinal` | `Spec => RevokedStays` | by action: each statement that writes a row asks for an open one |
| `EndedIsOut` | `Spec => []EndedStaysOut` | `EndedInv`: a doomed request is one whose row will not pass any more, or that fails at the user row, or whose rotation cannot match; kept because a date of change only grows while no two writers overlap (`Beside`, `Late`) |
| `PasswordIsPresent`, `HandedMustChange` | `Spec => []OnlyPresentPassword`, `Spec => []HandedIsForced` | what each request in progress has read is the present password unless it is marked as having raced a change (`Holds`, `Met`, `Own`) |
| `SecondFactorProofs!TypeCorrect`, `StepIsSpent`, `WatermarkOnlyAdvances` | `TypeOK`, `StepSpentOnce`, `WatermarkAdvances` | a step is accepted only above the watermark, the watermark is at least every accepted step, and the statement names the watermark it read |
| `CodeIsSpent`, `SupersededIsRefused`, `GoodCodeIsTaken` | `CodeSpentOnce`, `SupersededStaysOut`, `GoodCodeWorks` | an unused code has been neither redeemed nor burned, and only an unused one is redeemed; a request looks in a batch that was newest when it came, and a code that was superseded then is in another |
| `PendingIsBounded` | `PendingBounded` | what is pending and what is about to be are each owed to a different request since the last deletion; finite sets |
| `PredictionProofs!TypeCorrect` | `Spec => []TypeOK` | `Pending`: a command on the wire is the only one of its request, which waits for it, so that an answer finds its request where it was left |
| `RunIsAbortable`, `AbortArrives`, `OnlyAskedAreStopped` | `LoneRunIsAbortable`, `AbortIsNotLost`, `OnlyAskedStop` | `RunInv`: a controller is under the key of its request, which runs (direct) or has run on that worker (queue); `Met`: two active requests have met, so a lone run shares its key with no active one |
| `StreamIsKept` | `LoneStreamIsKept` | `StreamInv`: a marked channel has an active stream that is subscribed or unsubscribes, so a lone stream that is not lost subscribes itself, and every command that would unsubscribe it is before its own on the wire; a webhook that does not stream is one of those it has not met |
| `QuietIsEmpty` | `QuietLeavesNothing` | clients, channels and controllers are those of active requests, from the two invariants above |
| `OvershootIsBounded` | `OvershootIsOverlap` | `CountInv`: the lone predictions counted are at most the count, also the one about to be written; a lone request that was let in leaves room for itself |
| `ScheduleProofs!TypeCorrect` | `Spec => []TypeOK` | `TypeInv` adds `Points`: a request or tick at work names a record that was created once, of a flow that exists, and a job in the sync's page is a record's |
| `JobsFollow` | `Spec => []JobsFollowRecords` | `Undisturbed`: with one writer at most, each record has the job it should have, or its writer is on the way to tell the beat (`Excused`). During the sync an enabled record has its job, is in the page at hand or is ranked behind the offset; ranks grow without a gap, so a page of any size passes over none and an empty one is the end |
| `RecordsFollow` | `Spec => []RecordFollowsFlow` | `Serial`: with one writer at most, each flow has the record it asks for unless a request is between the save of the flow and that of the record; what a request or an expiring tick read is still stored, but for the switch and `nextRunAt`, so that a whole row written back undoes nothing. The end of a run writes `nextRunAt` alone and may come at any time |

The routing argument. `Flowing` is the invariant of one run between two turns of
the loop, for every node `n` that is unconditional (or for every node, if the
flow is well-formed and has no Loop node). `Passed` is the set of inputs whose
results were handed to `n`: they have finished and did not hold the result back.
The engine does not store what was held back, so the invariant says that some
assignment fits.

- `Orderly`: `n` was put in the queue at most once; if it was, it had got what it
  requires, and nothing waits for it any more; what waits for it was passed to it.
- `Exact`, as long as no pause has thrown away the queue and the waiting nodes: if
  `n` was not put in the queue, then all that was passed to it is waiting, and it
  is not all that it requires.

It is inductive because the graph has no cycle: a node that is fired has all its
inputs behind it, so nothing is passed to it a second time (`NotFiredBefore`). For
a balanced join this needs that the decision nodes between a join and its inputs
send one of them only, which is where the nearest decision node, found by walking
up first parents, has to be the one that matters. At the end of a run the queue
is empty and `Exact` propagates along the order of the graph: every
unconditional node has run, and every join of a well-formed flow has had exactly
one input of each group.

`RoutingInv` carries this through a session. A pause stores the record of a run
that stands before the paused node (`Stored`), the row keeps it after the request
has ended, also under a trailing error, and a resume removes the paused node's
entry and takes the run up with only that node in the queue (`Awaits`). `Exact` is
lost at that point and `Orderly` is not: this is why `JoinsFireOnce` speaks of
waiting nodes only for runs without a pause.

`Without`, `Reach`, `FindConditionParent` and the fan-out are recursive functions;
`FoldLemmas` shows that such functions exist and satisfy their equations, which is
all the proofs need. Facts along the walks they make are proved by induction over
numbers.

Jumps back need another invariant: a node is fired again, perhaps before the inputs
of its first firing are used up, and a waiting node may hold inputs of several
rounds of the loop, which the engine does not tell apart. `LoopInv` says that the
nodes queued so far can be numbered by rounds (`Numbered`), as many as the loop
count says, so that no node is queued twice in a round. What makes this inductive:

- A node starts only when it has got one of its leading inputs (`Lead`): the first
  input, or one that the same decision node stands before. In one round at most one
  of these comes (`RoundLeads`), by the argument about balanced joins above, where
  a round later than 0 stays behind the node that the loop jumps to.
- A node that starts is counted to the round of the leading input that starts it; if
  that input was waiting, to any round in which one came and the node was not yet
  queued. There is one, for otherwise nothing of its lead would be waiting
  (`Expected`).

The record of a run is the part of the numbered list that has run, so a node is in
it at most once for each round, and a Loop node that has used up its count opens no
other round.

Model-checked only: `RequestsEnd` and `JobsRunOrGo`, which are liveness under
fairness and out of the prover's reach. No module declares a RECURSIVE operator.

## 5. Plan

Done: every module of the table above, in this order: the engine, the version
store, schedules, sessions, the second factor, predictions.

Left, in order of what it would add:

1. `AgentFlow` again: the sub-flow of an Iteration node, with its swallowed
   errors and aborts; `Prediction`'s aborts composed with the engine, whose
   `Abort` they would implement.
2. `Schedule`: two ticks at a time; trigger logs, which a dying process leaves
   RUNNING.
3. `CredentialRotation`: the rotation pass against saves.
4. `WebhookListeners`: leases, bindings and dispatch across replicas.
5. Theorems: the properties of `AgentFlowRouting` for flows with several Loop nodes,
   once a statement of them is found that holds.

## 6. Not modelled

PROJECT.json lists every component with its status. The reasons fall into four
groups.

- Little protocol: document stores, assistants, tools, variables, evaluations,
  export and import read and write single rows; a model would restate SQL. The
  identity migration is one sequential transaction.
- Foreign execution: the legacy multi-agent graphs hand the flow to LangGraph, and
  the node library, most of the repository, calls third parties. What a node
  computes is an outcome chosen freely in `AgentFlow`.
- Browser code: the canvas and the other user interfaces render and edit; the
  flows they save are inputs here.
- Left for later: the credential rotation, whose one race is listed as a
  hazard, the webhook listeners, and the parts of modelled components that are
  named under "Abstractions" above.

The engine, sessions and the like are a small share of the lines of the
repository, but they hold nearly all of its concurrency.
