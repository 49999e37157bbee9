------------------------------ MODULE AgentFlow ------------------------------
(***************************************************************************)
(* The AgentFlow engine: executeAgentFlow in                                *)
(* packages/server/src/utils/buildAgentflow.ts, for all the prediction      *)
(* requests that reach one chat session of one flow. A request either       *)
(* starts an execution or carries human input and resumes the newest one;   *)
(* it then runs node after node off its own in-memory queue and writes the  *)
(* Execution row. Requests share nothing but those rows: every action below *)
(* is the code between two database calls.                                  *)
(*                                                                          *)
(* What nodes compute is left out. A node run is its outcome: finished with *)
(* some conditions fulfilled, waiting for a human, failed, or aborted.      *)
(***************************************************************************)
EXTENDS AgentFlowGraph

CONSTANTS
  Flows,          \* the versions of the flow that may be deployed
  Requests,       \* the prediction requests of the session
  MaxIterations,  \* process.env.MAX_ITERATIONS
  Env             \* what the environment does, a subset of EnvEvents

EnvEvents ==
  {"resume",    \* clients send human input
   "named",     \* ... and may say which node it is for
   "overlap",   \* a request may arrive before the previous one is answered
   "error", "abort", "crash",
   "edit"}      \* the flow is saved again between two requests

AllNodes == UNION {f.nodes : f \in Flows}

ASSUME FlowsAssumption ==
  /\ Flows # {}
  /\ \A f \in Flows : IsFlow(f)
  /\ NoNode \notin AllNodes
ASSUME BoundsAssumption == MaxIterations \in Nat /\ Env \subseteq EnvEvents

VARIABLES
  deployed,  \* the flow a new request is given
  execs,     \* the Execution rows of the session, oldest first
  pc,        \* where each request is
  run,       \* what each request keeps in memory
  snap,      \* the row a request read in updateExecution and has yet to save
  aborted    \* whether the AbortController of a request was signalled

vars == <<deployed, execs, pc, run, snap, aborted>>

NodeStates == {"FINISHED", "STOPPED", "ERROR", "TERMINATED"}
RowStates  == NodeStates \cup {"INPROGRESS"}
Answers    == {"proceed", "reject"}

Entry(n, s) == [node |-> n, status |-> s]
Entries     == [node : AllNodes, status : NodeStates]
Rows        == [state : RowStates, data : Seq(Entries)]

NoInput == [node |-> NoNode, answer |-> "reject"]
Inputs  == {NoInput} \cup [node : AllNodes, answer : Answers]

Run == [flow    : Flows,
        exec    : Nat,                            \* the row, 0 before it has one
        resumed : BOOLEAN,                        \* the request has humanInput
        human   : Inputs,                         \* currentHumanInput
        data    : Seq(Entries),                   \* agentFlowExecutedData
        queue   : Seq(AllNodes),                  \* nodeExecutionQueue
        waiting : [AllNodes -> SUBSET AllNodes],  \* waitingNodes
        loops   : [AllNodes -> Nat],              \* loopCounts
        iters   : Nat]                            \* iterations

FreshRun(f) ==
  [flow |-> f, exec |-> 0, resumed |-> FALSE, human |-> NoInput, data |-> <<>>,
   queue |-> <<>>, waiting |-> [n \in AllNodes |-> {}],
   loops |-> [n \in AllNodes |-> 0], iters |-> 0]

NoRow == [state |-> "INPROGRESS", data |-> <<>>]

Claiming == {"trim", "claim", "claimed"}   \* in the resume branch
Active   == Claiming \cup {"running", "closing"}
Ended    == {"answered", "rejected", "failed", "limit", "crashed"}

-----------------------------------------------------------------------------
\* How the engine reads its own record of an execution.

Has(d, s) == \E i \in 1 .. Len(d) : d[i].status = s

\* The final status: TERMINATED over ERROR over STOPPED over FINISHED.
StatusOf(d) ==
  IF Has(d, "TERMINATED") THEN "TERMINATED"
  ELSE IF Has(d, "ERROR") THEN "ERROR"
  ELSE IF Has(d, "STOPPED") THEN "STOPPED" ELSE "FINISHED"

\* An ERROR row may be retried when the failure directly follows a pause.
FailedAfterPause(d) ==
  /\ Len(d) >= 2
  /\ d[Len(d)].status = "ERROR"
  /\ d[Len(d) - 1].status = "STOPPED"

\* Mutant: any failed execution may be retried.
ResumableOnError(row) == row.state \in {"STOPPED", "ERROR"}

Resumable(row) ==
  \/ row.state = "STOPPED"
  \/ (row.state = "ERROR" /\ FailedAfterPause(row.data))

\* The record a resume works on: the trailing error of a retry is dropped.
ResumeData(row) ==
  IF row.state = "ERROR" THEN SubSeq(row.data, 1, Len(row.data) - 1) ELSE row.data

\* The most recent node that is STOPPED.
LastStopped(d) ==
  LET at == {i \in 1 .. Len(d) : d[i].status = "STOPPED"}
  IN  IF at = {} THEN NoNode
      ELSE d[CHOOSE i \in at : \A j \in at : j <= i].node

ResumeNode(row, named) ==
  IF named = NoNode THEN LastStopped(ResumeData(row)) ELSE named

CanResume(row, named) ==
  /\ Resumable(row)
  /\ \E i \in 1 .. Len(ResumeData(row)) :
       ResumeData(row)[i].node = ResumeNode(row, named)

\* agentFlowExecutedData without the entries of a node.
Without(d, n) ==
  LET kept[k \in 0 .. Len(d)] ==
        IF k = 0 THEN <<>>
        ELSE IF d[k].node = n THEN kept[k - 1] ELSE Append(kept[k - 1], d[k])
  IN  kept[Len(d)]

-----------------------------------------------------------------------------
Init ==
  /\ deployed \in Flows
  /\ execs = <<>>
  /\ pc = [r \in Requests |-> "idle"]
  /\ run = [r \in Requests |-> FreshRun(deployed)]
  /\ snap = [r \in Requests |-> NoRow]
  /\ aborted = [r \in Requests |-> FALSE]

Goto(r, label) == pc' = [pc EXCEPT ![r] = label]

\* A client waits for its answer before it sends the next request.
MayArrive(r) ==
  /\ pc[r] = "idle"
  /\ "overlap" \in Env \/ \A q \in Requests : pc[q] \notin Active

\* Without human input: addExecution and the start node in the queue.
Start(r) ==
  /\ MayArrive(r)
  /\ HasStart(deployed)
  /\ Cardinality(StartNodes(deployed)) <= 1
  /\ execs' = Append(execs, [state |-> "INPROGRESS", data |-> <<>>])
  /\ run' = [run EXCEPT ![r] =
       [FreshRun(deployed) EXCEPT
          !.exec  = Len(execs) + 1,
          !.queue = IF StartNodes(deployed) = {} THEN <<>>
                    ELSE <<CHOOSE n \in StartNodes(deployed) : TRUE>>]]
  /\ Goto(r, "running")
  /\ UNCHANGED <<deployed, snap, aborted>>

\* "Start input type not found" or "Multiple starting nodes are not allowed",
\* thrown before there is a row.
RejectStart(r) ==
  /\ MayArrive(r)
  /\ HasStart(deployed) => Cardinality(StartNodes(deployed)) > 1
  /\ Goto(r, "rejected")
  /\ UNCHANGED <<deployed, execs, run, snap, aborted>>

NamedNodes == {NoNode} \cup (IF "named" \in Env THEN AllNodes ELSE {})

\* With human input: the newest execution is read and must be resumable ...
Resume(r) ==
  /\ "resume" \in Env
  /\ MayArrive(r)
  /\ HasStart(deployed)
  /\ execs # <<>>
  /\ \E named \in NamedNodes, answer \in Answers :
       LET row == execs[Len(execs)]
       IN  /\ CanResume(row, named)
           /\ run' = [run EXCEPT ![r] =
                [FreshRun(deployed) EXCEPT
                   !.exec    = Len(execs),
                   !.resumed = TRUE,
                   !.human   = [node |-> ResumeNode(row, named), answer |-> answer],
                   !.data    = ResumeData(row),
                   !.queue   = <<ResumeNode(row, named)>>]]
           /\ Goto(r, IF row.state = "ERROR" THEN "trim" ELSE "claim")
  /\ UNCHANGED <<deployed, execs, snap, aborted>>

\* ... or the request is refused.
RejectResume(r) ==
  /\ "resume" \in Env
  /\ MayArrive(r)
  /\ HasStart(deployed) =>
       \E named \in NamedNodes : execs # <<>> => ~CanResume(execs[Len(execs)], named)
  /\ Goto(r, "rejected")
  /\ UNCHANGED <<deployed, execs, run, snap, aborted>>

\* A retry first stores the record without its error entry.
TrimError(r) ==
  /\ pc[r] = "trim"
  /\ execs' = [execs EXCEPT ![run[r].exec] =
                 [state |-> "INPROGRESS", data |-> run[r].data]]
  /\ Goto(r, "claim")
  /\ UNCHANGED <<deployed, run, snap, aborted>>

\* updateExecution({state: INPROGRESS}) loads the whole row ...
ClaimRead(r) ==
  /\ pc[r] = "claim"
  /\ snap' = [snap EXCEPT ![r] = execs[run[r].exec]]
  /\ Goto(r, "claimed")
  /\ UNCHANGED <<deployed, execs, run, aborted>>

\* ... and saves the row it loaded with the new state.
ClaimSave(r) ==
  /\ pc[r] = "claimed"
  /\ execs' = [execs EXCEPT ![run[r].exec] = [snap[r] EXCEPT !.state = "INPROGRESS"]]
  /\ snap' = [snap EXCEPT ![r] = NoRow]
  /\ Goto(r, "running")
  /\ UNCHANGED <<deployed, run, aborted>>

-----------------------------------------------------------------------------
\* One turn of the engine's loop, for the node at the head of the queue.

Turn(r) == pc[r] = "running" /\ run[r].queue # <<>>

Current(r) == Head(run[r].queue)

\* "Maximum iteration limit reached" is thrown outside the try block.
IterationLimit(r) ==
  /\ Turn(r)
  /\ run[r].iters > MaxIterations
  /\ Goto(r, "limit")
  /\ UNCHANGED <<deployed, execs, run, snap, aborted>>

\* A queued id the flow does not have is dropped.
SkipUnknown(r) ==
  /\ Turn(r)
  /\ run[r].iters <= MaxIterations
  /\ Current(r) \notin run[r].flow.nodes
  /\ run' = [run EXCEPT ![r].queue = Tail(@), ![r].iters = @ + 1]
  /\ UNCHANGED <<deployed, execs, pc, snap, aborted>>

\* The turn reaches executeNode and the abort checks let it pass or not.
Executes(r) ==
  /\ Turn(r)
  /\ run[r].iters <= MaxIterations
  /\ Current(r) \in run[r].flow.nodes

Consumes(r) == run[r].human # NoInput /\ run[r].human.node = Current(r)

\* The resumed node replaces what it left in the record.
DataBefore(r) ==
  IF Consumes(r) THEN Without(run[r].data, Current(r)) ELSE run[r].data

\* A human-input node without human input, or an agent about to use a tool.
PausesHere(r) ==
  LET kind == run[r].flow.kind[Current(r)]
  IN  kind = "agent" \/ (kind = "humanInput" /\ run[r].human = NoInput)

PauseNode(r) ==
  /\ Executes(r)
  /\ ~aborted[r]
  /\ PausesHere(r)
  /\ run' = [run EXCEPT
       ![r].data  = Append(DataBefore(r), Entry(Current(r), "STOPPED")),
       ![r].human = IF Consumes(r) THEN NoInput ELSE @,
       ![r].queue = Tail(@),
       ![r].iters = @ + 1]
  /\ Goto(r, "closing")
  /\ UNCHANGED <<deployed, execs, snap, aborted>>

\* The sets of conditions a node may report fulfilled.
Fulfilled(f, n, input) ==
  CASE f.kind[n] = "condition"  -> {{}} \cup {{o} : o \in 0 .. f.outs[n] - 1}
    [] f.kind[n] = "humanInput" -> {IF input.answer = "proceed" THEN {0} ELSE {1}}
    [] OTHER                    -> {{}}

\* A human-input node reports its conditions only when the input is for it.
ReportsConditions(r) == run[r].flow.kind[Current(r)] = "condition" \/ Consumes(r)

\* Mutant: one turn too many.
LoopsOnceMore(r) ==
  LET n == Current(r)
      f == run[r].flow
  IN  f.kind[n] = "loop" /\ run[r].loops[n] + 1 <= MaxLoop(f, n)

\* Jump back, unless the loop has used up its count.
LoopsBack(r) ==
  LET n == Current(r)
      f == run[r].flow
  IN  f.kind[n] = "loop" /\ run[r].loops[n] + 1 < MaxLoop(f, n)

LoopCounts(r) ==
  IF LoopsBack(r) THEN [run[r].loops EXCEPT ![Current(r)] = @ + 1] ELSE run[r].loops

\* Mutants: the answer survives the node it is for, or the jump back.
AnswerKeptByGate(r) == IF LoopsBack(r) THEN NoInput ELSE run[r].human

AnswerKept(r) == run[r].human

\* The human input is cleared by the node it is for and by a jump back.
AnswerLeft(r) == IF Consumes(r) \/ LoopsBack(r) THEN NoInput ELSE run[r].human

\* What the request holds once its node has finished with these conditions
\* fulfilled and processNodeOutputs has routed the result.
AfterFinish(r, fulfilled) ==
  LET n == Current(r)
      f == run[r].flow
      ignored == IF ReportsConditions(r) THEN DetermineNodesToIgnore(f, n, fulfilled) ELSE {}
      fan == ProcessChildren(f, n, ignored, Tail(run[r].queue), run[r].waiting)
  IN  [run[r] EXCEPT
         !.data    = Append(DataBefore(r), Entry(n, "FINISHED")),
         !.human   = AnswerLeft(r),
         !.queue   = IF LoopsBack(r) THEN Append(fan.queue, f.loopTo[n]) ELSE fan.queue,
         !.waiting = fan.waiting,
         !.loops   = LoopCounts(r),
         !.iters   = @ + 1]

FinishNode(r) ==
  /\ Executes(r)
  /\ ~aborted[r]
  /\ run[r].flow.kind[Current(r)] = "humanInput" => run[r].human # NoInput
  /\ \E fulfilled \in Fulfilled(run[r].flow, Current(r), run[r].human) :
       run' = [run EXCEPT ![r] = AfterFinish(r, fulfilled)]
  /\ UNCHANGED <<deployed, execs, pc, snap, aborted>>

\* Mutants: the status is recorded before it is set; the row is written without
\* the error; the row is not written.
CatchUnset(r, status) ==
  LET d == Append(run[r].data, Entry(Current(r), "INPROGRESS"))
  IN  /\ run' = [run EXCEPT ![r].data = d, ![r].queue = Tail(@), ![r].iters = @ + 1]
      /\ execs' = [execs EXCEPT ![run[r].exec] = [state |-> status, data |-> d]]
      /\ Goto(r, "failed")
      /\ UNCHANGED <<deployed, snap, aborted>>

CatchUnrecorded(r, status) ==
  /\ execs' = [execs EXCEPT ![run[r].exec] = [state |-> status, data |-> run[r].data]]
  /\ Goto(r, "failed")
  /\ UNCHANGED <<deployed, run, snap, aborted>>

CatchUnsaved(r, status) == Goto(r, "failed") /\ UNCHANGED <<deployed, execs, run, snap, aborted>>

\* The catch block: the record gets the error, the row is written, and the
\* request fails. Note that the entries of a resumed node are kept.
CatchError(r, status) ==
  LET d == Append(run[r].data, Entry(Current(r), status))
  IN  /\ run' = [run EXCEPT ![r].data = d, ![r].queue = Tail(@), ![r].iters = @ + 1]
      /\ execs' = [execs EXCEPT ![run[r].exec] = [state |-> status, data |-> d]]
      /\ Goto(r, "failed")
      /\ UNCHANGED <<deployed, snap, aborted>>

FailNode(r) ==
  /\ "error" \in Env
  /\ Executes(r)
  /\ ~aborted[r]
  /\ CatchError(r, "ERROR")

AbortNode(r) ==
  /\ Executes(r)
  /\ aborted[r]
  /\ CatchError(r, "TERMINATED")

\* Mutant: the run is settled only when nothing is queued, pause or not.
CompleteIfEmpty(r) ==
  /\ pc[r] \in {"running", "closing"}
  /\ run[r].queue = <<>>
  /\ execs' = [execs EXCEPT ![run[r].exec] =
                 [state |-> StatusOf(run[r].data), data |-> run[r].data]]
  /\ Goto(r, "answered")
  /\ UNCHANGED <<deployed, run, snap, aborted>>

\* The loop has ended: the status is read off the record and written.
\* With nothing recorded the answer itself cannot be built.
Complete(r) ==
  /\ pc[r] = "closing" \/ (pc[r] = "running" /\ run[r].queue = <<>>)
  /\ execs' = [execs EXCEPT ![run[r].exec] =
                 [state |-> StatusOf(run[r].data), data |-> run[r].data]]
  /\ Goto(r, IF run[r].data = <<>> THEN "failed" ELSE "answered")
  /\ UNCHANGED <<deployed, run, snap, aborted>>

-----------------------------------------------------------------------------
\* The environment.

Abort(r) ==
  /\ "abort" \in Env
  /\ pc[r] \in Active
  /\ ~aborted[r]
  /\ aborted' = [aborted EXCEPT ![r] = TRUE]
  /\ UNCHANGED <<deployed, execs, pc, run, snap>>

\* The process that serves the request dies.
Crash(r) ==
  /\ "crash" \in Env
  /\ pc[r] \in Active
  /\ Goto(r, "crashed")
  /\ UNCHANGED <<deployed, execs, run, snap, aborted>>

EditFlow ==
  /\ "edit" \in Env
  /\ deployed' \in Flows \ {deployed}
  /\ UNCHANGED <<execs, pc, run, snap, aborted>>

Step(r) ==
  \/ TrimError(r) \/ ClaimRead(r) \/ ClaimSave(r)
  \/ IterationLimit(r) \/ SkipUnknown(r)
  \/ PauseNode(r) \/ FinishNode(r) \/ FailNode(r) \/ AbortNode(r)
  \/ Complete(r)

Next ==
  \/ \E r \in Requests :
       \/ Start(r) \/ RejectStart(r) \/ Resume(r) \/ RejectResume(r)
       \/ Step(r)
       \/ Abort(r) \/ Crash(r)
  \/ EditFlow

\* A request that was let in is driven by its promise chain to the end.
Fairness == \A r \in Requests : WF_vars(Step(r))

Spec == Init /\ [][Next]_vars
FairSpec == Spec /\ Fairness

-----------------------------------------------------------------------------
TypeOK ==
  /\ deployed \in Flows
  /\ execs \in Seq(Rows)
  /\ pc \in [Requests -> {"idle"} \cup Active \cup Ended]
  /\ run \in [Requests -> Run]
  /\ snap \in [Requests -> Rows]
  /\ aborted \in [Requests -> BOOLEAN]

(***************************************************************************)
(* Safety of a session.                                                     *)
(***************************************************************************)

\* What the record of a run gains when its current node finishes.
Finished(r) ==
  /\ pc[r] = "running"
  /\ run'[r].data # run[r].data
  /\ run'[r].data[Len(run'[r].data)].status = "FINISHED"

\* A human-input node gets past its gate only in a request whose human input
\* is for that very node: an answer given at one gate is never spent at
\* another, whatever the flow does in between (loops, gates in sequence,
\* gates in parallel, a flow edited during the pause). This is what the
\* clearing of humanInput in executeNode and processNodeOutputs is for.
GateNeedsOwnAnswer ==
  [][\A r \in Requests :
       LET n == Current(r)
       IN  Finished(r) /\ run[r].flow.kind[n] = "humanInput"
             => run[r].resumed /\ run[r].human.node = n]_vars

\* One human answer lets at most one gate through: after the step that spends
\* it, a run that goes on has none left.
AnswerSpentOnce ==
  [][\A r \in Requests :
       Finished(r) /\ run[r].human # NoInput => run'[r].human = NoInput]_vars

\* A row that is not in progress tells the truth about its own record: the
\* state written in the catch block, the one written after the loop and the
\* one left by a retry all equal the status computed from the stored data,
\* although they are written at different places and by different requests.
StateMatchesRecord ==
  \A i \in 1 .. Len(execs) :
    execs[i].state # "INPROGRESS" => execs[i].state = StatusOf(execs[i].data)

\* A row is left INPROGRESS with nobody working on it only by a process that
\* died or by the iteration limit, which is thrown where nothing catches it.
\* Every other way out of the engine settles the row first.
InProgressIsOwned ==
  \A i \in 1 .. Len(execs) :
    execs[i].state = "INPROGRESS" =>
      \E r \in Requests :
        run[r].exec = i /\ pc[r] \in Active \cup {"crashed", "limit"}

\* The refusal at the end of the resume branch: "Only executions in 'STOPPED'
\* state (or 'ERROR' after 'STOPPED') can be resumed."
OnlyStoppedIsResumed ==
  [][\A i \in 1 .. Len(execs) :
       execs[i].state # "INPROGRESS" /\ execs'[i].state = "INPROGRESS"
         => Resumable(execs[i])]_vars

\* The stage of a row as its readers see it.
Stage(row) ==
  CASE row.state = "INPROGRESS" -> "running"
    [] row.state = "STOPPED" -> "paused"
    [] row.state = "ERROR" /\ FailedAfterPause(row.data) -> "retryable"
    [] OTHER -> "closed"

Lifecycle ==
  INSTANCE ExecutionLifecycle WITH life <- [i \in 1 .. Len(execs) |-> Stage(execs[i])]

\* With one request at a time, rows go through the life ExecutionLifecycle
\* promises: an execution that finished, was cancelled or failed on its own is
\* never touched again, a pause is left only through human input, and only the
\* newest execution of the session is ever reopened.
LifecycleKept == Lifecycle!Spec

\* Every request that arrives is answered, refused or fails: no pause, join,
\* loop or edited flow leaves it hanging.
RequestsEnd == \A r \in Requests : pc[r] # "idle" ~> pc[r] \in Ended
=============================================================================
