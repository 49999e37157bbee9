------------------------------ MODULE Prediction ------------------------------
(***************************************************************************)
(* Prediction requests at one server: the stream a request answers on, the *)
(* abort controller of its run, the run itself (in the server, or as a job *)
(* of the prediction queue on some worker) and the count of predictions    *)
(* (controllers/predictions, controllers/internal-predictions,             *)
(* controllers/webhook, schedule/ScheduleExecutor, utils/buildChatflow,    *)
(* AbortControllerPool, utils/SSEStreamer, queue/PredictionQueue,          *)
(* queue/RedisEventSubscriber, commands/worker, utils/quotaUsage).         *)
(*                                                                         *)
(* The chat id comes from the client, so requests may share it; streams    *)
(* and channels are kept by chat, controllers by flow and chat.  Each step *)
(* of a request ends at an await.                                          *)
(***************************************************************************)
EXTENDS Naturals, Sequences, FiniteSets

CONSTANTS
  Requests,      \* predictions, calls of webhooks and runs of schedules
  Doors,         \* of "prediction", "webhook" and "schedule": where they come in
  Flows, Chats,  \* ids of flows and chats
  Workers,       \* worker processes of the queue mode
  Modes,         \* of "direct" and "queue": the modes a server may start in
  Limit,         \* predictions a month
  MaxCrashes,    \* bound: deaths of workers
  MaxAborts,     \* bound: requests to abort
  MaxLost,       \* bound: streams lost while their requests are in progress
  None           \* no request, worker or chat

ASSUME PredictionAssumption ==
  /\ Modes \subseteq {"direct", "queue"} /\ Doors \subseteq {"prediction", "webhook", "schedule"}
  /\ Limit \in Nat /\ MaxCrashes \in Nat /\ MaxAborts \in Nat /\ MaxLost \in Nat
  /\ None \notin Requests \cup Workers /\ IsFiniteSet(Requests)

VARIABLES
  mode,          \* process.env.MODE
  req,           \* req[r]: the request r
  pool,          \* abortControllers of the server
  workerPool,    \* abortControllers of each worker
  clients,       \* clients of the SSEStreamer, by chat
  channels,      \* subscribedChannels of the RedisEventSubscriber
  wire,          \* commands of the subscriber that Redis has yet to answer
  events,        \* abort events that have yet to reach a worker
  usage,         \* the count in the usage cache
  aborted,       \* requests whose present run has its signal set
  closed,        \* requests whose response has been ended
  crashes,       \* workers that died so far
  aborts,        \* requests to abort so far
  asked,         \* requests an abort was asked for during their present run
  met,           \* met[r]: requests that were active together with r
  counted,       \* requests that have been answered and counted
  lost           \* requests whose stream was lost to an abort of speech or a failed write

history == <<asked, met, counted, lost>>
server == <<pool, clients, channels, wire, closed>>
queue == <<workerPool, events, crashes, aborts>>
vars == <<mode, req, server, queue, usage, aborted, history>>

Keys == Flows \X Chats
Pcs == {"idle", "subscribing", "building", "admitted", "queued", "running",
        "scheduled", "counting", "writing", "leaving", "unsubscribing", "done"}

\* asks: the body asks for a stream; stream: it is answered by one.
Request == [pc : Pcs, door : {"prediction", "webhook", "schedule"},
            flow : Flows \cup {None}, chat : Chats \cup {None}, asks : BOOLEAN,
            stream : BOOLEAN, failed : BOOLEAN,
            host : Workers \cup {None}, count : 0 .. Limit]
Commands == [op : {"sub", "unsub"}, chat : Chats, by : Requests \cup {None}]

Key(r) == <<req[r].flow, req[r].chat>>
Active == {r \in Requests : req[r].pc \notin {"idle", "done"}}
Goto(r, pc) == req' = [req EXCEPT ![r].pc = pc]
Throw(r) == req' = [req EXCEPT ![r].pc = "leaving", ![r].failed = TRUE]

\* The runs of the requests in over have ended, and their signals with them.
RunsOver(over) == aborted' = aborted \ over /\ asked' = asked \ over

Init ==
  /\ mode \in Modes
  /\ req = [r \in Requests |->
       [pc |-> "idle", door |-> "prediction", flow |-> None, chat |-> None, asks |-> FALSE,
        stream |-> FALSE, failed |-> FALSE, host |-> None, count |-> 0]]
  /\ pool = [k \in Keys |-> None]
  /\ workerPool = [w \in Workers |-> [k \in Keys |-> None]]
  /\ clients = [c \in Chats |-> None] /\ channels = {} /\ wire = <<>>
  /\ events = {} /\ usage = 0 /\ aborted = {} /\ closed = {} /\ crashes = 0 /\ aborts = 0
  /\ asked = {} /\ met = [r \in Requests |-> {}] /\ counted = {} /\ lost = {}

-----------------------------------------------------------------------------
(* The stream of a request.                                                *)

\* r and the requests in progress meet.
Meet(r) == met' = [q \in Requests |-> IF q = r THEN Active
                                      ELSE IF q \in Active THEN met[q] \cup {r} ELSE met[q]]

\* A request comes in; a streamed one puts its response among the clients and,
\* for a prediction in queue mode, subscribes to the channel of its chat unless
\* that is done.  A webhook that does not stream may be answered at once.
Arrive(r, f, c, door, asks, stream) ==
  LET subscribes == stream /\ door = "prediction" /\ mode = "queue" /\ c \notin channels
  IN  /\ req[r].pc = "idle"
      /\ stream => asks
      /\ door = "webhook" /\ asks => stream
      /\ req' = [req EXCEPT ![r].flow = f, ![r].chat = c, ![r].door = door,
                            ![r].asks = asks, ![r].stream = stream,
                            ![r].pc = IF subscribes THEN "subscribing" ELSE "building"]
      /\ clients' = IF stream THEN [clients EXCEPT ![c] = r] ELSE clients
      /\ wire' = IF subscribes THEN Append(wire, [op |-> "sub", chat |-> c, by |-> r])
                 ELSE wire
      /\ \/ UNCHANGED closed
         \/ door = "webhook" /\ ~stream /\ closed' = closed \cup {r}
      /\ Meet(r)
      /\ UNCHANGED <<mode, pool, channels, queue, usage, aborted, asked, counted, lost>>

\* A prediction from an origin that is not allowed is answered with 403.
Forbid(r) ==
  /\ req[r].pc = "idle" /\ Goto(r, "done")
  /\ closed' = closed \cup {r}
  /\ UNCHANGED <<mode, pool, clients, channels, wire, queue, usage, aborted, history>>

\* Mutant: the client is only taken out of the map.
ForgetClient(c, answered) ==
  closed' = closed \cup answered /\ clients' = [clients EXCEPT ![c] = None]

\* removeClient: whoever's response is there under the chat is ended; those in
\* answered send a response of their own.
RemoveClient(c, answered) ==
  /\ closed' = closed \cup ({clients[c]} \ {None}) \cup answered
  /\ clients' = [clients EXCEPT ![c] = None]

\* What a request that does not stream sends: the error handler writes nothing
\* when the body asks for a stream.
Reply(r) == IF req[r].stream \/ (req[r].failed /\ req[r].asks) THEN {} ELSE {r}

\* A webhook removes the client of its chat when it is over, whether it streams
\* or not.
Removes(r) == req[r].stream \/ req[r].door = "webhook"

\* The finally block: a stream of a prediction is unsubscribed first.
Leave(r) ==
  LET unsubscribes == /\ req[r].stream /\ req[r].door = "prediction"
                      /\ mode = "queue" /\ req[r].chat \in channels
  IN  /\ req[r].pc = "leaving"
      /\ Goto(r, IF unsubscribes THEN "unsubscribing" ELSE "done")
      /\ wire' = IF unsubscribes
                 THEN Append(wire, [op |-> "unsub", chat |-> req[r].chat, by |-> r])
                 ELSE wire
      /\ IF unsubscribes THEN UNCHANGED <<clients, closed>>
         ELSE IF Removes(r) THEN RemoveClient(req[r].chat, Reply(r))
         ELSE closed' = closed \cup Reply(r) /\ UNCHANGED clients
      /\ UNCHANGED <<mode, pool, channels, queue, usage, aborted, history>>

\* The client of a chat is lost.
Lose(c) ==
  /\ clients[c] # None /\ Cardinality(lost) < MaxLost
  /\ clients' = [clients EXCEPT ![c] = None]
  /\ lost' = lost \cup {clients[c]}
  /\ UNCHANGED <<mode, req, pool, channels, wire, queue, usage, aborted, asked, met, counted>>

\* streamTTSAbortEvent: somebody stops the speech of a chat, and the response
\* that is there is ended, whatever it was for.
AbortSpeech(c) == Lose(c) /\ closed' = closed \cup {clients[c]}

\* safeWrite: a write, the heartbeat's among them, throws.
WriteFails(c) == Lose(c) /\ UNCHANGED closed

\* The periodic cleanup unsubscribes a channel no client is there for (bound:
\* one such command at a time).
Sweep(c) ==
  /\ c \in channels /\ clients[c] = None
  /\ \A i \in DOMAIN wire : wire[i].by # None
  /\ wire' = Append(wire, [op |-> "unsub", chat |-> c, by |-> None])
  /\ UNCHANGED <<mode, req, pool, clients, channels, closed, queue, usage, aborted, history>>

\* Redis answers the oldest command, and what awaited it goes on.
Answer ==
  /\ wire # <<>>
  /\ LET cmd == Head(wire)
     IN  /\ wire' = Tail(wire)
         /\ IF cmd.op = "sub"
            THEN /\ channels' = channels \cup {cmd.chat}
                 /\ Goto(cmd.by, "building") /\ UNCHANGED <<clients, closed>>
            ELSE /\ channels' = channels \ {cmd.chat}
                 /\ IF cmd.by = None THEN UNCHANGED <<req, clients, closed>>
                    ELSE Goto(cmd.by, "done") /\ RemoveClient(cmd.chat, {})
  /\ UNCHANGED <<mode, pool, queue, usage, aborted, history>>

-----------------------------------------------------------------------------
(* utilBuildChatflow.                                                      *)

\* The flow is unknown: thrown before the try block.
NotFound(r) ==
  /\ req[r].pc = "building" /\ Throw(r)
  /\ UNCHANGED <<mode, server, queue, usage, aborted, history>>

\* Mutant: what is left of the controller is not taken out.
PoolKept(r) == pool

\* The pool once the controller of the request's flow and chat is removed.
PoolWithout(r) == [pool EXCEPT ![Key(r)] = None]

\* Mutant: a request in excess of the limit is let in.
MayPredictOnceMore(r) == usage <= Limit

\* checkPredictions.
MayPredict(r) == usage < Limit

\* The catch block of a request that is refused: for a key that is not valid,
\* a workspace that is gone, or the limit.
Refuse(r) ==
  /\ req[r].pc = "building" /\ Throw(r)
  /\ pool' = PoolWithout(r)
  /\ UNCHANGED <<mode, clients, channels, wire, closed, queue, usage, aborted, history>>

\* The check is passed; the job or the run starts after it.
Admit(r) ==
  /\ req[r].pc = "building" /\ MayPredict(r) /\ Goto(r, "admitted")
  /\ UNCHANGED <<mode, server, queue, usage, aborted, history>>

PoolWith(r) == [pool EXCEPT ![Key(r)] = r]

\* Direct mode: a new controller is added and the run starts.
RunHere(r) ==
  /\ req[r].pc = "admitted" /\ mode = "direct"
  /\ Goto(r, "running") /\ pool' = PoolWith(r)
  /\ UNCHANGED <<mode, clients, channels, wire, closed, queue, usage, aborted, history>>

\* Queue mode: a job is added and waited for.
Enqueue(r) ==
  /\ req[r].pc = "admitted" /\ mode = "queue"
  /\ Goto(r, "queued")
  /\ UNCHANGED <<mode, server, queue, usage, aborted, history>>

\* The run ends with a result. The controller is removed from the server's
\* pool; that of a worker stays in its pool.
Succeed(r) ==
  /\ req[r].pc = "running" /\ RunsOver({r})
  /\ req' = [req EXCEPT ![r].pc = "counting", ![r].host = None]
  /\ pool' = PoolWithout(r)
  /\ UNCHANGED <<mode, clients, channels, wire, closed, queue, usage, met, counted, lost>>

\* The run ends with an error, for one because it was aborted.
Fail(r) ==
  /\ req[r].pc = "running" /\ RunsOver({r})
  /\ req' = [req EXCEPT ![r].pc = "leaving", ![r].host = None, ![r].failed = TRUE]
  /\ pool' = PoolWithout(r)
  /\ UNCHANGED <<mode, clients, channels, wire, closed, queue, usage, met, counted, lost>>

\* Mutant: the count may pass the limit.
NewCountOpen == usage + 1

\* The count after one more prediction, never above the limit.
NewCount == IF usage = 0 THEN 1 ELSE IF usage + 1 > Limit THEN Limit ELSE usage + 1

\* updatePredictionsUsage: the count is read, and then written.
ReadUsage(r) ==
  /\ req[r].pc = "counting"
  /\ req' = [req EXCEPT ![r].pc = "writing", ![r].count = NewCount]
  /\ UNCHANGED <<mode, server, queue, usage, aborted, history>>

WriteUsage(r) ==
  /\ req[r].pc = "writing"
  /\ req' = [req EXCEPT ![r].pc = IF req[r].door = "schedule" THEN "done" ELSE "leaving",
                        ![r].count = 0]
  /\ usage' = req[r].count /\ counted' = counted \cup {r}
  /\ UNCHANGED <<mode, server, queue, aborted, asked, met, lost>>

-----------------------------------------------------------------------------
(* Runs of schedules: no response, no controller, the same count.          *)

\* The checks are passed and the flow is run, or the run has failed already.
Fire(r) ==
  /\ req[r].pc = "idle"
  /\ \E pc \in {"scheduled", "done"} :
       /\ pc = "scheduled" => MayPredict(r)
       /\ req' = [req EXCEPT ![r].pc = pc, ![r].door = "schedule"]
  /\ Meet(r)
  /\ UNCHANGED <<mode, server, queue, usage, aborted, asked, counted, lost>>

\* The run ends, with a result or with an error.
Finish(r) ==
  /\ req[r].pc = "scheduled"
  /\ \E pc \in {"counting", "done"} : Goto(r, pc)
  /\ UNCHANGED <<mode, server, queue, usage, aborted, history>>

-----------------------------------------------------------------------------
(* The workers of the queue mode.                                          *)

\* Mutant: a controller that is there already is kept.
WorkerPoolWithFirst(w, r) ==
  IF workerPool[w][Key(r)] = None THEN [workerPool EXCEPT ![w][Key(r)] = r] ELSE workerPool

WorkerPoolWith(w, r) == [workerPool EXCEPT ![w][Key(r)] = r]

\* A worker takes the job and runs it with a new controller.
Pick(w, r) ==
  /\ req[r].pc = "queued"
  /\ req' = [req EXCEPT ![r].pc = "running", ![r].host = w]
  /\ workerPool' = WorkerPoolWith(w, r)
  /\ UNCHANGED <<mode, server, events, crashes, aborts, usage, aborted, history>>

\* A worker dies. Its jobs are stalled: they are queued again, or have failed
\* when that happened to them too often.
Crash(w) ==
  LET stalled == {r \in Requests : req[r].pc = "running" /\ req[r].host = w}
  IN  /\ mode = "queue" /\ crashes < MaxCrashes /\ crashes' = crashes + 1
      /\ \E again \in SUBSET stalled :
           req' = [r \in Requests |->
             IF r \notin stalled THEN req[r]
             ELSE IF r \in again THEN [req[r] EXCEPT !.pc = "queued", !.host = None]
             ELSE [req[r] EXCEPT !.pc = "leaving", !.host = None, !.failed = TRUE]]
      /\ RunsOver(stalled)
      /\ workerPool' = [workerPool EXCEPT ![w] = [k \in Keys |-> None]]
      /\ events' = {e \in events : e[1] # w}
      /\ UNCHANGED <<mode, server, aborts, usage, met, counted, lost>>

-----------------------------------------------------------------------------
(* Aborts.                                                                 *)

\* Mutant: the signal is set for every flow of the chat.
HitAnyFlow(controllers, k) == {controllers[<<f, k[2]>>] : f \in Flows} \ {None}

\* Mutant: the controller is removed before its signal is set.
HitRemoved(controllers, k) == {}

\* abort: the signal of the controller that is there is set.
Hit(controllers, k) == {controllers[k]} \ {None}

Running(k) == {r \in Requests : req[r].pc = "running" /\ Key(r) = k}

\* abortChatMessage in direct mode.
AbortHere(k) ==
  /\ mode = "direct" /\ aborts < MaxAborts /\ aborts' = aborts + 1
  /\ aborted' = aborted \cup Hit(pool, k) /\ pool' = [pool EXCEPT ![k] = None]
  /\ asked' = asked \cup Running(k)
  /\ UNCHANGED <<mode, req, clients, channels, wire, closed, workerPool, events, crashes,
                 usage, met, counted, lost>>

\* abortChatMessage in queue mode: an event for every worker. One that is
\* still on its way stands for a second one too.
Publish(k) ==
  /\ mode = "queue" /\ aborts < MaxAborts /\ aborts' = aborts + 1
  /\ events' = events \cup {<<w, k>> : w \in Workers}
  /\ asked' = asked \cup Running(k)
  /\ UNCHANGED <<mode, req, server, workerPool, crashes, usage, aborted, met, counted, lost>>

Deliver(w, k) ==
  /\ <<w, k>> \in events /\ events' = events \ {<<w, k>>}
  /\ aborted' = aborted \cup Hit(workerPool[w], k)
  /\ workerPool' = [workerPool EXCEPT ![w][k] = None]
  /\ UNCHANGED <<mode, req, server, crashes, aborts, usage, history>>

-----------------------------------------------------------------------------
Next ==
  \/ \E r \in Requests :
       \/ \E f \in Flows, c \in Chats, door \in Doors \ {"schedule"}, asks, s \in BOOLEAN :
            Arrive(r, f, c, door, asks, s)
       \/ "prediction" \in Doors /\ Forbid(r)
       \/ "schedule" \in Doors /\ Fire(r)
       \/ Finish(r)
       \/ NotFound(r) \/ Refuse(r) \/ Admit(r) \/ RunHere(r) \/ Enqueue(r)
       \/ Succeed(r) \/ Fail(r) \/ ReadUsage(r) \/ WriteUsage(r) \/ Leave(r)
       \/ \E w \in Workers : Pick(w, r)
  \/ Answer
  \/ \E c \in Chats : Sweep(c) \/ AbortSpeech(c) \/ WriteFails(c)
  \/ \E w \in Workers : Crash(w)
  \/ \E k \in Keys : AbortHere(k) \/ Publish(k)
  \/ \E w \in Workers, k \in Keys : Deliver(w, k)

Spec == Init /\ [][Next]_vars

-----------------------------------------------------------------------------
(* Properties.                                                             *)

\* The types; the count in the cache never passes the limit.
TypeOK ==
  /\ mode \in Modes /\ req \in [Requests -> Request]
  /\ pool \in [Keys -> Requests \cup {None}]
  /\ workerPool \in [Workers -> [Keys -> Requests \cup {None}]]
  /\ clients \in [Chats -> Requests \cup {None}]
  /\ channels \subseteq Chats /\ wire \in Seq(Commands)
  /\ events \subseteq Workers \X Keys
  /\ usage \in 0 .. Limit /\ aborted \subseteq Requests /\ closed \subseteq Requests
  /\ crashes \in 0 .. MaxCrashes /\ aborts \in 0 .. MaxAborts
  /\ asked \subseteq Requests /\ counted \subseteq Requests
  /\ met \in [Requests -> SUBSET Requests] /\ lost \subseteq Requests

\* A request that no other of its flow and chat was beside, and one that no other
\* stream or webhook of its chat was beside.
LoneRun(r) == \A q \in met[r] : Key(q) # Key(r)
LoneStream(r) == \A q \in met[r] : ~(Removes(q) /\ req[q].chat = req[r].chat)

\* Where the controller of a run is looked up when it is to be aborted.
Controller(r) == IF mode = "direct" THEN pool[Key(r)] ELSE workerPool[req[r].host][Key(r)]

\* A run that is alone under its flow and chat has its controller where an abort
\* would look for it, whatever requests, failures, aborts and deaths of workers
\* came before it (AbortControllerPool, PredictionQueue.processJob).
LoneRunIsAbortable ==
  \A r \in Requests \ (aborted \cup asked) :
    req[r].pc = "running" /\ LoneRun(r) => Controller(r) = r

UnderWay(r) == req[r].pc \in {"admitted", "queued", "running"}

\* A stream that no other stream or webhook of its chat was beside, and that no
\* abort of speech or failed write has taken, stays open, and for a prediction in
\* queue mode subscribed, until its request is over, and then it is ended; an
\* answer that is no stream is sent, unless the request asked for a stream and
\* failed (createPrediction, createWebhook, SSEStreamer, RedisEventSubscriber).
LoneStreamIsKept ==
  \A r \in Requests :
    /\ req[r].stream /\ LoneStream(r) /\ r \notin lost =>
         /\ r \in closed <=> req[r].pc = "done"
         /\ r \in Active => clients[req[r].chat] = r
         /\ req[r].door = "prediction" /\ mode = "queue" /\ UnderWay(r)
              => req[r].chat \in channels
    /\ req[r].pc = "done" /\ ~req[r].stream /\ req[r].door # "schedule" =>
         (r \in closed <=> ~(req[r].failed /\ req[r].asks))

\* However requests overlap, fail, are refused or lose their streams: once none is
\* active, the server keeps no controller, no client and no channel for any of them.
QuietLeavesNothing ==
  Active = {} =>
    /\ \A k \in Keys : pool[k] = None
    /\ \A c \in Chats : clients[c] = None
    /\ channels = {}

\* The count is checked before a run and written after it, so requests that run
\* together may exceed the limit, be they predictions, webhooks or runs of
\* schedules; those that run alone do not (checkPredictions,
\* updatePredictionsUsage).
OvershootIsOverlap ==
  Cardinality(counted) <= Limit + Cardinality({r \in Requests : met[r] # {}})

\* An abort that is asked for while a run is alone under its flow and chat sets
\* its signal, in queue mode once the event arrives: it is never lost, unless
\* another request of that flow and chat comes (abortChatMessage, the abort
\* listener of commands/worker).
AbortIsNotLost ==
  \A r \in asked :
    req[r].pc = "running" /\ LoneRun(r) =>
      \/ r \in aborted
      \/ mode = "queue" /\ <<req[r].host, Key(r)>> \in events /\ Controller(r) = r

\* In direct mode no run is stopped but those of the flow and chat an abort
\* named, and only while they run. (In queue mode an event may come late and
\* stop the next run of its flow and chat.)
OnlyAskedStop == mode = "direct" => aborted \subseteq asked
=============================================================================
