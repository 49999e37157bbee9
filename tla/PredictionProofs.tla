-------------------------- MODULE PredictionProofs --------------------------
(***************************************************************************)
(* Proofs about predictions, webhooks and runs of schedules, for every     *)
(* subset of these doors, every number of requests, flows, chats and       *)
(* workers and either mode of the server: the types, where the controller  *)
(* of a run is, what aborts stop, what a stream keeps, what the server     *)
(* keeps when it is quiet, and how far the count may overshoot.            *)
(***************************************************************************)
EXTENDS Prediction, FiniteSetTheorems, TLAPS

\* Where only requests with a response are, and where those are that the limit let in.
Served == {"subscribing", "building", "admitted", "queued", "running", "leaving",
           "unsubscribing"}
Admitted == {"admitted", "queued", "running", "scheduled", "counting", "writing"}

\* What a request holds, by where it is, at a server in the mode m.
Sound(q, m) ==
  /\ q \in Request
  /\ (q.pc \notin {"idle", "done"} /\ q.door # "schedule") \/ q.stream
       => q.flow \in Flows /\ q.chat \in Chats
  /\ q.pc \in Served => q.door # "schedule"
  /\ q.pc = "scheduled" => q.door = "schedule"
  /\ q.pc = "idle" => ~q.stream /\ ~q.failed /\ q.door = "prediction"
  /\ q.door = "schedule" => ~q.stream
  /\ q.door = "webhook" /\ q.asks => q.stream
  /\ q.pc \in Admitted => Limit > 0
  /\ q.pc = "queued" => m = "queue"
  /\ q.pc = "running" /\ m = "queue" => q.host \in Workers
  /\ q.pc \in {"subscribing", "unsubscribing"} =>
       m = "queue" /\ q.stream /\ q.door = "prediction"

\* A request is what it was when it came in.
Same(q, o) ==
  /\ q.door = o.door /\ q.flow = o.flow /\ q.chat = o.chat
  /\ q.asks = o.asks /\ q.stream = o.stream

Points == \A r \in Requests : Sound(req[r], mode)

TypeInv == TypeOK /\ Points

\* A command that a request has sent is the one it waits for, and its only one.
Answers(cmd) ==
  cmd.by # None =>
    /\ req[cmd.by].pc = IF cmd.op = "sub" THEN "subscribing" ELSE "unsubscribing"
    /\ req[cmd.by].chat = cmd.chat

Pending ==
  \A i \in DOMAIN wire :
    /\ Answers(wire[i])
    /\ \A j \in DOMAIN wire : wire[j].by = wire[i].by /\ wire[i].by # None => i = j

-----------------------------------------------------------------------------
(***************************************************************************)
(* Types.                                                                  *)
(***************************************************************************)

LEMMA InitTypes == Init => TypeInv
<1>. SUFFICES ASSUME Init PROVE TypeInv
  OBVIOUS
<1>1. ASSUME NEW r \in Requests PROVE Sound(req[r], mode) /\ req[r] \in Request
  <2>1. /\ req[r].pc = "idle" /\ req[r].door = "prediction" /\ ~req[r].stream /\ ~req[r].failed
        /\ req[r] \in Request
    BY PredictionAssumption DEF Init, Request, Pcs
  <2>. QED BY <2>1 DEF Sound, Served, Admitted
<1>2. req \in [Requests -> Request] BY <1>1 DEF Init
<1>3. wire \in Seq(Commands) BY DEF Init
<1>4. usage \in 0 .. Limit /\ crashes \in 0 .. MaxCrashes /\ aborts \in 0 .. MaxAborts
  BY PredictionAssumption DEF Init
<1>5. TypeOK BY <1>2, <1>3, <1>4 DEF Init, TypeOK
<1>. QED BY <1>1, <1>5 DEF TypeInv, Points

LEMMA Held ==
  ASSUME TypeInv, NEW r \in Requests
  PROVE  req[r] \in Request /\ Sound(req[r], mode)
BY DEF TypeInv, TypeOK, Points

\* One request goes on as q.
LEMMA GoesOn ==
  ASSUME TypeInv, UNCHANGED mode, NEW r, NEW q, req' = [req EXCEPT ![r] = q],
         q \in Request, Sound(q, mode)
  PROVE  Points' /\ req' \in [Requests -> Request]
<1>1. req \in [Requests -> Request] /\ mode' = mode BY DEF TypeInv, TypeOK
<1>2. ASSUME NEW o \in Requests PROVE Sound(req'[o], mode')
  <2>1. CASE o = r
    <3>1. req'[o] = q BY <1>1, <2>1
    <3>. QED BY <1>1, <3>1
  <2>2. CASE o # r
    <3>1. req'[o] = req[o] BY <1>1, <2>2
    <3>. QED BY <1>1, <3>1, Held
  <2>. QED BY <2>1, <2>2
<1>3. req' \in [Requests -> Request] BY <1>1
<1>. QED BY <1>2, <1>3 DEF Points

\* A request goes on at another place.
LEMMA GoesTo ==
  ASSUME TypeInv, UNCHANGED mode, NEW r \in Requests, NEW pc \in Pcs, Goto(r, pc),
         req[r].pc \notin {"idle", "done"}, pc \notin {"idle", "scheduled"},
         pc \in Served => req[r].pc \in Served, pc \in Admitted => Limit > 0,
         pc = "queued" => mode = "queue",
         pc = "running" => mode # "queue",
         pc \in {"subscribing", "unsubscribing"} =>
           mode = "queue" /\ req[r].stream /\ req[r].door = "prediction"
  PROVE  Points' /\ req' \in [Requests -> Request]
<1>. DEFINE q == [req[r] EXCEPT !.pc = pc]
<1>1. req[r] \in Request /\ Sound(req[r], mode) BY Held
<1>2. /\ q \in Request /\ q.pc = pc /\ Same(q, req[r])
  BY <1>1 DEF Same, Request
<1>3. req' = [req EXCEPT ![r] = q] BY DEF Goto
<1>. HIDE DEF q
<1>4. Sound(q, mode) BY <1>1, <1>2 DEF Sound, Same, Served, Admitted
<1>. QED BY <1>2, <1>3, <1>4, GoesOn

LEMMA Leaves ==
  ASSUME TypeInv, UNCHANGED mode, NEW r \in Requests, Throw(r), req[r].pc \in Served
  PROVE  Points' /\ req' \in [Requests -> Request]
<1>. DEFINE q == [req[r] EXCEPT !.pc = "leaving", !.failed = TRUE]
<1>1. req[r] \in Request /\ Sound(req[r], mode) BY Held
<1>2. q \in Request /\ q.pc = "leaving" /\ Same(q, req[r])
  BY <1>1 DEF Same, Request, Pcs
<1>3. req' = [req EXCEPT ![r] = q] BY DEF Throw
<1>. HIDE DEF q
<1>4. Sound(q, mode) BY <1>1, <1>2 DEF Sound, Same, Served, Admitted
<1>. QED BY <1>2, <1>3, <1>4, GoesOn

LEMMA PoolTypes ==
  ASSUME TypeInv
  PROVE  /\ \A r : PoolWithout(r) \in [Keys -> Requests \cup {None}]
         /\ \A r \in Requests : PoolWith(r) \in [Keys -> Requests \cup {None}]
         /\ \A k \in Keys : Hit(pool, k) \subseteq Requests
         /\ \A w \in Workers, k \in Keys : Hit(workerPool[w], k) \subseteq Requests
<1>1. /\ pool \in [Keys -> Requests \cup {None}]
      /\ \A w \in Workers : workerPool[w] \in [Keys -> Requests \cup {None}]
  BY DEF TypeInv, TypeOK
<1>2. \A r : PoolWithout(r) \in [Keys -> Requests \cup {None}] BY <1>1 DEF PoolWithout
<1>3. \A r \in Requests : PoolWith(r) \in [Keys -> Requests \cup {None}] BY <1>1 DEF PoolWith
<1>4. \A k \in Keys : Hit(pool, k) \subseteq Requests BY <1>1 DEF Hit
<1>5. \A w \in Workers, k \in Keys : Hit(workerPool[w], k) \subseteq Requests BY <1>1 DEF Hit
<1>. QED BY <1>2, <1>3, <1>4, <1>5

LEMMA RemoveTypes ==
  ASSUME TypeInv, NEW c \in Chats, NEW answered \in SUBSET Requests,
         RemoveClient(c, answered)
  PROVE  closed' \subseteq Requests /\ clients' \in [Chats -> Requests \cup {None}]
BY DEF RemoveClient, TypeInv, TypeOK

LEMMA WireTypes ==
  ASSUME TypeInv, NEW op \in {"sub", "unsub"}, NEW c \in Chats, NEW r \in Requests \cup {None}
  PROVE  Append(wire, [op |-> op, chat |-> c, by |-> r]) \in Seq(Commands)
<1>1. [op |-> op, chat |-> c, by |-> r] \in Commands BY DEF Commands
<1>. QED BY <1>1 DEF TypeInv, TypeOK

\* The parts that most steps leave.
LEMMA Rest ==
  ASSUME TypeInv, UNCHANGED mode, Points', req' \in [Requests -> Request],
         pool' \in [Keys -> Requests \cup {None}],
         workerPool' \in [Workers -> [Keys -> Requests \cup {None}]],
         clients' \in [Chats -> Requests \cup {None}],
         channels' \subseteq Chats, wire' \in Seq(Commands), events' \subseteq Workers \X Keys,
         usage' \in 0 .. Limit, aborted' \subseteq Requests, closed' \subseteq Requests,
         crashes' \in 0 .. MaxCrashes, aborts' \in 0 .. MaxAborts,
         asked' \subseteq Requests, counted' \subseteq Requests,
         met' \in [Requests -> SUBSET Requests], lost' \subseteq Requests
  PROVE  TypeInv'
BY DEF TypeInv, TypeOK

\* Each action keeps the types.
LEMMA NextTypes == ASSUME TypeInv, Pending, [Next]_vars PROVE TypeInv'
<1>0. /\ mode \in Modes /\ req \in [Requests -> Request]
      /\ pool \in [Keys -> Requests \cup {None}]
      /\ workerPool \in [Workers -> [Keys -> Requests \cup {None}]]
      /\ clients \in [Chats -> Requests \cup {None}]
      /\ channels \subseteq Chats /\ wire \in Seq(Commands)
      /\ events \subseteq Workers \X Keys
      /\ usage \in 0 .. Limit /\ aborted \subseteq Requests /\ closed \subseteq Requests
      /\ crashes \in 0 .. MaxCrashes /\ aborts \in 0 .. MaxAborts
      /\ asked \subseteq Requests /\ counted \subseteq Requests
      /\ met \in [Requests -> SUBSET Requests] /\ lost \subseteq Requests
      /\ Limit \in Nat
  BY PredictionAssumption DEF TypeInv, TypeOK
<1>1. ASSUME NEW r \in Requests, NEW f \in Flows, NEW c \in Chats,
             NEW door \in Doors \ {"schedule"}, NEW asks \in BOOLEAN, NEW stream \in BOOLEAN,
             Arrive(r, f, c, door, asks, stream)
      PROVE  TypeInv'
  <2>. DEFINE subscribes == stream /\ door = "prediction" /\ mode = "queue" /\ c \notin channels
              pc == IF subscribes THEN "subscribing" ELSE "building"
              q == [req[r] EXCEPT !.flow = f, !.chat = c, !.door = door,
                                  !.asks = asks, !.stream = stream, !.pc = pc]
  <2>1. req[r] \in Request BY Held
  <2>2. pc \in Pcs /\ door \in {"prediction", "webhook"} BY PredictionAssumption DEF Pcs
  <2>3. /\ q \in Request /\ q.pc = pc /\ q.flow = f /\ q.chat = c /\ q.door = door
        /\ q.asks = asks /\ q.stream = stream
    <3>. HIDE DEF pc
    <3>. QED BY <2>1, <2>2 DEF Request
  <2>4. req' = [req EXCEPT ![r] = q] /\ mode' = mode /\ (door = "webhook" /\ asks => stream)
    BY <1>1 DEF Arrive
  <2>. HIDE DEF q
  <2>5. Sound(q, mode) BY <2>2, <2>3, <2>4 DEF Sound, Served, Admitted
  <2>6. Points' /\ req' \in [Requests -> Request] BY <2>3, <2>4, <2>5, GoesOn
  <2>7. wire' \in Seq(Commands)
    <3>1. Append(wire, [op |-> "sub", chat |-> c, by |-> r]) \in Seq(Commands) BY WireTypes
    <3>. QED BY <1>0, <1>1, <3>1 DEF Arrive
  <2>8. clients' \in [Chats -> Requests \cup {None}] BY <1>0, <1>1 DEF Arrive
  <2>9. met' \in [Requests -> SUBSET Requests] BY <1>0, <1>1 DEF Arrive, Meet, Active
  <2>10. UNCHANGED <<mode, pool, channels, queue, usage, aborted, asked, counted, lost>>
         /\ closed' \subseteq Requests
    BY <1>0, <1>1 DEF Arrive
  <2>. QED BY <1>0, <2>6, <2>7, <2>8, <2>9, <2>10, Rest DEF queue
<1>2. ASSUME NEW r \in Requests, Leave(r) PROVE TypeInv'
  <2>0. req[r].chat \in Chats /\ req[r].stream \in BOOLEAN
    BY <1>2, Held DEF Leave, Sound, Served, Request
  <2>. DEFINE unsubscribes == /\ req[r].stream /\ req[r].door = "prediction"
                              /\ mode = "queue" /\ req[r].chat \in channels
              pc == IF unsubscribes THEN "unsubscribing" ELSE "done"
  <2>1. Points' /\ req' \in [Requests -> Request]
    <3>1. pc \in Pcs BY DEF Pcs
    <3>2. Goto(r, pc) /\ req[r].pc = "leaving" /\ mode' = mode BY <1>2 DEF Leave
    <3>. QED BY <3>1, <3>2, GoesTo DEF Served, Admitted
  <2>2. wire' \in Seq(Commands)
    <3>1. Append(wire, [op |-> "unsub", chat |-> req[r].chat, by |-> r]) \in Seq(Commands)
      BY <2>0, WireTypes
    <3>. QED BY <1>0, <1>2, <3>1 DEF Leave
  <2>3. clients' \in [Chats -> Requests \cup {None}] /\ closed' \subseteq Requests
    <3>1. Reply(r) \subseteq Requests BY DEF Reply
    <3>. QED BY <1>0, <1>2, <2>0, <3>1, RemoveTypes DEF Leave
  <2>4. UNCHANGED <<mode, pool, channels, queue, usage, aborted, history>> BY <1>2 DEF Leave
  <2>. QED BY <1>0, <2>1, <2>2, <2>3, <2>4, Rest DEF queue, history
<1>3. ASSUME NEW c \in Chats, Sweep(c) PROVE TypeInv'
  <2>1. Append(wire, [op |-> "unsub", chat |-> c, by |-> None]) \in Seq(Commands) BY WireTypes
  <2>2. UNCHANGED <<mode, req, pool, clients, channels, closed, queue, usage, aborted, history>>
        /\ wire' \in Seq(Commands)
    BY <1>3, <2>1 DEF Sweep
  <2>3. Points' BY <2>2 DEF TypeInv, Points, Sound
  <2>. QED BY <1>0, <2>2, <2>3, Rest DEF queue, history
<1>4. CASE Answer
  <2>. DEFINE cmd == Head(wire)
  <2>0. wire # <<>> /\ cmd \in Commands /\ Tail(wire) \in Seq(Commands)
    BY <1>0, <1>4 DEF Answer
  <2>1. cmd.chat \in Chats /\ cmd.by \in Requests \cup {None} BY <2>0 DEF Commands
  <2>. HIDE DEF cmd
  <2>2. Points' /\ req' \in [Requests -> Request]
    <3>1. CASE UNCHANGED req BY <1>0, <1>4, <3>1 DEF Answer, TypeInv, Points, Sound
    <3>2. ASSUME NEW pc \in {"building", "done"}, Goto(cmd.by, pc)
          PROVE  Points' /\ req' \in [Requests -> Request]
      <4>1. CASE cmd.by \notin Requests
        <5>1. UNCHANGED req BY <1>0, <3>2, <4>1 DEF Goto
        <5>. QED BY <3>1, <5>1
      <4>2. CASE cmd.by \in Requests
        <5>1. req[cmd.by].pc \in {"subscribing", "unsubscribing"}
          BY <1>0, <2>0, <4>2, PredictionAssumption DEF Pending, Answers, cmd
        <5>2. pc \in Pcs /\ mode' = mode BY <1>4 DEF Pcs, Answer
        <5>. QED BY <3>2, <4>2, <5>1, <5>2, GoesTo DEF Served, Admitted
      <4>. QED BY <4>1, <4>2
    <3>. QED BY <1>4, <3>1, <3>2 DEF Answer, cmd
  <2>3. channels' \subseteq Chats BY <1>0, <1>4, <2>1 DEF Answer, cmd
  <2>4. clients' \in [Chats -> Requests \cup {None}] /\ closed' \subseteq Requests
    BY <1>0, <1>4, <2>1, RemoveTypes DEF Answer, cmd
  <2>5. UNCHANGED <<mode, pool, queue, usage, aborted, history>> /\ wire' \in Seq(Commands)
    BY <1>4, <2>0 DEF Answer
  <2>. QED BY <1>0, <2>2, <2>3, <2>4, <2>5, Rest DEF queue, history
<1>5. ASSUME NEW r \in Requests, NotFound(r) \/ Refuse(r) PROVE TypeInv'
  <2>1. UNCHANGED <<mode, clients, channels, wire, closed, queue, usage, aborted, history>>
        /\ Throw(r) /\ req[r].pc = "building"
    BY <1>5 DEF NotFound, Refuse, server
  <2>2. Points' /\ req' \in [Requests -> Request] BY <2>1, Leaves DEF Served
  <2>3. pool' \in [Keys -> Requests \cup {None}]
    BY <1>0, <1>5, PoolTypes DEF NotFound, Refuse, server
  <2>. QED BY <1>0, <2>1, <2>2, <2>3, Rest DEF queue, history
<1>6. ASSUME NEW r \in Requests, Admit(r) PROVE TypeInv'
  <2>1. Goto(r, "admitted") /\ req[r].pc = "building" /\ Limit > 0 /\ "admitted" \in Pcs
        /\ UNCHANGED <<mode, server, queue, usage, aborted, history>>
    BY <1>0, <1>6 DEF Admit, MayPredict, Pcs
  <2>2. Points' /\ req' \in [Requests -> Request] BY <2>1, GoesTo DEF Served, Admitted
  <2>. QED BY <1>0, <2>1, <2>2, Rest DEF server, queue, history
<1>7. ASSUME NEW r \in Requests, RunHere(r) PROVE TypeInv'
  <2>1. Goto(r, "running") /\ req[r].pc = "admitted" /\ mode # "queue" /\ "running" \in Pcs
        /\ UNCHANGED <<mode, clients, channels, wire, closed, queue, usage, aborted, history>>
    BY <1>7 DEF RunHere, Pcs
  <2>2. Limit > 0 BY <2>1, Held DEF Sound, Admitted
  <2>3. Points' /\ req' \in [Requests -> Request] BY <2>1, <2>2, GoesTo DEF Served, Admitted
  <2>4. pool' \in [Keys -> Requests \cup {None}] BY <1>7, PoolTypes DEF RunHere
  <2>. QED BY <1>0, <2>1, <2>3, <2>4, Rest DEF queue, history
<1>8. ASSUME NEW r \in Requests, Enqueue(r) PROVE TypeInv'
  <2>1. Goto(r, "queued") /\ req[r].pc = "admitted" /\ mode = "queue" /\ "queued" \in Pcs
        /\ UNCHANGED <<mode, server, queue, usage, aborted, history>>
    BY <1>8 DEF Enqueue, Pcs
  <2>2. Limit > 0 BY <2>1, Held DEF Sound, Admitted
  <2>3. Points' /\ req' \in [Requests -> Request] BY <2>1, <2>2, GoesTo DEF Served, Admitted
  <2>. QED BY <1>0, <2>1, <2>3, Rest DEF server, queue, history
<1>9. ASSUME NEW r \in Requests, Succeed(r) PROVE TypeInv'
  <2>. DEFINE q == [req[r] EXCEPT !.pc = "counting", !.host = None]
  <2>1. req[r] \in Request /\ Sound(req[r], mode) /\ req[r].pc = "running" BY <1>9, Held DEF Succeed
  <2>2. q \in Request /\ q.pc = "counting" /\ Same(q, req[r])
    BY <2>1 DEF Same, Request, Pcs
  <2>3. req' = [req EXCEPT ![r] = q]
        /\ UNCHANGED <<mode, clients, channels, wire, closed, queue, usage, met, counted, lost>>
    BY <1>9 DEF Succeed
  <2>. HIDE DEF q
  <2>4. Sound(q, mode) BY <2>1, <2>2 DEF Sound, Same, Served, Admitted
  <2>5. Points' /\ req' \in [Requests -> Request] BY <2>2, <2>3, <2>4, GoesOn
  <2>6. pool' \in [Keys -> Requests \cup {None}] BY <1>9, PoolTypes DEF Succeed
  <2>7. aborted' \subseteq Requests /\ asked' \subseteq Requests
    BY <1>0, <1>9 DEF Succeed, RunsOver
  <2>. QED BY <1>0, <2>3, <2>5, <2>6, <2>7, Rest DEF queue
<1>10. ASSUME NEW r \in Requests, Fail(r) PROVE TypeInv'
  <2>. DEFINE q == [req[r] EXCEPT !.pc = "leaving", !.host = None, !.failed = TRUE]
  <2>1. req[r] \in Request /\ Sound(req[r], mode) /\ req[r].pc = "running" BY <1>10, Held DEF Fail
  <2>2. q \in Request /\ q.pc = "leaving" /\ Same(q, req[r])
    BY <2>1 DEF Same, Request, Pcs
  <2>3. req' = [req EXCEPT ![r] = q]
        /\ UNCHANGED <<mode, clients, channels, wire, closed, queue, usage, met, counted, lost>>
    BY <1>10 DEF Fail
  <2>. HIDE DEF q
  <2>4. Sound(q, mode) BY <2>1, <2>2 DEF Sound, Same, Served, Admitted
  <2>5. Points' /\ req' \in [Requests -> Request] BY <2>2, <2>3, <2>4, GoesOn
  <2>6. pool' \in [Keys -> Requests \cup {None}] BY <1>10, PoolTypes DEF Fail
  <2>7. aborted' \subseteq Requests /\ asked' \subseteq Requests
    BY <1>0, <1>10 DEF Fail, RunsOver
  <2>. QED BY <1>0, <2>3, <2>5, <2>6, <2>7, Rest DEF queue
<1>11. ASSUME NEW r \in Requests, ReadUsage(r) PROVE TypeInv'
  <2>. DEFINE q == [req[r] EXCEPT !.pc = "writing", !.count = NewCount]
  <2>1. req[r] \in Request /\ Sound(req[r], mode) /\ req[r].pc = "counting" BY <1>11, Held DEF ReadUsage
  <2>2. NewCount \in 0 .. Limit BY <1>0, <2>1 DEF NewCount, Sound, Admitted
  <2>3. q \in Request /\ q.pc = "writing" /\ Same(q, req[r])
    BY <2>1, <2>2 DEF Same, Request, Pcs
  <2>4. req' = [req EXCEPT ![r] = q] /\ UNCHANGED <<mode, server, queue, usage, aborted, history>>
    BY <1>11 DEF ReadUsage
  <2>. HIDE DEF q
  <2>5. Sound(q, mode) BY <2>1, <2>3 DEF Sound, Same, Served, Admitted
  <2>6. Points' /\ req' \in [Requests -> Request] BY <2>3, <2>4, <2>5, GoesOn
  <2>. QED BY <1>0, <2>4, <2>6, Rest DEF server, queue, history
<1>12. ASSUME NEW r \in Requests, WriteUsage(r) PROVE TypeInv'
  <2>. DEFINE pc == IF req[r].door = "schedule" THEN "done" ELSE "leaving"
              q == [req[r] EXCEPT !.pc = pc, !.count = 0]
  <2>1. req[r] \in Request /\ Sound(req[r], mode) /\ req[r].pc = "writing" /\ 0 \in 0 .. Limit
    BY <1>0, <1>12, Held DEF WriteUsage
  <2>2. q \in Request /\ q.pc = pc /\ Same(q, req[r])
    BY <2>1 DEF Same, Request, Pcs
  <2>3. req' = [req EXCEPT ![r] = q]
        /\ UNCHANGED <<mode, server, queue, aborted, asked, met, lost>>
    BY <1>12 DEF WriteUsage
  <2>. HIDE DEF q
  <2>4. Sound(q, mode) BY <2>1, <2>2 DEF Sound, Same, Served, Admitted
  <2>5. Points' /\ req' \in [Requests -> Request] BY <2>2, <2>3, <2>4, GoesOn
  <2>6. usage' \in 0 .. Limit /\ counted' \subseteq Requests
    BY <1>0, <1>12, <2>1 DEF WriteUsage, Request
  <2>. QED BY <1>0, <2>3, <2>5, <2>6, Rest DEF server, queue
<1>13. ASSUME NEW r \in Requests, NEW w \in Workers, Pick(w, r) PROVE TypeInv'
  <2>. DEFINE q == [req[r] EXCEPT !.pc = "running", !.host = w]
  <2>1. req[r] \in Request /\ Sound(req[r], mode) /\ req[r].pc = "queued" BY <1>13, Held DEF Pick
  <2>2. /\ q \in Request /\ q.pc = "running" /\ Same(q, req[r])
        /\ q.host = w
    BY <2>1 DEF Same, Request, Pcs
  <2>3. req' = [req EXCEPT ![r] = q]
        /\ UNCHANGED <<mode, server, events, crashes, aborts, usage, aborted, history>>
    BY <1>13 DEF Pick
  <2>. HIDE DEF q
  <2>4. Sound(q, mode) BY <2>1, <2>2 DEF Sound, Same, Served, Admitted
  <2>5. Points' /\ req' \in [Requests -> Request] BY <2>2, <2>3, <2>4, GoesOn
  <2>6. workerPool' \in [Workers -> [Keys -> Requests \cup {None}]]
    BY <1>0, <1>13 DEF Pick, WorkerPoolWith
  <2>. QED BY <1>0, <2>3, <2>5, <2>6, Rest DEF server, history
<1>14. ASSUME NEW w \in Workers, Crash(w) PROVE TypeInv'
  <2>. DEFINE stalled == {r \in Requests : req[r].pc = "running" /\ req[r].host = w}
  <2>1. PICK again \in SUBSET stalled :
          req' = [r \in Requests |->
             IF r \notin stalled THEN req[r]
             ELSE IF r \in again THEN [req[r] EXCEPT !.pc = "queued", !.host = None]
             ELSE [req[r] EXCEPT !.pc = "leaving", !.host = None, !.failed = TRUE]]
    BY <1>14 DEF Crash
  <2>2. mode' = mode /\ mode = "queue" BY <1>14 DEF Crash
  <2>3. ASSUME NEW r \in Requests PROVE req'[r] \in Request /\ Sound(req'[r], mode)
    <3>0. req[r] \in Request /\ Sound(req[r], mode) BY Held
    <3>1. CASE r \notin stalled BY <2>1, <3>0, <3>1
    <3>2. CASE r \in again
      <4>. DEFINE q == [req[r] EXCEPT !.pc = "queued", !.host = None]
      <4>1. q \in Request /\ q.pc = "queued" /\ Same(q, req[r])
        BY <3>0 DEF Same, Request, Pcs
      <4>2. req'[r] = q /\ req[r].pc = "running" BY <2>1, <3>2
      <4>. HIDE DEF q
      <4>. QED BY <2>2, <3>0, <4>1, <4>2 DEF Sound, Same, Served, Admitted
    <3>3. CASE r \in stalled \ again
      <4>. DEFINE q == [req[r] EXCEPT !.pc = "leaving", !.host = None, !.failed = TRUE]
      <4>1. q \in Request /\ q.pc = "leaving" /\ Same(q, req[r])
        BY <3>0 DEF Same, Request, Pcs
      <4>2. req'[r] = q /\ req[r].pc = "running" BY <2>1, <3>3
      <4>. HIDE DEF q
      <4>. QED BY <2>2, <3>0, <4>1, <4>2 DEF Sound, Same, Served, Admitted
    <3>. QED BY <3>1, <3>2, <3>3
  <2>4. req' \in [Requests -> Request]
    <3>1. DOMAIN req' = Requests /\ req' = [r \in Requests |-> req'[r]] BY <2>1
    <3>. QED BY <2>3, <3>1
  <2>5. Points' BY <2>2, <2>3 DEF Points, Sound
  <2>6. /\ crashes' \in 0 .. MaxCrashes /\ aborted' \subseteq Requests /\ asked' \subseteq Requests
        /\ workerPool' \in [Workers -> [Keys -> Requests \cup {None}]]
        /\ events' \subseteq Workers \X Keys
        /\ UNCHANGED <<mode, server, aborts, usage, met, counted, lost>>
    <3>1. [k \in Keys |-> None] \in [Keys -> Requests \cup {None}] OBVIOUS
    <3>2. workerPool' \in [Workers -> [Keys -> Requests \cup {None}]]
      <4>. DEFINE empty == [k \in Keys |-> None]
      <4>1. workerPool' = [workerPool EXCEPT ![w] = empty] BY <1>14 DEF Crash
      <4>2. empty \in [Keys -> Requests \cup {None}] BY <3>1
      <4>. HIDE DEF empty
      <4>. QED BY <1>0, <4>1, <4>2
    <3>3. crashes' \in 0 .. MaxCrashes
      <4>1. crashes < MaxCrashes /\ crashes' = crashes + 1 BY <1>14 DEF Crash
      <4>. QED BY <1>0, <4>1, PredictionAssumption
    <3>4. aborted' \subseteq Requests /\ asked' \subseteq Requests /\ events' \subseteq Workers \X Keys
      BY <1>0, <1>14 DEF Crash, RunsOver
    <3>. QED BY <1>14, <3>2, <3>3, <3>4 DEF Crash
  <2>. QED BY <1>0, <2>4, <2>5, <2>6, Rest DEF server
<1>15. ASSUME NEW k \in Keys, AbortHere(k) PROVE TypeInv'
  <2>1. /\ aborted' \subseteq Requests /\ asked' \subseteq Requests
        /\ pool' \in [Keys -> Requests \cup {None}] /\ aborts' \in 0 .. MaxAborts
    BY <1>0, <1>15, PoolTypes, PredictionAssumption DEF AbortHere, Running
  <2>2. UNCHANGED <<mode, req, clients, channels, wire, closed, workerPool, events, crashes,
                    usage, met, counted, lost>>
    BY <1>15 DEF AbortHere
  <2>3. Points' BY <2>2 DEF TypeInv, Points, Sound
  <2>. QED BY <1>0, <2>1, <2>2, <2>3, Rest
<1>16. ASSUME NEW k \in Keys, Publish(k) PROVE TypeInv'
  <2>1. /\ events' \subseteq Workers \X Keys /\ asked' \subseteq Requests
        /\ aborts' \in 0 .. MaxAborts
    BY <1>0, <1>16, PredictionAssumption DEF Publish, Running
  <2>2. UNCHANGED <<mode, req, server, workerPool, crashes, usage, aborted, met, counted, lost>>
    BY <1>16 DEF Publish
  <2>3. Points' BY <2>2 DEF TypeInv, Points, Sound
  <2>. QED BY <1>0, <2>1, <2>2, <2>3, Rest DEF server
<1>17. ASSUME NEW w \in Workers, NEW k \in Keys, Deliver(w, k) PROVE TypeInv'
  <2>1. /\ events' \subseteq Workers \X Keys /\ aborted' \subseteq Requests
        /\ workerPool' \in [Workers -> [Keys -> Requests \cup {None}]]
    BY <1>0, <1>17, PoolTypes DEF Deliver
  <2>2. UNCHANGED <<mode, req, server, crashes, aborts, usage, history>>
    BY <1>17 DEF Deliver
  <2>3. Points' BY <2>2 DEF TypeInv, Points, Sound
  <2>. QED BY <1>0, <2>1, <2>2, <2>3, Rest DEF server, history
<1>18. CASE UNCHANGED vars
  <2>1. UNCHANGED <<mode, req, server, queue, usage, aborted, history>> BY <1>18 DEF vars
  <2>2. Points' BY <2>1 DEF TypeInv, Points, Sound
  <2>. QED BY <1>0, <2>1, <2>2, Rest DEF server, queue, history
<1>19. ASSUME NEW r \in Requests, Forbid(r) PROVE TypeInv'
  <2>. DEFINE q == [req[r] EXCEPT !.pc = "done"]
  <2>1. req[r] \in Request /\ Sound(req[r], mode) /\ req[r].pc = "idle" BY <1>19, Held DEF Forbid
  <2>2. q \in Request /\ q.pc = "done" /\ Same(q, req[r]) BY <2>1 DEF Same, Request, Pcs
  <2>3. req' = [req EXCEPT ![r] = q] /\ closed' \subseteq Requests
        /\ UNCHANGED <<mode, pool, clients, channels, wire, queue, usage, aborted, history>>
    BY <1>0, <1>19 DEF Forbid, Goto
  <2>. HIDE DEF q
  <2>4. Sound(q, mode) BY <2>1, <2>2 DEF Sound, Same, Served, Admitted
  <2>5. Points' /\ req' \in [Requests -> Request] BY <2>2, <2>3, <2>4, GoesOn
  <2>. QED BY <1>0, <2>3, <2>5, Rest DEF queue, history
<1>20. ASSUME NEW r \in Requests, Fire(r) PROVE TypeInv'
  <2>1. PICK pc \in {"scheduled", "done"} :
          /\ pc = "scheduled" => MayPredict(r)
          /\ req' = [req EXCEPT ![r].pc = pc, ![r].door = "schedule"]
    BY <1>20 DEF Fire
  <2>. DEFINE q == [req[r] EXCEPT !.pc = pc, !.door = "schedule"]
  <2>2. req[r] \in Request /\ Sound(req[r], mode) /\ req[r].pc = "idle" BY <1>20, Held DEF Fire
  <2>3. q \in Request /\ q.pc = pc /\ q.door = "schedule" /\ q.stream = req[r].stream
    BY <2>2 DEF Request, Pcs
  <2>4. req' = [req EXCEPT ![r] = q] BY <2>1
  <2>7. met' \in [Requests -> SUBSET Requests] BY <1>0, <1>20 DEF Fire, Meet, Active
  <2>8. (pc = "scheduled" => Limit > 0)
        /\ UNCHANGED <<mode, server, queue, usage, aborted, asked, counted, lost>>
    BY <1>0, <1>20, <2>1 DEF Fire, MayPredict
  <2>. HIDE DEF q
  <2>5. Sound(q, mode) BY <2>2, <2>3, <2>8 DEF Sound, Served, Admitted
  <2>6. Points' /\ req' \in [Requests -> Request] BY <2>3, <2>4, <2>5, <2>8, GoesOn
  <2>. QED BY <1>0, <2>6, <2>7, <2>8, Rest DEF server, queue
<1>21. ASSUME NEW r \in Requests, Finish(r) PROVE TypeInv'
  <2>1. PICK pc \in {"counting", "done"} : Goto(r, pc) BY <1>21 DEF Finish
  <2>2. req[r].pc = "scheduled" /\ UNCHANGED <<mode, server, queue, usage, aborted, history>>
        /\ pc \in Pcs
    BY <1>21 DEF Finish, Pcs
  <2>3. Limit > 0 BY <2>2, Held DEF Sound, Admitted
  <2>4. Points' /\ req' \in [Requests -> Request]
    BY <2>1, <2>2, <2>3, GoesTo DEF Served, Admitted
  <2>. QED BY <1>0, <2>2, <2>4, Rest DEF server, queue, history
<1>22. ASSUME NEW c \in Chats, AbortSpeech(c) \/ WriteFails(c) PROVE TypeInv'
  <2>1. /\ clients' \in [Chats -> Requests \cup {None}]
        /\ closed' \subseteq Requests /\ lost' \subseteq Requests
        /\ UNCHANGED <<mode, req, pool, channels, wire, queue, usage, aborted, asked, met, counted>>
    BY <1>0, <1>22 DEF AbortSpeech, WriteFails, Lose
  <2>2. Points' BY <2>1 DEF TypeInv, Points, Sound
  <2>. QED BY <1>0, <2>1, <2>2, Rest DEF queue
<1>. QED
  BY <1>1, <1>2, <1>3, <1>4, <1>5, <1>6, <1>7, <1>8, <1>9, <1>10, <1>11, <1>12, <1>13, <1>14,
     <1>15, <1>16, <1>17, <1>18, <1>19, <1>20, <1>21, <1>22 DEF Next

\* The steps that send and answer no command.
LEMMA WireKept ==
  ASSUME TypeInv, Pending, UNCHANGED wire,
         \A r \in Requests : req[r].pc \in {"subscribing", "unsubscribing"} => req'[r] = req[r]
  PROVE  Pending'
<1>1. \A i \in DOMAIN wire : wire[i] \in Commands
  BY DEF TypeInv, TypeOK
<1>2. ASSUME NEW i \in DOMAIN wire PROVE Answers(wire[i])'
  <2>1. wire[i].by \in Requests \cup {None} /\ wire'[i] = wire[i] BY <1>1 DEF Commands
  <2>. QED BY <2>1 DEF Pending, Answers
<1>. QED BY <1>2 DEF Pending

\* A command is sent, by nobody or by a request that has sent none.
LEMMA WireSends ==
  ASSUME TypeInv, Pending, NEW cmd \in Commands, wire' = Append(wire, cmd),
         \A r \in Requests : req[r].pc \in {"subscribing", "unsubscribing"} => req'[r] = req[r],
         cmd.by # None => req[cmd.by].pc \notin {"subscribing", "unsubscribing"},
         cmd.by # None => /\ req'[cmd.by].pc = IF cmd.op = "sub" THEN "subscribing"
                                                ELSE "unsubscribing"
                          /\ req'[cmd.by].chat = cmd.chat
  PROVE  Pending'
<1>1. /\ wire \in Seq(Commands) /\ Len(wire) \in Nat /\ DOMAIN wire = 1 .. Len(wire)
      /\ DOMAIN wire' = 1 .. (Len(wire) + 1) /\ wire'[Len(wire) + 1] = cmd
      /\ \A i \in DOMAIN wire : wire'[i] = wire[i] /\ wire[i] \in Commands
  BY DEF TypeInv, TypeOK
<1>2. ASSUME NEW i \in DOMAIN wire
      PROVE  Answers(wire[i])' /\ (wire[i].by # None => wire[i].by # cmd.by)
  <2>1. wire[i].by \in Requests \cup {None} /\ wire'[i] = wire[i] BY <1>1 DEF Commands
  <2>. QED BY <2>1 DEF Pending, Answers
<1>3. \A i \in DOMAIN wire' : i \in DOMAIN wire \/ i = Len(wire) + 1 BY <1>1
<1>4. ASSUME NEW i \in DOMAIN wire' PROVE Answers(wire[i])'
  BY <1>1, <1>2, <1>3 DEF Answers
<1>5. ASSUME NEW i \in DOMAIN wire', NEW j \in DOMAIN wire', wire'[j].by = wire'[i].by,
             wire'[i].by # None
      PROVE  i = j
  BY <1>1, <1>2, <1>3, <1>5 DEF Pending
<1>. QED BY <1>4, <1>5 DEF Pending

\* The oldest command is answered.
LEMMA WireAnswers == ASSUME TypeInv, Pending, Answer PROVE Pending'
<1>1. /\ wire # <<>> /\ wire' = Tail(wire) /\ wire \in Seq(Commands)
      /\ \A i \in DOMAIN wire : wire[i] \in Commands
      /\ req \in [Requests -> Request]
  BY DEF Answer, TypeInv, TypeOK
<1>2. /\ DOMAIN wire = 1 .. Len(wire) /\ Len(wire) \in Nat /\ 1 \in DOMAIN wire
      /\ Head(wire) = wire[1]
      /\ \A i \in DOMAIN wire' : i + 1 \in DOMAIN wire /\ wire'[i] = wire[i + 1] /\ i \in Nat
  BY <1>1
<1>3. \A r \in Requests : r # wire[1].by => req'[r] = req[r]
  BY <1>1, <1>2 DEF Answer, Goto
<1>4. ASSUME NEW i \in DOMAIN wire' PROVE Answers(wire[i])'
  <2>1. i + 1 \in DOMAIN wire /\ wire'[i] = wire[i + 1] /\ i + 1 # 1
        /\ wire[i + 1].by \in Requests \cup {None}
    BY <1>1, <1>2 DEF Commands
  <2>2. wire[i + 1].by # None => wire[i + 1].by # wire[1].by BY <1>2, <2>1 DEF Pending
  <2>. QED BY <1>3, <2>1, <2>2 DEF Pending, Answers
<1>5. ASSUME NEW i \in DOMAIN wire', NEW j \in DOMAIN wire', wire'[j].by = wire'[i].by,
             wire'[i].by # None
      PROVE  i = j
  BY <1>2, <1>5 DEF Pending
<1>. QED BY <1>4, <1>5 DEF Pending

LEMMA PendingNext == ASSUME TypeInv, Pending, [Next]_vars PROVE Pending'
<1>0. req \in [Requests -> Request] BY DEF TypeInv, TypeOK
<1>1. ASSUME NEW r \in Requests, NEW f \in Flows, NEW c \in Chats,
             NEW door \in Doors \ {"schedule"}, NEW asks \in BOOLEAN, NEW stream \in BOOLEAN,
             Arrive(r, f, c, door, asks, stream)
      PROVE  Pending'
  <2>. DEFINE subscribes == stream /\ door = "prediction" /\ mode = "queue" /\ c \notin channels
              pc == IF subscribes THEN "subscribing" ELSE "building"
              q == [req[r] EXCEPT !.flow = f, !.chat = c, !.door = door,
                                  !.asks = asks, !.stream = stream, !.pc = pc]
  <2>1. req[r] \in Request /\ req[r].pc = "idle" BY <1>1, Held DEF Arrive
  <2>2. q.pc = pc /\ q.chat = c
    <3>. HIDE DEF pc
    <3>. QED BY <2>1 DEF Request
  <2>3. req' = [req EXCEPT ![r] = q] BY <1>1 DEF Arrive
  <2>. HIDE DEF q
  <2>4. \A o \in Requests : req[o].pc \in {"subscribing", "unsubscribing"} => req'[o] = req[o]
    BY <1>0, <2>1, <2>3
  <2>5. CASE subscribes
    <3>. DEFINE cmd == [op |-> "sub", chat |-> c, by |-> r]
    <3>1. cmd \in Commands /\ cmd.by = r /\ cmd.op = "sub" /\ cmd.chat = c BY DEF Commands
    <3>2. wire' = Append(wire, cmd) BY <1>1, <2>5 DEF Arrive
    <3>3. req'[r].pc = "subscribing" /\ req'[r].chat = c BY <1>0, <2>2, <2>3, <2>5
    <3>. HIDE DEF cmd
    <3>. QED BY <2>1, <2>4, <3>1, <3>2, <3>3, WireSends
  <2>6. CASE ~subscribes
    <3>1. UNCHANGED wire BY <1>1, <2>6 DEF Arrive
    <3>. QED BY <2>4, <3>1, WireKept
  <2>. QED BY <2>5, <2>6
<1>2. ASSUME NEW r \in Requests, Leave(r) PROVE Pending'
  <2>. DEFINE unsubscribes == /\ req[r].stream /\ req[r].door = "prediction"
                              /\ mode = "queue" /\ req[r].chat \in channels
  <2>1. req[r].pc = "leaving" /\ req[r].chat \in Chats /\ req[r] \in Request
    BY <1>2, Held DEF Leave, Sound, Served
  <2>2. \A o \in Requests : req[o].pc \in {"subscribing", "unsubscribing"} => req'[o] = req[o]
    BY <1>0, <1>2, <2>1 DEF Leave, Goto
  <2>3. CASE unsubscribes
    <3>. DEFINE cmd == [op |-> "unsub", chat |-> req[r].chat, by |-> r]
                q == [req[r] EXCEPT !.pc = "unsubscribing"]
    <3>1. cmd \in Commands /\ cmd.by = r /\ cmd.op = "unsub" /\ cmd.chat = req[r].chat
      BY <2>1 DEF Commands
    <3>2. wire' = Append(wire, cmd) /\ req' = [req EXCEPT ![r] = q]
      BY <1>2, <2>3 DEF Leave, Goto
    <3>3. q.pc = "unsubscribing" /\ q.chat = req[r].chat BY <2>1 DEF Request
    <3>. HIDE DEF cmd, q
    <3>4. req'[r] = q BY <1>0, <3>2
    <3>. QED BY <2>1, <2>2, <3>1, <3>2, <3>3, <3>4, WireSends
  <2>4. CASE ~unsubscribes
    <3>1. UNCHANGED wire BY <1>2, <2>4 DEF Leave
    <3>. QED BY <2>2, <3>1, WireKept
  <2>. QED BY <2>3, <2>4
<1>3. ASSUME NEW c \in Chats, Sweep(c) PROVE Pending'
  <2>. DEFINE cmd == [op |-> "unsub", chat |-> c, by |-> None]
  <2>1. cmd \in Commands /\ cmd.by = None BY DEF Commands
  <2>2. wire' = Append(wire, cmd) /\ req' = req BY <1>3 DEF Sweep
  <2>. HIDE DEF cmd
  <2>. QED BY <2>1, <2>2, WireSends
<1>4. CASE Answer BY <1>4, WireAnswers
<1>5. ASSUME NEW r \in Requests,
             \/ NotFound(r) \/ Refuse(r) \/ Admit(r) \/ RunHere(r) \/ Enqueue(r)
             \/ Succeed(r) \/ Fail(r) \/ ReadUsage(r) \/ WriteUsage(r)
             \/ Forbid(r) \/ Fire(r) \/ Finish(r)
             \/ \E w \in Workers : Pick(w, r)
      PROVE  Pending'
  <2>1. UNCHANGED wire /\ req[r].pc \notin {"subscribing", "unsubscribing"}
    BY <1>5 DEF NotFound, Refuse, Admit, RunHere, Enqueue, Succeed, Fail, ReadUsage, WriteUsage,
       Forbid, Fire, Finish, Pick, server
  <2>2. \A o \in Requests : o # r => req'[o] = req[o]
    BY <1>0, <1>5 DEF NotFound, Refuse, Admit, RunHere, Enqueue, Succeed, Fail, ReadUsage,
       WriteUsage, Forbid, Fire, Finish, Pick, Goto, Throw
  <2>. QED BY <2>1, <2>2, WireKept
<1>6. ASSUME NEW w \in Workers, Crash(w) PROVE Pending'
  <2>1. \A o \in Requests : req[o].pc # "running" => req'[o] = req[o]
    BY <1>6 DEF Crash
  <2>2. UNCHANGED wire BY <1>6 DEF Crash, server
  <2>. QED BY <2>1, <2>2, WireKept
<1>7. CASE \/ \E k \in Keys : AbortHere(k) \/ Publish(k)
           \/ \E w \in Workers, k \in Keys : Deliver(w, k)
           \/ \E c \in Chats : AbortSpeech(c) \/ WriteFails(c)
           \/ UNCHANGED vars
  <2>1. UNCHANGED <<req, wire>>
    BY <1>7 DEF AbortHere, Publish, Deliver, AbortSpeech, WriteFails, Lose, vars, server
  <2>. QED BY <2>1, WireKept
<1>. QED BY <1>1, <1>2, <1>3, <1>4, <1>5, <1>6, <1>7 DEF Next

Base == TypeInv /\ Pending

\* The flow and the chat of a request that is served are ids.
LEMMA ServedKey ==
  ASSUME Base, NEW r \in Requests, req[r].pc \in Served
  PROVE  req[r].flow \in Flows /\ req[r].chat \in Chats /\ Key(r) \in Keys
<1>1. Sound(req[r], mode) BY Held DEF Base
<1>2. req[r].flow \in Flows /\ req[r].chat \in Chats BY <1>1 DEF Sound, Served
<1>. QED BY <1>2 DEF Key, Keys

LEMMA BaseInit == Init => Base
BY InitTypes DEF Init, Base, Pending

LEMMA BaseNext == ASSUME Base, [Next]_vars PROVE Base'
BY NextTypes, PendingNext DEF Base

\* The types of the state of a server and its workers; the count stays within the limit.
THEOREM TypeCorrect == Spec => []TypeOK
<1>1. Base => TypeOK BY DEF Base, TypeInv
<1>. QED BY <1>1, BaseInit, BaseNext, PTL DEF Spec

-----------------------------------------------------------------------------
(***************************************************************************)
(* Who was beside whom.                                                    *)
(***************************************************************************)

\* Requests that are active together have met, and none meets one to come.
Met ==
  /\ \A r \in Requests : \A q \in met[r] : req[r].pc # "idle" /\ req[q].pc # "idle"
  /\ \A r, q \in Active : r # q => q \in met[r]

\* What a step leaves of a request that has come in.
Stays(r) ==
  /\ req'[r].pc # "idle" /\ Same(req'[r], req[r])
  /\ req[r].pc = "done" => req'[r] = req[r]

\* The request r comes in and meets those in progress.
ComesIn(r) ==
  /\ req[r].pc = "idle" /\ req'[r].pc # "idle" /\ Meet(r) /\ mode' = mode
  /\ \A o \in Requests : o # r => req'[o] = req[o]

\* A step in which no request comes in, but for one that is turned away.
Onward ==
  /\ UNCHANGED <<mode, met>>
  /\ \A r \in Requests : IF req[r].pc = "idle" THEN req'[r] = req[r] \/ req'[r].pc = "done"
                         ELSE Stays(r)

\* What every step leaves.
Steady ==
  /\ mode' = mode
  /\ \A r \in Requests : req[r].pc # "idle" => Stays(r) /\ met[r] \subseteq met'[r]

LEMMA Arrives ==
  ASSUME Base, NEW r \in Requests, NEW f \in Flows, NEW c \in Chats,
         NEW door \in Doors \ {"schedule"}, NEW asks \in BOOLEAN, NEW stream \in BOOLEAN,
         Arrive(r, f, c, door, asks, stream)
  PROVE  /\ ComesIn(r) /\ req'[r].pc \in {"subscribing", "building"}
         /\ req'[r].pc = "subscribing" <=>
              stream /\ door = "prediction" /\ mode = "queue" /\ c \notin channels
         /\ req'[r].chat = c /\ req'[r].door = door /\ req'[r].stream = stream
<1>. DEFINE pc == IF stream /\ door = "prediction" /\ mode = "queue" /\ c \notin channels
                  THEN "subscribing" ELSE "building"
            q == [req[r] EXCEPT !.flow = f, !.chat = c, !.door = door,
                                !.asks = asks, !.stream = stream, !.pc = pc]
<1>1. req[r] \in Request /\ req \in [Requests -> Request]
  BY Held DEF Base, TypeInv, TypeOK
<1>2. q.pc = pc /\ q.chat = c /\ q.door = door /\ q.stream = stream
  <2>. HIDE DEF pc
  <2>. QED BY <1>1 DEF Request
<1>3. req' = [req EXCEPT ![r] = q] /\ req[r].pc = "idle" /\ Meet(r) /\ mode' = mode BY DEF Arrive
<1>. HIDE DEF q
<1>. QED BY <1>1, <1>2, <1>3 DEF ComesIn

LEMMA Fires ==
  ASSUME Base, NEW r \in Requests, Fire(r)
  PROVE  /\ ComesIn(r) /\ req'[r].pc \in {"scheduled", "done"}
         /\ req'[r].pc = "scheduled" => usage < Limit
         /\ req'[r].door = "schedule" /\ ~req'[r].stream
<1>1. PICK pc \in {"scheduled", "done"} :
        /\ pc = "scheduled" => MayPredict(r)
        /\ req' = [req EXCEPT ![r].pc = pc, ![r].door = "schedule"]
  BY DEF Fire
<1>. DEFINE q == [req[r] EXCEPT !.pc = pc, !.door = "schedule"]
<1>2. req[r].pc = "idle" /\ Meet(r) /\ mode' = mode /\ req[r] \in Request /\ Sound(req[r], mode)
      /\ req \in [Requests -> Request]
  BY Held DEF Fire, Base, TypeInv, TypeOK
<1>3. q.pc = pc /\ q.door = "schedule" /\ q.stream = req[r].stream BY <1>2 DEF Request
<1>4. req' = [req EXCEPT ![r] = q] BY <1>1
<1>. HIDE DEF q
<1>5. req'[r] = q /\ \A o \in Requests : o # r => req'[o] = req[o] BY <1>2, <1>4
<1>. QED BY <1>1, <1>2, <1>3, <1>5 DEF ComesIn, MayPredict, Sound

\* A request that is turned away, or a schedule's run that is over, but for its count.
LEMMA Goes ==
  ASSUME Base, NEW r \in Requests, Forbid(r) \/ Finish(r)
  PROVE  /\ req'[r].pc \in {"counting", "done"} /\ Same(req'[r], req[r])
         /\ req'[r].failed = req[r].failed
         /\ Forbid(r) => req[r].pc = "idle" /\ req'[r].pc = "done"
         /\ Finish(r) => req[r].pc = "scheduled"
         /\ UNCHANGED <<mode, met>> /\ \A o \in Requests : o # r => req'[o] = req[o]
<1>1. PICK pc \in {"counting", "done"} : Goto(r, pc) /\ (Forbid(r) => pc = "done")
  <2>1. CASE Forbid(r) BY <2>1 DEF Forbid
  <2>2. CASE ~Forbid(r) BY <2>2 DEF Finish
  <2>. QED BY <2>1, <2>2
<1>2. /\ Forbid(r) => req[r].pc = "idle"
      /\ Finish(r) => req[r].pc = "scheduled"
      /\ UNCHANGED <<mode, met>> /\ req[r] \in Request /\ req \in [Requests -> Request]
  BY Held DEF Forbid, Finish, history, Base, TypeInv, TypeOK
<1>. QED BY <1>1, <1>2 DEF Goto, Request, Same

\* One request goes on from a place where it is active.
LEMMA OnStep ==
  ASSUME Base, NEW r \in Requests,
         \/ Leave(r) \/ NotFound(r) \/ Refuse(r) \/ Admit(r) \/ RunHere(r) \/ Enqueue(r)
         \/ Succeed(r) \/ Fail(r) \/ ReadUsage(r) \/ WriteUsage(r) \/ Finish(r)
         \/ \E w \in Workers : Pick(w, r)
  PROVE  /\ req[r].pc \notin {"idle", "done"} /\ Stays(r) /\ UNCHANGED <<mode, met>>
         /\ \A o \in Requests : o # r => req'[o] = req[o]
<1>1. req[r] \in Request /\ req \in [Requests -> Request]
  BY Held DEF Base, TypeInv, TypeOK
<1>2. ASSUME NEW pc \in Pcs \ {"idle"}, req[r].pc \notin {"idle", "done"}, Goto(r, pc) PROVE Stays(r)
  BY <1>1, <1>2 DEF Goto, Request, Stays, Same
<1>3. ASSUME req[r].pc \notin {"idle", "done"}, Throw(r) PROVE Stays(r)
  BY <1>1, <1>3 DEF Throw, Request, Stays, Same
<1>4. CASE Leave(r)
  <2>. DEFINE pc == IF /\ req[r].stream /\ req[r].door = "prediction"
                       /\ mode = "queue" /\ req[r].chat \in channels
                    THEN "unsubscribing" ELSE "done"
  <2>1. pc \in Pcs \ {"idle"} BY DEF Pcs
  <2>2. Goto(r, pc) /\ req[r].pc = "leaving" /\ UNCHANGED <<mode, met>>
    BY <1>4 DEF Leave, history
  <2>. HIDE DEF pc
  <2>. QED BY <1>1, <1>2, <2>1, <2>2 DEF Goto
<1>5. CASE NotFound(r) \/ Refuse(r)
  <2>1. Throw(r) /\ req[r].pc = "building" /\ UNCHANGED <<mode, met>>
    BY <1>5 DEF NotFound, Refuse, history
  <2>. QED BY <1>1, <1>3, <2>1 DEF Throw
<1>6. CASE Admit(r) \/ RunHere(r) \/ Enqueue(r)
  <2>1. PICK pc \in Pcs \ {"idle"} : Goto(r, pc)
    BY <1>6 DEF Admit, RunHere, Enqueue, Pcs
  <2>2. req[r].pc \in {"building", "admitted"} /\ UNCHANGED <<mode, met>>
    BY <1>6 DEF Admit, RunHere, Enqueue, history
  <2>. QED BY <1>1, <1>2, <2>1, <2>2 DEF Goto
<1>7. CASE Succeed(r) \/ Fail(r) \/ ReadUsage(r) \/ WriteUsage(r) \/ \E w \in Workers : Pick(w, r)
  <2>1. req[r].pc \in {"running", "counting", "writing", "queued"} /\ UNCHANGED <<mode, met>>
        /\ \A o \in Requests : o # r => req'[o] = req[o]
    BY <1>1, <1>7 DEF Succeed, Fail, ReadUsage, WriteUsage, Pick, history
  <2>2. CASE Succeed(r) BY <1>1, <2>1, <2>2 DEF Succeed, Request, Stays, Same
  <2>3. CASE Fail(r) BY <1>1, <2>1, <2>3 DEF Fail, Request, Stays, Same
  <2>4. CASE ReadUsage(r) BY <1>1, <2>1, <2>4 DEF ReadUsage, Request, Stays, Same
  <2>5. CASE WriteUsage(r) BY <1>1, <2>1, <2>5 DEF WriteUsage, Request, Stays, Same
  <2>6. ASSUME NEW w \in Workers, Pick(w, r) PROVE Stays(r)
    BY <1>1, <2>1, <2>6 DEF Pick, Request, Stays, Same
  <2>. QED BY <1>7, <2>1, <2>2, <2>3, <2>4, <2>5, <2>6
<1>8. CASE Finish(r) BY <1>8, Goes DEF Stays
<1>. QED BY <1>4, <1>5, <1>6, <1>7, <1>8

LEMMA CrashStep ==
  ASSUME Base, NEW w \in Workers, Crash(w)
  PROVE  \A r \in Requests :
           IF req[r].pc = "running" /\ req[r].host = w
           THEN Stays(r) /\ req'[r].pc \in {"queued", "leaving"}
           ELSE req'[r] = req[r]
<1>. SUFFICES ASSUME NEW r \in Requests
              PROVE  IF req[r].pc = "running" /\ req[r].host = w
                     THEN Stays(r) /\ req'[r].pc \in {"queued", "leaving"}
                     ELSE req'[r] = req[r]
  OBVIOUS
<1>1. req[r] \in Request BY Held DEF Base
<1>2. CASE req[r].pc = "running" /\ req[r].host = w
  <2>. DEFINE a == [req[r] EXCEPT !.pc = "queued", !.host = None]
              b == [req[r] EXCEPT !.pc = "leaving", !.host = None, !.failed = TRUE]
  <2>1. req'[r] = a \/ req'[r] = b BY <1>2 DEF Crash
  <2>2. a.pc = "queued" /\ Same(a, req[r]) BY <1>1 DEF Request, Same
  <2>3. b.pc = "leaving" /\ Same(b, req[r]) BY <1>1 DEF Request, Same
  <2>. HIDE DEF a, b
  <2>. QED BY <1>2, <2>1, <2>2, <2>3 DEF Stays
<1>3. CASE ~(req[r].pc = "running" /\ req[r].host = w) BY <1>3 DEF Crash
<1>. QED BY <1>2, <1>3

LEMMA AnswerStep ==
  ASSUME Base, Answer
  PROVE  /\ wire # <<>> /\ wire[1] \in Commands
         /\ \A o \in Requests : o # wire[1].by => req'[o] = req[o]
         /\ wire[1].by # None =>
              /\ wire[1].by \in Requests /\ Stays(wire[1].by)
              /\ wire[1].op = "sub" => /\ req[wire[1].by].pc = "subscribing"
                                       /\ req'[wire[1].by].pc = "building"
              /\ wire[1].op = "unsub" => /\ req[wire[1].by].pc = "unsubscribing"
                                         /\ req'[wire[1].by].pc = "done"
<1>. DEFINE cmd == Head(wire)
<1>1. wire # <<>> /\ cmd = wire[1] /\ cmd \in Commands /\ 1 \in DOMAIN wire
      /\ req \in [Requests -> Request]
  BY DEF Base, TypeInv, TypeOK, Answer
<1>2. cmd.by \in Requests \cup {None} /\ cmd.op \in {"sub", "unsub"} BY <1>1 DEF Commands
<1>. HIDE DEF cmd
<1>3. \A o \in Requests : o # cmd.by => req'[o] = req[o]
  BY <1>1 DEF Answer, Goto, cmd
<1>4. ASSUME cmd.by # None
      PROVE  /\ cmd.by \in Requests /\ Stays(cmd.by)
             /\ cmd.op = "sub" => /\ req[cmd.by].pc = "subscribing"
                                  /\ req'[cmd.by].pc = "building"
             /\ cmd.op = "unsub" => /\ req[cmd.by].pc = "unsubscribing"
                                    /\ req'[cmd.by].pc = "done"
  <2>1. cmd.by \in Requests /\ req[cmd.by] \in Request BY <1>1, <1>2, <1>4
  <2>2. req[cmd.by].pc = IF cmd.op = "sub" THEN "subscribing" ELSE "unsubscribing"
    BY <1>1, <1>4 DEF Base, Pending, Answers
  <2>3. ASSUME NEW pc, Goto(cmd.by, pc), pc # "idle" PROVE Stays(cmd.by) /\ req'[cmd.by].pc = pc
    BY <1>1, <2>1, <2>2, <2>3 DEF Goto, Request, Stays, Same
  <2>4. cmd.op = "sub" => Goto(cmd.by, "building") BY <1>4 DEF Answer, cmd
  <2>5. cmd.op = "unsub" => Goto(cmd.by, "done") BY <1>4 DEF Answer, cmd
  <2>. QED BY <1>2, <2>1, <2>2, <2>3, <2>4, <2>5
<1>. QED BY <1>1, <1>3, <1>4

\* The steps in which no request moves.
Still ==
  \/ \E c \in Chats : Sweep(c) \/ AbortSpeech(c) \/ WriteFails(c)
  \/ \E k \in Keys : AbortHere(k) \/ Publish(k)
  \/ \E w \in Workers, k \in Keys : Deliver(w, k)
  \/ UNCHANGED vars

LEMMA StillStep == ASSUME Still PROVE UNCHANGED <<mode, req, met>>
BY DEF Still, Sweep, AbortSpeech, WriteFails, Lose, AbortHere, Publish, Deliver, vars, history

LEMMA OnwardStep ==
  ASSUME Base, [Next]_vars
  PROVE  (\E r \in Requests : ComesIn(r)) \/ Onward
<1>1. ASSUME NEW r \in Requests,
             \/ Leave(r) \/ NotFound(r) \/ Refuse(r) \/ Admit(r) \/ RunHere(r) \/ Enqueue(r)
             \/ Succeed(r) \/ Fail(r) \/ ReadUsage(r) \/ WriteUsage(r) \/ Finish(r)
             \/ \E w \in Workers : Pick(w, r)
      PROVE  Onward
  BY <1>1, OnStep DEF Onward, Stays, Same
<1>2. ASSUME NEW w \in Workers, Crash(w) PROVE Onward
  <2>1. UNCHANGED <<mode, met>> BY <1>2 DEF Crash
  <2>. QED BY <1>2, <2>1, CrashStep DEF Onward, Stays, Same
<1>3. CASE Answer
  <2>1. UNCHANGED <<mode, met>> BY <1>3 DEF Answer, history
  <2>2. ASSUME NEW r \in Requests
        PROVE  IF req[r].pc = "idle" THEN req'[r] = req[r] ELSE Stays(r)
    <3>1. CASE r # wire[1].by BY <1>3, <3>1, AnswerStep DEF Stays, Same
    <3>2. CASE r = wire[1].by
      <4>1. r # None BY PredictionAssumption
      <4>2. wire[1].op \in {"sub", "unsub"} BY <1>3, AnswerStep DEF Commands
      <4>. QED BY <1>3, <3>2, <4>1, <4>2, AnswerStep
    <3>. QED BY <3>1, <3>2
  <2>. QED BY <2>1, <2>2 DEF Onward
<1>4. CASE Still BY <1>4, StillStep DEF Onward, Stays, Same
<1>5. ASSUME NEW r \in Requests, Forbid(r) PROVE Onward
  BY <1>5, Goes DEF Onward, Stays, Same
<1>6. ASSUME NEW r \in Requests, NEW f \in Flows, NEW c \in Chats,
             NEW door \in Doors \ {"schedule"}, NEW asks \in BOOLEAN, NEW stream \in BOOLEAN,
             Arrive(r, f, c, door, asks, stream)
      PROVE  ComesIn(r)
  BY <1>6, Arrives
<1>7. ASSUME NEW r \in Requests, Fire(r) PROVE ComesIn(r) BY <1>7, Fires
<1>. QED BY <1>1, <1>2, <1>3, <1>4, <1>5, <1>6, <1>7 DEF Next, Still

LEMMA SteadyStep == ASSUME Base, [Next]_vars PROVE Steady
<1>1. ASSUME NEW r \in Requests, ComesIn(r) PROVE Steady
  <2>1. \A o \in Requests : req[o].pc # "idle" => Stays(o) BY <1>1 DEF ComesIn, Stays, Same
  <2>2. mode' = mode BY <1>1 DEF ComesIn
  <2>3. ASSUME NEW o \in Requests, req[o].pc # "idle" PROVE met[o] \subseteq met'[o]
    <3>1. o # r BY <1>1, <2>3 DEF ComesIn
    <3>2. met'[o] = IF o \in Active THEN met[o] \cup {r} ELSE met[o]
      BY <1>1, <3>1 DEF ComesIn, Meet
    <3>. QED BY <3>2
  <2>. QED BY <2>1, <2>2, <2>3 DEF Steady
<1>2. CASE Onward BY <1>2 DEF Onward, Steady
<1>. QED BY <1>1, <1>2, OnwardStep

LEMMA MetInit == Init => Met
BY DEF Init, Met, Active

LEMMA MetNext == ASSUME Base, Met, [Next]_vars PROVE Met'
<1>0. Steady BY SteadyStep
<1>1. ASSUME NEW r \in Requests, ComesIn(r) PROVE Met'
  <2>1. /\ met'[r] = Active
        /\ \A o \in Requests : o # r => met'[o] = IF o \in Active THEN met[o] \cup {r} ELSE met[o]
    BY <1>1 DEF ComesIn, Meet
  <2>2. req[r].pc = "idle" /\ req'[r].pc # "idle"
        /\ \A o \in Requests : o # r => req'[o] = req[o]
    BY <1>1 DEF ComesIn
  <2>3. met[r] = {} /\ \A o \in Requests : met[o] \subseteq Requests /\ r \notin met[o]
    BY <2>2 DEF Met, Base, TypeInv, TypeOK
  <2>4. \A o \in Requests : \A q \in met'[o] : req'[o].pc # "idle" /\ req'[q].pc # "idle"
    <3>1. SUFFICES ASSUME NEW o \in Requests, NEW q \in met'[o]
                   PROVE  req'[o].pc # "idle" /\ req'[q].pc # "idle"
      OBVIOUS
    <3>2. CASE o = r BY <2>1, <2>2, <3>1, <3>2 DEF Active
    <3>3. CASE o # r /\ q = r
      <4>1. o \in Active BY <2>1, <2>3, <3>1, <3>3
      <4>. QED BY <2>2, <3>3, <4>1 DEF Active
    <3>4. CASE o # r /\ q # r
      <4>1. q \in met[o] BY <2>1, <3>1, <3>4
      <4>2. q \in Requests /\ req[o].pc # "idle" /\ req[q].pc # "idle" BY <2>3, <4>1 DEF Met
      <4>. QED BY <2>2, <3>4, <4>2
    <3>. QED BY <3>2, <3>3, <3>4
  <2>5. Active' \subseteq Active \cup {r} BY <2>2 DEF Active
  <2>6. \A o, q \in Active' : o # q => q \in met'[o]
    <3>1. SUFFICES ASSUME NEW o \in Active', NEW q \in Active', o # q PROVE q \in met'[o]
      OBVIOUS
    <3>2. o \in Requests /\ q \in Requests BY DEF Active
    <3>3. CASE o = r BY <2>1, <2>5, <3>1, <3>3
    <3>4. CASE o # r BY <2>1, <2>5, <3>1, <3>2, <3>4 DEF Met
    <3>. QED BY <3>3, <3>4
  <2>. QED BY <2>4, <2>6 DEF Met
<1>2. CASE Onward
  <2>1. Active' \subseteq Active BY <1>2 DEF Onward, Active, Stays
  <2>2. \A o \in Requests : met[o] \subseteq Requests BY DEF Base, TypeInv, TypeOK
  <2>3. \A o \in Requests : \A q \in met[o] : req'[o].pc # "idle" /\ req'[q].pc # "idle"
    BY <1>2, <2>2 DEF Onward, Stays, Met
  <2>. QED BY <1>2, <2>1, <2>3 DEF Onward, Met
<1>. QED BY <1>1, <1>2, OnwardStep

\* A request that is lone after a step was so before it.
LEMMA LoneBefore ==
  ASSUME Base, Met, [Next]_vars, NEW r \in Requests, req[r].pc # "idle"
  PROVE  /\ LoneRun(r)' => LoneRun(r)
         /\ LoneStream(r)' => LoneStream(r)
         /\ Key(r)' = Key(r)
<1>1. Steady BY SteadyStep
<1>2. \A q \in met[r] : q \in Requests /\ req[q].pc # "idle"
  BY DEF Met, Base, TypeInv, TypeOK
<1>3. \A q \in met[r] : q \in met'[r] /\ Stays(q) BY <1>1, <1>2 DEF Steady
<1>4. Stays(r) BY <1>1 DEF Steady
<1>. QED BY <1>3, <1>4 DEF LoneRun, LoneStream, Removes, Key, Stays, Same

\* No other request is active with the flow and chat of a lone run.
LEMMA LoneAlone ==
  ASSUME Met, NEW r \in Active, NEW q \in Active, q # r, LoneRun(r)
  PROVE  Key(q) # Key(r)
BY DEF Met, LoneRun

-----------------------------------------------------------------------------
(***************************************************************************)
(* Where controllers are and what aborts reach.                            *)
(***************************************************************************)

Early == {"idle", "subscribing", "building", "admitted", "queued"}

\* The server has controllers only of runs, under their flow and chat; a worker
\* may have them of past runs, but of no request that it or another may still run.
Placed ==
  /\ \A k \in Keys, r \in Requests : pool[k] = r =>
       mode = "direct" /\ req[r].pc = "running" /\ Key(r) = k
  /\ \A w \in Workers, k \in Keys, r \in Requests : workerPool[w][k] = r =>
       /\ mode = "queue" /\ Key(r) = k /\ req[r].pc \notin Early
       /\ req[r].pc = "running" => req[r].host = w

\* Signals and wishes to abort are about runs that have begun.
Marked ==
  /\ \A r \in asked : req[r].pc = "running"
  /\ \A r \in aborted : req[r].pc \notin Early

RunInv == Placed /\ Marked /\ OnlyAskedStop /\ LoneRunIsAbortable /\ AbortIsNotLost

\* A step that leaves runs and their controllers alone.
Quiet ==
  /\ UNCHANGED <<mode, pool, workerPool, aborted, asked, events>>
  /\ \A r \in Requests :
       /\ req[r].pc = "running" \/ req'[r].pc = "running" => req'[r] = req[r]
       /\ req[r].pc \notin Early => req'[r].pc \notin Early

LEMMA QuietStep ==
  ASSUME Base, Met, RunInv, [Next]_vars, Quiet
  PROVE  RunInv'
<1>0. /\ pool \in [Keys -> Requests \cup {None}]
      /\ workerPool \in [Workers -> [Keys -> Requests \cup {None}]]
      /\ asked \subseteq Requests /\ aborted \subseteq Requests
  BY DEF Base, TypeInv, TypeOK
<1>1. Placed'
  <2>1. ASSUME NEW r \in Requests, req[r].pc \notin Early PROVE Key(r)' = Key(r)
    BY <2>1, LoneBefore DEF Early
  <2>2. "running" \notin Early BY DEF Early
  <2>. QED BY <2>1, <2>2 DEF RunInv, Placed, Quiet
<1>2. Marked' BY <1>0 DEF RunInv, Marked, Quiet
<1>3. OnlyAskedStop' BY DEF RunInv, OnlyAskedStop, Quiet
<1>4. ASSUME NEW r \in Requests, req'[r].pc = "running", LoneRun(r)'
      PROVE  req[r].pc = "running" /\ LoneRun(r) /\ Key(r)' = Key(r)
             /\ req'[r] = req[r] /\ Controller(r)' = Controller(r)
  <2>1. req'[r] = req[r] BY <1>4 DEF Quiet
  <2>2. LoneRun(r) /\ Key(r)' = Key(r) BY <1>4, <2>1, LoneBefore
  <2>. QED BY <1>4, <2>1, <2>2 DEF Controller, Quiet
<1>5. LoneRunIsAbortable' BY <1>4 DEF RunInv, LoneRunIsAbortable, Quiet
<1>6. AbortIsNotLost' BY <1>0, <1>4 DEF RunInv, AbortIsNotLost, Quiet
<1>. QED BY <1>1, <1>2, <1>3, <1>5, <1>6 DEF RunInv

\* Most steps are of that kind.
LEMMA QuietSteps ==
  ASSUME Base,
         \/ \E r \in Requests :
              \/ \E f \in Flows, c \in Chats, door \in Doors \ {"schedule"}, asks, s \in BOOLEAN :
                   Arrive(r, f, c, door, asks, s)
              \/ NotFound(r) \/ Admit(r) \/ Enqueue(r) \/ ReadUsage(r) \/ WriteUsage(r) \/ Leave(r)
              \/ Forbid(r) \/ Fire(r) \/ Finish(r)
         \/ Answer
         \/ \E c \in Chats : Sweep(c) \/ AbortSpeech(c) \/ WriteFails(c)
         \/ UNCHANGED vars
  PROVE  Quiet
<1>0. req \in [Requests -> Request] BY DEF Base, TypeInv, TypeOK
<1>1. ASSUME NEW r \in Requests, NEW f \in Flows, NEW c \in Chats,
             NEW door \in Doors \ {"schedule"}, NEW asks \in BOOLEAN, NEW stream \in BOOLEAN,
             Arrive(r, f, c, door, asks, stream)
      PROVE  Quiet
  <2>1. UNCHANGED <<mode, pool, workerPool, aborted, asked, events>> BY <1>1 DEF Arrive, queue
  <2>. QED BY <1>1, <2>1, Arrives DEF ComesIn, Quiet, Early
<1>2. ASSUME NEW r \in Requests,
             NotFound(r) \/ Admit(r) \/ Enqueue(r) \/ ReadUsage(r) \/ WriteUsage(r) \/ Leave(r)
      PROVE  Quiet
  <2>1. UNCHANGED <<mode, pool, workerPool, aborted, asked, events>>
    BY <1>2 DEF NotFound, Admit, Enqueue, ReadUsage, WriteUsage, Leave, server, queue, history
  <2>2. \A o \in Requests : o # r => req'[o] = req[o] BY <1>2, OnStep
  <2>3. /\ req[r].pc # "running" /\ req'[r].pc # "running"
        /\ req[r].pc \notin Early => req'[r].pc \notin Early
    <3>1. req[r] \in Request BY Held DEF Base
    <3>2. ASSUME NEW pc, pc \notin {"running"}, Goto(r, pc) PROVE req'[r].pc = pc
      BY <1>0, <3>1, <3>2 DEF Goto, Request
    <3>3. CASE NotFound(r)
      <4>1. req[r].pc = "building" /\ req'[r].pc = "leaving"
        BY <1>0, <3>1, <3>3 DEF NotFound, Throw, Request
      <4>. QED BY <4>1 DEF Early
    <3>4. CASE Admit(r) BY <3>2, <3>4 DEF Admit, Early
    <3>5. CASE Enqueue(r) BY <3>2, <3>5 DEF Enqueue, Early
    <3>6. CASE ReadUsage(r)
      <4>1. req[r].pc = "counting" /\ req'[r].pc = "writing"
        BY <1>0, <3>1, <3>6 DEF ReadUsage, Request
      <4>. QED BY <4>1 DEF Early
    <3>7. CASE WriteUsage(r)
      <4>1. req[r].pc = "writing" /\ req'[r].pc \in {"leaving", "done"}
        BY <1>0, <3>1, <3>7 DEF WriteUsage, Request
      <4>. QED BY <4>1 DEF Early
    <3>8. CASE Leave(r)
      <4>1. PICK pc \in {"unsubscribing", "done"} : Goto(r, pc) BY <3>8 DEF Leave
      <4>2. req[r].pc = "leaving" /\ req'[r].pc = pc BY <3>2, <3>8, <4>1 DEF Leave
      <4>. QED BY <4>2 DEF Early
    <3>. QED BY <1>2, <3>3, <3>4, <3>5, <3>6, <3>7, <3>8
  <2>. QED BY <2>1, <2>2, <2>3 DEF Quiet
<1>3. CASE Answer
  <2>1. UNCHANGED <<mode, pool, workerPool, aborted, asked, events>>
    BY <1>3 DEF Answer, queue, history
  <2>2. wire[1].op \in {"sub", "unsub"} BY <1>3, AnswerStep DEF Commands
  <2>3. ASSUME NEW r \in Requests
        PROVE  /\ req[r].pc = "running" \/ req'[r].pc = "running" => req'[r] = req[r]
               /\ req[r].pc \notin Early => req'[r].pc \notin Early
    <3>1. r # None BY PredictionAssumption
    <3>2. CASE r # wire[1].by BY <1>3, <3>2, AnswerStep
    <3>3. CASE r = wire[1].by
      <4>1. \/ req[r].pc = "subscribing" /\ req'[r].pc = "building"
            \/ req[r].pc = "unsubscribing" /\ req'[r].pc = "done"
        BY <1>3, <2>2, <3>1, <3>3, AnswerStep
      <4>. QED BY <4>1 DEF Early
    <3>. QED BY <3>2, <3>3
  <2>. QED BY <2>1, <2>3 DEF Quiet
<1>4. CASE (\E c \in Chats : Sweep(c) \/ AbortSpeech(c) \/ WriteFails(c)) \/ UNCHANGED vars
  BY <1>4 DEF Sweep, AbortSpeech, WriteFails, Lose, vars, server, queue, history, Quiet
<1>5. ASSUME NEW r \in Requests, Fire(r) PROVE Quiet
  <2>1. UNCHANGED <<mode, pool, workerPool, aborted, asked, events>>
    BY <1>5 DEF Fire, server, queue
  <2>. QED BY <1>5, <2>1, Fires DEF ComesIn, Quiet, Early
<1>6. ASSUME NEW r \in Requests, Forbid(r) \/ Finish(r) PROVE Quiet
  <2>1. UNCHANGED <<mode, pool, workerPool, aborted, asked, events>>
    BY <1>6 DEF Forbid, Finish, server, queue, history
  <2>. QED BY <1>6, <2>1, Goes DEF Quiet, Early
<1>. QED BY <1>1, <1>2, <1>3, <1>4, <1>5, <1>6

\* The request q ends its run, or is refused before it; its controller goes.
LEMMA ClearStep ==
  ASSUME Base, Met, RunInv, [Next]_vars, NEW q \in Requests,
         req[q].pc \in {"building", "running"}, req'[q].pc \notin Early \cup {"running"},
         \A o \in Requests : o # q => req'[o] = req[o],
         UNCHANGED <<mode, workerPool, events>>, pool' = PoolWithout(q),
         aborted' = aborted \ {q}, asked' = asked \ {q}
  PROVE  RunInv'
<1>0. /\ pool \in [Keys -> Requests \cup {None}]
      /\ workerPool \in [Workers -> [Keys -> Requests \cup {None}]]
      /\ asked \subseteq Requests /\ aborted \subseteq Requests /\ None \notin Requests
  BY PredictionAssumption DEF Base, TypeInv, TypeOK
<1>1. ASSUME NEW r \in Requests, req[r].pc # "idle" PROVE Key(r)' = Key(r) BY <1>1, LoneBefore
<1>2. \A k \in Keys : pool'[k] = IF k = Key(q) THEN None ELSE pool[k]
  BY <1>0 DEF PoolWithout
<1>3. Placed'
  <2>1. ASSUME NEW k \in Keys, NEW r \in Requests, pool'[k] = r
        PROVE  mode' = "direct" /\ req'[r].pc = "running" /\ Key(r)' = k
    <3>1. pool[k] = r /\ k # Key(q) BY <1>0, <1>2, <2>1
    <3>2. mode = "direct" /\ req[r].pc = "running" /\ Key(r) = k BY <3>1 DEF RunInv, Placed
    <3>. QED BY <1>1, <3>1, <3>2
  <2>2. ASSUME NEW w \in Workers, NEW k \in Keys, NEW r \in Requests, workerPool[w][k] = r
        PROVE  /\ mode' = "queue" /\ Key(r)' = k /\ req'[r].pc \notin Early
               /\ req'[r].pc = "running" => req'[r].host = w
    <3>1. /\ mode = "queue" /\ Key(r) = k /\ req[r].pc \notin Early
          /\ req[r].pc = "running" => req[r].host = w
      BY <2>2 DEF RunInv, Placed
    <3>2. Key(r)' = k BY <1>1, <3>1 DEF Early
    <3>. QED BY <3>1, <3>2
  <2>. QED BY <2>1, <2>2 DEF Placed
<1>4. Marked' BY <1>0 DEF RunInv, Marked
<1>5. OnlyAskedStop' BY DEF RunInv, OnlyAskedStop
<1>6. ASSUME NEW r \in Requests, req'[r].pc = "running", LoneRun(r)'
      PROVE  r # q /\ req[r].pc = "running" /\ LoneRun(r) /\ Key(r)' = Key(r)
             /\ req'[r] = req[r] /\ (Controller(r) = r => Controller(r)' = r)
  <2>1. r # q /\ req'[r] = req[r] /\ req[r].pc = "running" BY <1>6
  <2>2. LoneRun(r) /\ Key(r)' = Key(r) BY <1>6, <2>1, LoneBefore
  <2>3. Key(q) # Key(r) BY <2>1, <2>2, LoneAlone DEF Active
  <2>4. Key(r) \in Keys BY <2>1, ServedKey DEF Served
  <2>5. pool'[Key(r)] = pool[Key(r)] BY <1>2, <2>3, <2>4
  <2>6. Controller(r)' = IF mode = "direct" THEN pool'[Key(r)] ELSE workerPool[req[r].host][Key(r)]
    BY <2>1, <2>2 DEF Controller
  <2>. QED BY <2>1, <2>2, <2>5, <2>6 DEF Controller
<1>7. LoneRunIsAbortable' BY <1>6 DEF RunInv, LoneRunIsAbortable
<1>8. AbortIsNotLost' BY <1>0, <1>6 DEF RunInv, AbortIsNotLost
<1>. QED BY <1>3, <1>4, <1>5, <1>7, <1>8 DEF RunInv

\* The run of q begins: here, or on the worker w.
LEMMA BeginStep ==
  ASSUME Base, Met, RunInv, [Next]_vars, NEW q \in Requests,
         req[q].pc \in Early \ {"idle"}, req'[q].pc = "running",
         \A o \in Requests : o # q => req'[o] = req[o],
         UNCHANGED <<mode, aborted, asked, events>>,
         \/ mode = "direct" /\ pool' = PoolWith(q) /\ UNCHANGED workerPool
         \/ /\ mode = "queue" /\ UNCHANGED pool
            /\ req'[q].host \in Workers /\ workerPool' = WorkerPoolWith(req'[q].host, q)
  PROVE  RunInv'
<1>0. /\ pool \in [Keys -> Requests \cup {None}]
      /\ workerPool \in [Workers -> [Keys -> Requests \cup {None}]]
      /\ asked \subseteq Requests /\ aborted \subseteq Requests
  BY DEF Base, TypeInv, TypeOK
<1>1. /\ \A r \in Requests : req[r].pc # "idle" => Key(r)' = Key(r)
      /\ \A r \in Requests : req[r].pc \in Served => Key(r) \in Keys
      /\ req[q].pc # "idle" /\ req[q].pc \in Served /\ "running" \in Served
  BY LoneBefore, ServedKey DEF Early, Served
<1>2. /\ \A k \in Keys : pool'[k] = IF mode = "direct" /\ k = Key(q) THEN q ELSE pool[k]
      /\ \A w \in Workers, k \in Keys :
           workerPool'[w][k] = IF mode = "queue" /\ w = req'[q].host /\ k = Key(q) THEN q
                               ELSE workerPool[w][k]
  BY <1>0 DEF PoolWith, WorkerPoolWith
<1>3. Placed'
  <2>1. ASSUME NEW k \in Keys, NEW r \in Requests, pool'[k] = r
        PROVE  mode' = "direct" /\ req'[r].pc = "running" /\ Key(r)' = k
    <3>1. CASE mode = "direct" /\ k = Key(q) BY <1>1, <1>2, <2>1, <3>1
    <3>2. CASE ~(mode = "direct" /\ k = Key(q))
      <4>1. pool[k] = r BY <1>2, <2>1, <3>2
      <4>2. mode = "direct" /\ req[r].pc = "running" /\ Key(r) = k BY <4>1 DEF RunInv, Placed
      <4>3. r # q BY <4>2 DEF Early
      <4>. QED BY <1>1, <4>2, <4>3
    <3>. QED BY <3>1, <3>2
  <2>2. ASSUME NEW w \in Workers, NEW k \in Keys, NEW r \in Requests, workerPool'[w][k] = r
        PROVE  /\ mode' = "queue" /\ Key(r)' = k /\ req'[r].pc \notin Early
               /\ req'[r].pc = "running" => req'[r].host = w
    <3>1. CASE mode = "queue" /\ w = req'[q].host /\ k = Key(q)
      BY <1>1, <1>2, <2>2, <3>1 DEF Early
    <3>2. CASE ~(mode = "queue" /\ w = req'[q].host /\ k = Key(q))
      <4>1. workerPool[w][k] = r BY <1>2, <2>2, <3>2
      <4>2. /\ mode = "queue" /\ Key(r) = k /\ req[r].pc \notin Early
            /\ req[r].pc = "running" => req[r].host = w
        BY <4>1 DEF RunInv, Placed
      <4>3. r # q BY <4>2
      <4>4. Key(r)' = k BY <1>1, <4>2 DEF Early
      <4>. QED BY <4>2, <4>3, <4>4
    <3>. QED BY <3>1, <3>2
  <2>. QED BY <2>1, <2>2 DEF Placed
<1>4. Marked' BY <1>0 DEF RunInv, Marked, Early
<1>5. OnlyAskedStop' BY DEF RunInv, OnlyAskedStop
<1>6. ASSUME NEW r \in Requests, r # q, req'[r].pc = "running", LoneRun(r)'
      PROVE  req[r].pc = "running" /\ LoneRun(r) /\ Key(r)' = Key(r)
             /\ req'[r] = req[r] /\ (Controller(r) = r => Controller(r)' = r)
  <2>1. req'[r] = req[r] /\ req[r].pc = "running" BY <1>6
  <2>2. LoneRun(r) /\ Key(r)' = Key(r) BY <1>6, <2>1, LoneBefore
  <2>3. Key(q) # Key(r) BY <1>6, <2>1, <2>2, LoneAlone DEF Active, Early
  <2>4. Key(r) \in Keys BY <1>1, <2>1
  <2>5. mode # "direct" => req[r].host \in Workers
    BY <2>1, Held, PredictionAssumption DEF Sound, Base, TypeInv, TypeOK
  <2>6. Controller(r)' = IF mode = "direct" THEN pool'[Key(r)] ELSE workerPool'[req[r].host][Key(r)]
    BY <2>1, <2>2 DEF Controller
  <2>. QED BY <1>2, <2>1, <2>2, <2>3, <2>4, <2>5, <2>6 DEF Controller
<1>7. Controller(q)' = q
  <2>1. Key(q)' = Key(q) /\ Key(q) \in Keys BY <1>1
  <2>. QED BY <1>2, <2>1 DEF Controller
<1>8. q \notin asked BY DEF RunInv, Marked, Early
<1>9. LoneRunIsAbortable' BY <1>6, <1>7 DEF RunInv, LoneRunIsAbortable
<1>10. AbortIsNotLost' BY <1>0, <1>6, <1>8 DEF RunInv, AbortIsNotLost
<1>. QED BY <1>3, <1>4, <1>5, <1>9, <1>10 DEF RunInv

\* A worker dies, and its runs are over.
LEMMA CrashRun ==
  ASSUME Base, Met, RunInv, [Next]_vars, NEW w \in Workers, Crash(w)
  PROVE  RunInv'
<1>. DEFINE stalled == {r \in Requests : req[r].pc = "running" /\ req[r].host = w}
<1>0. /\ pool \in [Keys -> Requests \cup {None}]
      /\ workerPool \in [Workers -> [Keys -> Requests \cup {None}]]
      /\ asked \subseteq Requests /\ aborted \subseteq Requests /\ None \notin Requests
  BY PredictionAssumption DEF Base, TypeInv, TypeOK
<1>1. /\ mode = "queue" /\ mode' = mode /\ UNCHANGED pool
      /\ workerPool' = [workerPool EXCEPT ![w] = [k \in Keys |-> None]]
      /\ events' = {e \in events : e[1] # w}
      /\ aborted' = aborted \ stalled /\ asked' = asked \ stalled
  BY DEF Crash, RunsOver, server
<1>2. \A r \in Requests : IF r \in stalled THEN req'[r].pc \in {"queued", "leaving"}
                          ELSE req'[r] = req[r]
  BY CrashStep
<1>3. \A v \in Workers, k \in Keys :
        workerPool'[v][k] = IF v = w THEN None ELSE workerPool[v][k]
  BY <1>0, <1>1
<1>4. Placed'
  <2>1. ASSUME NEW k \in Keys, NEW r \in Requests, pool'[k] = r PROVE FALSE
    BY <1>1, <2>1 DEF RunInv, Placed
  <2>2. ASSUME NEW v \in Workers, NEW k \in Keys, NEW r \in Requests, workerPool'[v][k] = r
        PROVE  /\ mode' = "queue" /\ Key(r)' = k /\ req'[r].pc \notin Early
               /\ req'[r].pc = "running" => req'[r].host = v
    <3>1. workerPool[v][k] = r /\ v # w BY <1>0, <1>3, <2>2
    <3>2. /\ mode = "queue" /\ Key(r) = k /\ req[r].pc \notin Early
          /\ req[r].pc = "running" => req[r].host = v
      BY <3>1 DEF RunInv, Placed
    <3>3. Key(r)' = k BY <3>2, LoneBefore DEF Early
    <3>4. r \notin stalled BY <3>1, <3>2
    <3>. QED BY <1>1, <1>2, <3>2, <3>3, <3>4
  <2>. QED BY <2>1, <2>2 DEF Placed
<1>5. Marked'
  <2>1. \A r \in asked' : req'[r].pc = "running"
    BY <1>0, <1>1, <1>2 DEF RunInv, Marked
  <2>2. \A r \in aborted' : req'[r].pc \notin Early
    BY <1>0, <1>1, <1>2 DEF RunInv, Marked
  <2>. QED BY <2>1, <2>2 DEF Marked
<1>6. OnlyAskedStop' BY <1>1 DEF OnlyAskedStop
<1>7. ASSUME NEW r \in Requests, req'[r].pc = "running", LoneRun(r)'
      PROVE  /\ r \notin stalled /\ req[r].pc = "running" /\ LoneRun(r) /\ Key(r)' = Key(r)
             /\ req'[r] = req[r] /\ Controller(r)' = Controller(r)
             /\ req[r].host \in Workers /\ req[r].host # w /\ Key(r) \in Keys
  <2>1. r \notin stalled /\ req'[r] = req[r] BY <1>2, <1>7
  <2>2. req[r].pc = "running" /\ req[r].host # w BY <1>7, <2>1
  <2>3. req[r].host \in Workers BY <1>1, <2>2, Held DEF Sound, Base
  <2>4. Key(r) \in Keys BY <2>2, ServedKey DEF Served
  <2>5. LoneRun(r) /\ Key(r)' = Key(r) BY <1>7, <2>2, LoneBefore
  <2>6. Controller(r)' = workerPool'[req[r].host][Key(r)] BY <1>1, <2>1, <2>5 DEF Controller
  <2>7. Controller(r)' = Controller(r) BY <1>1, <1>3, <2>2, <2>3, <2>4, <2>6 DEF Controller
  <2>. QED BY <2>1, <2>2, <2>3, <2>4, <2>5, <2>7
<1>8. LoneRunIsAbortable'
  <2>1. SUFFICES ASSUME NEW r \in Requests, r \notin aborted', r \notin asked',
                        req'[r].pc = "running", LoneRun(r)'
                 PROVE  Controller(r)' = r
    BY DEF LoneRunIsAbortable
  <2>2. r \notin aborted /\ r \notin asked BY <1>1, <1>7, <2>1
  <2>. QED BY <1>7, <2>1, <2>2 DEF RunInv, LoneRunIsAbortable
<1>9. AbortIsNotLost'
  <2>1. SUFFICES ASSUME NEW r \in asked', req'[r].pc = "running", LoneRun(r)'
                 PROVE  \/ r \in aborted'
                        \/ /\ mode' = "queue" /\ <<req'[r].host, Key(r)'>> \in events'
                           /\ Controller(r)' = r
    BY DEF AbortIsNotLost
  <2>2. r \in Requests /\ r \in asked BY <1>0, <1>1
  <2>3. \/ r \in aborted
        \/ mode = "queue" /\ <<req[r].host, Key(r)>> \in events /\ Controller(r) = r
    BY <1>7, <2>1, <2>2 DEF RunInv, AbortIsNotLost
  <2>4. r \in aborted => r \in aborted' BY <1>1, <1>7, <2>1, <2>2
  <2>5. <<req[r].host, Key(r)>> \in events => <<req[r].host, Key(r)>> \in events'
    BY <1>1, <1>7, <2>1, <2>2
  <2>. QED BY <1>1, <1>7, <2>1, <2>2, <2>3, <2>4, <2>5
<1>. QED BY <1>4, <1>5, <1>6, <1>8, <1>9 DEF RunInv

\* An abort is asked for or reaches a worker: requests stay where they are.
LEMMA AbortStays ==
  ASSUME Base, UNCHANGED <<mode, req, met>>
  PROVE  \A r \in Requests : /\ Key(r)' = Key(r) /\ LoneRun(r)' = LoneRun(r)
                             /\ req[r].pc = "running" => Key(r) \in Keys
                             /\ \A k \in Keys : r \in Running(k) <=>
                                  req[r].pc = "running" /\ Key(r) = k
<1>1. ASSUME NEW r \in Requests, req[r].pc = "running" PROVE Key(r) \in Keys
  BY <1>1, ServedKey DEF Served
<1>. QED BY <1>1 DEF Key, LoneRun, Running

LEMMA AbortHereRun ==
  ASSUME Base, RunInv, NEW k \in Keys, AbortHere(k)
  PROVE  RunInv'
<1>0. /\ pool \in [Keys -> Requests \cup {None}]
      /\ asked \subseteq Requests /\ aborted \subseteq Requests /\ None \notin Requests
  BY PredictionAssumption DEF Base, TypeInv, TypeOK
<1>1. /\ mode = "direct" /\ UNCHANGED <<mode, req, met, workerPool, events>>
      /\ aborted' = aborted \cup Hit(pool, k) /\ pool' = [pool EXCEPT ![k] = None]
      /\ asked' = asked \cup Running(k)
  BY DEF AbortHere
<1>2. \A r \in Requests : /\ Key(r)' = Key(r) /\ LoneRun(r)' = LoneRun(r)
                          /\ req[r].pc = "running" => Key(r) \in Keys
                          /\ r \in Running(k) <=> req[r].pc = "running" /\ Key(r) = k
  BY <1>1, AbortStays
<1>3. \A i \in Keys : pool'[i] = IF i = k THEN None ELSE pool[i] BY <1>0, <1>1
<1>4. Running(k) \subseteq Requests BY DEF Running
<1>5. \A r \in Hit(pool, k) : r \in Requests /\ pool[k] = r /\ r \in Running(k) /\ req[r].pc = "running"
  BY <1>0, <1>2 DEF Hit, RunInv, Placed
<1>6. Placed' BY <1>0, <1>1, <1>2, <1>3 DEF RunInv, Placed
<1>7. Marked'
  <2>1. \A r \in asked' : req'[r].pc = "running" BY <1>1, <1>2, <1>4 DEF RunInv, Marked
  <2>2. \A r \in aborted' : req'[r].pc \notin Early BY <1>1, <1>5 DEF RunInv, Marked, Early
  <2>. QED BY <2>1, <2>2 DEF Marked
<1>8. OnlyAskedStop' BY <1>1, <1>5 DEF RunInv, OnlyAskedStop
<1>9. ASSUME NEW r \in Requests PROVE Controller(r)' = pool'[Key(r)] /\ Controller(r) = pool[Key(r)]
  BY <1>1, <1>2 DEF Controller
<1>10. LoneRunIsAbortable'
  <2>1. SUFFICES ASSUME NEW r \in Requests, r \notin aborted', r \notin asked',
                        req'[r].pc = "running", LoneRun(r)'
                 PROVE  Controller(r)' = r
    BY DEF LoneRunIsAbortable
  <2>2. Controller(r) = r BY <1>1, <1>2, <2>1 DEF RunInv, LoneRunIsAbortable
  <2>3. Key(r) # k /\ Key(r) \in Keys BY <1>1, <1>2, <2>1
  <2>. QED BY <1>3, <1>9, <1>2, <2>2, <2>3
<1>11. AbortIsNotLost'
  <2>1. SUFFICES ASSUME NEW r \in asked', req'[r].pc = "running", LoneRun(r)'
                 PROVE  r \in aborted'
    BY DEF AbortIsNotLost
  <2>2. r \in Requests /\ req[r].pc = "running" /\ LoneRun(r) BY <1>0, <1>1, <1>2, <1>4, <2>1
  <2>3. CASE r \in asked BY <1>1, <2>2, <2>3 DEF RunInv, AbortIsNotLost
  <2>4. CASE r \in aborted BY <1>1, <2>4
  <2>5. CASE r \notin asked /\ r \notin aborted
    <3>1. Controller(r) = r BY <2>2, <2>5 DEF RunInv, LoneRunIsAbortable
    <3>2. Key(r) = k BY <1>1, <1>2, <2>2, <2>5
    <3>3. r \in Hit(pool, k) BY <1>0, <1>9, <2>2, <3>1, <3>2 DEF Hit
    <3>. QED BY <1>1, <3>3
  <2>. QED BY <2>3, <2>4, <2>5
<1>. QED BY <1>6, <1>7, <1>8, <1>10, <1>11 DEF RunInv

LEMMA PublishRun ==
  ASSUME Base, RunInv, NEW k \in Keys, Publish(k)
  PROVE  RunInv'
<1>0. asked \subseteq Requests /\ aborted \subseteq Requests
  BY DEF Base, TypeInv, TypeOK
<1>1. /\ mode = "queue" /\ UNCHANGED <<mode, req, met, pool, workerPool, aborted>>
      /\ events' = events \cup {<<w, k>> : w \in Workers}
      /\ asked' = asked \cup Running(k)
  BY DEF Publish, server
<1>2. \A r \in Requests : /\ Key(r)' = Key(r) /\ LoneRun(r)' = LoneRun(r)
                          /\ req[r].pc = "running" => Key(r) \in Keys
                          /\ r \in Running(k) <=> req[r].pc = "running" /\ Key(r) = k
  BY <1>1, AbortStays
<1>3. Running(k) \subseteq Requests BY DEF Running
<1>4. ASSUME NEW r \in Requests PROVE Controller(r)' = Controller(r)
  BY <1>1, <1>2 DEF Controller
<1>5. Placed' BY <1>1, <1>2 DEF RunInv, Placed
<1>6. Marked'
  <2>1. \A r \in asked' : req'[r].pc = "running" BY <1>1, <1>2, <1>3 DEF RunInv, Marked
  <2>2. \A r \in aborted' : req'[r].pc \notin Early BY <1>1 DEF RunInv, Marked
  <2>. QED BY <2>1, <2>2 DEF Marked
<1>7. OnlyAskedStop' BY <1>1 DEF OnlyAskedStop
<1>8. LoneRunIsAbortable' BY <1>1, <1>2, <1>4 DEF RunInv, LoneRunIsAbortable
<1>9. AbortIsNotLost'
  <2>1. SUFFICES ASSUME NEW r \in asked', req'[r].pc = "running", LoneRun(r)', r \notin aborted'
                 PROVE  <<req'[r].host, Key(r)'>> \in events' /\ Controller(r)' = r
    BY <1>1 DEF AbortIsNotLost
  <2>2. r \in Requests /\ req[r].pc = "running" /\ LoneRun(r) /\ r \notin aborted
    BY <1>0, <1>1, <1>2, <1>3, <2>1
  <2>3. CASE r \in asked BY <1>1, <1>2, <1>4, <2>2, <2>3 DEF RunInv, AbortIsNotLost
  <2>4. CASE r \notin asked
    <3>1. Controller(r) = r BY <2>2, <2>4 DEF RunInv, LoneRunIsAbortable
    <3>2. Key(r) = k BY <1>1, <1>2, <2>2, <2>4
    <3>3. req[r].host \in Workers BY <1>1, <2>2, Held DEF Sound, Base
    <3>. QED BY <1>1, <1>2, <1>4, <2>2, <3>1, <3>2, <3>3
  <2>. QED BY <2>3, <2>4
<1>. QED BY <1>5, <1>6, <1>7, <1>8, <1>9 DEF RunInv

LEMMA DeliverRun ==
  ASSUME Base, RunInv, NEW w \in Workers, NEW k \in Keys, Deliver(w, k)
  PROVE  RunInv'
<1>0. /\ workerPool \in [Workers -> [Keys -> Requests \cup {None}]]
      /\ asked \subseteq Requests /\ aborted \subseteq Requests /\ None \notin Requests
  BY PredictionAssumption DEF Base, TypeInv, TypeOK
<1>1. /\ UNCHANGED <<mode, req, met, pool, asked>>
      /\ events' = events \ {<<w, k>>}
      /\ aborted' = aborted \cup Hit(workerPool[w], k)
      /\ workerPool' = [workerPool EXCEPT ![w][k] = None]
  BY DEF Deliver, server, history
<1>2. \A r \in Requests : /\ Key(r)' = Key(r) /\ LoneRun(r)' = LoneRun(r)
                          /\ req[r].pc = "running" => Key(r) \in Keys
  BY <1>1, AbortStays
<1>3. \A v \in Workers, i \in Keys :
        workerPool'[v][i] = IF v = w /\ i = k THEN None ELSE workerPool[v][i]
  BY <1>0, <1>1
<1>4. \A r \in Hit(workerPool[w], k) :
        r \in Requests /\ workerPool[w][k] = r /\ mode = "queue" /\ req[r].pc \notin Early
  BY <1>0 DEF Hit, RunInv, Placed
<1>5. Placed' BY <1>0, <1>1, <1>2, <1>3 DEF RunInv, Placed
<1>6. Marked'
  <2>1. \A r \in asked' : req'[r].pc = "running" BY <1>1 DEF RunInv, Marked
  <2>2. \A r \in aborted' : req'[r].pc \notin Early BY <1>1, <1>4 DEF RunInv, Marked
  <2>. QED BY <2>1, <2>2 DEF Marked
<1>7. OnlyAskedStop'
  <2>1. mode = "direct" => aborted' = aborted BY <1>1, <1>4
  <2>. QED BY <1>1, <2>1 DEF RunInv, OnlyAskedStop
<1>8. ASSUME NEW r \in Requests, req[r].pc = "running", Controller(r) = r, r \notin aborted'
      PROVE  /\ Controller(r)' = r
             /\ mode = "queue" => <<req[r].host, Key(r)>> # <<w, k>>
  <2>1. CASE mode = "direct" BY <1>1, <1>2, <1>8, <2>1 DEF Controller
  <2>2. CASE mode # "direct"
    <3>1. mode = "queue" BY <2>2, PredictionAssumption DEF Base, TypeInv, TypeOK
    <3>2. req[r].host \in Workers /\ Key(r) \in Keys BY <1>2, <1>8, <3>1, Held DEF Sound, Base
    <3>3. workerPool[req[r].host][Key(r)] = r BY <1>8, <2>2 DEF Controller
    <3>4. ~(req[r].host = w /\ Key(r) = k) BY <1>0, <1>1, <1>8, <3>3 DEF Hit
    <3>5. Controller(r)' = workerPool'[req[r].host][Key(r)] BY <1>1, <1>2, <2>2 DEF Controller
    <3>. QED BY <1>3, <3>2, <3>3, <3>4, <3>5
  <2>. QED BY <2>1, <2>2
<1>9. LoneRunIsAbortable'
  <2>1. SUFFICES ASSUME NEW r \in Requests, r \notin aborted', r \notin asked',
                        req'[r].pc = "running", LoneRun(r)'
                 PROVE  Controller(r)' = r
    BY DEF LoneRunIsAbortable
  <2>2. Controller(r) = r BY <1>1, <1>2, <2>1 DEF RunInv, LoneRunIsAbortable
  <2>. QED BY <1>1, <1>8, <2>1, <2>2
<1>10. AbortIsNotLost'
  <2>1. SUFFICES ASSUME NEW r \in asked', req'[r].pc = "running", LoneRun(r)', r \notin aborted'
                 PROVE  /\ mode' = "queue" /\ <<req'[r].host, Key(r)'>> \in events'
                        /\ Controller(r)' = r
    BY DEF AbortIsNotLost
  <2>2. r \in Requests /\ req[r].pc = "running" /\ LoneRun(r) /\ r \in asked /\ r \notin aborted
    BY <1>0, <1>1, <1>2, <2>1
  <2>3. mode = "queue" /\ <<req[r].host, Key(r)>> \in events /\ Controller(r) = r
    BY <2>2 DEF RunInv, AbortIsNotLost
  <2>. QED BY <1>1, <1>2, <1>8, <2>1, <2>2, <2>3
<1>. QED BY <1>5, <1>6, <1>7, <1>9, <1>10 DEF RunInv

LEMMA RunInit == Init => RunInv
<1>1. None \notin Requests BY PredictionAssumption
<1>. QED BY <1>1 DEF Init, RunInv, Placed, Marked, OnlyAskedStop, LoneRunIsAbortable, AbortIsNotLost

LEMMA RunNext == ASSUME Base, Met, RunInv, [Next]_vars PROVE RunInv'
<1>0. req \in [Requests -> Request] BY DEF Base, TypeInv, TypeOK
<1>1. CASE \/ \E r \in Requests :
                \/ \E f \in Flows, c \in Chats, door \in Doors \ {"schedule"}, asks, s \in BOOLEAN :
                     Arrive(r, f, c, door, asks, s)
                \/ NotFound(r) \/ Admit(r) \/ Enqueue(r) \/ ReadUsage(r) \/ WriteUsage(r) \/ Leave(r)
                \/ Forbid(r) \/ Fire(r) \/ Finish(r)
           \/ Answer
           \/ \E c \in Chats : Sweep(c) \/ AbortSpeech(c) \/ WriteFails(c)
           \/ UNCHANGED vars
  BY <1>1, QuietSteps, QuietStep
<1>2. ASSUME NEW r \in Requests, Refuse(r) \/ Succeed(r) \/ Fail(r) PROVE RunInv'
  <2>1. \A o \in Requests : o # r => req'[o] = req[o] BY <1>2, OnStep
  <2>2. /\ UNCHANGED <<mode, workerPool, events>> /\ pool' = PoolWithout(r)
        /\ req[r].pc \in {"building", "running"}
    BY <1>2 DEF Refuse, Succeed, Fail, queue
  <2>3. aborted' = aborted \ {r} /\ asked' = asked \ {r}
    <3>1. CASE Refuse(r)
      <4>1. req[r].pc = "building" /\ UNCHANGED <<aborted, asked>> BY <3>1 DEF Refuse, history
      <4>2. r \notin aborted /\ r \notin asked BY <4>1 DEF RunInv, Marked, Early
      <4>. QED BY <4>1, <4>2
    <3>2. CASE Succeed(r) \/ Fail(r) BY <3>2 DEF Succeed, Fail, RunsOver
    <3>. QED BY <1>2, <3>1, <3>2
  <2>4. req'[r].pc \in {"counting", "leaving"}
    <3>1. req[r] \in Request BY Held DEF Base
    <3>2. CASE Refuse(r) BY <1>0, <3>1, <3>2 DEF Refuse, Throw, Request
    <3>3. CASE Succeed(r) BY <1>0, <3>1, <3>3 DEF Succeed, Request
    <3>4. CASE Fail(r) BY <1>0, <3>1, <3>4 DEF Fail, Request
    <3>. QED BY <1>2, <3>2, <3>3, <3>4
  <2>5. req'[r].pc \notin Early \cup {"running"} BY <2>4 DEF Early
  <2>. QED BY <2>1, <2>2, <2>3, <2>5, ClearStep
<1>3. ASSUME NEW r \in Requests, RunHere(r) PROVE RunInv'
  <2>1. \A o \in Requests : o # r => req'[o] = req[o] BY <1>3, OnStep
  <2>2. /\ req[r].pc = "admitted" /\ mode = "direct" /\ pool' = PoolWith(r)
        /\ UNCHANGED <<mode, workerPool, aborted, asked, events>> /\ Goto(r, "running")
    BY <1>3 DEF RunHere, queue, history
  <2>3. req'[r].pc = "running" BY <1>0, <2>2, Held DEF Goto, Request, Base
  <2>4. req[r].pc \in Early \ {"idle"} BY <2>2 DEF Early
  <2>. QED BY <2>1, <2>2, <2>3, <2>4, BeginStep
<1>4. ASSUME NEW r \in Requests, NEW w \in Workers, Pick(w, r) PROVE RunInv'
  <2>1. \A o \in Requests : o # r => req'[o] = req[o] BY <1>4, OnStep
  <2>2. /\ req[r].pc = "queued" /\ workerPool' = WorkerPoolWith(w, r)
        /\ UNCHANGED <<mode, pool, aborted, asked, events>>
    BY <1>4 DEF Pick, server, history
  <2>3. mode = "queue" BY <2>2, Held DEF Sound, Base
  <2>4. req'[r].pc = "running" /\ req'[r].host = w
    <3>1. req[r] \in Request BY Held DEF Base
    <3>. QED BY <1>0, <1>4, <3>1 DEF Pick, Request
  <2>5. req[r].pc \in Early \ {"idle"} BY <2>2 DEF Early
  <2>. QED BY <2>1, <2>2, <2>3, <2>4, <2>5, BeginStep
<1>5. ASSUME NEW w \in Workers, Crash(w) PROVE RunInv' BY <1>5, CrashRun
<1>6. ASSUME NEW k \in Keys, AbortHere(k) \/ Publish(k) PROVE RunInv'
  BY <1>6, AbortHereRun, PublishRun
<1>7. ASSUME NEW w \in Workers, NEW k \in Keys, Deliver(w, k) PROVE RunInv'
  BY <1>7, DeliverRun
<1>. QED BY <1>1, <1>2, <1>3, <1>4, <1>5, <1>6, <1>7 DEF Next

LEMMA RunAlways == Spec => [](Base /\ Met /\ RunInv)
<1>1. Init => Base /\ Met /\ RunInv BY BaseInit, MetInit, RunInit
<1>2. Base /\ Met /\ RunInv /\ [Next]_vars => (Base /\ Met /\ RunInv)'
  BY BaseNext, MetNext, RunNext
<1>. QED BY <1>1, <1>2, PTL DEF Spec

\* A run that is alone under its flow and chat has its controller where an abort
\* looks for it.
THEOREM RunIsAbortable == Spec => []LoneRunIsAbortable
<1>1. RunInv => LoneRunIsAbortable BY DEF RunInv
<1>. QED BY <1>1, RunAlways, PTL

\* An abort of such a run sets its signal, at the latest when its event arrives.
THEOREM AbortArrives == Spec => []AbortIsNotLost
<1>1. RunInv => AbortIsNotLost BY DEF RunInv
<1>. QED BY <1>1, RunAlways, PTL

\* In direct mode only runs that an abort named are stopped.
THEOREM OnlyAskedAreStopped == Spec => []OnlyAskedStop
<1>1. RunInv => OnlyAskedStop BY DEF RunInv
<1>. QED BY <1>1, RunAlways, PTL

-----------------------------------------------------------------------------
(***************************************************************************)
(* What a stream keeps, and what is left when none is active.              *)
(***************************************************************************)

\* Clients are those of active streams, channels those of active streams of
\* predictions; what is closed has come in, and is over unless it is a stream or a
\* webhook.
Feeds(q, c) == req[q].stream /\ req[q].chat = c /\ req[q].door = "prediction"
MayEnd(q) == q.stream \/ q.door = "webhook" \/ q.pc = "done"

Wired ==
  /\ \A c \in Chats, r \in Requests : clients[c] = r =>
       r \in Active /\ req[r].stream /\ req[r].chat = c
  /\ \A c \in channels : /\ mode = "queue"
                         /\ \E q \in Active : Feeds(q, c)
  /\ \A r \in closed : req[r].pc # "idle" /\ MayEnd(req[r])
  /\ \A i \in DOMAIN wire : wire[i].op = "sub" => wire[i].by # None

\* An answer that is no stream is sent unless an error keeps it.
Sent ==
  \A r \in Requests : req[r].pc = "done" /\ ~req[r].stream /\ req[r].door # "schedule" =>
    (r \in closed <=> ~(req[r].failed /\ req[r].asks))

Open == {"building", "admitted", "queued", "running"}

\* The i-th command on the wire unsubscribes the channel of c.
Cuts(i, c) == wire[i].op = "unsub" /\ wire[i].chat = c

\* What a lone stream has that has not been lost: no command is on its way that would
\* unsubscribe it.
Kept(r) ==
  /\ r \in closed <=> req[r].pc = "done"
  /\ r \in Active => clients[req[r].chat] = r
  /\ mode = "queue" /\ req[r].door = "prediction" /\ req[r].pc \in Open =>
       req[r].chat \in channels /\ \A i \in DOMAIN wire : ~Cuts(i, req[r].chat)
  /\ req[r].pc = "subscribing" =>
       \A i, j \in DOMAIN wire : wire[i].by = r /\ Cuts(j, req[r].chat) => j < i

LoneKept == \A r \in Requests \ lost : req[r].stream /\ LoneStream(r) => Kept(r)

StreamInv == Wired /\ Sent /\ LoneKept

\* No other stream is active on the chat of a lone one.
LEMMA LoneOnChat ==
  ASSUME Met, NEW r \in Active, NEW q \in Active, q # r, LoneStream(r), Removes(q)
  PROVE  req[q].chat # req[r].chat
BY DEF Met, LoneStream

\* A schedule's run goes on, or a request is turned away.
Aside(r) ==
  /\ ~req[r].stream /\ ~req'[r].stream /\ req'[r].pc # "idle"
  /\ \/ req'[r].door = "schedule" /\ (r \in closed' <=> r \in closed)
     \/ req'[r].pc = "done" /\ ~req'[r].failed /\ r \in closed'

\* A request stays, or one that is served goes on and is not over by it.
NotEnded(r) ==
  /\ r \in closed' <=> r \in closed
  /\ \/ req'[r] = req[r]
     \/ /\ r \in Active /\ req'[r].pc \notin {"done", "subscribing"}
        /\ req'[r].pc \in Open => req[r].pc \in Open

\* A step that leaves streams alone.
Calm ==
  /\ UNCHANGED <<wire, channels, clients, lost>>
  /\ \A r \in Requests : Aside(r) \/ NotEnded(r)

LEMMA CalmStep ==
  ASSUME Base, Met, StreamInv, [Next]_vars, Calm
  PROVE  StreamInv'
<1>0. /\ Steady /\ closed \subseteq Requests /\ closed' \subseteq Requests
      /\ channels \subseteq Chats
  BY SteadyStep, BaseNext DEF Base, TypeInv, TypeOK
<1>1. ASSUME NEW r \in Requests, r \in Active
      PROVE  /\ Stays(r) /\ mode' = mode
             /\ req[r].stream => r \in Active' /\ (r \in closed' <=> r \in closed)
  <2>1. Stays(r) /\ mode' = mode BY <1>0, <1>1 DEF Steady, Active
  <2>2. CASE Aside(r) BY <2>1, <2>2 DEF Aside
  <2>3. CASE NotEnded(r) BY <1>1, <2>1, <2>3 DEF NotEnded, Stays, Active
  <2>. QED BY <2>1, <2>2, <2>3 DEF Calm
<1>2. Wired'
  <2>1. \A c \in Chats, r \in Requests : clients'[c] = r =>
          r \in Active' /\ req'[r].stream /\ req'[r].chat = c
    <3>1. SUFFICES ASSUME NEW c \in Chats, NEW r \in Requests, clients[c] = r
                   PROVE  r \in Active' /\ req'[r].stream /\ req'[r].chat = c
      BY DEF Calm
    <3>2. r \in Active /\ req[r].stream /\ req[r].chat = c BY <3>1 DEF StreamInv, Wired
    <3>. QED BY <1>1, <3>2 DEF Stays, Same
  <2>2. \A c \in channels' : mode' = "queue" /\ \E q \in Active' : Feeds(q, c)'
    <3>1. SUFFICES ASSUME NEW c \in channels
                   PROVE  mode' = "queue" /\ \E q \in Active' : Feeds(q, c)'
      BY DEF Calm
    <3>2. PICK q \in Active : Feeds(q, c) BY <3>1 DEF StreamInv, Wired
    <3>3. q \in Requests BY DEF Active
    <3>4. mode' = "queue" BY <1>0 DEF Steady, StreamInv, Wired
    <3>. QED BY <1>1, <3>2, <3>3, <3>4 DEF Stays, Same, Feeds
  <2>3. \A r \in closed' : req'[r].pc # "idle" /\ MayEnd(req'[r])
    <3>1. SUFFICES ASSUME NEW r \in closed', r \in Requests
                   PROVE  req'[r].pc # "idle" /\ MayEnd(req'[r])
      BY <1>0
    <3>2. CASE r \in closed
      <4>1. req[r].pc # "idle" /\ MayEnd(req[r]) BY <3>2 DEF StreamInv, Wired
      <4>2. Stays(r) BY <1>0, <3>1, <4>1 DEF Steady
      <4>. QED BY <4>1, <4>2 DEF Stays, Same, MayEnd
    <3>3. CASE r \notin closed
      <4>1. Aside(r) BY <3>1, <3>3 DEF Calm, NotEnded
      <4>. QED BY <3>1, <3>3, <4>1 DEF Aside, MayEnd
    <3>. QED BY <3>2, <3>3
  <2>. QED BY <2>1, <2>2, <2>3 DEF Wired, Calm, StreamInv
<1>3. Sent'
  <2>1. SUFFICES ASSUME NEW r \in Requests, req'[r].pc = "done", ~req'[r].stream,
                        req'[r].door # "schedule"
                 PROVE  r \in closed' <=> ~(req'[r].failed /\ req'[r].asks)
    BY DEF Sent
  <2>2. CASE Aside(r) BY <2>1, <2>2 DEF Aside
  <2>3. CASE NotEnded(r)
    <3>1. req'[r] = req[r] BY <2>1, <2>3 DEF NotEnded
    <3>. QED BY <2>1, <2>3, <3>1 DEF NotEnded, StreamInv, Sent
  <2>. QED BY <2>2, <2>3 DEF Calm
<1>4. ASSUME NEW r \in Requests, req'[r].stream, LoneStream(r)', r \notin lost' PROVE Kept(r)'
  <2>1. NotEnded(r) /\ UNCHANGED <<wire, channels, clients, lost>> BY <1>4 DEF Calm, Aside
  <2>2. req[r].pc # "idle" /\ Stays(r) /\ mode' = mode
    <3>1. CASE req[r].pc = "idle"
      <4>1. req'[r] = req[r] BY <2>1, <3>1 DEF NotEnded, Active
      <4>. QED BY <1>4, <3>1, <4>1, Held DEF Sound, Base
    <3>. QED BY <1>0, <3>1 DEF Steady
  <2>3. req[r].stream /\ LoneStream(r) BY <1>4, <2>2, LoneBefore DEF Stays, Same
  <2>4. Kept(r) BY <1>4, <2>1, <2>3 DEF StreamInv, LoneKept
  <2>5. /\ req'[r].pc = "done" <=> req[r].pc = "done"
        /\ req'[r].pc = "subscribing" => req[r].pc = "subscribing"
        /\ req'[r].pc \in Open => req[r].pc \in Open
        /\ r \in Active' => r \in Active
    BY <2>1, <2>2 DEF NotEnded, Stays, Active
  <2>6. req'[r].chat = req[r].chat /\ req'[r].door = req[r].door BY <2>2 DEF Stays, Same
  <2>. QED BY <2>1, <2>2, <2>4, <2>5, <2>6 DEF Kept, Cuts, NotEnded
<1>5. LoneKept' BY <1>4 DEF LoneKept
<1>. QED BY <1>2, <1>3, <1>5 DEF StreamInv

LEMMA CalmSteps ==
  ASSUME Base,
         \/ \E r \in Requests :
              \/ NotFound(r) \/ Refuse(r) \/ Admit(r) \/ RunHere(r) \/ Enqueue(r)
              \/ Succeed(r) \/ Fail(r) \/ ReadUsage(r) \/ WriteUsage(r)
              \/ Forbid(r) \/ Fire(r) \/ Finish(r) \/ \E w \in Workers : Pick(w, r)
         \/ \E w \in Workers : Crash(w)
         \/ \E k \in Keys : AbortHere(k) \/ Publish(k)
         \/ \E w \in Workers, k \in Keys : Deliver(w, k)
         \/ UNCHANGED vars
  PROVE  Calm
<1>0. req \in [Requests -> Request] BY DEF Base, TypeInv, TypeOK
<1>1. ASSUME NEW r \in Requests,
             \/ NotFound(r) \/ Refuse(r) \/ Admit(r) \/ RunHere(r) \/ Enqueue(r)
             \/ Succeed(r) \/ Fail(r) \/ ReadUsage(r) \/ WriteUsage(r)
             \/ \E w \in Workers : Pick(w, r)
      PROVE  Calm
  <2>1. UNCHANGED <<wire, channels, clients, closed, lost>>
    BY <1>1 DEF NotFound, Refuse, Admit, RunHere, Enqueue, Succeed, Fail, ReadUsage, WriteUsage,
       Pick, server, history
  <2>2. /\ \A o \in Requests : o # r => req'[o] = req[o]
        /\ req[r].pc \notin {"idle", "done"}
    BY <1>1, OnStep
  <2>3. \/ /\ req'[r].pc \notin {"done", "subscribing"}
           /\ req'[r].pc \in Open => req[r].pc \in Open
        \/ Aside(r)
    <3>1. req[r] \in Request BY Held DEF Base
    <3>2. ASSUME NEW pc, Goto(r, pc) PROVE req'[r].pc = pc
      BY <1>0, <3>1, <3>2 DEF Goto, Request
    <3>3. CASE NotFound(r) \/ Refuse(r)
      <4>1. req'[r].pc = "leaving" BY <1>0, <3>1, <3>3 DEF NotFound, Refuse, Throw, Request
      <4>. QED BY <4>1 DEF Open
    <3>4. CASE Admit(r) \/ RunHere(r) \/ Enqueue(r)
      BY <3>2, <3>4 DEF Admit, RunHere, Enqueue, Open
    <3>5. CASE Succeed(r)
      <4>1. req'[r].pc = "counting" BY <1>0, <3>1, <3>5 DEF Succeed, Request
      <4>. QED BY <4>1 DEF Open
    <3>6. CASE Fail(r)
      <4>1. req'[r].pc = "leaving" BY <1>0, <3>1, <3>6 DEF Fail, Request
      <4>. QED BY <4>1 DEF Open
    <3>7. CASE ReadUsage(r)
      <4>1. req'[r].pc = "writing" BY <1>0, <3>1, <3>7 DEF ReadUsage, Request
      <4>. QED BY <4>1 DEF Open
    <3>8. CASE WriteUsage(r)
      <4>1. /\ req'[r].door = req[r].door /\ req'[r].stream = req[r].stream
            /\ req'[r].pc = IF req[r].door = "schedule" THEN "done" ELSE "leaving"
        BY <1>0, <3>1, <3>8 DEF WriteUsage, Request
      <4>2. req[r].door = "schedule" => ~req[r].stream BY Held DEF Sound, Base
      <4>3. closed' = closed BY <2>1
      <4>. QED BY <4>1, <4>2, <4>3 DEF Aside, Open
    <3>9. ASSUME NEW w \in Workers, Pick(w, r)
          PROVE  req'[r].pc = "running" /\ req[r].pc = "queued"
      BY <1>0, <3>1, <3>9 DEF Pick, Request
    <3>. QED BY <1>1, <3>3, <3>4, <3>5, <3>6, <3>7, <3>8, <3>9 DEF Open
  <2>. QED BY <2>1, <2>2, <2>3 DEF Calm, NotEnded, Active
<1>2. ASSUME NEW w \in Workers, Crash(w) PROVE Calm
  <2>1. UNCHANGED <<wire, channels, clients, closed, lost>> BY <1>2 DEF Crash, server
  <2>2. ASSUME NEW r \in Requests PROVE NotEnded(r)
    <3>1. CASE req[r].pc = "running" /\ req[r].host = w
      <4>1. req'[r].pc \in {"queued", "leaving"} BY <1>2, <3>1, CrashStep
      <4>. QED BY <2>1, <3>1, <4>1 DEF NotEnded, Active, Open
    <3>2. CASE ~(req[r].pc = "running" /\ req[r].host = w)
      <4>1. req'[r] = req[r] BY <1>2, <3>2, CrashStep
      <4>. QED BY <2>1, <4>1 DEF NotEnded
    <3>. QED BY <3>1, <3>2
  <2>. QED BY <2>1, <2>2 DEF Calm
<1>3. CASE \/ \E k \in Keys : AbortHere(k) \/ Publish(k)
           \/ \E w \in Workers, k \in Keys : Deliver(w, k)
           \/ UNCHANGED vars
  <2>1. UNCHANGED <<wire, channels, clients, closed, lost, req>>
    BY <1>3 DEF AbortHere, Publish, Deliver, vars, server, history
  <2>. QED BY <2>1 DEF Calm, NotEnded
<1>4. ASSUME NEW r \in Requests, Fire(r) PROVE Calm
  <2>1. UNCHANGED <<wire, channels, clients, closed, lost>> BY <1>4 DEF Fire, server
  <2>2. ~req[r].stream BY <1>4, Held DEF Fire, Sound, Base
  <2>3. Aside(r) BY <1>4, <2>1, <2>2, Fires DEF ComesIn, Aside
  <2>. QED BY <1>4, <2>1, <2>3, Fires DEF ComesIn, Calm, NotEnded
<1>5. ASSUME NEW r \in Requests, Forbid(r) PROVE Calm
  <2>1. UNCHANGED <<wire, channels, clients, lost>> /\ closed' = closed \cup {r}
    BY <1>5 DEF Forbid, history
  <2>2. ~req[r].stream /\ ~req[r].failed BY <1>5, Held DEF Forbid, Sound, Base
  <2>3. Aside(r) BY <1>5, <2>1, <2>2, Goes DEF Aside, Same
  <2>. QED BY <1>5, <2>1, <2>3, Goes DEF Calm, NotEnded
<1>6. ASSUME NEW r \in Requests, Finish(r) PROVE Calm
  <2>1. UNCHANGED <<wire, channels, clients, closed, lost>> BY <1>6 DEF Finish, server, history
  <2>2. req[r].door = "schedule" /\ ~req[r].stream BY <1>6, Held DEF Finish, Sound, Base
  <2>3. Aside(r) BY <1>6, <2>1, <2>2, Goes DEF Aside, Same
  <2>. QED BY <1>6, <2>1, <2>3, Goes DEF Calm, NotEnded
<1>. QED BY <1>1, <1>2, <1>3, <1>4, <1>5, <1>6

LEMMA ArriveStream ==
  ASSUME Base, Met, StreamInv, [Next]_vars, NEW a \in Requests, NEW f \in Flows, NEW c \in Chats,
         NEW door \in Doors \ {"schedule"}, NEW asks \in BOOLEAN, NEW stream \in BOOLEAN,
         Arrive(a, f, c, door, asks, stream)
  PROVE  StreamInv'
<1>0. /\ clients \in [Chats -> Requests \cup {None}] /\ closed \subseteq Requests
      /\ wire \in Seq(Commands) /\ None \notin Requests /\ Steady
  BY PredictionAssumption, SteadyStep DEF Base, TypeInv, TypeOK
<1>1. /\ req[a].pc = "idle" /\ req'[a].pc \in {"subscribing", "building"}
      /\ req'[a].pc = "subscribing" <=>
           stream /\ door = "prediction" /\ mode = "queue" /\ c \notin channels
      /\ req'[a].chat = c /\ req'[a].stream = stream /\ req'[a].door = door
      /\ \A o \in Requests : o # a => req'[o] = req[o]
  BY Arrives DEF ComesIn
<1>2. /\ UNCHANGED <<mode, channels, lost>> /\ met'[a] = Active
      /\ closed' = closed \/ (door = "webhook" /\ ~stream /\ closed' = closed \cup {a})
      /\ clients' = IF stream THEN [clients EXCEPT ![c] = a] ELSE clients
      /\ \A o \in Active : o # a => a \in met'[o]
  BY DEF Arrive, Meet, Active
<1>3. a \notin closed /\ a \notin Active /\ Active' = Active \cup {a}
  BY <1>1 DEF StreamInv, Wired, Active
<1>4. \/ UNCHANGED wire /\ req'[a].pc # "subscribing"
      \/ wire' = Append(wire, [op |-> "sub", chat |-> c, by |-> a])
  BY <1>1 DEF Arrive
<1>5. \A i \in DOMAIN wire' :
        \/ i \in DOMAIN wire /\ wire'[i] = wire[i]
        \/ i = Len(wire) + 1 /\ wire'[i].op = "sub" /\ wire'[i].by = a
  <2>1. CASE UNCHANGED wire BY <2>1
  <2>2. CASE wire' = Append(wire, [op |-> "sub", chat |-> c, by |-> a])
    <3>. DEFINE cmd == [op |-> "sub", chat |-> c, by |-> a]
    <3>1. cmd \in Commands /\ cmd.op = "sub" /\ cmd.by = a BY DEF Commands
    <3>2. wire' = Append(wire, cmd) BY <2>2
    <3>. HIDE DEF cmd
    <3>. QED BY <1>0, <3>1, <3>2
  <2>. QED BY <1>4, <2>1, <2>2
<1>6. Wired'
  <2>1. \A o \in Chats, r \in Requests : clients'[o] = r =>
          r \in Active' /\ req'[r].stream /\ req'[r].chat = o
    <3>1. SUFFICES ASSUME NEW o \in Chats, NEW r \in Requests, clients'[o] = r
                   PROVE  r \in Active' /\ req'[r].stream /\ req'[r].chat = o
      OBVIOUS
    <3>2. CASE stream /\ o = c BY <1>0, <1>1, <1>2, <1>3, <3>1, <3>2
    <3>3. CASE ~(stream /\ o = c)
      <4>1. clients[o] = r BY <1>0, <1>2, <3>1, <3>3
      <4>2. r \in Active /\ req[r].stream /\ req[r].chat = o BY <4>1 DEF StreamInv, Wired
      <4>. QED BY <1>1, <1>3, <4>2
    <3>. QED BY <3>2, <3>3
  <2>2. \A o \in channels' : /\ mode' = "queue"
                             /\ \E q \in Active' : Feeds(q, o)'
    <3>1. SUFFICES ASSUME NEW o \in channels
                   PROVE  /\ mode' = "queue"
                          /\ \E q \in Active' : Feeds(q, o)'
      BY <1>2
    <3>2. PICK q \in Active : Feeds(q, o) BY DEF StreamInv, Wired
    <3>3. q \in Requests /\ q # a BY <1>3 DEF Active
    <3>. QED BY <1>1, <1>2, <1>3, <3>2, <3>3 DEF StreamInv, Wired, Feeds
  <2>3. \A r \in closed' : req'[r].pc # "idle" /\ MayEnd(req'[r])
    BY <1>0, <1>1, <1>2, <1>3 DEF StreamInv, Wired, MayEnd
  <2>4. \A i \in DOMAIN wire' : wire'[i].op = "sub" => wire'[i].by # None
    BY <1>0, <1>5 DEF StreamInv, Wired
  <2>. QED BY <2>1, <2>2, <2>3, <2>4 DEF Wired
<1>7. Sent' BY <1>1, <1>2 DEF StreamInv, Sent
<1>8. ASSUME NEW r \in Requests, r # a, req'[r].stream, LoneStream(r)',
             r \notin lost'
      PROVE  Kept(r)'
  <2>0. req'[r] = req[r] /\ (r \in Active' <=> r \in Active) BY <1>1, <1>3, <1>8
  <2>1. CASE req[r].pc = "idle" BY <1>8, <2>0, <2>1, Held DEF Sound, Base
  <2>2. CASE req[r].pc # "idle"
    <3>1. Kept(r)
      <4>1. req[r].stream /\ LoneStream(r) BY <1>8, <2>0, <2>2, LoneBefore
      <4>. QED BY <1>2, <1>8, <4>1 DEF StreamInv, LoneKept
    <3>2. r \in Active => ~(stream /\ req[r].chat = c)
      <4>1. r \in Active /\ stream => a \in met'[r] /\ Removes(a)'
        BY <1>1, <1>2, <1>8 DEF Removes
      <4>. QED BY <1>1, <1>8, <2>0, <4>1 DEF LoneStream
    <3>3. r \in Active => clients'[req[r].chat] = clients[req[r].chat]
      <4>1. req[r].chat \in Chats BY <1>8, <2>0, Held DEF Sound, Base
      <4>. QED BY <1>0, <1>2, <3>2, <4>1
    <3>4. \A i \in DOMAIN wire' : Cuts(i, req[r].chat)' => i \in DOMAIN wire /\ Cuts(i, req[r].chat)
      BY <1>5, <2>0 DEF Cuts
    <3>5. \A i \in DOMAIN wire' : wire'[i].by = r => i \in DOMAIN wire /\ wire[i].by = r
      BY <1>5, <1>8
    <3>6. r \in closed' <=> r \in closed BY <1>2, <1>8
    <3>. QED BY <1>2, <2>0, <3>6, <3>1, <3>3, <3>4, <3>5 DEF Kept
  <2>. QED BY <2>1, <2>2
<1>9. ASSUME req'[a].stream, LoneStream(a)', a \notin lost' PROVE Kept(a)'
  <2>1. stream /\ clients'[c] = a BY <1>0, <1>1, <1>2, <1>9
  <2>2. c \notin channels
    <3>1. SUFFICES ASSUME c \in channels PROVE FALSE
      OBVIOUS
    <3>2. PICK q \in Active : Feeds(q, c) BY <3>1 DEF StreamInv, Wired
    <3>3. q \in Requests /\ q # a BY <1>3 DEF Active
    <3>4. q \in met'[a] /\ Removes(q)' /\ req'[q].chat = req'[a].chat
      BY <1>1, <1>2, <3>2, <3>3 DEF Removes, Feeds
    <3>. QED BY <1>9, <3>4 DEF LoneStream
  <2>3. mode = "queue" /\ door = "prediction" => req'[a].pc = "subscribing" BY <1>1, <2>1, <2>2
  <2>5. a \notin closed' BY <1>2, <1>3, <2>1
  <2>4. ASSUME NEW i \in DOMAIN wire', NEW j \in DOMAIN wire', wire'[i].by = a, Cuts(j, c)'
        PROVE  j < i
    <3>1. j \in DOMAIN wire BY <1>5, <2>4 DEF Cuts
    <3>2. i = Len(wire) + 1
      <4>1. CASE i \in DOMAIN wire /\ wire'[i] = wire[i]
        BY <1>0, <1>1, <2>4, <4>1 DEF Base, Pending, Answers
      <4>. QED BY <1>5, <4>1
    <3>. QED BY <1>0, <3>1, <3>2
  <2>. QED BY <1>1, <1>2, <1>3, <2>1, <2>3, <2>4, <2>5 DEF Kept, Cuts, Open
<1>10. LoneKept' BY <1>8, <1>9 DEF LoneKept
<1>. QED BY <1>6, <1>7, <1>10 DEF StreamInv

\* The client of a chat is removed when b, a stream or a webhook on it, is over.
LEMMA Removed ==
  ASSUME Base, Met, StreamInv, NEW b \in Active, Removes(b), req[b].pc \in Served,
         NEW answered \in SUBSET {b}, RemoveClient(req[b].chat, answered)
  PROVE  /\ \A c \in Chats, r \in Requests :
              clients'[c] = r => clients[c] = r /\ c # req[b].chat
         /\ \A c \in Chats : c # req[b].chat => clients'[c] = clients[c]
         /\ \A r \in Requests : r \in closed' <=>
              r \in closed \/ clients[req[b].chat] = r \/ r \in answered
         /\ \A r \in Requests : r # b /\ req[r].stream /\ LoneStream(r) =>
              (r \in closed' => r \in closed) /\ (r \in Active => req[r].chat # req[b].chat)
<1>0. /\ clients \in [Chats -> Requests \cup {None}] /\ None \notin Requests
      /\ b \in Requests /\ req[b].pc # "idle"
  BY PredictionAssumption DEF Base, TypeInv, TypeOK, Active
<1>1. req[b].chat \in Chats BY <1>0, ServedKey
<1>2. \A c \in Chats : clients'[c] = IF c = req[b].chat THEN None ELSE clients[c]
  BY <1>0, <1>1 DEF RemoveClient
<1>3. closed' = closed \cup ({clients[req[b].chat]} \ {None}) \cup answered BY DEF RemoveClient
<1>4. ASSUME NEW r \in Requests, r # b, req[r].stream, LoneStream(r)
      PROVE  (r \in closed' => r \in closed) /\ (r \in Active => req[r].chat # req[b].chat)
  <2>1. r \in Active => req[r].chat # req[b].chat BY <1>4, LoneOnChat
  <2>2. clients[req[b].chat] # r BY <1>1, <1>4, <2>1 DEF StreamInv, Wired
  <2>. QED BY <1>3, <2>1, <2>2
<1>5. \A c \in Chats, r \in Requests : clients'[c] = r => clients[c] = r /\ c # req[b].chat
  BY <1>0, <1>2
<1>6. \A r \in Requests : r \in closed' <=> r \in closed \/ clients[req[b].chat] = r
                                               \/ r \in answered
  BY <1>0, <1>3
<1>. QED BY <1>2, <1>4, <1>5, <1>6

LEMMA SweepStream ==
  ASSUME Base, Met, StreamInv, [Next]_vars, NEW c \in Chats, Sweep(c)
  PROVE  StreamInv'
<1>. DEFINE cmd == [op |-> "unsub", chat |-> c, by |-> None]
<1>0. wire \in Seq(Commands) /\ None \notin Requests /\ closed \subseteq Requests
  BY PredictionAssumption DEF Base, TypeInv, TypeOK
<1>1. /\ UNCHANGED <<mode, req, clients, channels, closed, met, lost>> /\ wire' = Append(wire, cmd)
      /\ clients[c] = None
  BY DEF Sweep, history
<1>2. cmd \in Commands /\ cmd.op = "unsub" /\ cmd.chat = c /\ cmd.by = None BY DEF Commands
<1>. HIDE DEF cmd
<1>3. \A i \in DOMAIN wire' :
        \/ i \in DOMAIN wire /\ wire'[i] = wire[i]
        \/ i = Len(wire) + 1 /\ wire'[i] = cmd
  BY <1>0, <1>1, <1>2
<1>4. Wired'
  <2>1. \A i \in DOMAIN wire' : wire'[i].op = "sub" => wire'[i].by # None
    BY <1>2, <1>3 DEF StreamInv, Wired
  <2>. QED BY <1>1, <2>1 DEF StreamInv, Wired, Active, Feeds
<1>5. Sent' BY <1>1 DEF StreamInv, Sent
<1>6. ASSUME NEW r \in Requests, req'[r].stream, LoneStream(r)', r \notin lost' PROVE Kept(r)'
  <2>1. Kept(r) BY <1>1, <1>6 DEF LoneStream, Removes, StreamInv, LoneKept
  <2>2. r \in Active => req[r].chat # c BY <1>0, <1>1, <2>1 DEF Kept
  <2>3. req[r].pc \in Open \cup {"subscribing"} => r \in Active BY DEF Active, Open
  <2>4. ASSUME r \in Active, NEW i \in DOMAIN wire', Cuts(i, req[r].chat)'
        PROVE  i \in DOMAIN wire /\ Cuts(i, req[r].chat)
    BY <1>1, <1>2, <1>3, <2>2, <2>4 DEF Cuts
  <2>5. \A i \in DOMAIN wire' : wire'[i].by = r => i \in DOMAIN wire /\ wire[i].by = r
    BY <1>0, <1>2, <1>3
  <2>6. mode = "queue" /\ req[r].door = "prediction" /\ req[r].pc \in Open =>
          req[r].chat \in channels /\ \A i \in DOMAIN wire' : ~Cuts(i, req[r].chat)'
    BY <2>1, <2>3, <2>4 DEF Kept
  <2>7. req[r].pc = "subscribing" =>
          \A i, j \in DOMAIN wire' : wire'[i].by = r /\ Cuts(j, req[r].chat)' => j < i
    BY <2>1, <2>3, <2>4, <2>5 DEF Kept
  <2>. QED BY <1>1, <2>1, <2>6, <2>7 DEF Kept, Active, Cuts
<1>7. LoneKept' BY <1>6 DEF LoneKept
<1>. QED BY <1>4, <1>5, <1>7 DEF StreamInv

\* The client of a chat is lost, and with it nothing but its stream.
LEMMA LoseStream ==
  ASSUME Base, Met, StreamInv, NEW c \in Chats, AbortSpeech(c) \/ WriteFails(c)
  PROVE  StreamInv'
<1>. DEFINE b == clients[c]
<1>0. /\ clients \in [Chats -> Requests \cup {None}] /\ None \notin Requests
      /\ closed \subseteq Requests
  BY PredictionAssumption DEF Base, TypeInv, TypeOK
<1>1. /\ UNCHANGED <<mode, req, channels, wire, met>> /\ b # None
      /\ clients' = [clients EXCEPT ![c] = None] /\ lost' = lost \cup {b}
      /\ closed' = closed \/ closed' = closed \cup {b}
  BY DEF AbortSpeech, WriteFails, Lose
<1>2. b \in Requests /\ b \in Active /\ req[b].stream /\ req[b].chat = c
  BY <1>0, <1>1 DEF StreamInv, Wired
<1>. HIDE DEF b
<1>3. \A o \in Chats : clients'[o] = IF o = c THEN None ELSE clients[o] BY <1>0, <1>1
<1>4. Wired'
  <2>1. \A o \in Chats, r \in Requests : clients'[o] = r =>
          r \in Active' /\ req'[r].stream /\ req'[r].chat = o
    BY <1>0, <1>1, <1>3 DEF StreamInv, Wired, Active
  <2>2. \A r \in closed' : req'[r].pc # "idle" /\ MayEnd(req'[r])
    BY <1>1, <1>2 DEF StreamInv, Wired, MayEnd, Active
  <2>. QED BY <1>1, <2>1, <2>2 DEF StreamInv, Wired, Active, Feeds
<1>5. Sent' BY <1>1, <1>2 DEF StreamInv, Sent
<1>6. ASSUME NEW r \in Requests, req'[r].stream, LoneStream(r)', r \notin lost' PROVE Kept(r)'
  <2>1. Kept(r) /\ r # b BY <1>1, <1>6 DEF LoneStream, Removes, StreamInv, LoneKept
  <2>2. r \in Active => clients'[req[r].chat] = r
    <3>1. SUFFICES ASSUME r \in Active PROVE clients'[req[r].chat] = r
      OBVIOUS
    <3>2. clients[req[r].chat] = r BY <2>1, <3>1 DEF Kept
    <3>3. req[r].chat \in Chats BY <1>1, <1>6, Held DEF Sound, Base
    <3>. QED BY <1>3, <2>1, <3>2, <3>3 DEF b
  <2>3. r \in closed' <=> r \in closed BY <1>1, <2>1
  <2>. QED BY <1>1, <2>1, <2>2, <2>3 DEF Kept, Cuts, Active
<1>7. LoneKept' BY <1>6 DEF LoneKept
<1>. QED BY <1>4, <1>5, <1>7 DEF StreamInv

LEMMA LeaveStream ==
  ASSUME Base, Met, StreamInv, [Next]_vars, NEW a \in Requests, Leave(a)
  PROVE  StreamInv'
<1>. DEFINE unsubscribes == /\ req[a].stream /\ req[a].door = "prediction"
                            /\ mode = "queue" /\ req[a].chat \in channels
            cmd == [op |-> "unsub", chat |-> req[a].chat, by |-> a]
<1>0. /\ wire \in Seq(Commands) /\ None \notin Requests /\ closed \subseteq Requests
      /\ req \in [Requests -> Request] /\ req[a] \in Request /\ Steady
  BY PredictionAssumption, SteadyStep, Held DEF Base, TypeInv, TypeOK
<1>1. /\ req[a].pc = "leaving" /\ UNCHANGED <<mode, channels, met, lost>>
      /\ req[a].pc \in Served
      /\ Goto(a, IF unsubscribes THEN "unsubscribing" ELSE "done")
      /\ \A o \in Requests : o # a => req'[o] = req[o]
      /\ Stays(a) /\ a \in Active
  BY OnStep DEF Leave, history, Active, Served
<1>2. req'[a].pc = IF unsubscribes THEN "unsubscribing" ELSE "done"
  <2>. DEFINE pc == IF unsubscribes THEN "unsubscribing" ELSE "done"
  <2>1. Goto(a, pc) BY <1>1
  <2>. HIDE DEF pc
  <2>2. req'[a].pc = pc BY <1>0, <2>1 DEF Goto, Request
  <2>. QED BY <2>2 DEF pc
<1>3. req[a].chat \in Chats /\ cmd \in Commands /\ cmd.op = "unsub" /\ cmd.chat = req[a].chat
      /\ cmd.by = a
  BY <1>1, ServedKey DEF Commands
<1>4. \/ unsubscribes /\ UNCHANGED <<clients, closed>> /\ wire' = Append(wire, cmd)
      \/ ~unsubscribes /\ UNCHANGED wire /\ Removes(a) /\ RemoveClient(req[a].chat, Reply(a))
      \/ /\ ~unsubscribes /\ UNCHANGED wire /\ ~Removes(a)
         /\ UNCHANGED clients /\ closed' = closed \cup Reply(a)
  BY DEF Leave
<1>. HIDE DEF cmd
<1>5. \A i \in DOMAIN wire' :
        \/ i \in DOMAIN wire /\ wire'[i] = wire[i]
        \/ i = Len(wire) + 1 /\ wire'[i] = cmd /\ unsubscribes
  BY <1>0, <1>3, <1>4
<1>6. Active' = IF unsubscribes THEN Active ELSE Active \ {a}
  BY <1>1, <1>2 DEF Active
<1>. HIDE DEF unsubscribes
<1>7. /\ \A c \in Chats, r \in Requests : clients'[c] = r =>
           clients[c] = r /\ (~unsubscribes => r # a)
      /\ \A r \in closed' : r \in closed \/ r = a \/ \E c \in Chats : clients[c] = r
  <2>1. ASSUME ~req[a].stream, NEW c \in Chats PROVE clients[c] # a
    BY <1>0, <2>1 DEF StreamInv, Wired
  <2>2. ASSUME req[a].stream, NEW c \in Chats, clients[c] = a PROVE c = req[a].chat
    BY <2>2 DEF StreamInv, Wired
  <2>3. Reply(a) \subseteq {a} BY DEF Reply
  <2>4. CASE Removes(a) /\ RemoveClient(req[a].chat, Reply(a))
    <3>1. \A c \in Chats, r \in Requests : clients'[c] = r => clients[c] = r /\ c # req[a].chat
      BY <1>1, <2>3, <2>4, Removed
    <3>2. \A r \in closed' : r \in closed \/ clients[req[a].chat] = r \/ r = a
      BY <2>3, <2>4 DEF RemoveClient
    <3>. QED BY <1>3, <2>1, <2>2, <2>4, <3>1, <3>2
  <2>5. ~Removes(a) => ~req[a].stream BY DEF Removes
  <2>. QED BY <1>4, <2>1, <2>3, <2>4, <2>5
<1>8. Wired'
  <2>1. \A c \in Chats, r \in Requests : clients'[c] = r =>
          r \in Active' /\ req'[r].stream /\ req'[r].chat = c
    <3>1. SUFFICES ASSUME NEW c \in Chats, NEW r \in Requests, clients'[c] = r
                   PROVE  r \in Active' /\ req'[r].stream /\ req'[r].chat = c
      OBVIOUS
    <3>2. clients[c] = r /\ (~unsubscribes => r # a) BY <1>7, <3>1
    <3>3. r \in Active /\ req[r].stream /\ req[r].chat = c BY <3>2 DEF StreamInv, Wired
    <3>. QED BY <1>1, <1>6, <3>2, <3>3 DEF Stays, Same
  <2>2. \A c \in channels' : /\ mode' = "queue"
                             /\ \E q \in Active' : Feeds(q, c)'
    <3>1. SUFFICES ASSUME NEW c \in channels
                   PROVE  /\ mode' = "queue"
                          /\ \E q \in Active' : Feeds(q, c)'
      BY <1>1
    <3>2. PICK q \in Active : Feeds(q, c) BY DEF StreamInv, Wired
    <3>3. q \in Requests /\ mode = "queue" BY DEF Active, StreamInv, Wired
    <3>4. q \in Active' BY <1>6, <3>2, <3>3 DEF unsubscribes, Feeds
    <3>. QED BY <1>1, <3>2, <3>3, <3>4 DEF Stays, Same, Feeds
  <2>3. \A r \in closed' : req'[r].pc # "idle" /\ MayEnd(req'[r])
    <3>1. SUFFICES ASSUME NEW r \in closed'
                   PROVE  req'[r].pc # "idle" /\ MayEnd(req'[r])
      OBVIOUS
    <3>2. CASE r = a BY <1>1, <1>2, <3>2 DEF Stays, Same, MayEnd, unsubscribes
    <3>3. CASE r # a /\ r \in closed BY <1>0, <1>1, <3>3 DEF StreamInv, Wired
    <3>4. ASSUME r # a, NEW c \in Chats, clients[c] = r
          PROVE  req'[r].pc # "idle" /\ MayEnd(req'[r])
      <4>1. r \in Requests
        <5>1. closed' \subseteq Requests BY NextTypes DEF Base, TypeInv, TypeOK
        <5>. QED BY <3>1, <5>1
      <4>2. r \in Active /\ req[r].stream BY <3>4, <4>1 DEF StreamInv, Wired
      <4>. QED BY <1>1, <3>4, <4>1, <4>2 DEF Active, MayEnd
    <3>. QED BY <1>7, <3>1, <3>2, <3>3, <3>4
  <2>4. \A i \in DOMAIN wire' : wire'[i].op = "sub" => wire'[i].by # None
    BY <1>3, <1>5 DEF StreamInv, Wired
  <2>. QED BY <2>1, <2>2, <2>3, <2>4 DEF Wired
<1>9. Sent'
  <2>1. ASSUME NEW r \in Requests, req'[r].pc = "done", ~req'[r].stream,
               req'[r].door # "schedule"
        PROVE  r \in closed' <=> ~(req'[r].failed /\ req'[r].asks)
    <3>1. CASE r = a
      <4>1. ~req[a].stream /\ ~unsubscribes BY <1>1, <2>1, <3>1 DEF Stays, Same, unsubscribes
      <4>2. req'[a].failed = req[a].failed /\ req'[a].asks = req[a].asks
        <5>1. PICK pc : Goto(a, pc) BY <1>1
        <5>. QED BY <1>0, <5>1 DEF Goto, Request
      <4>3. a \in closed' <=> a \in closed \/ a \in Reply(a)
        <5>1. \A c \in Chats : clients[c] # a BY <4>1 DEF StreamInv, Wired
        <5>. QED BY <1>0, <1>3, <1>4, <4>1, <5>1 DEF RemoveClient
      <4>4. CASE req[a].door = "webhook"
        <5>1. ~req[a].asks BY <4>1, <4>4, Held DEF Sound, Base
        <5>. QED BY <3>1, <4>1, <4>2, <4>3, <5>1 DEF Reply
      <4>5. CASE req[a].door # "webhook"
        <5>1. a \notin closed BY <1>1, <4>1, <4>5 DEF StreamInv, Wired, MayEnd
        <5>. QED BY <3>1, <4>1, <4>2, <4>3, <5>1 DEF Reply
      <4>. QED BY <4>4, <4>5
    <3>2. CASE r # a
      <4>1. req'[r] = req[r] BY <1>1, <3>2
      <4>2. \A c \in Chats : clients[c] # r BY <2>1, <4>1 DEF StreamInv, Wired
      <4>3. r \in closed' => r \in closed BY <1>7, <3>2, <4>2
      <4>4. closed \subseteq closed' BY <1>4 DEF RemoveClient
      <4>. QED BY <2>1, <4>1, <4>3, <4>4 DEF StreamInv, Sent
    <3>. QED BY <3>1, <3>2
  <2>. QED BY <2>1 DEF Sent
<1>10. ASSUME NEW r \in Requests, req'[r].stream, LoneStream(r)', r \notin lost' PROVE Kept(r)'
  <2>1. CASE req[r].pc = "idle"
    <3>1. r # a /\ req'[r] = req[r] BY <1>1, <2>1
    <3>. QED BY <1>10, <2>1, <3>1, Held DEF Sound, Base
  <2>2. CASE req[r].pc # "idle"
    <3>1. /\ req[r].stream /\ LoneStream(r) /\ req'[r].chat = req[r].chat
          /\ r \in Active' => r \in Active
      BY <1>0, <1>6, <1>10, <2>2, LoneBefore DEF Steady, Stays, Same
    <3>2. Kept(r) BY <1>1, <1>10, <3>1 DEF StreamInv, LoneKept
    <3>3. CASE r # a
      <4>1. req'[r] = req[r] /\ mode' = mode /\ channels' = channels BY <1>1, <3>3
      <4>2. /\ r \in closed' <=> r \in closed
            /\ r \in Active => clients'[req[r].chat] = clients[req[r].chat]
            /\ r \in Active => ~(Removes(a) /\ req[a].chat = req[r].chat)
        <5>1. r \in Active => ~(Removes(a) /\ req[a].chat = req[r].chat)
          BY <1>1, <3>1, <3>3, LoneOnChat
        <5>2. CASE Removes(a) /\ RemoveClient(req[a].chat, Reply(a))
          <6>1. req[r].chat \in Chats /\ Reply(a) \subseteq {a} BY <3>1, Held DEF Sound, Base, Reply
          <6>2. r \in closed => r \in closed' BY <5>2 DEF RemoveClient
          <6>. QED BY <1>1, <3>1, <3>3, <5>1, <5>2, <6>1, <6>2, Removed
        <5>3. CASE UNCHANGED clients /\ closed' = closed \cup Reply(a)
          BY <3>3, <5>1, <5>3 DEF Reply
        <5>4. CASE UNCHANGED <<clients, closed>> BY <5>1, <5>4
        <5>. QED BY <1>4, <5>2, <5>3, <5>4
      <4>3. ASSUME r \in Active, NEW i \in DOMAIN wire', Cuts(i, req[r].chat)'
            PROVE  i \in DOMAIN wire /\ Cuts(i, req[r].chat)
        BY <1>3, <1>5, <4>1, <4>2, <4>3 DEF Cuts, unsubscribes, Removes
      <4>4. \A i \in DOMAIN wire' : wire'[i].by = r => i \in DOMAIN wire /\ wire[i].by = r
        BY <1>3, <1>5, <3>3
      <4>5. req[r].pc \in Open \cup {"subscribing"} => r \in Active BY DEF Active, Open
      <4>6. mode = "queue" /\ req[r].door = "prediction" /\ req[r].pc \in Open =>
              req[r].chat \in channels /\ \A i \in DOMAIN wire' : ~Cuts(i, req[r].chat)'
        BY <3>2, <4>3, <4>5 DEF Kept
      <4>7. req[r].pc = "subscribing" =>
              \A i, j \in DOMAIN wire' : wire'[i].by = r /\ Cuts(j, req[r].chat)' => j < i
        BY <3>2, <4>3, <4>4, <4>5 DEF Kept
      <4>8. r \in Active' => clients'[req[r].chat] = r BY <3>1, <3>2, <4>2 DEF Kept
      <4>9. r \in closed' <=> req[r].pc = "done" BY <3>2, <4>2 DEF Kept
      <4>. QED BY <4>1, <4>6, <4>7, <4>8, <4>9 DEF Kept, Cuts
    <3>4. CASE r = a
      <4>1. clients[req[a].chat] = a /\ a \notin closed /\ req[a].stream
        BY <1>1, <3>1, <3>2, <3>4 DEF Kept
      <4>2. CASE unsubscribes
        <5>1. req'[a].pc = "unsubscribing" /\ UNCHANGED <<clients, closed>>
          BY <1>2, <1>4, <4>2
        <5>. QED BY <3>1, <3>4, <4>1, <5>1 DEF Kept, Open
      <4>3. CASE ~unsubscribes
        <5>1. req'[a].pc = "done" /\ RemoveClient(req[a].chat, Reply(a))
          BY <1>2, <1>4, <4>1, <4>3 DEF Removes
        <5>2. a \in closed' BY <1>0, <4>1, <5>1 DEF RemoveClient
        <5>3. a \notin Active' BY <1>6, <4>3
        <5>. QED BY <3>4, <5>1, <5>2, <5>3 DEF Kept, Open
      <4>. QED BY <4>2, <4>3
    <3>. QED BY <3>3, <3>4
  <2>. QED BY <2>1, <2>2
<1>11. LoneKept' BY <1>10 DEF LoneKept
<1>. QED BY <1>8, <1>9, <1>11 DEF StreamInv

LEMMA AnswerStream ==
  ASSUME Base, Met, StreamInv, [Next]_vars, Answer
  PROVE  StreamInv'
<1>. DEFINE cmd == wire[1]
            b == cmd.by
<1>0. /\ wire \in Seq(Commands) /\ None \notin Requests /\ closed \subseteq Requests
      /\ channels \subseteq Chats /\ Steady
  BY PredictionAssumption, SteadyStep DEF Base, TypeInv, TypeOK
<1>1. /\ wire # <<>> /\ cmd \in Commands /\ 1 \in DOMAIN wire /\ cmd = Head(wire)
      /\ cmd.op \in {"sub", "unsub"} /\ cmd.chat \in Chats
  BY <1>0, AnswerStep DEF Commands
<1>2. /\ \A o \in Requests : o # b => req'[o] = req[o]
      /\ b # None => b \in Requests /\ b \in Active /\ Stays(b)
      /\ b # None /\ cmd.op = "sub" => req[b].pc = "subscribing" /\ req'[b].pc = "building"
      /\ b # None /\ cmd.op = "unsub" => req[b].pc = "unsubscribing" /\ req'[b].pc = "done"
  BY <1>1, AnswerStep DEF Active
<1>3. b # None =>
        /\ req[b].stream /\ mode = "queue" /\ req[b].chat = cmd.chat
        /\ req[b].door = "prediction" /\ req[b].pc \in Served /\ Removes(b)
  <2>1. SUFFICES ASSUME b # None
                 PROVE  /\ req[b].stream /\ mode = "queue" /\ req[b].chat = cmd.chat
                        /\ req[b].door = "prediction" /\ req[b].pc \in Served /\ Removes(b)
    OBVIOUS
  <2>2. req[b].chat = cmd.chat BY <1>1, <2>1 DEF Base, Pending, Answers
  <2>3. Sound(req[b], mode) BY <1>2, <2>1, Held DEF Base
  <2>. QED BY <1>1, <1>2, <2>1, <2>2, <2>3 DEF Sound, Served, Removes
<1>4. cmd.op = "sub" => b # None BY <1>1 DEF StreamInv, Wired
<1>. HIDE DEF cmd, b
<1>5. /\ cmd.op = "sub" => /\ channels' = channels \cup {cmd.chat}
                           /\ UNCHANGED <<clients, closed>>
      /\ cmd.op = "unsub" => /\ channels' = channels \ {cmd.chat}
                             /\ b = None => UNCHANGED <<clients, closed>>
                             /\ b # None => RemoveClient(cmd.chat, {})
      /\ UNCHANGED <<mode, met, lost>>
  BY <1>1 DEF Answer, history, b
<1>6. \A i \in DOMAIN wire' :
        i \in Nat /\ i + 1 \in DOMAIN wire /\ wire'[i] = wire[i + 1]
  <2>1. wire' = Tail(wire) BY DEF Answer
  <2>. QED BY <1>0, <1>1, <2>1
<1>7. Active' = IF b # None /\ cmd.op = "unsub" THEN Active \ {b} ELSE Active
  <2>1. \A o \in Requests : o # b => (o \in Active' <=> o \in Active) BY <1>2 DEF Active
  <2>2. CASE b = None BY <1>0, <2>1, <2>2 DEF Active
  <2>3. CASE b # None /\ cmd.op = "sub"
    <3>1. b \in Active' BY <1>2, <2>3 DEF Active
    <3>. QED BY <1>2, <2>1, <2>3, <3>1 DEF Active
  <2>4. CASE b # None /\ cmd.op = "unsub"
    <3>1. b \notin Active' BY <1>2, <2>4 DEF Active
    <3>. QED BY <1>2, <2>1, <2>4, <3>1 DEF Active
  <2>. QED BY <1>1, <2>2, <2>3, <2>4
<1>8. /\ \A c \in Chats, r \in Requests : clients'[c] = r =>
           clients[c] = r /\ (b # None /\ cmd.op = "unsub" => r # b)
      /\ \A r \in closed' : r \in closed \/ \E c \in Chats : clients[c] = r
      /\ closed \subseteq closed'
  <2>1. CASE b # None /\ cmd.op = "unsub"
    <3>1. RemoveClient(req[b].chat, {}) BY <1>3, <1>5, <2>1
    <3>2. b \in Active /\ Removes(b) /\ req[b].pc \in Served BY <1>2, <1>3, <2>1
    <3>3. {} \in SUBSET {b} OBVIOUS
    <3>4. \A c \in Chats, r \in Requests : clients'[c] = r => clients[c] = r /\ c # req[b].chat
      BY <3>1, <3>2, <3>3, Removed
    <3>5. \A c \in Chats : clients[c] = b => c = req[b].chat
      BY <1>2, <2>1 DEF StreamInv, Wired
    <3>. QED BY <1>1, <1>3, <2>1, <3>1, <3>4, <3>5 DEF RemoveClient
  <2>2. CASE ~(b # None /\ cmd.op = "unsub") BY <1>1, <1>5, <2>2
  <2>. QED BY <2>1, <2>2
<1>9. Wired'
  <2>1. \A c \in Chats, r \in Requests : clients'[c] = r =>
          r \in Active' /\ req'[r].stream /\ req'[r].chat = c
    <3>1. SUFFICES ASSUME NEW c \in Chats, NEW r \in Requests, clients'[c] = r
                   PROVE  r \in Active' /\ req'[r].stream /\ req'[r].chat = c
      OBVIOUS
    <3>2. clients[c] = r /\ (b # None /\ cmd.op = "unsub" => r # b) BY <1>8, <3>1
    <3>3. r \in Active /\ req[r].stream /\ req[r].chat = c BY <3>2 DEF StreamInv, Wired
    <3>4. Stays(r) BY <1>0, <3>3 DEF Steady, Active
    <3>. QED BY <1>7, <3>2, <3>3, <3>4 DEF Stays, Same, Feeds, MayEnd
  <2>2. \A c \in channels' : /\ mode' = "queue"
                             /\ \E q \in Active' : Feeds(q, c)'
    <3>1. SUFFICES ASSUME NEW c \in channels'
                   PROVE  /\ mode' = "queue"
                          /\ \E q \in Active' : Feeds(q, c)'
      OBVIOUS
    <3>2. CASE cmd.op = "sub" /\ c = cmd.chat
      BY <1>2, <1>3, <1>4, <1>5, <1>7, <3>2 DEF Stays, Same, Feeds, MayEnd
    <3>3. CASE ~(cmd.op = "sub" /\ c = cmd.chat)
      <4>1. c \in channels /\ (cmd.op = "unsub" => c # cmd.chat) BY <1>1, <1>5, <3>1, <3>3
      <4>2. PICK q \in Active : Feeds(q, c)
        BY <4>1 DEF StreamInv, Wired
      <4>3. mode = "queue" /\ q \in Requests /\ Stays(q)
        BY <1>0, <4>1 DEF StreamInv, Wired, Steady, Active
      <4>4. q \in Active' BY <1>3, <1>7, <4>1, <4>2 DEF Feeds
      <4>. QED BY <1>5, <4>2, <4>3, <4>4 DEF Stays, Same, Feeds, MayEnd
    <3>. QED BY <3>2, <3>3
  <2>3. \A r \in closed' : req'[r].pc # "idle" /\ MayEnd(req'[r])
    <3>1. SUFFICES ASSUME NEW r \in closed'
                   PROVE  req'[r].pc # "idle" /\ MayEnd(req'[r])
      OBVIOUS
    <3>2. r \in Requests
      <4>1. closed' \subseteq Requests BY NextTypes DEF Base, TypeInv, TypeOK
      <4>. QED BY <4>1
    <3>3. req[r].pc # "idle" /\ MayEnd(req[r])
      BY <1>8, <3>1, <3>2 DEF StreamInv, Wired, Active, MayEnd
    <3>4. Stays(r) BY <1>0, <3>2, <3>3 DEF Steady
    <3>. QED BY <3>3, <3>4 DEF Stays, Same, Feeds, MayEnd
  <2>4. \A i \in DOMAIN wire' : wire'[i].op = "sub" => wire'[i].by # None
    BY <1>6 DEF StreamInv, Wired
  <2>. QED BY <2>1, <2>2, <2>3, <2>4 DEF Wired
<1>10. Sent'
  <2>1. ASSUME NEW r \in Requests, req'[r].pc = "done", ~req'[r].stream,
               req'[r].door # "schedule"
        PROVE  r \in closed' <=> ~(req'[r].failed /\ req'[r].asks)
    <3>1. req'[r] = req[r] BY <1>0, <1>2, <1>3, <2>1 DEF Stays, Same, Feeds, MayEnd
    <3>2. \A c \in Chats : clients[c] # r BY <2>1, <3>1 DEF StreamInv, Wired
    <3>3. r \in closed' <=> r \in closed BY <1>8, <3>2
    <3>. QED BY <2>1, <3>1, <3>3 DEF StreamInv, Sent
  <2>. QED BY <2>1 DEF Sent
<1>11. ASSUME NEW r \in Requests, req'[r].stream, LoneStream(r)', r \notin lost' PROVE Kept(r)'
  <2>1. CASE req[r].pc = "idle"
    <3>1. r # b BY <1>2, <1>0, <2>1 DEF Active
    <3>2. req'[r] = req[r] BY <1>2, <3>1
    <3>. QED BY <1>11, <2>1, <3>2, Held DEF Sound, Base
  <2>2. CASE req[r].pc # "idle"
    <3>1. /\ req[r].stream /\ LoneStream(r) /\ req'[r].chat = req[r].chat
          /\ r \in Active' => r \in Active
          /\ req[r].chat \in Chats
      BY <1>0, <1>7, <1>11, <2>2, LoneBefore, Held DEF Steady, Stays, Same, Sound, Base
    <3>2. Kept(r) BY <1>5, <1>11, <3>1 DEF StreamInv, LoneKept
    <3>3. CASE r # b
      <4>1. req'[r] = req[r] BY <1>2, <3>3
      <4>2. /\ r \in closed' <=> r \in closed
            /\ r \in Active => clients'[req[r].chat] = clients[req[r].chat]
        <5>1. CASE b # None /\ cmd.op = "unsub"
          <6>1. RemoveClient(req[b].chat, {}) BY <1>3, <1>5, <5>1
          <6>. QED BY <1>2, <1>3, <1>8, <3>1, <3>3, <5>1, <6>1, Removed
        <5>2. CASE ~(b # None /\ cmd.op = "unsub") BY <1>1, <1>5, <5>2
        <5>. QED BY <5>1, <5>2
      <4>3. req[r].pc \in Open \cup {"subscribing"} => r \in Active BY DEF Active, Open
      <4>4. mode = "queue" /\ req[r].door = "prediction" /\ req[r].pc \in Open =>
              req[r].chat \in channels' /\ \A i \in DOMAIN wire' : ~Cuts(i, req[r].chat)'
        <5>1. SUFFICES ASSUME mode = "queue", req[r].door = "prediction", req[r].pc \in Open
                       PROVE  /\ req[r].chat \in channels'
                              /\ \A i \in DOMAIN wire' : ~Cuts(i, req[r].chat)'
          OBVIOUS
        <5>2. req[r].chat \in channels /\ \A i \in DOMAIN wire : ~Cuts(i, req[r].chat)
          BY <3>2, <5>1 DEF Kept
        <5>3. ~(cmd.op = "unsub" /\ cmd.chat = req[r].chat) BY <1>1, <5>2 DEF Cuts, cmd
        <5>4. \A i \in DOMAIN wire' : ~Cuts(i, req[r].chat)' BY <1>6, <4>1, <5>2 DEF Cuts
        <5>. QED BY <1>1, <1>5, <5>2, <5>3, <5>4
      <4>5. req[r].pc = "subscribing" =>
              \A i, j \in DOMAIN wire' : wire'[i].by = r /\ Cuts(j, req[r].chat)' => j < i
        <5>1. SUFFICES ASSUME req[r].pc = "subscribing", NEW i \in DOMAIN wire',
                              NEW j \in DOMAIN wire', wire'[i].by = r, Cuts(j, req[r].chat)'
                       PROVE  j < i
          OBVIOUS
        <5>2. /\ i \in Nat /\ j \in Nat /\ i + 1 \in DOMAIN wire /\ j + 1 \in DOMAIN wire
              /\ wire[i + 1].by = r /\ Cuts(j + 1, req[r].chat)
          BY <1>6, <4>1, <5>1 DEF Cuts
        <5>3. j + 1 < i + 1 BY <3>2, <5>1, <5>2 DEF Kept
        <5>. QED BY <5>2, <5>3
      <4>6. r \in Active' => clients'[req[r].chat] = r BY <3>1, <3>2, <4>2 DEF Kept
      <4>7. r \in closed' <=> req[r].pc = "done" BY <3>2, <4>2 DEF Kept
      <4>. QED BY <1>5, <4>1, <4>4, <4>5, <4>6, <4>7 DEF Kept, Cuts
    <3>4. CASE r = b
      <4>0. b # None BY <1>0, <3>4
      <4>1. clients[req[r].chat] = r /\ r \notin closed
        BY <1>1, <1>2, <3>2, <3>4, <4>0 DEF Kept
      <4>2. CASE cmd.op = "sub"
        <5>1. req'[r].pc = "building" /\ req[r].pc = "subscribing" /\ req[r].chat = cmd.chat
          BY <1>2, <1>3, <3>4, <4>0, <4>2
        <5>2. req[r].chat \in channels' /\ UNCHANGED <<clients, closed>> BY <1>5, <4>2, <5>1
        <5>3. ASSUME NEW i \in DOMAIN wire', Cuts(i, req[r].chat)' PROVE FALSE
          <6>1. i \in Nat /\ i + 1 \in DOMAIN wire /\ Cuts(i + 1, req[r].chat)
            BY <1>6, <3>1, <5>3 DEF Cuts
          <6>2. i + 1 < 1 BY <1>1, <3>2, <3>4, <5>1, <6>1 DEF Kept, b, cmd
          <6>. QED BY <6>1, <6>2
        <5>. QED BY <3>1, <4>1, <5>1, <5>2, <5>3 DEF Kept, Cuts
      <4>3. CASE cmd.op = "unsub"
        <5>1. req'[r].pc = "done" /\ RemoveClient(req[r].chat, {})
          BY <1>2, <1>3, <1>5, <3>4, <4>0, <4>3
        <5>2. r \in closed' BY <1>0, <4>1, <5>1 DEF RemoveClient
        <5>3. r \notin Active' BY <1>7, <3>4, <4>0, <4>3
        <5>. QED BY <5>1, <5>2, <5>3 DEF Kept, Open
      <4>. QED BY <1>1, <4>2, <4>3
    <3>. QED BY <3>3, <3>4
  <2>. QED BY <2>1, <2>2
<1>12. LoneKept' BY <1>11 DEF LoneKept
<1>. QED BY <1>9, <1>10, <1>12 DEF StreamInv

LEMMA StreamInit == Init => StreamInv
<1>1. None \notin Requests BY PredictionAssumption
<1>. QED BY <1>1 DEF Init, StreamInv, Wired, Sent, LoneKept, Active

LEMMA StreamNext == ASSUME Base, Met, StreamInv, [Next]_vars PROVE StreamInv'
<1>1. ASSUME NEW r \in Requests, NEW f \in Flows, NEW c \in Chats,
             NEW door \in Doors \ {"schedule"}, NEW asks \in BOOLEAN, NEW stream \in BOOLEAN,
             Arrive(r, f, c, door, asks, stream)
      PROVE  StreamInv'
  BY <1>1, ArriveStream
<1>2. ASSUME NEW r \in Requests, Leave(r) PROVE StreamInv' BY <1>2, LeaveStream
<1>3. CASE Answer BY <1>3, AnswerStream
<1>4. ASSUME NEW c \in Chats, Sweep(c) \/ AbortSpeech(c) \/ WriteFails(c) PROVE StreamInv'
  BY <1>4, SweepStream, LoseStream
<1>5. CASE \/ \E r \in Requests :
                \/ NotFound(r) \/ Refuse(r) \/ Admit(r) \/ RunHere(r) \/ Enqueue(r)
                \/ Succeed(r) \/ Fail(r) \/ ReadUsage(r) \/ WriteUsage(r)
                \/ Forbid(r) \/ Fire(r) \/ Finish(r) \/ \E w \in Workers : Pick(w, r)
           \/ \E w \in Workers : Crash(w)
           \/ \E k \in Keys : AbortHere(k) \/ Publish(k)
           \/ \E w \in Workers, k \in Keys : Deliver(w, k)
           \/ UNCHANGED vars
  BY <1>5, CalmSteps, CalmStep
<1>. QED BY <1>1, <1>2, <1>3, <1>4, <1>5 DEF Next

LEMMA StreamAlways == Spec => [](Base /\ Met /\ StreamInv)
<1>1. Init => Base /\ Met /\ StreamInv BY BaseInit, MetInit, StreamInit
<1>2. Base /\ Met /\ StreamInv /\ [Next]_vars => (Base /\ Met /\ StreamInv)'
  BY BaseNext, MetNext, StreamNext
<1>. QED BY <1>1, <1>2, PTL DEF Spec

\* A stream that no other stream or webhook of its chat is beside, and that no abort
\* of speech or failed write takes, stays open, and for a prediction in queue mode
\* subscribed, until it is over, and is ended then; other answers are sent unless an
\* error keeps them.
THEOREM StreamIsKept == Spec => []LoneStreamIsKept
<1>1. StreamInv => LoneStreamIsKept
  BY DEF StreamInv, LoneKept, Kept, Sent, LoneStreamIsKept, UnderWay, Open
<1>. QED BY <1>1, StreamAlways, PTL

\* Once no request is active, no controller, client or channel is left, whatever
\* streams overlapped, failed or were lost.
THEOREM QuietIsEmpty == Spec => []QuietLeavesNothing
<1>1. Base /\ RunInv /\ StreamInv => QuietLeavesNothing
  <2>1. SUFFICES ASSUME Base, RunInv, StreamInv, Active = {}
                 PROVE  /\ \A k \in Keys : pool[k] = None
                        /\ \A c \in Chats : clients[c] = None
                        /\ channels = {}
    BY DEF QuietLeavesNothing
  <2>2. /\ pool \in [Keys -> Requests \cup {None}] /\ clients \in [Chats -> Requests \cup {None}]
    BY <2>1 DEF Base, TypeInv, TypeOK
  <2>3. \A k \in Keys : pool[k] = None BY <2>1, <2>2 DEF RunInv, Placed, Active
  <2>4. \A c \in Chats : clients[c] = None BY <2>1, <2>2 DEF StreamInv, Wired
  <2>5. channels = {} BY <2>1 DEF StreamInv, Wired
  <2>. QED BY <2>3, <2>4, <2>5
<1>. QED BY <1>1, RunAlways, StreamAlways, PTL

-----------------------------------------------------------------------------
(***************************************************************************)
(* How far the count may overshoot.                                        *)
(***************************************************************************)

\* The requests counted that never met another.
LoneCounted == {r \in counted : met[r] = {}}

\* Between the check of the limit and the count.
Checked == {"admitted", "queued", "running", "scheduled", "counting"}

\* Each lone prediction shows in the count, also in one that is about to be
\* written; one that is let in alone leaves room for itself until it is counted.
CountInv ==
  /\ Cardinality(LoneCounted) <= usage
  /\ \A r \in Requests :
       /\ req[r].pc = "writing" => Cardinality(LoneCounted) <= req[r].count
       /\ met[r] = {} =>
            /\ req[r].pc \in Checked => usage < Limit
            /\ req[r].pc = "writing" => Cardinality(LoneCounted) < req[r].count

LEMMA Finite ==
  ASSUME Base
  PROVE  /\ counted \subseteq Requests /\ IsFiniteSet(counted)
         /\ IsFiniteSet(LoneCounted) /\ Cardinality(LoneCounted) \in Nat
<1>1. counted \subseteq Requests BY DEF Base, TypeInv, TypeOK
<1>2. LoneCounted \subseteq Requests BY <1>1 DEF LoneCounted
<1>. QED BY <1>1, <1>2, PredictionAssumption, FS_Subset, FS_CardinalityType

LEMMA Counts ==
  ASSUME Base
  PROVE  /\ usage \in 0 .. Limit /\ Limit \in Nat
         /\ \A r \in Requests : req[r].count \in 0 .. Limit
<1>1. \A r \in Requests : req[r].count \in 0 .. Limit
  <2>1. SUFFICES ASSUME NEW r \in Requests PROVE req[r].count \in 0 .. Limit
    OBVIOUS
  <2>2. req[r] \in Request BY Held DEF Base
  <2>. QED BY <2>2 DEF Request
<1>. QED BY <1>1, PredictionAssumption DEF Base, TypeInv, TypeOK

\* A request that has met no other is the only active one.
LEMMA LoneActive ==
  ASSUME Met, NEW r \in Active, met[r] = {}, NEW q \in Active
  PROVE  q = r
BY DEF Met

\* A lone request was so before.
LEMMA StillLone ==
  ASSUME Steady, NEW r \in Requests, req[r].pc # "idle", met'[r] = {}
  PROVE  met[r] = {}
BY DEF Steady

\* While the count stays, so do the lone predictions in it, or they get fewer.
LEMMA FewerLone ==
  ASSUME Base, Met, Steady, UNCHANGED counted,
         \A r \in counted : req[r].pc # "idle"
  PROVE  LoneCounted' \subseteq LoneCounted
BY StillLone, Finite DEF LoneCounted

\* A request is counted after it has run.
CountedAfter == \A r \in counted : req[r].pc \in {"leaving", "unsubscribing", "done"}

\* A step that neither reads nor writes the count, nor checks it but for a request
\* that comes in.
Uncounted ==
  /\ UNCHANGED <<usage, counted>>
  /\ \A r \in Requests :
       /\ req'[r].pc = "writing" => req'[r] = req[r]
       /\ req'[r].pc \in Checked => req[r].pc \in Checked \/ usage < Limit
       /\ req[r].pc \in {"leaving", "unsubscribing", "done"} =>
            req'[r].pc \in {"leaving", "unsubscribing", "done"}

LEMMA UncountedStep ==
  ASSUME Base, Met, CountedAfter, CountInv, [Next]_vars, Uncounted
  PROVE  CountInv' /\ CountedAfter'
<1>1. Steady /\ Base' BY SteadyStep, BaseNext
<1>2. CountedAfter' BY Finite DEF CountedAfter, Uncounted
<1>3. Cardinality(LoneCounted') <= Cardinality(LoneCounted)
  <2>1. \A r \in counted : req[r].pc # "idle" BY DEF CountedAfter
  <2>2. LoneCounted' \subseteq LoneCounted BY <1>1, <2>1, FewerLone DEF Uncounted
  <2>. QED BY <2>2, Finite, FS_Subset
<1>4. /\ Cardinality(LoneCounted) \in Nat /\ Cardinality(LoneCounted)' \in Nat
      /\ Cardinality(LoneCounted)' <= Cardinality(LoneCounted)
      /\ usage \in Nat /\ Limit \in Nat
      /\ \A r \in Requests : req[r].count \in Nat
  <2>1. IsFiniteSet(LoneCounted') /\ Cardinality(LoneCounted') \in Nat
    <3>1. LoneCounted' \subseteq LoneCounted
      BY <1>1, FewerLone DEF Uncounted, CountedAfter
    <3>. QED BY <3>1, Finite, FS_Subset, FS_CardinalityType
  <2>. QED BY <1>3, <2>1, Finite, Counts
<1>5. ASSUME NEW r \in Requests
      PROVE  /\ req'[r].pc = "writing" => Cardinality(LoneCounted)' <= req'[r].count
             /\ met'[r] = {} =>
                  /\ req'[r].pc \in Checked => usage < Limit
                  /\ req'[r].pc = "writing" => Cardinality(LoneCounted)' < req'[r].count
  <2>1. CASE req'[r].pc = "writing"
    <3>1. req'[r] = req[r] /\ req[r].pc # "idle" /\ req[r].pc = "writing"
      BY <2>1 DEF Uncounted
    <3>2. met'[r] = {} => met[r] = {} BY <1>1, <3>1, StillLone
    <3>. QED BY <1>4, <2>1, <3>1, <3>2 DEF CountInv, Checked
  <2>2. CASE req'[r].pc \in Checked
    <3>1. CASE usage < Limit BY <2>2, <3>1 DEF Checked
    <3>2. CASE ~(usage < Limit)
      <4>1. req[r].pc \in Checked /\ req[r].pc # "idle" BY <2>2, <3>2 DEF Uncounted, Checked
      <4>2. met'[r] = {} => met[r] = {} BY <1>1, <4>1, StillLone
      <4>. QED BY <2>2, <4>1, <4>2 DEF CountInv, Checked
    <3>. QED BY <3>1, <3>2
  <2>. QED BY <2>1, <2>2
<1>6. CountInv' BY <1>4, <1>5 DEF CountInv, Uncounted
<1>. QED BY <1>2, <1>6

LEMMA UncountedSteps ==
  ASSUME Base,
         \/ \E r \in Requests :
              \/ \E f \in Flows, c \in Chats, door \in Doors \ {"schedule"}, asks, s \in BOOLEAN :
                   Arrive(r, f, c, door, asks, s)
              \/ Forbid(r) \/ Fire(r) \/ Finish(r)
              \/ NotFound(r) \/ Refuse(r) \/ RunHere(r) \/ Enqueue(r)
              \/ Succeed(r) \/ Fail(r) \/ Leave(r)
              \/ \E w \in Workers : Pick(w, r)
         \/ Answer
         \/ \E w \in Workers : Crash(w)
         \/ Still
  PROVE  Uncounted
<1>. DEFINE After == {"leaving", "unsubscribing", "done"}
<1>0. req \in [Requests -> Request] BY DEF Base, TypeInv, TypeOK
<1>1. ASSUME NEW r \in Requests, NEW f \in Flows, NEW c \in Chats,
             NEW door \in Doors \ {"schedule"}, NEW asks \in BOOLEAN, NEW stream \in BOOLEAN,
             Arrive(r, f, c, door, asks, stream)
      PROVE  Uncounted
  <2>1. UNCHANGED <<usage, counted>> BY <1>1 DEF Arrive
  <2>. QED BY <1>1, <2>1, Arrives DEF ComesIn, Uncounted, Checked
<1>2. ASSUME NEW r \in Requests,
             \/ NotFound(r) \/ Refuse(r) \/ RunHere(r) \/ Enqueue(r)
             \/ Succeed(r) \/ Fail(r) \/ Leave(r) \/ \E w \in Workers : Pick(w, r)
      PROVE  Uncounted
  <2>1. UNCHANGED <<usage, counted>>
    BY <1>2 DEF NotFound, Refuse, RunHere, Enqueue, Succeed, Fail, Leave, Pick, history
  <2>2. \A o \in Requests : o # r => req'[o] = req[o] BY <1>2, OnStep
  <2>3. /\ req'[r].pc # "writing"
        /\ req'[r].pc \in Checked => req[r].pc \in Checked
        /\ req[r].pc \in After => req'[r].pc \in After
    <3>1. req[r] \in Request BY Held DEF Base
    <3>2. ASSUME NEW pc, Goto(r, pc) PROVE req'[r].pc = pc
      BY <1>0, <3>1, <3>2 DEF Goto, Request
    <3>3. CASE NotFound(r) \/ Refuse(r)
      <4>1. req'[r].pc = "leaving" BY <1>0, <3>1, <3>3 DEF NotFound, Refuse, Throw, Request
      <4>. QED BY <4>1 DEF Checked
    <3>4. CASE RunHere(r) \/ Enqueue(r)
      BY <3>2, <3>4 DEF RunHere, Enqueue, Checked
    <3>5. CASE Succeed(r)
      <4>1. req'[r].pc = "counting" /\ req[r].pc = "running"
        BY <1>0, <3>1, <3>5 DEF Succeed, Request
      <4>. QED BY <4>1 DEF Checked
    <3>6. CASE Fail(r)
      <4>1. req'[r].pc = "leaving" BY <1>0, <3>1, <3>6 DEF Fail, Request
      <4>. QED BY <4>1 DEF Checked
    <3>7. CASE Leave(r)
      <4>1. PICK pc \in {"unsubscribing", "done"} : Goto(r, pc) BY <3>7 DEF Leave
      <4>2. req'[r].pc = pc BY <3>2, <4>1
      <4>. QED BY <4>2 DEF Checked
    <3>8. ASSUME NEW w \in Workers, Pick(w, r)
          PROVE  req'[r].pc = "running" /\ req[r].pc = "queued"
      BY <1>0, <3>1, <3>8 DEF Pick, Request
    <3>. QED BY <1>2, <3>3, <3>4, <3>5, <3>6, <3>7, <3>8 DEF Checked
  <2>. QED BY <2>1, <2>2, <2>3 DEF Uncounted
<1>3. ASSUME NEW w \in Workers, Crash(w) PROVE Uncounted
  <2>1. UNCHANGED <<usage, counted>> BY <1>3 DEF Crash
  <2>2. ASSUME NEW r \in Requests
        PROVE  /\ req'[r].pc = "writing" => req'[r] = req[r]
               /\ req'[r].pc \in Checked => req[r].pc \in Checked
               /\ req[r].pc \in After => req'[r].pc \in After
    <3>1. CASE req[r].pc = "running" /\ req[r].host = w
      <4>1. req'[r].pc \in {"queued", "leaving"} BY <1>3, <3>1, CrashStep
      <4>. QED BY <3>1, <4>1 DEF Checked
    <3>2. CASE ~(req[r].pc = "running" /\ req[r].host = w)
      <4>1. req'[r] = req[r] BY <1>3, <3>2, CrashStep
      <4>. QED BY <4>1
    <3>. QED BY <3>1, <3>2
  <2>. QED BY <2>1, <2>2 DEF Uncounted
<1>4. CASE Answer
  <2>1. UNCHANGED <<usage, counted>> BY <1>4 DEF Answer, history
  <2>2. wire[1].op \in {"sub", "unsub"} BY <1>4, AnswerStep DEF Commands
  <2>3. ASSUME NEW r \in Requests
        PROVE  /\ req'[r].pc = "writing" => req'[r] = req[r]
               /\ req'[r].pc \in Checked => req[r].pc \in Checked
               /\ req[r].pc \in After => req'[r].pc \in After
    <3>1. r # None BY PredictionAssumption
    <3>2. CASE r # wire[1].by
      <4>1. req'[r] = req[r] BY <1>4, <3>2, AnswerStep
      <4>. QED BY <4>1
    <3>3. CASE r = wire[1].by
      <4>1. \/ req[r].pc = "subscribing" /\ req'[r].pc = "building"
            \/ req[r].pc = "unsubscribing" /\ req'[r].pc = "done"
        BY <1>4, <2>2, <3>1, <3>3, AnswerStep
      <4>. QED BY <4>1 DEF Checked
    <3>. QED BY <3>2, <3>3
  <2>. QED BY <2>1, <2>3 DEF Uncounted
<1>5. CASE Still
  BY <1>5 DEF Still, Sweep, AbortSpeech, WriteFails, Lose, AbortHere, Publish, Deliver, vars,
     history, Uncounted
<1>6. ASSUME NEW r \in Requests, Fire(r) PROVE Uncounted
  <2>1. UNCHANGED <<usage, counted>> BY <1>6 DEF Fire
  <2>. QED BY <1>6, <2>1, Fires DEF ComesIn, Uncounted, Checked
<1>7. ASSUME NEW r \in Requests, Forbid(r) \/ Finish(r) PROVE Uncounted
  <2>1. UNCHANGED <<usage, counted>> BY <1>7 DEF Forbid, Finish, history
  <2>. QED BY <1>7, <2>1, Goes DEF Uncounted, Checked
<1>. QED BY <1>1, <1>2, <1>3, <1>4, <1>5, <1>6, <1>7

\* One request reads the count, or is let in by it.
LEMMA ReadStep ==
  ASSUME Base, Met, CountedAfter, CountInv, [Next]_vars, NEW q \in Requests,
         Admit(q) \/ ReadUsage(q)
  PROVE  CountInv' /\ CountedAfter'
<1>0. req \in [Requests -> Request] /\ req[q] \in Request
  BY Held DEF Base, TypeInv, TypeOK
<1>1. UNCHANGED <<met, counted, usage>> BY DEF Admit, ReadUsage, history
<1>2. /\ \A o \in Requests : o # q => req'[o] = req[o]
      /\ q \in Active
  BY OnStep DEF Active
<1>3. LoneCounted' = LoneCounted BY <1>1 DEF LoneCounted
<1>4. /\ Cardinality(LoneCounted) \in Nat /\ usage \in 0 .. Limit /\ Limit \in Nat
      /\ Cardinality(LoneCounted) <= usage
  BY Finite, Counts DEF CountInv
<1>5. \/ req[q].pc = "building" /\ req'[q].pc = "admitted" /\ usage < Limit
      \/ req[q].pc = "counting" /\ req'[q].pc = "writing" /\ req'[q].count = NewCount
  <2>1. CASE Admit(q) BY <1>0, <2>1 DEF Admit, Goto, MayPredict, Request
  <2>2. CASE ReadUsage(q) BY <1>0, <2>2 DEF ReadUsage, Request
  <2>. QED BY <2>1, <2>2
<1>6. CountedAfter' BY <1>1, <1>2, <1>5, Finite DEF CountedAfter
<1>7. req'[q].pc = "writing" => Cardinality(LoneCounted) <= req'[q].count
  <2>1. req[q].pc = "counting" => Limit > 0 BY Held DEF Sound, Admitted, Base
  <2>. QED BY <1>4, <1>5, <2>1 DEF NewCount
<1>8. met[q] = {} /\ req'[q].pc = "writing" => Cardinality(LoneCounted) < req'[q].count
  <2>1. SUFFICES ASSUME met[q] = {}, req'[q].pc = "writing"
                 PROVE  Cardinality(LoneCounted) < req'[q].count
    OBVIOUS
  <2>2. req[q].pc = "counting" /\ req'[q].count = NewCount BY <1>5, <2>1
  <2>3. usage < Limit BY <2>1, <2>2 DEF CountInv, Checked
  <2>. QED BY <1>4, <2>2, <2>3 DEF NewCount
<1>9. met[q] = {} /\ req'[q].pc \in Checked => usage < Limit BY <1>5 DEF Checked
<1>10. CountInv'
  <2>1. ASSUME NEW r \in Requests, r # q
        PROVE  /\ req'[r].pc = "writing" => Cardinality(LoneCounted) <= req'[r].count
               /\ met[r] = {} =>
                    /\ req'[r].pc \in Checked => usage < Limit
                    /\ req'[r].pc = "writing" => Cardinality(LoneCounted) < req'[r].count
    BY <1>2, <2>1 DEF CountInv
  <2>. QED BY <1>1, <1>3, <1>4, <1>7, <1>8, <1>9, <2>1 DEF CountInv
<1>. QED BY <1>6, <1>10

LEMMA WriteStep ==
  ASSUME Base, Met, CountedAfter, CountInv, [Next]_vars, NEW q \in Requests, WriteUsage(q)
  PROVE  CountInv' /\ CountedAfter'
<1>0. req \in [Requests -> Request] /\ req[q] \in Request
  BY Held DEF Base, TypeInv, TypeOK
<1>1. /\ UNCHANGED met /\ counted' = counted \cup {q} /\ usage' = req[q].count
      /\ req[q].pc = "writing" /\ q \in Active
  BY DEF WriteUsage, Active
<1>2. /\ \A o \in Requests : o # q => req'[o] = req[o]
      /\ req'[q].pc \in {"leaving", "done"}
  <2>1. \A o \in Requests : o # q => req'[o] = req[o] BY OnStep
  <2>. QED BY <1>0, <2>1 DEF WriteUsage, Request
<1>3. LoneCounted' = IF met[q] = {} THEN LoneCounted \cup {q} ELSE LoneCounted
  BY <1>1 DEF LoneCounted
<1>4. Cardinality(LoneCounted) \in Nat /\ req[q].count \in Nat /\ IsFiniteSet(LoneCounted)
      /\ Limit \in Nat
  BY Finite, Counts
<1>5. Cardinality(LoneCounted)' <= usage'
  <2>1. CASE met[q] = {}
    <3>1. Cardinality(LoneCounted \cup {q}) <= Cardinality(LoneCounted) + 1
      <4>1. Cardinality(LoneCounted \cup {q}) =
              IF q \in LoneCounted THEN Cardinality(LoneCounted) ELSE Cardinality(LoneCounted) + 1
        BY <1>4, FS_AddElement
      <4>. QED BY <1>4, <4>1
    <3>2. Cardinality(LoneCounted) < req[q].count BY <1>1, <2>1 DEF CountInv
    <3>3. Cardinality(LoneCounted \cup {q}) \in Nat
      BY <1>4, FS_AddElement, FS_CardinalityType
    <3>. QED BY <1>1, <1>3, <1>4, <2>1, <3>1, <3>2, <3>3
  <2>2. CASE met[q] # {} BY <1>1, <1>3, <2>2 DEF CountInv
  <2>. QED BY <2>1, <2>2
<1>6. CountedAfter' BY <1>1, <1>2, Finite DEF CountedAfter
<1>7. ASSUME NEW r \in Requests
      PROVE  /\ req'[r].pc = "writing" => Cardinality(LoneCounted)' <= req'[r].count
             /\ met[r] = {} =>
                  /\ req'[r].pc \in Checked => usage' < Limit
                  /\ req'[r].pc = "writing" => Cardinality(LoneCounted)' < req'[r].count
  <2>1. CASE r = q BY <1>2, <2>1 DEF Checked
  <2>2. CASE r # q /\ req'[r].pc \notin Checked \cup {"writing"} BY <2>2
  <2>3. CASE r # q /\ req'[r].pc \in Checked \cup {"writing"}
    <3>1. req'[r] = req[r] /\ r \in Active BY <1>2, <2>3 DEF Active, Checked
    <3>2. met[q] # {} /\ met[r] # {} BY <1>1, <2>3, <3>1, LoneActive
    <3>3. LoneCounted' = LoneCounted BY <1>3, <3>2
    <3>. QED BY <3>1, <3>2, <3>3 DEF CountInv
  <2>. QED BY <2>1, <2>2, <2>3
<1>8. CountInv' BY <1>1, <1>5, <1>7 DEF CountInv
<1>. QED BY <1>6, <1>8

LEMMA CountInit == Init => CountInv /\ CountedAfter
<1>. SUFFICES ASSUME Init PROVE CountInv /\ CountedAfter
  OBVIOUS
<1>1. LoneCounted = {} /\ usage = 0 /\ \A r \in Requests : req[r].pc = "idle"
  BY DEF Init, LoneCounted
<1>2. Cardinality(LoneCounted) = 0 BY <1>1, FS_EmptySet
<1>. QED BY <1>1, <1>2 DEF CountInv, CountedAfter, Checked, Init

LEMMA CountNext ==
  ASSUME Base, Met, CountedAfter, CountInv, [Next]_vars
  PROVE  CountInv' /\ CountedAfter'
<1>1. CASE \/ \E r \in Requests :
                \/ \E f \in Flows, c \in Chats, door \in Doors \ {"schedule"}, asks, s \in BOOLEAN :
                     Arrive(r, f, c, door, asks, s)
                \/ Forbid(r) \/ Fire(r) \/ Finish(r)
                \/ NotFound(r) \/ Refuse(r) \/ RunHere(r) \/ Enqueue(r)
                \/ Succeed(r) \/ Fail(r) \/ Leave(r)
                \/ \E w \in Workers : Pick(w, r)
           \/ Answer
           \/ \E w \in Workers : Crash(w)
           \/ Still
  BY <1>1, UncountedSteps, UncountedStep
<1>2. ASSUME NEW r \in Requests, Admit(r) \/ ReadUsage(r) PROVE CountInv' /\ CountedAfter'
  BY <1>2, ReadStep
<1>3. ASSUME NEW r \in Requests, WriteUsage(r) PROVE CountInv' /\ CountedAfter'
  BY <1>3, WriteStep
<1>. QED BY <1>1, <1>2, <1>3 DEF Next, Still

LEMMA CountAlways == Spec => [](Base /\ Met /\ CountedAfter /\ CountInv)
<1>1. Init => Base /\ Met /\ CountedAfter /\ CountInv BY BaseInit, MetInit, CountInit
<1>2. Base /\ Met /\ CountedAfter /\ CountInv /\ [Next]_vars
        => (Base /\ Met /\ CountedAfter /\ CountInv)'
  BY BaseNext, MetNext, CountNext
<1>. QED BY <1>1, <1>2, PTL DEF Spec

\* The limit is exceeded by no more predictions, webhooks and runs of schedules than
\* have met another.
THEOREM OvershootIsBounded == Spec => []OvershootIsOverlap
<1>1. Base /\ CountInv => OvershootIsOverlap
  <2>. SUFFICES ASSUME Base, CountInv PROVE OvershootIsOverlap
    OBVIOUS
  <2>. DEFINE crowd == {r \in Requests : met[r] # {}}
  <2>1. IsFiniteSet(crowd)
    <3>1. crowd \subseteq Requests OBVIOUS
    <3>. QED BY <3>1, PredictionAssumption, FS_Subset
  <2>2. counted \subseteq LoneCounted \cup crowd BY Finite DEF LoneCounted
  <2>3. IsFiniteSet(LoneCounted) /\ Cardinality(LoneCounted) \in Nat BY Finite
  <2>. HIDE DEF crowd
  <2>4. /\ IsFiniteSet(LoneCounted \cup crowd)
        /\ Cardinality(LoneCounted \cup crowd)
             = Cardinality(LoneCounted) + Cardinality(crowd) - Cardinality(LoneCounted \cap crowd)
    BY <2>1, <2>3, FS_Union
  <2>5. Cardinality(LoneCounted \cap crowd) \in Nat /\ Cardinality(crowd) \in Nat
    <3>1. LoneCounted \cap crowd \subseteq crowd OBVIOUS
    <3>. QED BY <2>1, <3>1, FS_Subset, FS_CardinalityType
  <2>6. /\ Cardinality(counted) <= Cardinality(LoneCounted \cup crowd)
        /\ Cardinality(counted) \in Nat
    BY <2>2, <2>4, FS_Subset, FS_CardinalityType
  <2>7. Cardinality(LoneCounted) <= Limit /\ Limit \in Nat BY <2>3, Counts DEF CountInv
  <2>8. Cardinality(counted) <= Limit + Cardinality(crowd) BY <2>3, <2>4, <2>5, <2>6, <2>7
  <2>. QED BY <2>8 DEF OvershootIsOverlap, crowd
<1>. QED BY <1>1, CountAlways, PTL
=============================================================================
