--------------------------- MODULE AgentFlowProofs ---------------------------
(***************************************************************************)
(* Proofs about AgentFlow for every set of flows, requests and environment  *)
(* events. The order is: types (TypeInv, every action in turn); the owner   *)
(* of a row in progress, inductive with the types alone; the place of a     *)
(* human answer (AnswerInv); the truth of a settled row (RecordInv); the    *)
(* life of a row when requests do not overlap (SerialInv), from which the   *)
(* engine implements ExecutionLifecycle.                                    *)
(***************************************************************************)
EXTENDS AgentFlow, FoldLemmas

\* The records that are left as the entries are gone through one by one.
HasWithout(S, d, n) ==
  \E kept \in [0 .. Len(d) -> Seq(S)] :
    /\ kept[0] = <<>>
    /\ \A k \in 1 .. Len(d) :
         kept[k] = IF d[k].node = n THEN kept[k - 1] ELSE Append(kept[k - 1], d[k])
    /\ Without(d, n) = kept[Len(d)]

\* Without is the last of them.
LEMMA WithoutFold ==
  ASSUME NEW S, NEW d \in Seq(S), NEW n
  PROVE  HasWithout(S, d, n)
<1> DEFINE kept[k \in 0 .. Len(d)] ==
        IF k = 0 THEN <<>>
        ELSE IF d[k].node = n THEN kept[k - 1] ELSE Append(kept[k - 1], d[k])
    step == [p \in (1 .. Len(d)) \X Seq(S) |->
               IF d[p[1]].node = n THEN p[2] ELSE Append(p[2], d[p[1]])]
<1>1. Without(d, n) = kept[Len(d)]
  BY DEF Without
<1>2. step \in [(1 .. Len(d)) \X Seq(S) -> Seq(S)]
  OBVIOUS
<1>3. PICK g \in [0 .. Len(d) -> Seq(S)] :
        g[0] = <<>> /\ \A k \in 1 .. Len(d) : g[k] = step[<<k, g[k - 1]>>]
  <2>1. Len(d) \in Nat /\ <<>> \in Seq(S)
    OBVIOUS
  <2>2. HasFold(Seq(S), <<>>, Len(d), step)
    <3> HIDE DEF step
    <3> QED BY <1>2, <2>1, FoldExists
  <2> QED BY <2>2 DEF HasFold
<1>4. \A k \in 1 .. Len(d) : g[k] = IF d[k].node = n THEN g[k - 1] ELSE Append(g[k - 1], d[k])
  <2> SUFFICES ASSUME NEW k \in 1 .. Len(d)
      PROVE g[k] = IF d[k].node = n THEN g[k - 1] ELSE Append(g[k - 1], d[k])
    OBVIOUS
  <2>1. k - 1 \in 0 .. Len(d)
    OBVIOUS
  <2>2. <<k, g[k - 1]>> \in (1 .. Len(d)) \X Seq(S)
    BY <2>1
  <2> QED BY <1>3, <2>2
<1>5. g = [k \in 0 .. Len(d) |->
        IF k = 0 THEN <<>>
        ELSE IF d[k].node = n THEN g[k - 1] ELSE Append(g[k - 1], d[k])]
  <2> DEFINE rhs == [k \in 0 .. Len(d) |->
        IF k = 0 THEN <<>>
        ELSE IF d[k].node = n THEN g[k - 1] ELSE Append(g[k - 1], d[k])]
  <2>1. \A k \in 0 .. Len(d) : k # 0 => k \in 1 .. Len(d)
    OBVIOUS
  <2>2. \A k \in 0 .. Len(d) : g[k] = rhs[k]
    BY <1>3, <1>4, <2>1
  <2>3. g = [k \in 0 .. Len(d) |-> g[k]] /\ rhs = [k \in 0 .. Len(d) |-> rhs[k]]
    OBVIOUS
  <2> HIDE DEF rhs
  <2>4. g = rhs
    BY <2>2, <2>3
  <2> QED BY <2>4 DEF rhs
<1>6. kept = [k \in 0 .. Len(d) |->
        IF k = 0 THEN <<>>
        ELSE IF d[k].node = n THEN kept[k - 1] ELSE Append(kept[k - 1], d[k])]
  BY <1>5
<1> HIDE DEF kept
<1>7. /\ kept[0] = <<>>
      /\ \A k \in 1 .. Len(d) :
           kept[k] = IF d[k].node = n THEN kept[k - 1] ELSE Append(kept[k - 1], d[k])
  <2>1. 0 \in 0 .. Len(d) /\ \A k \in 1 .. Len(d) : k \in 0 .. Len(d) /\ k # 0
    OBVIOUS
  <2> QED BY <1>6, <2>1
<1>8. \A k \in 0 .. Len(d) : kept[k] \in Seq(S)
  <2>1. Len(d) \in Nat /\ kept[0] \in Seq(S)
    BY <1>7
  <2>2. ASSUME NEW k \in 1 .. Len(d), kept[k - 1] \in Seq(S)
        PROVE  kept[k] \in Seq(S)
    <3>1. d[k] \in S
      OBVIOUS
    <3>2. kept[k] = IF d[k].node = n THEN kept[k - 1] ELSE Append(kept[k - 1], d[k])
      BY <1>7
    <3> QED BY <2>2, <3>1, <3>2
  <2> QED BY <2>1, <2>2, StaysIn
<1>9. kept \in [0 .. Len(d) -> Seq(S)]
  <2>1. kept = [k \in 0 .. Len(d) |-> kept[k]]
    BY <1>6
  <2> QED BY <1>8, <2>1
<1> QED BY <1>1, <1>7, <1>9 DEF HasWithout

\* Dropping the entries of a node leaves a sequence of entries of the same kind.
LEMMA WithoutType ==
  ASSUME NEW S, NEW d \in Seq(S), NEW n
  PROVE  Without(d, n) \in Seq(S)
<1>1. HasWithout(S, d, n)
  BY WithoutFold
<1>2. PICK kept \in [0 .. Len(d) -> Seq(S)] : Without(d, n) = kept[Len(d)]
  BY <1>1 DEF HasWithout
<1>3. Len(d) \in 0 .. Len(d)
  OBVIOUS
<1> QED BY <1>2, <1>3

Fans == [queue : Seq(AllNodes), waiting : [AllNodes -> SUBSET AllNodes]]

\* What IsFlow and FlowsAssumption give for one flow.
LEMMA FlowType ==
  ASSUME NEW f \in Flows
  PROVE  /\ f.nodes \subseteq AllNodes
         /\ f.edges \in Seq([src : f.nodes, out : Nat, tgt : f.nodes])
         /\ f.kind \in [f.nodes -> Kinds]
         /\ f.loopTo \in [f.nodes -> f.nodes]
         /\ f.maxLoop \in [f.nodes -> Nat]
BY FlowsAssumption DEF AllNodes, IsFlow

\* Handing a result to one child keeps queue and waiting nodes typed.
LEMMA DeliverType ==
  ASSUME NEW f \in Flows, NEW n \in f.nodes, NEW ignored,
         NEW k \in 1 .. Len(f.edges), NEW acc \in Fans
  PROVE  Deliver(f, n, ignored, f.edges[k], acc) \in Fans
<1>1. f.edges[k].tgt \in AllNodes /\ n \in AllNodes
  <2> DEFINE Edges == [src : f.nodes, out : Nat, tgt : f.nodes]
  <2>1. f.edges \in Seq(Edges)
    BY FlowType
  <2>2. f.edges[k] \in Edges
    <3> HIDE DEF Edges
    <3> QED BY <2>1
  <2>3. f.nodes \subseteq AllNodes
    BY FlowType
  <2> QED BY <2>2, <2>3
<1>2. acc.queue \in Seq(AllNodes) /\ acc.waiting \in [AllNodes -> SUBSET AllNodes]
  BY DEF Fans
<1>3. acc.waiting[f.edges[k].tgt] \cup {n} \in SUBSET AllNodes
  BY <1>1, <1>2
<1>4. Append(acc.queue, f.edges[k].tgt) \in Seq(AllNodes)
  BY <1>1, <1>2
<1> QED BY <1>1, <1>2, <1>3, <1>4 DEF Deliver, Fans

\* The results of handing a result to one child after the other, in edge order.
HasFan(f, n, ignored, queue, waiting) ==
  \E g \in [0 .. Len(f.edges) -> Fans] :
    /\ g[0] = [queue |-> queue, waiting |-> waiting]
    /\ \A k \in 1 .. Len(f.edges) : g[k] = Deliver(f, n, ignored, f.edges[k], g[k - 1])
    /\ ProcessChildren(f, n, ignored, queue, waiting) = g[Len(f.edges)]

\* ProcessChildren is where they end.
LEMMA ProcessChildrenFold ==
  ASSUME NEW f \in Flows, NEW n \in f.nodes, NEW ignored,
         NEW queue \in Seq(AllNodes), NEW waiting \in [AllNodes -> SUBSET AllNodes]
  PROVE  HasFan(f, n, ignored, queue, waiting)
<1> DEFINE first == [queue |-> queue, waiting |-> waiting]
           len == Len(f.edges)
           fan[k \in 0 .. Len(f.edges)] ==
             IF k = 0 THEN [queue |-> queue, waiting |-> waiting]
             ELSE Deliver(f, n, ignored, f.edges[k], fan[k - 1])
           step == [p \in (1 .. len) \X Fans |->
                      Deliver(f, n, ignored, f.edges[p[1]], p[2])]
<1>1. ProcessChildren(f, n, ignored, queue, waiting) = fan[Len(f.edges)]
  BY DEF ProcessChildren
<1>2. len \in Nat /\ first \in Fans
  BY FlowType DEF Fans
<1>3. step \in [(1 .. len) \X Fans -> Fans]
  <2>1. \A p \in (1 .. len) \X Fans : Deliver(f, n, ignored, f.edges[p[1]], p[2]) \in Fans
    BY DeliverType
  <2> QED BY <2>1
<1>4. PICK g \in [0 .. len -> Fans] :
        g[0] = first /\ \A k \in 1 .. len : g[k] = step[<<k, g[k - 1]>>]
  <2>1. HasFold(Fans, first, len, step)
    <3> HIDE DEF step, first, len
    <3> QED BY <1>2, <1>3, FoldExists
  <2> QED BY <2>1 DEF HasFold
<1>5. ASSUME NEW k \in 1 .. len
      PROVE  g[k] = Deliver(f, n, ignored, f.edges[k], g[k - 1])
  <2>1. k - 1 \in 0 .. len
    BY <1>2
  <2>2. <<k, g[k - 1]>> \in (1 .. len) \X Fans
    BY <2>1
  <2> QED BY <1>4, <2>2
<1>6. g = [k \in 0 .. Len(f.edges) |->
             IF k = 0 THEN [queue |-> queue, waiting |-> waiting]
             ELSE Deliver(f, n, ignored, f.edges[k], g[k - 1])]
  <2> DEFINE rhs == [k \in 0 .. Len(f.edges) |->
             IF k = 0 THEN [queue |-> queue, waiting |-> waiting]
             ELSE Deliver(f, n, ignored, f.edges[k], g[k - 1])]
  <2>1. \A k \in 0 .. len : k # 0 => k \in 1 .. len
    BY <1>2
  <2>2. \A k \in 0 .. len : g[k] = rhs[k]
    BY <1>4, <1>5, <2>1
  <2>3. g = [k \in 0 .. len |-> g[k]] /\ rhs = [k \in 0 .. len |-> rhs[k]]
    OBVIOUS
  <2> HIDE DEF rhs
  <2>4. g = rhs
    BY <2>2, <2>3
  <2> QED BY <2>4 DEF rhs
<1>7. fan = [k \in 0 .. Len(f.edges) |->
               IF k = 0 THEN [queue |-> queue, waiting |-> waiting]
               ELSE Deliver(f, n, ignored, f.edges[k], fan[k - 1])]
  BY <1>6
<1> HIDE DEF fan
<1>8. fan[0] \in Fans /\ fan[0] = first
  BY <1>2, <1>7
<1>9. ASSUME NEW k \in 1 .. len
      PROVE  fan[k] = Deliver(f, n, ignored, f.edges[k], fan[k - 1])
  <2>1. k \in 0 .. len /\ k # 0
    BY <1>2
  <2> QED BY <1>7, <2>1
<1>10. \A k \in 0 .. len : fan[k] \in Fans
  <2>1. ASSUME NEW k \in 1 .. len, fan[k - 1] \in Fans PROVE fan[k] \in Fans
    <3>1. Deliver(f, n, ignored, f.edges[k], fan[k - 1]) \in Fans
      BY <2>1, DeliverType
    <3> QED BY <1>9, <3>1
  <2> HIDE DEF len
  <2> QED BY <1>2, <1>8, <2>1, StaysIn
<1>11. fan \in [0 .. len -> Fans]
  BY <1>7, <1>10
<1> HIDE DEF step
<1> QED BY <1>1, <1>8, <1>9, <1>11 DEF HasFan

\* So does handing it to all of them (processNodeOutputs).
LEMMA ProcessChildrenType ==
  ASSUME NEW f \in Flows, NEW n \in f.nodes, NEW ignored,
         NEW queue \in Seq(AllNodes), NEW waiting \in [AllNodes -> SUBSET AllNodes]
  PROVE  ProcessChildren(f, n, ignored, queue, waiting) \in Fans
<1>1. HasFan(f, n, ignored, queue, waiting)
  BY ProcessChildrenFold
<1>2. PICK g \in [0 .. Len(f.edges) -> Fans] :
        ProcessChildren(f, n, ignored, queue, waiting) = g[Len(f.edges)]
  BY <1>1 DEF HasFan
<1>3. Len(f.edges) \in 0 .. Len(f.edges)
  BY FlowType
<1> QED BY <1>2, <1>3
-----------------------------------------------------------------------------
(***************************************************************************)
(* Type correctness. A request reads and writes the row exec points to, so  *)
(* the types are not inductive without the fact that it points somewhere.   *)
(***************************************************************************)
Points == \A r \in Requests : pc[r] \in Active => run[r].exec \in 1 .. Len(execs)

TypeInv == TypeOK /\ Points

\* A request starts with a typed run.
LEMMA FreshRunType ==
  ASSUME NEW f \in Flows
  PROVE  FreshRun(f) \in Run
BY DEF FreshRun, Run, Inputs

\* The head of a typed queue is a node, and the tail is typed.
LEMMA CurrentType ==
  ASSUME TypeOK, NEW r \in Requests, Turn(r)
  PROVE  /\ Current(r) \in AllNodes
         /\ Tail(run[r].queue) \in Seq(AllNodes)
<1>1. run[r].queue \in Seq(AllNodes) /\ run[r].queue # <<>>
  BY DEF TypeOK, Run, Turn
<1> QED BY <1>1 DEF Current

\* The fields of a typed run.
LEMMA RunFields ==
  ASSUME TypeOK, NEW r \in Requests
  PROVE  /\ run[r] \in Run
         /\ run[r].flow \in Flows
         /\ run[r].exec \in Nat
         /\ run[r].resumed \in BOOLEAN
         /\ run[r].human \in Inputs
         /\ run[r].data \in Seq(Entries)
         /\ run[r].queue \in Seq(AllNodes)
         /\ run[r].waiting \in [AllNodes -> SUBSET AllNodes]
         /\ run[r].loops \in [AllNodes -> Nat]
         /\ run[r].iters \in Nat
BY DEF TypeOK, Run

\* A new record for one request, and nothing else, keeps the type.
LEMMA RunUpdateType ==
  ASSUME TypeOK, NEW r \in Requests, NEW new \in Run, run' = [run EXCEPT ![r] = new]
  PROVE  run' \in [Requests -> Run]
BY DEF TypeOK

\* Moving pc to a known label keeps it typed.
LEMMA GotoType ==
  ASSUME TypeOK, NEW r \in Requests, NEW label \in {"idle"} \cup Active \cup Ended, Goto(r, label)
  PROVE  /\ pc' \in [Requests -> {"idle"} \cup Active \cup Ended]
         /\ pc'[r] = label
         /\ \A q \in Requests \ {r} : pc'[q] = pc[q]
BY DEF TypeOK, Goto

\* Writing one row keeps the others, and their number.
LEMMA RowUpdateType ==
  ASSUME TypeOK, NEW i \in 1 .. Len(execs), NEW row \in Rows, execs' = [execs EXCEPT ![i] = row]
  PROVE  /\ execs' \in Seq(Rows)
         /\ Len(execs') = Len(execs)
         /\ execs'[i] = row
         /\ \A j \in 1 .. Len(execs) : j # i => execs'[j] = execs[j]
<1>1. execs \in Seq(Rows)
  BY DEF TypeOK
<1> QED
  <2> HIDE DEF Rows
  <2> QED BY <1>1

\* The final status is one of the row states.
LEMMA StatusType ==
  ASSUME NEW d
  PROVE  StatusOf(d) \in NodeStates
BY DEF StatusOf, NodeStates

\* What is left to show of a step of r once its new values are typed.
LEMMA StepOfOne ==
  ASSUME TypeInv, NEW r \in Requests,
         deployed' \in Flows,
         execs' \in Seq(Rows), Len(execs') >= Len(execs),
         pc' \in [Requests -> {"idle"} \cup Active \cup Ended],
         run' \in [Requests -> Run],
         snap' \in [Requests -> Rows],
         aborted' \in [Requests -> BOOLEAN],
         \A q \in Requests \ {r} : pc'[q] = pc[q] /\ run'[q].exec = run[q].exec,
         pc'[r] \in Active => run'[r].exec \in 1 .. Len(execs')
  PROVE  TypeInv'
<1>1. TypeOK'
  BY DEF TypeOK
<1>2. Points'
  <2> SUFFICES ASSUME NEW q \in Requests, pc'[q] \in Active
      PROVE  run'[q].exec \in 1 .. Len(execs')
    BY DEF Points
  <2>1. CASE q = r
    BY <2>1
  <2>2. CASE q # r
    <3>1. run[q].exec \in 1 .. Len(execs)
      BY <2>2 DEF TypeInv, Points
    <3>2. Len(execs) \in Nat /\ Len(execs') \in Nat
      BY DEF TypeInv, TypeOK
    <3> QED BY <2>2, <3>1, <3>2
  <2> QED BY <2>1, <2>2
<1> QED BY <1>1, <1>2 DEF TypeInv

\* addExecution and the fresh run of its request are typed.
LEMMA StartType ==
  ASSUME TypeInv, NEW r \in Requests, Start(r)
  PROVE  TypeInv'
<1> DEFINE queue == IF StartNodes(deployed) = {} THEN <<>>
                    ELSE <<CHOOSE n \in StartNodes(deployed) : TRUE>>
           new == [FreshRun(deployed) EXCEPT !.exec = Len(execs) + 1, !.queue = queue]
<1>1. TypeOK /\ deployed \in Flows /\ execs \in Seq(Rows)
  BY DEF TypeInv, TypeOK
<1>2. queue \in Seq(AllNodes)
  <2>1. StartNodes(deployed) \subseteq AllNodes
    BY <1>1, FlowType DEF StartNodes
  <2> QED BY <2>1
<1>3. new \in Run /\ new.exec = Len(execs) + 1
  <2> DEFINE fresh == FreshRun(deployed)
             exec  == Len(execs) + 1
  <2>1. fresh \in Run /\ exec \in Nat
    BY <1>1, FreshRunType
  <2> HIDE DEF queue, fresh, exec
  <2>2. [fresh EXCEPT !.exec = exec, !.queue = queue] \in Run
    BY <1>2, <2>1 DEF Run
  <2>3. [fresh EXCEPT !.exec = exec, !.queue = queue].exec = exec
    BY <2>1 DEF Run
  <2> QED BY <2>2, <2>3 DEF fresh, exec
<1>4. run' = [run EXCEPT ![r] = new]
  BY DEF Start
<1>5. run' \in [Requests -> Run] /\ run'[r] = new /\ \A q \in Requests \ {r} : run'[q] = run[q]
  <2> HIDE DEF new
  <2> QED BY <1>1, <1>3, <1>4 DEF TypeOK
<1>6. execs' \in Seq(Rows) /\ Len(execs') = Len(execs) + 1
  <2> DEFINE row == [state |-> "INPROGRESS", data |-> <<>>]
  <2>1. row \in Rows
    BY DEF Rows, RowStates
  <2>2. execs' = Append(execs, row)
    BY DEF Start
  <2> HIDE DEF row, Rows
  <2> QED BY <1>1, <2>1, <2>2
<1>7. /\ pc' \in [Requests -> {"idle"} \cup Active \cup Ended]
      /\ \A q \in Requests \ {r} : pc'[q] = pc[q]
  <2>1. Goto(r, "running")
    BY DEF Start
  <2>2. "running" \in {"idle"} \cup Active \cup Ended
    BY DEF Active
  <2> QED BY <1>1, <2>1, <2>2, GotoType
<1>8. UNCHANGED <<deployed, snap, aborted>>
  BY DEF Start
<1> HIDE DEF new
<1>9. deployed' \in Flows /\ snap' \in [Requests -> Rows] /\ aborted' \in [Requests -> BOOLEAN]
  BY <1>1, <1>8 DEF TypeOK
<1>10. Len(execs) \in Nat /\ Len(execs') \in Nat
  BY <1>1, <1>6
<1>11. Len(execs') >= Len(execs) /\ run'[r].exec \in 1 .. Len(execs')
  BY <1>3, <1>5, <1>6, <1>10
<1>12. \A q \in Requests \ {r} : pc'[q] = pc[q] /\ run'[q].exec = run[q].exec
  BY <1>5, <1>7
<1> QED BY <1>5, <1>6, <1>7, <1>9, <1>11, <1>12, StepOfOne

\* The record a resume takes over is typed.
LEMMA ResumeDataType ==
  ASSUME NEW row \in Rows
  PROVE  ResumeData(row) \in Seq(Entries)
<1> DEFINE d == row.data
<1>1. d \in Seq(Entries)
  BY DEF Rows
<1>2. SubSeq(d, 1, Len(d) - 1) \in Seq(Entries)
  <2>1. Len(d) \in Nat /\ Len(d) - 1 \in Int /\ Len(d) - 1 <= Len(d)
    BY <1>1
  <2> HIDE DEF d
  <2> QED BY <1>1, <2>1
<1> QED BY <1>1, <1>2 DEF ResumeData

\* The run of a resumed request is typed.
LEMMA ResumeType ==
  ASSUME TypeInv, NEW r \in Requests, Resume(r)
  PROVE  TypeInv'
<1>1. TypeOK /\ deployed \in Flows /\ execs \in Seq(Rows) /\ execs # <<>>
  BY DEF TypeInv, TypeOK, Resume
<1> DEFINE row == execs[Len(execs)]
<1>2. PICK named \in NamedNodes, answer \in Answers :
        /\ CanResume(row, named)
        /\ run' = [run EXCEPT ![r] =
             [FreshRun(deployed) EXCEPT
                !.exec    = Len(execs),
                !.resumed = TRUE,
                !.human   = [node |-> ResumeNode(row, named), answer |-> answer],
                !.data    = ResumeData(row),
                !.queue   = <<ResumeNode(row, named)>>]]
        /\ Goto(r, IF row.state = "ERROR" THEN "trim" ELSE "claim")
  BY DEF Resume
<1>3. Len(execs) \in 1 .. Len(execs) /\ row \in Rows
  <2> HIDE DEF Rows
  <2> QED BY <1>1
<1> DEFINE fresh == FreshRun(deployed)
           node  == ResumeNode(row, named)
           data  == ResumeData(row)
           exec  == Len(execs)
           human == [node |-> node, answer |-> answer]
           queue == <<node>>
           new   == [fresh EXCEPT !.exec = exec, !.resumed = TRUE, !.human = human,
                                  !.data = data, !.queue = queue]
<1>4. data \in Seq(Entries)
  BY <1>3, ResumeDataType
<1>5. node \in AllNodes
  <2>1. PICK i \in 1 .. Len(data) : data[i].node = node
    BY <1>2 DEF CanResume
  <2>2. data[i] \in Entries
    <3> HIDE DEF data
    <3> QED BY <1>4
  <2> QED BY <2>1, <2>2 DEF Entries
<1>6. human \in Inputs /\ queue \in Seq(AllNodes) /\ fresh \in Run /\ exec \in Nat
  <2>1. fresh \in Run
    BY <1>1, FreshRunType
  <2> HIDE DEF node, fresh
  <2> QED BY <1>1, <1>5, <2>1 DEF Inputs
<1>7. new \in Run /\ new.exec = exec
  <2> HIDE DEF fresh, node, data, exec, human, queue
  <2> QED BY <1>4, <1>6 DEF Run
<1>8. run' \in [Requests -> Run] /\ run'[r] = new /\ \A q \in Requests \ {r} : run'[q] = run[q]
  <2>1. run' = [run EXCEPT ![r] = new]
    BY <1>2
  <2> HIDE DEF new
  <2> QED BY <1>1, <1>7, <2>1 DEF TypeOK
<1>9. /\ pc' \in [Requests -> {"idle"} \cup Active \cup Ended]
      /\ \A q \in Requests \ {r} : pc'[q] = pc[q]
  <2> DEFINE label == IF row.state = "ERROR" THEN "trim" ELSE "claim"
  <2>1. label \in {"idle"} \cup Active \cup Ended
    BY DEF Active, Claiming
  <2>2. Goto(r, label)
    BY <1>2
  <2> HIDE DEF label
  <2> QED BY <1>1, <2>1, <2>2, GotoType
<1>10. UNCHANGED <<deployed, execs, snap, aborted>>
  BY DEF Resume
<1>11. /\ deployed' \in Flows /\ execs' \in Seq(Rows) /\ Len(execs') >= Len(execs)
       /\ snap' \in [Requests -> Rows] /\ aborted' \in [Requests -> BOOLEAN]
  BY <1>1, <1>10 DEF TypeOK
<1>12. run'[r].exec \in 1 .. Len(execs')
  <2> HIDE DEF new
  <2> QED BY <1>3, <1>7, <1>8, <1>10
<1>13. \A q \in Requests \ {r} : pc'[q] = pc[q] /\ run'[q].exec = run[q].exec
  BY <1>8, <1>9
<1> QED BY <1>8, <1>9, <1>11, <1>12, <1>13, StepOfOne

\* A step of an active request that writes at most its own row.
LEMMA StepOfActive ==
  ASSUME TypeInv, NEW r \in Requests, pc[r] \in Active,
         NEW label \in {"idle"} \cup Active \cup Ended,
         \/ Goto(r, label) \/ UNCHANGED pc,
         \/ UNCHANGED execs
         \/ \E row \in Rows : execs' = [execs EXCEPT ![run[r].exec] = row],
         \/ UNCHANGED run
         \/ \E new \in Run : new.exec = run[r].exec /\ run' = [run EXCEPT ![r] = new],
         UNCHANGED <<deployed, aborted>>,
         snap' \in [Requests -> Rows]
  PROVE  TypeInv'
<1>1. TypeOK /\ run[r].exec \in 1 .. Len(execs) /\ Len(execs) \in Nat
  BY DEF TypeInv, Points, TypeOK
<1>2. execs' \in Seq(Rows) /\ Len(execs') = Len(execs)
  <2>1. CASE UNCHANGED execs
    BY <1>1, <2>1 DEF TypeOK
  <2>2. CASE \E row \in Rows : execs' = [execs EXCEPT ![run[r].exec] = row]
    BY <1>1, <2>2, RowUpdateType
  <2> QED BY <2>1, <2>2
<1>3. /\ pc' \in [Requests -> {"idle"} \cup Active \cup Ended]
      /\ \A q \in Requests \ {r} : pc'[q] = pc[q]
  <2>1. CASE Goto(r, label)
    BY <1>1, <2>1, GotoType
  <2>2. CASE UNCHANGED pc
    BY <1>1, <2>2 DEF TypeOK
  <2> QED BY <2>1, <2>2
<1>4. run' \in [Requests -> Run] /\ \A q \in Requests : run'[q].exec = run[q].exec
  <2>1. CASE UNCHANGED run
    BY <1>1, <2>1 DEF TypeOK
  <2>2. CASE \E new \in Run : new.exec = run[r].exec /\ run' = [run EXCEPT ![r] = new]
    <3> HIDE DEF Run
    <3> QED BY <1>1, <2>2 DEF TypeOK
  <2> QED BY <2>1, <2>2
<1>5. deployed' \in Flows /\ aborted' \in [Requests -> BOOLEAN]
  BY <1>1 DEF TypeOK
<1>6. /\ Len(execs') >= Len(execs)
      /\ run'[r].exec \in 1 .. Len(execs')
      /\ \A q \in Requests \ {r} : pc'[q] = pc[q] /\ run'[q].exec = run[q].exec
  BY <1>1, <1>2, <1>3, <1>4
<1> QED BY <1>2, <1>3, <1>4, <1>5, <1>6, StepOfOne

\* The retry's write of the trimmed record.
LEMMA TrimErrorType ==
  ASSUME TypeInv, NEW r \in Requests, TrimError(r)
  PROVE  TypeInv'
<1>1. TypeOK /\ pc[r] \in Active /\ run[r].data \in Seq(Entries)
  BY RunFields DEF TypeInv, TrimError, Active, Claiming
<1> DEFINE row == [state |-> "INPROGRESS", data |-> run[r].data]
<1>2. row \in Rows
  BY <1>1 DEF Rows, RowStates
<1>3. execs' = [execs EXCEPT ![run[r].exec] = row] /\ Goto(r, "claim")
  BY DEF TrimError
<1>4. UNCHANGED <<deployed, run, snap, aborted>> /\ snap' \in [Requests -> Rows]
  BY <1>1 DEF TrimError, TypeOK
<1>5. "claim" \in {"idle"} \cup Active \cup Ended
  BY DEF Active, Claiming
<1> HIDE DEF row
<1> QED BY <1>1, <1>2, <1>3, <1>4, <1>5, StepOfActive

\* The load of updateExecution.
LEMMA ClaimReadType ==
  ASSUME TypeInv, NEW r \in Requests, ClaimRead(r)
  PROVE  TypeInv'
<1>1. TypeOK /\ pc[r] \in Active
  BY DEF TypeInv, ClaimRead, Active, Claiming
<1>2. execs[run[r].exec] \in Rows
  <2>1. execs \in Seq(Rows) /\ run[r].exec \in 1 .. Len(execs)
    BY <1>1 DEF TypeInv, TypeOK, Points
  <2> HIDE DEF Rows
  <2> QED BY <2>1
<1>3. snap' \in [Requests -> Rows]
  <2> HIDE DEF Rows
  <2> QED BY <1>1, <1>2 DEF ClaimRead, TypeOK
<1>4. UNCHANGED <<deployed, execs, run, aborted>> /\ Goto(r, "claimed")
  BY DEF ClaimRead
<1>5. "claimed" \in {"idle"} \cup Active \cup Ended
  BY DEF Active, Claiming
<1> QED BY <1>1, <1>3, <1>4, <1>5, StepOfActive

\* The save of updateExecution.
LEMMA ClaimSaveType ==
  ASSUME TypeInv, NEW r \in Requests, ClaimSave(r)
  PROVE  TypeInv'
<1>1. TypeOK /\ pc[r] \in Active
  BY DEF TypeInv, ClaimSave, Active, Claiming
<1> DEFINE row == [snap[r] EXCEPT !.state = "INPROGRESS"]
<1>2. row \in Rows /\ NoRow \in Rows
  <2>1. snap[r] \in Rows
    BY <1>1 DEF TypeOK
  <2> QED BY <2>1 DEF Rows, RowStates, NoRow
<1>3. execs' = [execs EXCEPT ![run[r].exec] = row] /\ Goto(r, "running")
  BY DEF ClaimSave
<1>4. UNCHANGED <<deployed, run, aborted>>
  BY DEF ClaimSave
<1>5. snap' \in [Requests -> Rows]
  <2> HIDE DEF Rows
  <2> QED BY <1>1, <1>2 DEF ClaimSave, TypeOK
<1>6. "running" \in {"idle"} \cup Active \cup Ended
  BY DEF Active
<1> HIDE DEF row
<1> QED BY <1>1, <1>2, <1>3, <1>4, <1>5, <1>6, StepOfActive

\* The final write of the row.
LEMMA CompleteType ==
  ASSUME TypeInv, NEW r \in Requests, Complete(r)
  PROVE  TypeInv'
<1>1. TypeOK /\ pc[r] \in Active /\ run[r].data \in Seq(Entries)
  BY RunFields DEF TypeInv, Complete, Active
<1> DEFINE row   == [state |-> StatusOf(run[r].data), data |-> run[r].data]
           label == IF run[r].data = <<>> THEN "failed" ELSE "answered"
<1>2. row \in Rows
  <2>1. StatusOf(run[r].data) \in RowStates
    BY StatusType DEF RowStates
  <2> QED BY <1>1, <2>1 DEF Rows
<1>3. execs' = [execs EXCEPT ![run[r].exec] = row] /\ Goto(r, label)
  BY DEF Complete
<1>4. UNCHANGED <<deployed, run, snap, aborted>> /\ snap' \in [Requests -> Rows]
  BY <1>1 DEF Complete, TypeOK
<1>5. label \in {"idle"} \cup Active \cup Ended
  BY DEF Ended
<1> HIDE DEF row, label
<1> QED BY <1>1, <1>2, <1>3, <1>4, <1>5, StepOfActive

\* The catch block: FailNode and AbortNode.
LEMMA CatchErrorType ==
  ASSUME TypeInv, NEW r \in Requests, NEW status \in {"ERROR", "TERMINATED"},
         Turn(r), CatchError(r, status)
  PROVE  TypeInv'
<1> DEFINE d   == Append(run[r].data, Entry(Current(r), status))
           q   == Tail(run[r].queue)
           i   == run[r].iters + 1
           row == [state |-> status, data |-> d]
           new == [run[r] EXCEPT !.data = d, !.queue = q, !.iters = i]
<1>1. TypeOK /\ pc[r] \in Active /\ run[r] \in Run
  BY RunFields DEF TypeInv, Turn, Active
<1>2. d \in Seq(Entries)
  <2>1. Entry(Current(r), status) \in Entries
    BY <1>1, CurrentType DEF Entry, Entries, NodeStates
  <2>2. run[r].data \in Seq(Entries)
    BY <1>1, RunFields
  <2> HIDE DEF Entries
  <2> QED BY <2>1, <2>2
<1>3. q \in Seq(AllNodes) /\ i \in Nat
  BY <1>1, CurrentType, RunFields
<1>4. row \in Rows
  BY <1>2 DEF Rows, RowStates, NodeStates
<1>5. new \in Run /\ new.exec = run[r].exec
  <2> HIDE DEF d, q, i
  <2> QED BY <1>1, <1>2, <1>3 DEF Run
<1>6. run' = [run EXCEPT ![r] = new]
  BY <1>1 DEF CatchError, TypeOK, Run
<1>7. execs' = [execs EXCEPT ![run[r].exec] = row] /\ Goto(r, "failed")
  BY DEF CatchError
<1>8. UNCHANGED <<deployed, snap, aborted>> /\ snap' \in [Requests -> Rows]
  BY <1>1 DEF CatchError, TypeOK
<1>9. "failed" \in {"idle"} \cup Active \cup Ended
  BY DEF Ended
<1> HIDE DEF row, new
<1> QED BY <1>1, <1>4, <1>5, <1>6, <1>7, <1>8, <1>9, StepOfActive

\* The record without the entries of the resumed node.
LEMMA DataBeforeType ==
  ASSUME TypeOK, NEW r \in Requests
  PROVE  DataBefore(r) \in Seq(Entries)
BY RunFields, WithoutType DEF DataBefore

\* A pause.
LEMMA PauseNodeType ==
  ASSUME TypeInv, NEW r \in Requests, PauseNode(r)
  PROVE  TypeInv'
<1> DEFINE d   == Append(DataBefore(r), Entry(Current(r), "STOPPED"))
           h   == IF Consumes(r) THEN NoInput ELSE run[r].human
           q   == Tail(run[r].queue)
           i   == run[r].iters + 1
           new == [run[r] EXCEPT !.data = d, !.human = h, !.queue = q, !.iters = i]
<1>1. TypeOK /\ Turn(r) /\ pc[r] \in Active /\ run[r] \in Run
  BY RunFields DEF TypeInv, PauseNode, Executes, Turn, Active
<1>2. d \in Seq(Entries)
  <2>1. Entry(Current(r), "STOPPED") \in Entries
    BY <1>1, CurrentType DEF Entry, Entries, NodeStates
  <2> HIDE DEF Entries
  <2> QED BY <1>1, <2>1, DataBeforeType
<1>3. q \in Seq(AllNodes) /\ i \in Nat /\ h \in Inputs
  <2>1. h \in Inputs
    BY <1>1, RunFields DEF Inputs
  <2> QED BY <1>1, <2>1, CurrentType, RunFields
<1>4. new \in Run /\ new.exec = run[r].exec
  <2> HIDE DEF d, h, q, i
  <2> QED BY <1>1, <1>2, <1>3 DEF Run
<1>5. run' = [run EXCEPT ![r] = new]
  BY <1>1 DEF PauseNode, TypeOK, Run
<1>6. UNCHANGED <<deployed, execs, snap, aborted>> /\ snap' \in [Requests -> Rows]
  BY <1>1 DEF PauseNode, TypeOK
<1>7. Goto(r, "closing") /\ "closing" \in {"idle"} \cup Active \cup Ended
  BY DEF PauseNode, Active
<1> HIDE DEF new
<1> QED BY <1>1, <1>4, <1>5, <1>6, <1>7, StepOfActive

\* The run after its node has finished and its result was routed.
LEMMA AfterFinishType ==
  ASSUME TypeInv, NEW r \in Requests, Executes(r), NEW fulfilled
  PROVE  AfterFinish(r, fulfilled) \in Run /\ AfterFinish(r, fulfilled).exec = run[r].exec
<1> DEFINE n == Current(r)
           f == run[r].flow
           ignored == IF ReportsConditions(r)
                      THEN DetermineNodesToIgnore(f, n, fulfilled) ELSE {}
           fan   == ProcessChildren(f, n, ignored, Tail(run[r].queue), run[r].waiting)
           d     == Append(DataBefore(r), Entry(n, "FINISHED"))
           h     == AnswerLeft(r)
           q     == IF LoopsBack(r) THEN Append(fan.queue, f.loopTo[n]) ELSE fan.queue
           w     == fan.waiting
           loops == LoopCounts(r)
           i     == run[r].iters + 1
           new   == [run[r] EXCEPT !.data = d, !.human = h, !.queue = q, !.waiting = w,
                                   !.loops = loops, !.iters = i]
<1>1. /\ TypeOK /\ Turn(r) /\ run[r] \in Run
      /\ f \in Flows /\ n \in f.nodes /\ n \in AllNodes
  BY RunFields, CurrentType DEF TypeInv, Executes
<1>2. AfterFinish(r, fulfilled) = new
  BY DEF AfterFinish
<1>3. d \in Seq(Entries)
  <2>1. Entry(n, "FINISHED") \in Entries
    BY <1>1 DEF Entry, Entries, NodeStates
  <2> HIDE DEF Entries, n
  <2> QED BY <1>1, <2>1, DataBeforeType
<1>4. h \in Inputs
  BY <1>1, RunFields DEF AnswerLeft, Inputs
<1>5. q \in Seq(AllNodes) /\ w \in [AllNodes -> SUBSET AllNodes]
  <2>1. fan \in Fans
    <3>1. Tail(run[r].queue) \in Seq(AllNodes) /\ run[r].waiting \in [AllNodes -> SUBSET AllNodes]
      BY <1>1, CurrentType, RunFields
    <3> HIDE DEF n, f, ignored
    <3> QED BY <1>1, <3>1, ProcessChildrenType
  <2>2. f.loopTo[n] \in AllNodes
    BY <1>1, FlowType
  <2>3. fan.queue \in Seq(AllNodes) /\ fan.waiting \in [AllNodes -> SUBSET AllNodes]
    <3> HIDE DEF fan
    <3> QED BY <2>1 DEF Fans
  <2> HIDE DEF fan, n, f
  <2> QED BY <2>2, <2>3
<1>6. loops \in [AllNodes -> Nat] /\ i \in Nat
  <2>1. run[r].loops \in [AllNodes -> Nat] /\ run[r].iters \in Nat
    BY <1>1, RunFields
  <2> QED BY <1>1, <2>1 DEF LoopCounts
<1>7. new \in Run /\ new.exec = run[r].exec
  <2> HIDE DEF d, h, q, w, loops, i
  <2> QED BY <1>1, <1>3, <1>4, <1>5, <1>6 DEF Run
<1> QED BY <1>2, <1>7

\* A node that finishes.
LEMMA FinishNodeType ==
  ASSUME TypeInv, NEW r \in Requests, FinishNode(r)
  PROVE  TypeInv'
<1>1. TypeOK /\ pc[r] \in Active /\ Executes(r)
  BY DEF TypeInv, FinishNode, Executes, Turn, Active
<1>2. PICK fulfilled : run' = [run EXCEPT ![r] = AfterFinish(r, fulfilled)]
  BY DEF FinishNode
<1>3. AfterFinish(r, fulfilled) \in Run /\ AfterFinish(r, fulfilled).exec = run[r].exec
  BY <1>1, AfterFinishType
<1>4. UNCHANGED <<deployed, execs, pc, snap, aborted>> /\ snap' \in [Requests -> Rows]
  BY <1>1 DEF FinishNode, TypeOK
<1>5. "running" \in {"idle"} \cup Active \cup Ended
  BY DEF Active
<1> QED BY <1>1, <1>2, <1>3, <1>4, <1>5, StepOfActive

\* A queued id that the flow does not have.
LEMMA SkipUnknownType ==
  ASSUME TypeInv, NEW r \in Requests, SkipUnknown(r)
  PROVE  TypeInv'
<1> DEFINE q   == Tail(run[r].queue)
           i   == run[r].iters + 1
           new == [run[r] EXCEPT !.queue = q, !.iters = i]
<1>1. TypeOK /\ Turn(r) /\ pc[r] \in Active /\ run[r] \in Run
  BY RunFields DEF TypeInv, SkipUnknown, Turn, Active
<1>2. q \in Seq(AllNodes) /\ i \in Nat
  BY <1>1, CurrentType, RunFields
<1>3. new \in Run /\ new.exec = run[r].exec
  <2> HIDE DEF q, i
  <2> QED BY <1>1, <1>2 DEF Run
<1>4. run' = [run EXCEPT ![r] = new]
  BY <1>1 DEF SkipUnknown, TypeOK, Run
<1>5. UNCHANGED <<deployed, execs, pc, snap, aborted>> /\ snap' \in [Requests -> Rows]
  BY <1>1 DEF SkipUnknown, TypeOK
<1>6. "running" \in {"idle"} \cup Active \cup Ended
  BY DEF Active
<1> HIDE DEF new
<1> QED BY <1>1, <1>3, <1>4, <1>5, <1>6, StepOfActive

\* Steps that only move pc, signal an abort or deploy another flow.
LEMMA ControlType ==
  ASSUME TypeInv, NEW r \in Requests,
         RejectStart(r) \/ RejectResume(r) \/ IterationLimit(r) \/ Crash(r) \/ Abort(r)
  PROVE  TypeInv'
<1>1. TypeOK
  BY DEF TypeInv
<1>2. CASE Abort(r)
  BY <1>1, <1>2 DEF Abort, TypeInv, TypeOK, Points
<1>3. CASE ~Abort(r)
  <2>1. PICK label \in {"rejected", "limit", "crashed"} : Goto(r, label)
    BY <1>3 DEF RejectStart, RejectResume, IterationLimit, Crash
  <2>2. label \in {"idle"} \cup Active \cup Ended /\ label \notin Active
    BY DEF Ended, Active, Claiming
  <2>3. UNCHANGED <<deployed, execs, run, snap, aborted>>
    BY <1>3 DEF RejectStart, RejectResume, IterationLimit, Crash
  <2>4. /\ pc' \in [Requests -> {"idle"} \cup Active \cup Ended]
        /\ pc'[r] = label
        /\ \A q \in Requests \ {r} : pc'[q] = pc[q]
    BY <1>1, <2>1, <2>2, GotoType
  <2> QED BY <1>1, <2>2, <2>3, <2>4 DEF TypeInv, TypeOK, Points
<1> QED BY <1>2, <1>3

\* The type invariant holds at the start ...
LEMMA TypeInit == Init => TypeInv
<1> SUFFICES ASSUME Init PROVE TypeInv
  OBVIOUS
<1>1. FreshRun(deployed) \in Run /\ NoRow \in Rows
  BY FreshRunType DEF Init, NoRow, Rows, RowStates
<1>2. TypeOK
  <2> HIDE DEF Run, Rows
  <2> QED BY <1>1 DEF Init, TypeOK
<1>3. Points
  BY DEF Init, Points, Active, Claiming
<1> QED BY <1>2, <1>3 DEF TypeInv

\* ... and every step keeps it.
LEMMA TypeStep == TypeInv /\ [Next]_vars => TypeInv'
<1> SUFFICES ASSUME TypeInv, [Next]_vars PROVE TypeInv'
  OBVIOUS
<1>1. ASSUME NEW r \in Requests, Start(r) PROVE TypeInv'
  BY <1>1, StartType
<1>2. ASSUME NEW r \in Requests, Resume(r) PROVE TypeInv'
  BY <1>2, ResumeType
<1>3. ASSUME NEW r \in Requests, TrimError(r) PROVE TypeInv'
  BY <1>3, TrimErrorType
<1>4. ASSUME NEW r \in Requests, ClaimRead(r) PROVE TypeInv'
  BY <1>4, ClaimReadType
<1>5. ASSUME NEW r \in Requests, ClaimSave(r) PROVE TypeInv'
  BY <1>5, ClaimSaveType
<1>6. ASSUME NEW r \in Requests, SkipUnknown(r) PROVE TypeInv'
  BY <1>6, SkipUnknownType
<1>7. ASSUME NEW r \in Requests, PauseNode(r) PROVE TypeInv'
  BY <1>7, PauseNodeType
<1>8. ASSUME NEW r \in Requests, FinishNode(r) PROVE TypeInv'
  BY <1>8, FinishNodeType
<1>9. ASSUME NEW r \in Requests, FailNode(r) PROVE TypeInv'
  BY <1>9, CatchErrorType DEF FailNode, Executes
<1>10. ASSUME NEW r \in Requests, AbortNode(r) PROVE TypeInv'
  BY <1>10, CatchErrorType DEF AbortNode, Executes
<1>11. ASSUME NEW r \in Requests, Complete(r) PROVE TypeInv'
  BY <1>11, CompleteType
<1>12. ASSUME NEW r \in Requests,
              RejectStart(r) \/ RejectResume(r) \/ IterationLimit(r) \/ Crash(r) \/ Abort(r)
       PROVE  TypeInv'
  BY <1>12, ControlType
<1>13. CASE EditFlow
  BY <1>13 DEF EditFlow, TypeInv, TypeOK, Points
<1>14. CASE UNCHANGED vars
  BY <1>14 DEF vars, TypeInv, TypeOK, Points
<1> QED
  BY <1>1, <1>2, <1>3, <1>4, <1>5, <1>6, <1>7, <1>8, <1>9, <1>10, <1>11, <1>12, <1>13, <1>14
  DEF Next, Step

\* The types hold in every reachable state of every flow, whatever its size,
\* and a request in progress always has a row of its session to write to.
THEOREM TypeCorrect == Spec => []TypeOK
<1>1. TypeInv => TypeOK
  BY DEF TypeInv
<1> QED BY <1>1, TypeInit, TypeStep, PTL DEF Spec

\* The stronger type invariant, for the theorems below.
LEMMA TypeAlways == Spec => []TypeInv
BY TypeInit, TypeStep, PTL DEF Spec

-----------------------------------------------------------------------------
(***************************************************************************)
(* Who looks after a row. InProgressIsOwned is inductive together with the  *)
(* types: a request leaves Active for an end that is not a crash or the     *)
(* iteration limit only in the step that settles its row, and no step of    *)
(* another request changes what it points to.                               *)
(***************************************************************************)
Keepers == Active \cup {"crashed", "limit"}

\* A step of r that writes at most its own row, and leaves that row settled or r
\* looking after it, leaves every row in progress with an owner.
LEMMA OwnerStays ==
  ASSUME TypeInv, InProgressIsOwned, NEW r \in Requests, pc[r] \in Active,
         \/ UNCHANGED execs /\ pc'[r] \in Keepers
         \/ \E row \in Rows :
              /\ execs' = [execs EXCEPT ![run[r].exec] = row]
              /\ row.state = "INPROGRESS" => pc'[r] \in Keepers,
         \A q \in Requests \ {r} : pc'[q] = pc[q],
         \A q \in Requests : run'[q].exec = run[q].exec
  PROVE  InProgressIsOwned'
<1>1. run[r].exec \in 1 .. Len(execs) /\ TypeOK
  BY DEF TypeInv, Points
<1>2. CASE UNCHANGED execs /\ pc'[r] \in Keepers
  BY <1>2 DEF InProgressIsOwned, Keepers
<1>3. ASSUME NEW row \in Rows, execs' = [execs EXCEPT ![run[r].exec] = row],
             row.state = "INPROGRESS" => pc'[r] \in Keepers
      PROVE  InProgressIsOwned'
  <2>1. /\ Len(execs') = Len(execs)
        /\ execs'[run[r].exec] = row
        /\ \A j \in 1 .. Len(execs) : j # run[r].exec => execs'[j] = execs[j]
    BY <1>1, <1>3, RowUpdateType
  <2> SUFFICES ASSUME NEW i \in 1 .. Len(execs), execs'[i].state = "INPROGRESS"
      PROVE  \E q \in Requests : run'[q].exec = i /\ pc'[q] \in Keepers
    BY <2>1 DEF InProgressIsOwned, Keepers
  <2>2. CASE i = run[r].exec
    BY <1>3, <2>1, <2>2
  <2>3. CASE i # run[r].exec
    <3>1. execs[i].state = "INPROGRESS"
      BY <2>1, <2>3
    <3>2. PICK q \in Requests : run[q].exec = i /\ pc[q] \in Keepers
      BY <3>1 DEF InProgressIsOwned, Keepers
    <3> QED BY <2>3, <3>2
  <2> QED BY <2>2, <2>3
<1> QED BY <1>2, <1>3

\* A new row is owned by the request that created it.
LEMMA OwnedStart ==
  ASSUME TypeInv, InProgressIsOwned, NEW r \in Requests, Start(r)
  PROVE  InProgressIsOwned'
<1>1. TypeOK /\ pc[r] = "idle" /\ execs \in Seq(Rows)
  BY DEF TypeInv, TypeOK, Start, MayArrive
<1>2. /\ Len(execs') = Len(execs) + 1
      /\ \A j \in 1 .. Len(execs) : execs'[j] = execs[j]
  <2> DEFINE row == [state |-> "INPROGRESS", data |-> <<>>]
  <2>1. execs' = Append(execs, row)
    BY DEF Start
  <2> HIDE DEF row, Rows
  <2> QED BY <1>1, <2>1
<1>3. \A q \in Requests \ {r} : run'[q] = run[q] /\ pc'[q] = pc[q]
  BY <1>1 DEF Start, Goto, TypeOK
<1>4. run'[r].exec = Len(execs) + 1 /\ pc'[r] = "running"
  BY <1>1 DEF Start, Goto, TypeOK, FreshRun
<1> SUFFICES ASSUME NEW i \in 1 .. Len(execs'), execs'[i].state = "INPROGRESS"
    PROVE  \E q \in Requests : run'[q].exec = i /\ pc'[q] \in Keepers
  BY DEF InProgressIsOwned, Keepers
<1>5. CASE i = Len(execs) + 1
  BY <1>4, <1>5 DEF Keepers, Active
<1>6. CASE i # Len(execs) + 1
  <2>1. Len(execs) \in Nat
    BY <1>1
  <2>2. i \in 1 .. Len(execs) /\ execs[i].state = "INPROGRESS"
    BY <1>2, <1>6, <2>1
  <2>3. PICK q \in Requests : run[q].exec = i /\ pc[q] \in Keepers
    BY <2>2 DEF InProgressIsOwned, Keepers
  <2>4. q # r
    BY <1>1, <2>3 DEF Keepers, Active, Claiming
  <2> QED BY <1>3, <2>3, <2>4
<1> QED BY <1>5, <1>6

\* Steps of r that leave the rows alone and keep it where it looks after its own.
LEMMA OwnedQuiet ==
  ASSUME TypeInv, InProgressIsOwned, NEW r \in Requests,
         \/ RejectStart(r) \/ Resume(r) \/ RejectResume(r) \/ ClaimRead(r)
         \/ IterationLimit(r) \/ SkipUnknown(r) \/ PauseNode(r) \/ FinishNode(r)
         \/ Abort(r) \/ Crash(r)
  PROVE  InProgressIsOwned'
<1>1. TypeOK /\ UNCHANGED execs
  BY DEF TypeInv, RejectStart, Resume, RejectResume, ClaimRead, IterationLimit,
         SkipUnknown, PauseNode, FinishNode, Abort, Crash
<1>2. \A q \in Requests \ {r} : pc'[q] = pc[q] /\ run'[q] = run[q]
  BY <1>1 DEF RejectStart, Resume, RejectResume, ClaimRead, IterationLimit,
         SkipUnknown, PauseNode, FinishNode, Abort, Crash, Goto, TypeOK
<1>3. pc[r] \in Keepers => pc'[r] \in Keepers /\ run'[r].exec = run[r].exec
  <2>1. CASE RejectStart(r) \/ Resume(r) \/ RejectResume(r)
    BY <2>1 DEF RejectStart, Resume, RejectResume, MayArrive, Keepers, Active, Claiming
  <2>2. CASE ClaimRead(r) \/ IterationLimit(r) \/ Abort(r) \/ Crash(r)
    BY <1>1, <2>2 DEF ClaimRead, IterationLimit, Abort, Crash, Goto, TypeOK, Keepers, Active, Claiming
  <2>3. CASE SkipUnknown(r)
    BY <1>1, <2>3 DEF SkipUnknown, TypeOK, Run
  <2>4. CASE PauseNode(r)
    BY <1>1, <2>4 DEF PauseNode, Goto, TypeOK, Run, Keepers, Active
  <2>5. CASE FinishNode(r)
    <3>1. PICK fulfilled : run' = [run EXCEPT ![r] = AfterFinish(r, fulfilled)]
      BY <2>5 DEF FinishNode
    <3>2. AfterFinish(r, fulfilled).exec = run[r].exec
      BY <2>5, AfterFinishType DEF FinishNode
    <3> QED BY <1>1, <2>5, <3>1, <3>2 DEF FinishNode, TypeOK
  <2> QED BY <2>1, <2>2, <2>3, <2>4, <2>5
<1> QED BY <1>1, <1>2, <1>3 DEF InProgressIsOwned, Keepers

\* A catch block writes the row of the request and nothing else of it but the
\* node it was at.
LEMMA CatchFrame ==
  ASSUME TypeInv, NEW r \in Requests, NEW status \in {"ERROR", "TERMINATED"},
         Turn(r), CatchError(r, status)
  PROVE  /\ run'[r].data = Append(run[r].data, Entry(Current(r), status))
         /\ run'[r].exec = run[r].exec
         /\ \A q \in Requests \ {r} : pc'[q] = pc[q] /\ run'[q] = run[q]
         /\ pc'[r] = "failed"
         /\ \E row \in Rows :
              /\ row = [state |-> status,
                        data |-> Append(run[r].data, Entry(Current(r), status))]
              /\ execs' = [execs EXCEPT ![run[r].exec] = row]
<1> DEFINE d == Append(run[r].data, Entry(Current(r), status))
<1>1. TypeOK /\ run[r] \in Run /\ run[r].data \in Seq(Entries)
  BY RunFields DEF TypeInv
<1>2. d \in Seq(Entries)
  <2>1. Entry(Current(r), status) \in Entries
    BY <1>1, CurrentType DEF Entry, Entries, NodeStates
  <2> HIDE DEF Entries
  <2> QED BY <1>1, <2>1
<1>3. [state |-> status, data |-> d] \in Rows
  BY <1>2 DEF Rows, RowStates, NodeStates
<1>4. run'[r].data = d /\ run'[r].exec = run[r].exec
  BY <1>1 DEF CatchError, TypeOK, Run
<1>5. /\ \A q \in Requests \ {r} : pc'[q] = pc[q] /\ run'[q] = run[q]
      /\ pc'[r] = "failed"
  BY <1>1 DEF CatchError, Goto, TypeOK
<1>6. execs' = [execs EXCEPT ![run[r].exec] = [state |-> status, data |-> d]]
  BY DEF CatchError
<1> QED BY <1>3, <1>4, <1>5, <1>6

\* Every step leaves each row in progress with its owner.
LEMMA OwnedStep == TypeInv /\ InProgressIsOwned /\ [Next]_vars => InProgressIsOwned'
<1> SUFFICES ASSUME TypeInv, InProgressIsOwned, [Next]_vars PROVE InProgressIsOwned'
  OBVIOUS
<1>1. TypeOK
  BY DEF TypeInv
<1>2. ASSUME NEW r \in Requests, Start(r) PROVE InProgressIsOwned'
  BY <1>2, OwnedStart
<1>3. ASSUME NEW r \in Requests,
             \/ RejectStart(r) \/ Resume(r) \/ RejectResume(r) \/ ClaimRead(r)
             \/ IterationLimit(r) \/ SkipUnknown(r) \/ PauseNode(r) \/ FinishNode(r)
             \/ Abort(r) \/ Crash(r)
      PROVE  InProgressIsOwned'
  BY <1>3, OwnedQuiet
<1>4. ASSUME NEW r \in Requests, TrimError(r) PROVE InProgressIsOwned'
  <2> DEFINE row == [state |-> "INPROGRESS", data |-> run[r].data]
  <2>1. row \in Rows
    BY <1>1, RunFields DEF Rows, RowStates
  <2>2. /\ pc[r] \in Active /\ pc'[r] \in Keepers /\ UNCHANGED run
        /\ \A q \in Requests \ {r} : pc'[q] = pc[q]
    BY <1>1, <1>4 DEF TrimError, Goto, TypeOK, Keepers, Active, Claiming
  <2>3. execs' = [execs EXCEPT ![run[r].exec] = row]
    BY <1>4 DEF TrimError
  <2> HIDE DEF row
  <2> QED BY <2>1, <2>2, <2>3, OwnerStays
<1>5. ASSUME NEW r \in Requests, ClaimSave(r) PROVE InProgressIsOwned'
  <2> DEFINE row == [snap[r] EXCEPT !.state = "INPROGRESS"]
  <2>1. row \in Rows
    BY <1>1 DEF TypeOK, Rows, RowStates
  <2>2. /\ pc[r] \in Active /\ pc'[r] \in Keepers /\ UNCHANGED run
        /\ \A q \in Requests \ {r} : pc'[q] = pc[q]
    BY <1>1, <1>5 DEF ClaimSave, Goto, TypeOK, Keepers, Active, Claiming
  <2>3. execs' = [execs EXCEPT ![run[r].exec] = row]
    BY <1>5 DEF ClaimSave
  <2> HIDE DEF row
  <2> QED BY <2>1, <2>2, <2>3, OwnerStays
<1>6. ASSUME NEW r \in Requests, NEW status \in {"ERROR", "TERMINATED"},
             Turn(r), CatchError(r, status)
      PROVE  InProgressIsOwned'
  <2>1. PICK row \in Rows :
          row.state = status /\ execs' = [execs EXCEPT ![run[r].exec] = row]
    BY <1>6, CatchFrame
  <2>2. /\ pc[r] \in Active
        /\ \A q \in Requests \ {r} : pc'[q] = pc[q]
        /\ \A q \in Requests : run'[q].exec = run[q].exec
    BY <1>6, CatchFrame DEF Turn, Active
  <2> QED BY <1>6, <2>1, <2>2, OwnerStays
<1>7. ASSUME NEW r \in Requests, Complete(r) PROVE InProgressIsOwned'
  <2> DEFINE row == [state |-> StatusOf(run[r].data), data |-> run[r].data]
  <2>1. row \in Rows /\ row.state # "INPROGRESS"
    BY <1>1, RunFields, StatusType DEF Rows, RowStates, NodeStates
  <2>2. /\ pc[r] \in Active /\ UNCHANGED run
        /\ \A q \in Requests \ {r} : pc'[q] = pc[q]
    BY <1>1, <1>7 DEF Complete, Goto, TypeOK, Active
  <2>3. execs' = [execs EXCEPT ![run[r].exec] = row]
    BY <1>7 DEF Complete
  <2> HIDE DEF row
  <2> QED BY <2>1, <2>2, <2>3, OwnerStays
<1>8. CASE EditFlow
  BY <1>8 DEF EditFlow, InProgressIsOwned
<1>9. CASE UNCHANGED vars
  BY <1>9 DEF vars, InProgressIsOwned
<1> QED
  BY <1>2, <1>3, <1>4, <1>5, <1>6, <1>7, <1>8, <1>9 DEF Next, Step, FailNode, AbortNode, Executes

\* Whatever the requests of a session do to each other, a row left INPROGRESS
\* has a request at work on it, or one that crashed or hit the iteration limit.
THEOREM RowsAreOwned == Spec => []InProgressIsOwned
<1>1. Init => InProgressIsOwned
  BY DEF Init, InProgressIsOwned
<1> QED BY <1>1, TypeAlways, OwnedStep, PTL DEF Spec

-----------------------------------------------------------------------------
(***************************************************************************)
(* One answer, one gate. While human input is pending, the only node that   *)
(* can be queued is the one it is for, and no node waits for inputs: the    *)
(* resume branch starts from that node and nothing else, and the first turn *)
(* either drops it or spends the answer.                                    *)
(***************************************************************************)
Pending(r) ==
  pc[r] \in Active /\ run[r].human # NoInput =>
    /\ run[r].resumed
    /\ run[r].queue \in {<<>>, <<run[r].human.node>>}
    /\ run[r].waiting = [n \in AllNodes |-> {}]

AnswerInv == \A r \in Requests : Pending(r)

\* The node at the head of the queue is the one the input is for.
LEMMA PendingConsumes ==
  ASSUME TypeInv, AnswerInv, NEW r \in Requests, Turn(r), run[r].human # NoInput
  PROVE  /\ Consumes(r) /\ run[r].resumed
         /\ Tail(run[r].queue) = <<>> /\ run[r].waiting = [n \in AllNodes |-> {}]
<1>1. pc[r] \in Active /\ run[r].queue # <<>>
  BY DEF Turn, Active
<1>2. /\ run[r].resumed /\ run[r].queue = <<run[r].human.node>>
      /\ run[r].waiting = [n \in AllNodes |-> {}]
  BY <1>1 DEF AnswerInv, Pending
<1> QED BY <1>2 DEF Consumes, Current

\* Every step keeps the answer with the node it is for.
LEMMA AnswerStep == TypeInv /\ AnswerInv /\ [Next]_vars => AnswerInv'
<1> SUFFICES ASSUME TypeInv, AnswerInv, [Next]_vars PROVE AnswerInv'
  OBVIOUS
<1>1. TypeOK
  BY DEF TypeInv
<1>2. ASSUME NEW r \in Requests, Pending(r)',
             \A q \in Requests \ {r} : pc'[q] = pc[q] /\ run'[q] = run[q]
      PROVE  AnswerInv'
  BY <1>2 DEF AnswerInv, Pending
<1>3. ASSUME NEW r \in Requests, Start(r) PROVE AnswerInv'
  <2>1. run'[r].human = NoInput /\ \A q \in Requests \ {r} : pc'[q] = pc[q] /\ run'[q] = run[q]
    BY <1>1, <1>3 DEF Start, Goto, TypeOK, FreshRun
  <2> QED BY <1>2, <2>1 DEF Pending
<1>4. ASSUME NEW r \in Requests, Resume(r) PROVE AnswerInv'
  <2>1. /\ run'[r].resumed /\ run'[r].queue = <<run'[r].human.node>>
        /\ run'[r].waiting = [n \in AllNodes |-> {}]
        /\ \A q \in Requests \ {r} : pc'[q] = pc[q] /\ run'[q] = run[q]
    BY <1>1, <1>4 DEF Resume, Goto, TypeOK, FreshRun
  <2> QED BY <1>2, <2>1 DEF Pending
<1>5. ASSUME NEW r \in Requests,
             \/ RejectStart(r) \/ RejectResume(r) \/ TrimError(r) \/ ClaimRead(r)
             \/ ClaimSave(r) \/ IterationLimit(r) \/ Complete(r) \/ Abort(r) \/ Crash(r)
      PROVE  AnswerInv'
  <2>1. UNCHANGED run /\ \A q \in Requests \ {r} : pc'[q] = pc[q]
    BY <1>1, <1>5 DEF RejectStart, RejectResume, TrimError, ClaimRead, ClaimSave,
       IterationLimit, Complete, Abort, Crash, Goto, TypeOK
  <2>2. pc'[r] \in Active => pc[r] \in Active
    BY <1>1, <1>5 DEF RejectStart, RejectResume, TrimError, ClaimRead, ClaimSave,
       IterationLimit, Complete, Abort, Crash, Goto, TypeOK, Active, Claiming
  <2> QED BY <1>2, <2>1, <2>2 DEF AnswerInv, Pending
<1>6. ASSUME NEW r \in Requests, SkipUnknown(r) PROVE AnswerInv'
  <2>1. /\ run'[r].human = run[r].human /\ run'[r].resumed = run[r].resumed
        /\ run'[r].queue = Tail(run[r].queue) /\ run'[r].waiting = run[r].waiting
        /\ \A q \in Requests \ {r} : pc'[q] = pc[q] /\ run'[q] = run[q]
    BY <1>1, <1>6 DEF SkipUnknown, TypeOK, Run
  <2> QED BY <1>2, <1>6, <2>1, PendingConsumes DEF SkipUnknown, Pending
<1>7. ASSUME NEW r \in Requests, PauseNode(r) PROVE AnswerInv'
  <2>1. /\ run'[r].human = IF Consumes(r) THEN NoInput ELSE run[r].human
        /\ \A q \in Requests \ {r} : pc'[q] = pc[q] /\ run'[q] = run[q]
    BY <1>1, <1>7 DEF PauseNode, Goto, TypeOK, Run
  <2>2. run'[r].human = NoInput
    BY <1>7, <2>1, PendingConsumes DEF PauseNode, Executes
  <2> QED BY <1>2, <2>1, <2>2 DEF Pending
<1>8. ASSUME NEW r \in Requests, FinishNode(r) PROVE AnswerInv'
  <2>1. PICK fulfilled : run' = [run EXCEPT ![r] = AfterFinish(r, fulfilled)]
    BY <1>8 DEF FinishNode
  <2>2. AfterFinish(r, fulfilled).human = AnswerLeft(r)
    BY <1>1 DEF AfterFinish, TypeOK, Run
  <2>3. AnswerLeft(r) = NoInput
    BY <1>8, PendingConsumes DEF FinishNode, Executes, AnswerLeft
  <2>4. run'[r].human = NoInput /\ \A q \in Requests \ {r} : pc'[q] = pc[q] /\ run'[q] = run[q]
    BY <1>1, <1>8, <2>1, <2>2, <2>3 DEF FinishNode, TypeOK
  <2> QED BY <1>2, <2>4 DEF Pending
<1>9. ASSUME NEW r \in Requests, FailNode(r) \/ AbortNode(r) PROVE AnswerInv'
  <2>1. pc'[r] = "failed" /\ \A q \in Requests \ {r} : pc'[q] = pc[q] /\ run'[q] = run[q]
    BY <1>9, CatchFrame DEF FailNode, AbortNode, Executes
  <2> QED BY <1>2, <2>1 DEF Pending, Active, Claiming
<1>10. CASE EditFlow
  BY <1>10 DEF EditFlow, AnswerInv, Pending
<1>11. CASE UNCHANGED vars
  BY <1>11 DEF vars, AnswerInv, Pending
<1> QED
  BY <1>3, <1>4, <1>5, <1>6, <1>7, <1>8, <1>9, <1>10, <1>11 DEF Next, Step

\* Only FinishNode records a node as FINISHED.
LEMMA FinishedIsFinish ==
  ASSUME TypeInv, [Next]_vars, NEW r \in Requests, Finished(r)
  PROVE  FinishNode(r)
<1>1. TypeOK /\ pc[r] = "running" /\ run'[r] # run[r] /\ run'[r].data # run[r].data
  BY DEF TypeInv, Finished
<1>2. ASSUME NEW q \in Requests, q # r,
             \/ Start(q) \/ RejectStart(q) \/ Resume(q) \/ RejectResume(q)
             \/ TrimError(q) \/ ClaimRead(q) \/ ClaimSave(q) \/ IterationLimit(q)
             \/ SkipUnknown(q) \/ PauseNode(q) \/ FinishNode(q) \/ Complete(q)
             \/ Abort(q) \/ Crash(q)
      PROVE  FALSE
  BY <1>1, <1>2 DEF Start, RejectStart, Resume, RejectResume, TrimError, ClaimRead, ClaimSave,
     IterationLimit, SkipUnknown, PauseNode, FinishNode, Complete, Abort, Crash, TypeOK
<1>3. ASSUME NEW q \in Requests, FailNode(q) \/ AbortNode(q) PROVE FALSE
  <2>1. PICK status \in {"ERROR", "TERMINATED"} : Turn(q) /\ CatchError(q, status)
    BY <1>3 DEF FailNode, AbortNode, Executes
  <2>2. CASE q # r
    BY <1>1, <2>1, <2>2, CatchFrame
  <2>3. CASE q = r
    <3> DEFINE e == Entry(Current(r), status)
               d == run[r].data
    <3>1. run'[r].data = Append(d, e) /\ d \in Seq(Entries)
      BY <1>1, <2>1, <2>3, CatchFrame, RunFields
    <3>2. Append(d, e)[Len(Append(d, e))] = e
      <4> HIDE DEF d, e, Entries
      <4> QED BY <3>1
    <3>3. e.status = "FINISHED"
      BY <3>1, <3>2 DEF Finished
    <3> QED BY <2>1, <3>3 DEF Entry
  <2> QED BY <2>2, <2>3
<1>4. CASE \/ Start(r) \/ RejectStart(r) \/ Resume(r) \/ RejectResume(r)
           \/ TrimError(r) \/ ClaimRead(r) \/ ClaimSave(r) \/ IterationLimit(r)
           \/ Complete(r) \/ Abort(r) \/ Crash(r) \/ EditFlow \/ UNCHANGED vars
  BY <1>1, <1>4 DEF Start, RejectStart, Resume, RejectResume, MayArrive, TrimError, ClaimRead,
     ClaimSave, IterationLimit, Complete, Abort, Crash, EditFlow, vars
<1>5. CASE SkipUnknown(r)
  BY <1>1, <1>5 DEF SkipUnknown, TypeOK, Run
<1>6. CASE PauseNode(r)
  <2> DEFINE e == Entry(Current(r), "STOPPED")
             d == DataBefore(r)
  <2>1. run'[r].data = Append(d, e)
    BY <1>1, <1>6 DEF PauseNode, TypeOK, Run
  <2>2. d \in Seq(Entries)
    BY <1>1, DataBeforeType
  <2>3. Append(d, e)[Len(Append(d, e))] = e
    <3> HIDE DEF d, e, Entries
    <3> QED BY <2>2
  <2>4. e.status = "FINISHED"
    BY <2>1, <2>3 DEF Finished
  <2> QED BY <2>4 DEF Entry
<1> QED BY <1>2, <1>3, <1>4, <1>5, <1>6 DEF Next, Step

\* A human-input node gets past its gate only with human input for that node,
\* in every flow and with any number of concurrent requests.
THEOREM GateIsSafe == Spec => GateNeedsOwnAnswer
<1>1. Init => AnswerInv
  BY DEF Init, AnswerInv, Pending, FreshRun, Active, Claiming
<1>2. TypeInv /\ AnswerInv /\ [Next]_vars =>
        \A r \in Requests :
          LET n == Current(r)
          IN  Finished(r) /\ run[r].flow.kind[n] = "humanInput"
                => run[r].resumed /\ run[r].human.node = n
  <2> SUFFICES ASSUME TypeInv, AnswerInv, [Next]_vars, NEW r \in Requests,
                      Finished(r), run[r].flow.kind[Current(r)] = "humanInput"
      PROVE  run[r].resumed /\ run[r].human.node = Current(r)
    OBVIOUS
  <2>1. FinishNode(r)
    BY FinishedIsFinish
  <2>2. Turn(r) /\ run[r].human # NoInput
    BY <2>1 DEF FinishNode, Executes
  <2> QED BY <2>2, PendingConsumes DEF Consumes
<1> QED BY <1>1, <1>2, TypeAlways, AnswerStep, PTL DEF Spec, GateNeedsOwnAnswer

\* The step that spends an answer leaves none behind.
THEOREM AnswerIsSpent == Spec => AnswerSpentOnce
<1>1. Init => AnswerInv
  BY DEF Init, AnswerInv, Pending, FreshRun, Active, Claiming
<1>2. TypeInv /\ AnswerInv /\ [Next]_vars =>
        \A r \in Requests :
          Finished(r) /\ run[r].human # NoInput => run'[r].human = NoInput
  <2> SUFFICES ASSUME TypeInv, AnswerInv, [Next]_vars, NEW r \in Requests,
                      Finished(r), run[r].human # NoInput
      PROVE  run'[r].human = NoInput
    OBVIOUS
  <2>1. FinishNode(r) /\ TypeOK
    BY FinishedIsFinish DEF TypeInv
  <2>2. Consumes(r)
    BY <2>1, PendingConsumes DEF FinishNode, Executes
  <2>3. PICK fulfilled : run' = [run EXCEPT ![r] = AfterFinish(r, fulfilled)]
    BY <2>1 DEF FinishNode
  <2>4. AfterFinish(r, fulfilled).human = AnswerLeft(r)
    BY <2>1 DEF AfterFinish, TypeOK, Run
  <2> QED BY <2>1, <2>2, <2>3, <2>4 DEF AnswerLeft, TypeOK
<1> QED BY <1>1, <1>2, TypeAlways, AnswerStep, PTL DEF Spec, AnswerSpentOnce

-----------------------------------------------------------------------------
(***************************************************************************)
(* The record and the status. What must be known besides the property is    *)
(* that a request at work never holds a cancelled entry: such an execution  *)
(* is not resumed, and a cancelled request is at its end. Otherwise a later *)
(* error would be written over a record that reads TERMINATED.              *)
(***************************************************************************)
Uncancelled == {e \in Entries : e.status # "TERMINATED"}

RecordInv ==
  /\ StateMatchesRecord
  /\ \A r \in Requests : pc[r] \in Active => run[r].data \in Seq(Uncancelled)

\* The two ways of saying that a record holds no cancellation agree.
LEMMA UncancelledSeq ==
  ASSUME NEW d \in Seq(Entries)
  PROVE  d \in Seq(Uncancelled) <=> ~Has(d, "TERMINATED")
<1>1. ASSUME d \in Seq(Uncancelled) PROVE ~Has(d, "TERMINATED")
  <2>1. \A i \in 1 .. Len(d) : d[i] \in Uncancelled
    <3> HIDE DEF Uncancelled
    <3> QED BY <1>1
  <2> QED BY <2>1 DEF Has, Uncancelled
<1>2. ASSUME ~Has(d, "TERMINATED") PROVE d \in Seq(Uncancelled)
  <2>1. \A i \in 1 .. Len(d) : d[i] \in Entries
    <3> HIDE DEF Entries
    <3> QED OBVIOUS
  <2>2. \A i \in 1 .. Len(d) : d[i] \in Uncancelled
    BY <1>2, <2>1 DEF Has, Uncancelled
  <2> HIDE DEF Uncancelled, Entries
  <2>3. Len(d) \in Nat /\ d = [i \in 1 .. Len(d) |-> d[i]]
    OBVIOUS
  <2> QED BY <2>2, <2>3
<1> QED BY <1>1, <1>2

\* The status the catch block writes is the one its record computes to.
LEMMA CaughtStatus ==
  ASSUME NEW d \in Seq(Uncancelled), NEW n \in AllNodes,
         NEW status \in {"ERROR", "TERMINATED"}
  PROVE  StatusOf(Append(d, Entry(n, status))) = status
<1> DEFINE e == Entry(n, status)
           a == Append(d, e)
<1>1. /\ Len(a) = Len(d) + 1 /\ Len(d) \in Nat
      /\ a[Len(d) + 1] = e
      /\ \A i \in 1 .. Len(d) : a[i] = d[i] /\ d[i] \in Uncancelled
  <2> HIDE DEF e, Uncancelled
  <2> QED OBVIOUS
<1>2. Has(a, status)
  <2>1. e.status = status
    BY DEF Entry
  <2> HIDE DEF a, e
  <2> QED BY <1>1, <2>1 DEF Has
<1>3. Has(a, "TERMINATED") => status = "TERMINATED"
  <2> SUFFICES ASSUME NEW i \in 1 .. Len(a), a[i].status = "TERMINATED"
      PROVE  status = "TERMINATED"
    BY DEF Has
  <2>1. e.status = status
    BY DEF Entry
  <2> HIDE DEF a, e
  <2>2. CASE i = Len(d) + 1
    BY <1>1, <2>1, <2>2
  <2>3. CASE i \in 1 .. Len(d)
    BY <1>1, <2>3 DEF Uncancelled
  <2> QED BY <1>1, <2>2, <2>3
<1>4. StatusOf(a) = status
  <2> HIDE DEF a
  <2> QED BY <1>2, <1>3 DEF StatusOf
<1> QED BY <1>4

\* What a resume takes over is never cancelled.
LEMMA ResumedUncancelled ==
  ASSUME NEW row \in Rows, Resumable(row), row.state = StatusOf(row.data)
  PROVE  ResumeData(row) \in Seq(Uncancelled)
<1> DEFINE d == row.data
<1>1. d \in Seq(Entries) /\ ~Has(d, "TERMINATED")
  BY DEF Rows, Resumable, StatusOf
<1>2. d \in Seq(Uncancelled)
  <2> HIDE DEF d
  <2> QED BY <1>1, UncancelledSeq
<1>3. SubSeq(d, 1, Len(d) - 1) \in Seq(Uncancelled)
  <2> HIDE DEF d, Uncancelled
  <2>1. Len(d) \in Nat /\ Len(d) - 1 <= Len(d)
    BY <1>2
  <2> QED BY <1>2, <2>1
<1> QED BY <1>2, <1>3 DEF ResumeData

\* A node of an active request appends an entry that is not a cancellation.
LEMMA NodeUncancelled ==
  ASSUME TypeInv, NEW r \in Requests, Turn(r), run[r].data \in Seq(Uncancelled),
         NEW status \in {"FINISHED", "STOPPED"}
  PROVE  Append(DataBefore(r), Entry(Current(r), status)) \in Seq(Uncancelled)
<1>1. DataBefore(r) \in Seq(Uncancelled)
  <2> HIDE DEF Uncancelled
  <2> QED BY WithoutType DEF DataBefore
<1>2. Entry(Current(r), status) \in Uncancelled
  BY CurrentType DEF TypeInv, Entry, Entries, NodeStates, Uncancelled
<1> HIDE DEF Uncancelled
<1> QED BY <1>1, <1>2

\* A row written with a status that fits keeps the rows truthful.
LEMMA RowsStayTrue ==
  ASSUME TypeInv, StateMatchesRecord, NEW r \in Requests, pc[r] \in Active, NEW row \in Rows,
         row.state # "INPROGRESS" => row.state = StatusOf(row.data),
         execs' = [execs EXCEPT ![run[r].exec] = row]
  PROVE  StateMatchesRecord'
<1>1. /\ Len(execs') = Len(execs)
      /\ execs'[run[r].exec] = row
      /\ \A j \in 1 .. Len(execs) : j # run[r].exec => execs'[j] = execs[j]
  BY RowUpdateType DEF TypeInv, Points
<1> SUFFICES ASSUME NEW i \in 1 .. Len(execs), execs'[i].state # "INPROGRESS"
    PROVE  execs'[i].state = StatusOf(execs'[i].data)
  BY <1>1 DEF StateMatchesRecord
<1>2. CASE i = run[r].exec
  BY <1>1, <1>2
<1>3. CASE i # run[r].exec
  BY <1>1, <1>3 DEF StateMatchesRecord
<1> QED BY <1>2, <1>3

\* Every step keeps the rows truthful.
LEMMA RecordStep == TypeInv /\ RecordInv /\ [Next]_vars => RecordInv'
<1> SUFFICES ASSUME TypeInv, RecordInv, [Next]_vars PROVE RecordInv'
  OBVIOUS
<1> DEFINE Kept(q) == pc[q] \in Active => run[q].data \in Seq(Uncancelled)
<1>1. TypeOK /\ StateMatchesRecord /\ \A q \in Requests : Kept(q)
  BY DEF TypeInv, RecordInv
<1>2. ASSUME NEW r \in Requests, StateMatchesRecord', Kept(r)',
             \A q \in Requests \ {r} : pc'[q] = pc[q] /\ run'[q] = run[q]
      PROVE  RecordInv'
  BY <1>1, <1>2 DEF RecordInv
<1>3. ASSUME NEW r \in Requests, Start(r) PROVE RecordInv'
  <2> DEFINE row == [state |-> "INPROGRESS", data |-> <<>>]
  <2>1. StateMatchesRecord'
    <3>1. execs' = Append(execs, row) /\ execs \in Seq(Rows) /\ row.state = "INPROGRESS"
      BY <1>1, <1>3 DEF Start, TypeOK
    <3> HIDE DEF row, Rows
    <3> QED BY <1>1, <3>1 DEF StateMatchesRecord
  <2>2. /\ run'[r].data = <<>>
        /\ \A q \in Requests \ {r} : pc'[q] = pc[q] /\ run'[q] = run[q]
    BY <1>1, <1>3 DEF Start, Goto, TypeOK, FreshRun
  <2>3. <<>> \in Seq(Uncancelled)
    OBVIOUS
  <2> QED BY <1>2, <1>3, <2>1, <2>2, <2>3
<1>4. ASSUME NEW r \in Requests, Resume(r) PROVE RecordInv'
  <2> DEFINE row == execs[Len(execs)]
  <2>1. /\ UNCHANGED execs /\ execs # <<>> /\ Resumable(row)
        /\ run'[r].data = ResumeData(row)
        /\ \A q \in Requests \ {r} : pc'[q] = pc[q] /\ run'[q] = run[q]
    BY <1>1, <1>4 DEF Resume, CanResume, Goto, TypeOK, FreshRun
  <2>2. Len(execs) \in 1 .. Len(execs) /\ row \in Rows
    <3>1. execs \in Seq(Rows)
      BY <1>1 DEF TypeOK
    <3> HIDE DEF Rows
    <3> QED BY <2>1, <3>1
  <2>3. row.state = StatusOf(row.data)
    BY <1>1, <2>1, <2>2 DEF StateMatchesRecord, Resumable
  <2>4. ResumeData(row) \in Seq(Uncancelled)
    <3> HIDE DEF row
    <3> QED BY <2>1, <2>2, <2>3, ResumedUncancelled
  <2>5. StateMatchesRecord'
    BY <1>1, <2>1 DEF StateMatchesRecord
  <2> QED BY <1>2, <1>4, <2>1, <2>4, <2>5
<1>5. ASSUME NEW r \in Requests,
             \/ RejectStart(r) \/ RejectResume(r) \/ ClaimRead(r) \/ IterationLimit(r)
             \/ Abort(r) \/ Crash(r)
      PROVE  RecordInv'
  <2>1. UNCHANGED <<execs, run>> /\ \A q \in Requests \ {r} : pc'[q] = pc[q]
    BY <1>1, <1>5 DEF RejectStart, RejectResume, ClaimRead, IterationLimit, Abort, Crash,
       Goto, TypeOK
  <2>2. pc'[r] \in Active => pc[r] \in Active
    BY <1>1, <1>5 DEF RejectStart, RejectResume, ClaimRead, IterationLimit, Abort, Crash,
       Goto, TypeOK, Active, Claiming
  <2> QED BY <1>1, <1>2, <2>1, <2>2 DEF StateMatchesRecord
<1>6. ASSUME NEW r \in Requests, TrimError(r) PROVE RecordInv'
  <2> DEFINE row == [state |-> "INPROGRESS", data |-> run[r].data]
  <2>1. row \in Rows /\ row.state = "INPROGRESS"
    BY <1>1, RunFields DEF Rows, RowStates
  <2>2. /\ pc[r] \in Active /\ UNCHANGED run
        /\ \A q \in Requests \ {r} : pc'[q] = pc[q]
    BY <1>1, <1>6 DEF TrimError, Goto, TypeOK, Active, Claiming
  <2>3. execs' = [execs EXCEPT ![run[r].exec] = row]
    BY <1>6 DEF TrimError
  <2>4. StateMatchesRecord'
    <3> HIDE DEF row
    <3> QED BY <1>1, <2>1, <2>2, <2>3, RowsStayTrue
  <2> QED BY <1>1, <1>2, <2>2, <2>4
<1>7. ASSUME NEW r \in Requests, ClaimSave(r) PROVE RecordInv'
  <2> DEFINE row == [snap[r] EXCEPT !.state = "INPROGRESS"]
  <2>1. row \in Rows /\ row.state = "INPROGRESS"
    BY <1>1 DEF TypeOK, Rows, RowStates
  <2>2. /\ pc[r] \in Active /\ UNCHANGED run
        /\ \A q \in Requests \ {r} : pc'[q] = pc[q]
    BY <1>1, <1>7 DEF ClaimSave, Goto, TypeOK, Active, Claiming
  <2>3. execs' = [execs EXCEPT ![run[r].exec] = row]
    BY <1>7 DEF ClaimSave
  <2>4. StateMatchesRecord'
    <3> HIDE DEF row
    <3> QED BY <1>1, <2>1, <2>2, <2>3, RowsStayTrue
  <2> QED BY <1>1, <1>2, <2>2, <2>4
<1>8. ASSUME NEW r \in Requests, SkipUnknown(r) PROVE RecordInv'
  <2>1. /\ UNCHANGED <<execs, pc>> /\ run'[r].data = run[r].data
        /\ \A q \in Requests \ {r} : run'[q] = run[q]
    BY <1>1, <1>8 DEF SkipUnknown, TypeOK, Run
  <2> QED BY <1>1, <1>2, <2>1 DEF StateMatchesRecord
<1>9. ASSUME NEW r \in Requests, PauseNode(r) PROVE RecordInv'
  <2>1. /\ UNCHANGED execs /\ Turn(r) /\ pc[r] \in Active
        /\ run'[r].data = Append(DataBefore(r), Entry(Current(r), "STOPPED"))
        /\ \A q \in Requests \ {r} : pc'[q] = pc[q] /\ run'[q] = run[q]
    BY <1>1, <1>9 DEF PauseNode, Executes, Turn, Active, Goto, TypeOK, Run
  <2>2. run'[r].data \in Seq(Uncancelled)
    BY <1>1, <2>1, NodeUncancelled
  <2> QED BY <1>1, <1>2, <2>1, <2>2 DEF StateMatchesRecord
<1>10. ASSUME NEW r \in Requests, FinishNode(r) PROVE RecordInv'
  <2>1. PICK fulfilled : run' = [run EXCEPT ![r] = AfterFinish(r, fulfilled)]
    BY <1>10 DEF FinishNode
  <2>2. AfterFinish(r, fulfilled).data = Append(DataBefore(r), Entry(Current(r), "FINISHED"))
    BY <1>1 DEF AfterFinish, TypeOK, Run
  <2>3. /\ UNCHANGED <<execs, pc>> /\ Turn(r) /\ pc[r] \in Active
        /\ run'[r].data = Append(DataBefore(r), Entry(Current(r), "FINISHED"))
        /\ \A q \in Requests \ {r} : run'[q] = run[q]
    BY <1>1, <1>10, <2>1, <2>2 DEF FinishNode, Executes, Turn, Active, TypeOK
  <2>4. run'[r].data \in Seq(Uncancelled)
    BY <1>1, <2>3, NodeUncancelled
  <2> QED BY <1>1, <1>2, <2>3, <2>4 DEF StateMatchesRecord
<1>11. ASSUME NEW r \in Requests, NEW status \in {"ERROR", "TERMINATED"},
              Turn(r), CatchError(r, status)
       PROVE  RecordInv'
  <2>1. PICK row \in Rows :
          /\ row = [state |-> status,
                    data |-> Append(run[r].data, Entry(Current(r), status))]
          /\ execs' = [execs EXCEPT ![run[r].exec] = row]
    BY <1>11, CatchFrame
  <2>2. pc[r] \in Active /\ run[r].data \in Seq(Uncancelled) /\ Current(r) \in AllNodes
    BY <1>1, <1>11, CurrentType DEF Turn, Active
  <2>3. row.state = StatusOf(row.data)
    BY <2>1, <2>2, CaughtStatus
  <2>4. StateMatchesRecord'
    BY <1>1, <2>1, <2>2, <2>3, RowsStayTrue
  <2>5. pc'[r] = "failed" /\ \A q \in Requests \ {r} : pc'[q] = pc[q] /\ run'[q] = run[q]
    BY <1>11, CatchFrame
  <2> QED BY <1>2, <2>4, <2>5 DEF Active, Claiming
<1>12. ASSUME NEW r \in Requests, Complete(r) PROVE RecordInv'
  <2> DEFINE row == [state |-> StatusOf(run[r].data), data |-> run[r].data]
  <2>1. row \in Rows /\ row.state = StatusOf(row.data)
    BY <1>1, RunFields, StatusType DEF Rows, RowStates
  <2>2. /\ pc[r] \in Active /\ UNCHANGED run /\ pc'[r] \notin Active
        /\ \A q \in Requests \ {r} : pc'[q] = pc[q]
    BY <1>1, <1>12 DEF Complete, Goto, TypeOK, Active, Claiming
  <2>3. execs' = [execs EXCEPT ![run[r].exec] = row]
    BY <1>12 DEF Complete
  <2>4. StateMatchesRecord'
    <3> HIDE DEF row
    <3> QED BY <1>1, <2>1, <2>2, <2>3, RowsStayTrue
  <2> QED BY <1>2, <2>2, <2>4
<1>13. CASE EditFlow
  BY <1>1, <1>13 DEF EditFlow, RecordInv, StateMatchesRecord
<1>14. CASE UNCHANGED vars
  BY <1>1, <1>14 DEF vars, RecordInv, StateMatchesRecord
<1> QED
  BY <1>3, <1>4, <1>5, <1>6, <1>7, <1>8, <1>9, <1>10, <1>11, <1>12, <1>13, <1>14
  DEF Next, Step, FailNode, AbortNode, Executes

\* A row that is not in progress always tells the truth about its record,
\* whichever requests wrote it and in whatever order.
THEOREM RowsAreTrue == Spec => []StateMatchesRecord
<1>1. Init => RecordInv
  BY DEF Init, RecordInv, StateMatchesRecord, Active, Claiming
<1>2. RecordInv => StateMatchesRecord
  BY DEF RecordInv
<1> QED BY <1>1, <1>2, TypeAlways, RecordStep, PTL DEF Spec
-----------------------------------------------------------------------------
(***************************************************************************)
(* The life of an execution. With one request at a time the row a request   *)
(* works on is the newest, and what the request has read of it still holds: *)
(* the pause (or the failure after a pause) it is about to leave is there,  *)
(* and from the moment the row is claimed it is in progress until the       *)
(* request settles it.                                                      *)
(***************************************************************************)
Alone == \A q, r \in Requests : pc[q] \in Active /\ pc[r] \in Active => q = r

InHand(r) ==
  LET row == execs[run[r].exec]
  IN  /\ pc[r] \in Active => run[r].exec = Len(execs)
      /\ pc[r] = "trim" => Stage(row) = "retryable"
      /\ pc[r] \in {"claim", "claimed"} => Stage(row) \in {"running", "paused"}
      /\ pc[r] = "claimed" => snap[r] = row
      /\ pc[r] \in {"running", "closing"} => row.state = "INPROGRESS"

SerialInv == Alone /\ \A r \in Requests : InHand(r)

\* The stages a row written by a request can have.
LEMMA StageOfRow ==
  ASSUME NEW row \in Rows
  PROVE  /\ row.state = "INPROGRESS" <=> Stage(row) = "running"
         /\ row.state = "STOPPED" <=> Stage(row) = "paused"
         /\ (row.state = "ERROR" /\ FailedAfterPause(row.data)) <=> Stage(row) = "retryable"
         /\ Stage(row) \in {"running", "paused", "retryable", "closed"}
BY DEF Stage, Rows, RowStates, NodeStates

\* What the steps of one request leave of the invariant.
LEMMA SerialOfOne ==
  ASSUME TypeInv, SerialInv, NEW r \in Requests, pc[r] \in Active,
         \A q \in Requests \ {r} : pc'[q] = pc[q],
         InHand(r)'
  PROVE  SerialInv'
<1>1. ASSUME NEW q \in Requests, q # r PROVE pc'[q] \notin Active
  BY <1>1 DEF SerialInv, Alone
<1>2. ASSUME NEW q \in Requests, q # r PROVE InHand(q)'
  BY <1>1, <1>2 DEF InHand, Active, Claiming
<1> QED BY <1>1, <1>2 DEF SerialInv, Alone

\* A request that arrives finds nobody at work.
LEMMA ArrivesAlone ==
  ASSUME "overlap" \notin Env, NEW r \in Requests, MayArrive(r)
  PROVE  \A q \in Requests : pc[q] \notin Active
BY DEF MayArrive

\* Arrivals keep the invariant.
LEMMA SerialArrival ==
  ASSUME "overlap" \notin Env, TypeInv, TypeInv', SerialInv, NEW r \in Requests,
         Start(r) \/ RejectStart(r) \/ Resume(r) \/ RejectResume(r)
  PROVE  SerialInv'
<1> USE DEF TypeInv
<1>1. \A q \in Requests : pc[q] \notin Active
  BY ArrivesAlone DEF Start, RejectStart, Resume, RejectResume
<1>2. PICK label : Goto(r, label)
  BY DEF Start, RejectStart, Resume, RejectResume
<1>3. \A q \in Requests \ {r} : pc'[q] = pc[q]
  BY <1>2 DEF Goto, TypeOK
<1>4. \A q \in Requests \ {r} : pc'[q] \notin Active
  BY <1>1, <1>3
<1>5. Alone'
  BY <1>4 DEF Alone
<1>6. \A q \in Requests \ {r} : InHand(q)'
  BY <1>4 DEF InHand, Active, Claiming
<1>7. InHand(r)'
  <2>1. CASE Start(r)
    <3>1. pc'[r] = "running"
      BY <2>1 DEF Start, Goto, TypeOK
    <3> DEFINE row == [state |-> "INPROGRESS", data |-> <<>>]
    <3>2. execs' = Append(execs, row) /\ execs \in Seq(Rows) /\ row \in Rows
      BY <2>1 DEF Start, TypeOK, Rows, RowStates
    <3>3. Len(execs') = Len(execs) + 1 /\ execs'[Len(execs) + 1] = row
      <4> HIDE DEF row, Rows
      <4> QED BY <3>2
    <3>4. run'[r].exec = Len(execs) + 1
      <4>1. FreshRun(deployed) \in Run
        BY FreshRunType DEF TypeOK
      <4> DEFINE queue == IF StartNodes(deployed) = {} THEN <<>>
                          ELSE <<CHOOSE n \in StartNodes(deployed) : TRUE>>
                 new == [FreshRun(deployed) EXCEPT !.exec = Len(execs) + 1, !.queue = queue]
      <4>2. new.exec = Len(execs) + 1
        <5> HIDE DEF queue
        <5> QED BY <4>1 DEF Run
      <4>3. run'[r] = new
        <5> HIDE DEF new
        <5>1. run' = [run EXCEPT ![r] = new]
          BY <2>1 DEF Start, new
        <5> QED BY <5>1 DEF TypeOK
      <4> QED BY <4>2, <4>3
    <3> QED BY <3>1, <3>3, <3>4 DEF InHand
  <2>2. CASE RejectStart(r) \/ RejectResume(r)
    <3>1. pc'[r] = "rejected"
      BY <2>2 DEF RejectStart, RejectResume, Goto, TypeOK
    <3> QED BY <3>1 DEF InHand, Active, Claiming
  <2>3. CASE Resume(r)
    <3> DEFINE row == execs[Len(execs)]
    <3>1. execs' = execs /\ execs \in Seq(Rows) /\ execs # <<>>
      BY <2>3 DEF Resume, TypeOK
    <3>2. row \in Rows
      <4> HIDE DEF Rows
      <4> QED BY <3>1
    <3>3. /\ Resumable(row)
          /\ run'[r].exec = Len(execs)
          /\ Goto(r, IF row.state = "ERROR" THEN "trim" ELSE "claim")
      <4>1. PICK named \in NamedNodes, answer \in Answers :
              /\ CanResume(row, named)
              /\ run' = [run EXCEPT ![r] =
                   [FreshRun(deployed) EXCEPT
                      !.exec    = Len(execs),
                      !.resumed = TRUE,
                      !.human   = [node |-> ResumeNode(row, named), answer |-> answer],
                      !.data    = ResumeData(row),
                      !.queue   = <<ResumeNode(row, named)>>]]
              /\ Goto(r, IF row.state = "ERROR" THEN "trim" ELSE "claim")
        BY <2>3 DEF Resume
      <4>2. FreshRun(deployed) \in Run
        BY FreshRunType DEF TypeOK
      <4>3. run'[r].exec = Len(execs)
        <5> HIDE DEF row
        <5> QED BY <4>1, <4>2 DEF TypeOK, Run
      <4> QED BY <4>1, <4>3 DEF CanResume
    <3>4. pc'[r] = IF row.state = "ERROR" THEN "trim" ELSE "claim"
      BY <3>3 DEF Goto, TypeOK
    <3>5. IF row.state = "ERROR" THEN Stage(row) = "retryable" ELSE Stage(row) = "paused"
      <4> HIDE DEF row
      <4> QED BY <3>2, <3>3, StageOfRow DEF Resumable
    <3> HIDE DEF row
    <3>6. execs'[run'[r].exec] = row /\ run'[r].exec = Len(execs')
      BY <3>1, <3>3 DEF row
    <3> QED BY <3>4, <3>5, <3>6 DEF InHand
  <2> QED BY <2>1, <2>2, <2>3
<1> QED BY <1>5, <1>6, <1>7 DEF SerialInv

\* A step of a request in progress, by what it does to its row and its place.
LEMMA SerialActive ==
  ASSUME TypeInv, TypeInv', SerialInv, NEW r \in Requests, Step(r)
  PROVE  SerialInv'
<1> USE DEF TypeInv
<1> DEFINE row == execs[run[r].exec]
<1>1. /\ pc[r] \in Active
      /\ execs \in Seq(Rows)
      /\ run[r].exec \in 1 .. Len(execs)
      /\ run[r].exec = Len(execs)
  <2>1. pc[r] \in Active
    BY DEF Step, TrimError, ClaimRead, ClaimSave, IterationLimit, SkipUnknown, PauseNode,
           FinishNode, FailNode, AbortNode, Complete, Executes, Turn, Active, Claiming
  <2> QED BY <2>1 DEF Points, TypeOK, SerialInv, InHand
<1>2. row \in Rows
  <2> HIDE DEF Rows
  <2> QED BY <1>1
<1>3. InHand(r)
  BY DEF SerialInv
<1>4. CASE TrimError(r)
  <2> DEFINE new == [state |-> "INPROGRESS", data |-> run[r].data]
  <2>1. new \in Rows
    BY <1>1, RunFields DEF Rows, RowStates
  <2>2. execs' = [execs EXCEPT ![run[r].exec] = new]
    BY <1>4 DEF TrimError
  <2>3. Len(execs') = Len(execs) /\ execs'[run[r].exec] = new
    <3> HIDE DEF new
    <3> QED BY <1>1, <2>1, <2>2, RowUpdateType
  <2>4. Stage(new) = "running"
    BY DEF Stage
  <2>5. /\ run' = run /\ pc'[r] = "claim"
        /\ \A q \in Requests \ {r} : pc'[q] = pc[q]
    BY <1>4 DEF TrimError, Goto, TypeOK
  <2>6. InHand(r)'
    BY <1>1, <2>3, <2>4, <2>5 DEF InHand
  <2> QED BY <1>1, <2>5, <2>6, SerialOfOne
<1>5. CASE ClaimRead(r)
  <2>1. /\ UNCHANGED <<execs, run>> /\ pc'[r] = "claimed" /\ snap'[r] = row
        /\ \A q \in Requests \ {r} : pc'[q] = pc[q]
    BY <1>5 DEF ClaimRead, Goto, TypeOK
  <2>2. InHand(r)'
    BY <1>1, <1>3, <1>5, <2>1 DEF InHand, ClaimRead
  <2> QED BY <1>1, <2>1, <2>2, SerialOfOne
<1>6. CASE ClaimSave(r)
  <2> DEFINE new == [snap[r] EXCEPT !.state = "INPROGRESS"]
  <2>1. new \in Rows /\ new.state = "INPROGRESS"
    <3>1. snap[r] \in Rows
      BY DEF TypeOK
    <3> QED BY <3>1 DEF Rows, RowStates
  <2>2. execs' = [execs EXCEPT ![run[r].exec] = new]
    BY <1>6 DEF ClaimSave
  <2>3. Len(execs') = Len(execs) /\ execs'[run[r].exec] = new
    <3> HIDE DEF new
    <3> QED BY <1>1, <2>1, <2>2, RowUpdateType
  <2>4. /\ run' = run /\ pc'[r] = "running"
        /\ \A q \in Requests \ {r} : pc'[q] = pc[q]
    BY <1>6 DEF ClaimSave, Goto, TypeOK
  <2>5. InHand(r)'
    <3> HIDE DEF new
    <3> QED BY <1>1, <2>1, <2>3, <2>4 DEF InHand
  <2> QED BY <1>1, <2>4, <2>5, SerialOfOne
<1>7. CASE IterationLimit(r) \/ FailNode(r) \/ AbortNode(r) \/ Complete(r)
  <2>1. pc'[r] \notin Active /\ \A q \in Requests \ {r} : pc'[q] = pc[q]
    BY <1>7 DEF IterationLimit, FailNode, AbortNode, CatchError, Complete, Goto, TypeOK,
                Active, Claiming
  <2>2. InHand(r)'
    BY <2>1 DEF InHand, Active, Claiming
  <2> QED BY <1>1, <2>1, <2>2, SerialOfOne
<1>8. CASE SkipUnknown(r) \/ PauseNode(r) \/ FinishNode(r)
  <2>1. UNCHANGED execs /\ pc[r] = "running"
    BY <1>8 DEF SkipUnknown, PauseNode, FinishNode, Executes, Turn
  <2>2. pc'[r] \in {"running", "closing"} /\ \A q \in Requests \ {r} : pc'[q] = pc[q]
    BY <1>8, <2>1 DEF SkipUnknown, PauseNode, FinishNode, Goto, TypeOK
  <2>3. run'[r].exec = run[r].exec
    <3>1. run[r] \in Run
      BY RunFields
    <3>2. CASE SkipUnknown(r)
      BY <3>1, <3>2 DEF SkipUnknown, TypeOK, Run
    <3>3. CASE PauseNode(r)
      <4> DEFINE d == Append(DataBefore(r), Entry(Current(r), "STOPPED"))
                 h == IF Consumes(r) THEN NoInput ELSE run[r].human
      <4>1. run'[r] = [run[r] EXCEPT !.data = d, !.human = h,
                         !.queue = Tail(@), !.iters = @ + 1]
        BY <3>1, <3>3 DEF PauseNode, TypeOK, Run
      <4> HIDE DEF d, h
      <4> QED BY <3>1, <4>1 DEF Run
    <3>4. CASE FinishNode(r)
      <4>1. PICK fulfilled : run' = [run EXCEPT ![r] = AfterFinish(r, fulfilled)]
        BY <3>4 DEF FinishNode
      <4>2. AfterFinish(r, fulfilled).exec = run[r].exec
        BY <3>1 DEF AfterFinish, Run
      <4> QED BY <4>1, <4>2 DEF TypeOK
    <3> QED BY <1>8, <3>2, <3>3, <3>4
  <2>4. InHand(r)'
    BY <1>1, <1>3, <2>1, <2>2, <2>3 DEF InHand
  <2> QED BY <1>1, <2>2, <2>4, SerialOfOne
<1> QED BY <1>4, <1>5, <1>6, <1>7, <1>8 DEF Step

\* Every step keeps the invariant.
LEMMA SerialStep ==
  "overlap" \notin Env /\ TypeInv /\ SerialInv /\ [Next]_vars => SerialInv'
<1> SUFFICES ASSUME "overlap" \notin Env, TypeInv, SerialInv, [Next]_vars
             PROVE  SerialInv'
  OBVIOUS
<1>1. TypeInv'
  BY TypeStep
<1>2. ASSUME NEW r \in Requests, Start(r) \/ RejectStart(r) \/ Resume(r) \/ RejectResume(r)
      PROVE  SerialInv'
  BY <1>1, <1>2, SerialArrival
<1>3. ASSUME NEW r \in Requests, Step(r) PROVE SerialInv'
  BY <1>1, <1>3, SerialActive
<1>4. ASSUME NEW r \in Requests, Abort(r) PROVE SerialInv'
  BY <1>4 DEF Abort, SerialInv, Alone, InHand
<1>5. ASSUME NEW r \in Requests, Crash(r) PROVE SerialInv'
  <2>1. /\ pc[r] \in Active /\ pc'[r] \notin Active
        /\ \A q \in Requests \ {r} : pc'[q] = pc[q]
    BY <1>5 DEF Crash, Goto, TypeInv, TypeOK, Active, Claiming
  <2>2. InHand(r)'
    BY <2>1 DEF InHand, Active, Claiming
  <2> QED BY <2>1, <2>2, SerialOfOne
<1>6. CASE EditFlow
  BY <1>6 DEF EditFlow, SerialInv, Alone, InHand
<1>7. CASE UNCHANGED vars
  BY <1>7 DEF vars, SerialInv, Alone, InHand
<1> QED BY <1>2, <1>3, <1>4, <1>5, <1>6, <1>7 DEF Next

\* The stages of the rows, which the abstract specification sees.
Life == [i \in 1 .. Len(execs) |-> Stage(execs[i])]

\* Writing one row moves one execution to the stage of what is written.
LEMMA LifeOfWrite ==
  ASSUME TypeOK, NEW i \in 1 .. Len(execs), NEW row \in Rows, execs' = [execs EXCEPT ![i] = row]
  PROVE  Life' = [Life EXCEPT ![i] = Stage(row)]
<1>1. /\ Len(execs') = Len(execs)
      /\ execs'[i] = row
      /\ \A j \in 1 .. Len(execs) : j # i => execs'[j] = execs[j]
  BY RowUpdateType
<1> DEFINE moved == [Life EXCEPT ![i] = Stage(row)]
<1>2. Life' = [j \in 1 .. Len(execs) |-> Stage(execs'[j])]
  BY <1>1 DEF Life
<1>3. moved = [j \in 1 .. Len(execs) |-> IF j = i THEN Stage(row) ELSE Stage(execs[j])]
  BY DEF Life
<1>4. \A j \in 1 .. Len(execs) :
        Stage(execs'[j]) = IF j = i THEN Stage(row) ELSE Stage(execs[j])
  BY <1>1
<1> QED
  <2> HIDE DEF moved
  <2>1. Life' = moved
    BY <1>2, <1>3, <1>4
  <2> QED BY <2>1 DEF moved

\* A new row begins an execution.
LEMMA LifeOfAppend ==
  ASSUME TypeOK, execs' = Append(execs, NoRow)
  PROVE  Life' = Append(Life, "running")
<1>1. execs \in Seq(Rows) /\ Stage(NoRow) = "running" /\ NoRow \in Rows
  BY DEF TypeOK, NoRow, Stage, Rows, RowStates
<1>2. /\ Len(execs') = Len(execs) + 1
      /\ execs'[Len(execs) + 1] = NoRow
      /\ \A j \in 1 .. Len(execs) : execs'[j] = execs[j]
  <2> HIDE DEF Rows
  <2> QED BY <1>1
<1> DEFINE Steps == {"running", "paused", "retryable", "closed"}
<1>3. Life \in Seq(Steps) /\ Len(Life) = Len(execs)
  <2>1. \A j \in 1 .. Len(execs) : Stage(execs[j]) \in {"running", "paused", "retryable", "closed"}
    BY DEF Stage
  <2> QED BY <1>1, <2>1 DEF Life
<1>4. Life' = [j \in 1 .. Len(execs) + 1 |-> Stage(execs'[j])]
  BY <1>2 DEF Life
<1> DEFINE more == Append(Life, "running")
<1>5. /\ more = [j \in 1 .. Len(execs) + 1 |-> more[j]]
      /\ more[Len(execs) + 1] = "running"
      /\ \A j \in 1 .. Len(execs) : more[j] = Life[j]
  <2>1. "running" \in Steps /\ Len(execs) \in Nat
    BY <1>1
  <2> HIDE DEF Steps
  <2>2. /\ more \in Seq(Steps) /\ Len(more) = Len(execs) + 1
        /\ more[Len(execs) + 1] = "running"
        /\ \A j \in 1 .. Len(execs) : more[j] = Life[j]
    BY <1>3, <2>1
  <2>3. more = [j \in 1 .. Len(execs) + 1 |-> more[j]]
    <3> HIDE DEF more
    <3> QED BY <2>2
  <2> QED BY <2>2, <2>3
<1>6. \A j \in 1 .. Len(execs) + 1 : more[j] = Stage(execs'[j])
  <2> SUFFICES ASSUME NEW j \in 1 .. Len(execs) + 1 PROVE more[j] = Stage(execs'[j])
    OBVIOUS
  <2>1. CASE j = Len(execs) + 1
    BY <1>1, <1>2, <1>5, <2>1
  <2>2. CASE j # Len(execs) + 1
    <3>1. j \in 1 .. Len(execs)
      BY <1>1, <2>2
    <3> QED BY <1>2, <1>5, <3>1 DEF Life
  <2> QED BY <2>1, <2>2
<1> QED
  <2> HIDE DEF more
  <2>1. Life' = more
    BY <1>4, <1>5, <1>6
  <2> QED BY <2>1 DEF more

\* Every step of the engine is a step of the life of one execution, or none.
LEMMA LifeStep == TypeInv /\ SerialInv /\ [Next]_vars => [Lifecycle!Next]_Life
<1> SUFFICES ASSUME TypeInv, SerialInv, [Next]_vars
             PROVE  [Lifecycle!Next]_Life
  OBVIOUS
<1>0. TypeOK /\ execs \in Seq(Rows) /\ Len(execs) \in Nat
  BY DEF TypeInv, TypeOK
<1>1. CASE UNCHANGED execs
  BY <1>1 DEF Life
<1>2. ASSUME NEW r \in Requests, Start(r) PROVE Lifecycle!Begin
  <2>1. execs' = Append(execs, NoRow)
    BY <1>2 DEF Start, NoRow
  <2> QED BY <1>0, <2>1, LifeOfAppend DEF Lifecycle!Begin, Life
<1>3. ASSUME NEW r \in Requests, TrimError(r) \/ ClaimSave(r)
      PROVE  Lifecycle!Reopen(Len(execs)) \/ UNCHANGED Life
  <2>1. pc[r] \in Active /\ InHand(r) /\ run[r].exec \in 1 .. Len(execs)
    BY <1>3 DEF TrimError, ClaimSave, Active, Claiming, SerialInv, TypeInv, Points
  <2> DEFINE row == execs[run[r].exec]
  <2>2. /\ run[r].exec = Len(execs)
        /\ pc[r] = "trim" => Stage(row) = "retryable"
        /\ pc[r] = "claimed" => Stage(row) \in {"running", "paused"}
        /\ pc[r] = "claimed" => snap[r] = row
    BY <2>1 DEF InHand
  <2>3. PICK new \in Rows : /\ new.state = "INPROGRESS"
                            /\ execs' = [execs EXCEPT ![run[r].exec] = new]
    <3>1. CASE TrimError(r)
      <4>1. [state |-> "INPROGRESS", data |-> run[r].data] \in Rows
        BY <1>0, RunFields DEF Rows, RowStates
      <4> QED BY <3>1, <4>1 DEF TrimError
    <3>2. CASE ClaimSave(r)
      <4>1. snap[r] \in Rows
        BY <1>0 DEF TypeOK
      <4>2. [snap[r] EXCEPT !.state = "INPROGRESS"] \in Rows
            /\ [snap[r] EXCEPT !.state = "INPROGRESS"].state = "INPROGRESS"
        BY <4>1 DEF Rows, RowStates
      <4> QED BY <3>2, <4>2 DEF ClaimSave
    <3> QED BY <1>3, <3>1, <3>2
  <2>4. Stage(new) = "running"
    BY <2>3 DEF Stage
  <2>5. Life' = [Life EXCEPT ![Len(execs)] = "running"]
    BY <1>0, <2>1, <2>2, <2>3, <2>4, LifeOfWrite
  <2>6. Life[Len(execs)] = Stage(row) /\ Len(Life) = Len(execs)
    BY <1>0, <2>1, <2>2 DEF Life
  <2>7. Stage(row) \in {"running", "paused", "retryable"}
    BY <1>3, <2>2 DEF TrimError, ClaimSave
  <2>8. CASE Stage(row) = "running"
    <3>1. Life' = Life
      <4>1. Life = [i \in 1 .. Len(execs) |-> Life[i]]
        BY DEF Life
      <4> HIDE DEF row
      <4> QED BY <2>5, <2>6, <2>8, <4>1
    <3> QED BY <3>1
  <2>9. CASE Stage(row) # "running"
    <3>1. Lifecycle!Reopen(Len(execs))
      BY <2>5, <2>6, <2>7, <2>9 DEF Lifecycle!Reopen, Life
    <3> QED BY <3>1
  <2> QED BY <2>8, <2>9
<1>4. ASSUME NEW r \in Requests, FailNode(r) \/ AbortNode(r) \/ Complete(r)
      PROVE  \E i \in 1 .. Len(execs) : Lifecycle!Settle(i)
  <2>1. pc[r] \in {"running", "closing"} /\ InHand(r) /\ run[r].exec \in 1 .. Len(execs)
    BY <1>4 DEF FailNode, AbortNode, Complete, Executes, Turn, Active, SerialInv, TypeInv, Points
  <2>2. PICK new \in Rows : /\ new.state \in NodeStates
                            /\ execs' = [execs EXCEPT ![run[r].exec] = new]
    <3>1. CASE Complete(r)
      <4> DEFINE new == [state |-> StatusOf(run[r].data), data |-> run[r].data]
      <4>1. new \in Rows /\ new.state \in NodeStates
        BY <1>0, RunFields, StatusType DEF Rows, RowStates
      <4> QED BY <3>1, <4>1 DEF Complete
    <3>2. CASE FailNode(r) \/ AbortNode(r)
      <4>1. PICK status \in {"ERROR", "TERMINATED"} : Turn(r) /\ CatchError(r, status)
        BY <3>2 DEF FailNode, AbortNode, Executes
      <4>2. PICK row \in Rows :
              /\ row = [state |-> status,
                        data |-> Append(run[r].data, Entry(Current(r), status))]
              /\ execs' = [execs EXCEPT ![run[r].exec] = row]
        BY <4>1, CatchFrame
      <4> QED BY <4>1, <4>2 DEF NodeStates
    <3> QED BY <1>4, <3>1, <3>2
  <2>3. Stage(new) \in {"paused", "retryable", "closed"}
    BY <2>2 DEF Stage, NodeStates
  <2>4. Life' = [Life EXCEPT ![run[r].exec] = Stage(new)]
    BY <1>0, <2>1, <2>2, LifeOfWrite
  <2>5. Life[run[r].exec] = "running"
    BY <2>1 DEF InHand, Life, Stage
  <2>6. Lifecycle!Settle(run[r].exec)
    BY <2>3, <2>4, <2>5 DEF Lifecycle!Settle, Life
  <2> QED BY <2>1, <2>6
<1>5. \/ UNCHANGED execs
      \/ \E r \in Requests :
           \/ Start(r) \/ TrimError(r) \/ ClaimSave(r)
           \/ FailNode(r) \/ AbortNode(r) \/ Complete(r)
  BY DEF Next, Step, vars, RejectStart, Resume, RejectResume, ClaimRead, IterationLimit,
         SkipUnknown, PauseNode, FinishNode, Abort, Crash, EditFlow
<1>6. Len(Life) = Len(execs)
  BY <1>0 DEF Life
<1>7. \A i \in 1 .. Len(execs) : Lifecycle!Settle(i) \/ Lifecycle!Reopen(i) => Lifecycle!Next
  BY <1>6 DEF Lifecycle!Next, Life
<1>8. Lifecycle!Begin => Lifecycle!Next
  BY DEF Lifecycle!Next
<1>9. ASSUME NEW r \in Requests, TrimError(r) \/ ClaimSave(r)
      PROVE  Lifecycle!Next \/ UNCHANGED Life
  <2>1. Len(execs) \in 1 .. Len(execs)
    BY <1>0, <1>9 DEF TypeInv, Points, TrimError, ClaimSave, Active, Claiming
  <2> QED BY <1>3, <1>7, <1>9, <2>1
<1> QED
  BY <1>1, <1>2, <1>4, <1>5, <1>7, <1>8, <1>9

\* Without overlapping requests the engine implements ExecutionLifecycle: rows
\* are begun, settled and reopened in the order the abstract specification
\* allows, through every crash, abort, failure, retry and edit of the flow.
THEOREM LifecycleImplemented ==
  ASSUME "overlap" \notin Env
  PROVE  Spec => LifecycleKept
<1>1. Init => SerialInv /\ Lifecycle!Init
  BY DEF Init, SerialInv, Alone, InHand, Active, Claiming, Lifecycle!Init
<1>2. "overlap" \notin Env
  OBVIOUS
<1>3. TypeInv /\ SerialInv /\ [Next]_vars => SerialInv'
  BY <1>2, SerialStep
<1>4. TypeInv /\ SerialInv /\ [Next]_vars => [Lifecycle!Next]_Life
  BY LifeStep
<1> QED
  BY <1>1, <1>3, <1>4, TypeAlways, PTL DEF Spec, LifecycleKept, Lifecycle!Spec, Life
===============================================================================
