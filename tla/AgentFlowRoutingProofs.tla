----------------------- MODULE AgentFlowRoutingProofs -----------------------
(***************************************************************************)
(* Proofs about the routing of AgentFlow, for every flow, any number of     *)
(* requests and any faults.                                                 *)
(*                                                                          *)
(* The first part is about the answer at an approval gate (AnswerIsObeyed). *)
(* The second leads to UnconditionalNodesAlwaysRun, JoinsFireOnceAlways:    *)
(*   1. the graph: Reach is the least closed set, Ancestors are ordered,    *)
(*      FindConditionParent is the nearest decision node (walking up from   *)
(*      first parents);                                                     *)
(*   2. one turn of the engine, child by child: what processNodeOutputs     *)
(*      does to the queue and the waiting nodes;                            *)
(*   3. Flowing, the invariant of one run: a node is fired exactly when it  *)
(*      has got what it requires, fired at most once, and otherwise holds   *)
(*      exactly the inputs that were passed to it;                          *)
(*   4. a run that has come to its end: which nodes have run, and that in a *)
(*      well-formed flow no join is left waiting;                           *)
(*   5. RoutingInv, which carries Flowing through pauses, the stored rows,  *)
(*      resumes and retries, and its preservation, one lemma per action.    *)
(* The last part numbers the rounds of a flow with one Loop node, for       *)
(* LoopIsAlwaysBounded.                                                     *)
(***************************************************************************)
EXTENDS AgentFlowRouting, AgentFlowProofs, FiniteSetTheorems

\* A node to which no edge of n leads, or only edges that are ignored, gets
\* nothing when n hands on its result.
LEMMA IgnoredGetNothing ==
  ASSUME NEW f \in Flows, NEW n \in f.nodes, NEW ignored, NEW m \in f.nodes,
         \A i \in EdgeIds(f) : f.edges[i].src = n /\ f.edges[i].tgt = m => m \in ignored,
         NEW waiting, waiting = [a \in AllNodes |-> {}],
         NEW fan, fan = ProcessChildren(f, n, ignored, <<>>, waiting)
  PROVE  (\A k \in 1 .. Len(fan.queue) : fan.queue[k] # m) /\ fan.waiting[m] = {}
<1> DEFINE Spared == {acc \in Fans : /\ \A k \in 1 .. Len(acc.queue) : acc.queue[k] # m
                                     /\ acc.waiting[m] = {}}
           len == Len(f.edges)
<1>1. waiting \in [AllNodes -> SUBSET AllNodes] /\ <<>> \in Seq(AllNodes)
  OBVIOUS
<1>2. HasFan(f, n, ignored, <<>>, waiting)
  BY <1>1, ProcessChildrenFold
<1>3. PICK g \in [0 .. len -> Fans] :
        /\ g[0] = [queue |-> <<>>, waiting |-> waiting]
        /\ \A k \in 1 .. len : g[k] = Deliver(f, n, ignored, f.edges[k], g[k - 1])
        /\ fan = g[len]
  BY <1>2 DEF HasFan
<1>4. len \in Nat /\ f.nodes \subseteq AllNodes
  BY FlowType
<1>5. g[0] \in Spared
  <2>1. waiting[m] = {}
    BY <1>4
  <2>2. g[0] \in Fans
    BY <1>3, <1>4
  <2>3. g[0].queue = <<>> /\ g[0].waiting = waiting
    BY <1>3
  <2>4. \A k \in 1 .. Len(g[0].queue) : g[0].queue[k] # m
    BY <2>3
  <2> QED BY <2>1, <2>2, <2>3, <2>4
<1>6. ASSUME NEW k \in 1 .. len, g[k - 1] \in Spared PROVE g[k] \in Spared
  <2> DEFINE e == f.edges[k]
             acc == g[k - 1]
  <2>1. g[k] = Deliver(f, n, ignored, e, acc) /\ g[k] \in Fans
    <3>1. k \in 0 .. len
      BY <1>4
    <3> QED BY <1>3, <3>1
  <2>2. CASE e.src # n \/ e.tgt \in ignored
    BY <1>6, <2>1, <2>2 DEF Deliver
  <2>3. CASE ~(e.src # n \/ e.tgt \in ignored)
    <3>1. e.tgt # m
      BY <2>3 DEF EdgeIds
    <3>2. \/ g[k].queue = acc.queue
          \/ g[k].queue = Append(acc.queue, e.tgt)
      BY <2>1, <2>3, SMTT(30) DEF Deliver
    <3>3. \A j \in 1 .. Len(g[k].queue) : g[k].queue[j] # m
      <4>1. acc.queue \in Seq(AllNodes) /\ \A j \in 1 .. Len(acc.queue) : acc.queue[j] # m
        BY <1>6 DEF Fans
      <4> HIDE DEF acc, e
      <4>2. PICK s, x, t : s = acc.queue /\ x = g[k].queue /\ t = e.tgt
        OBVIOUS
      <4>3. /\ s \in Seq(AllNodes) /\ \A j \in 1 .. Len(s) : s[j] # m
            /\ t # m /\ (x = s \/ x = Append(s, t))
        BY ONLY <3>1, <3>2, <4>1, <4>2
      <4>4. ASSUME x = Append(s, t) PROVE \A j \in 1 .. Len(x) : x[j] # m
        <5>1. /\ Len(x) = Len(s) + 1 /\ Len(s) \in Nat /\ x[Len(s) + 1] = t
              /\ \A j \in 1 .. Len(s) : x[j] = s[j]
          BY ONLY <4>3, <4>4
        <5>2. \A j \in 1 .. Len(x) : j \in 1 .. Len(s) \/ j = Len(s) + 1
          BY ONLY <5>1
        <5> QED BY ONLY <4>3, <5>1, <5>2
      <4>5. \A j \in 1 .. Len(x) : x[j] # m
        BY ONLY <4>3, <4>4
      <4> QED BY ONLY <4>2, <4>5
    <3>4. g[k].waiting[m] = acc.waiting[m]
      <4>1. acc.waiting \in [AllNodes -> SUBSET AllNodes]
        BY <1>6 DEF Fans
      <4> HIDE DEF acc, e
      <4> QED BY <1>4, <2>1, <2>3, <3>1, <4>1 DEF Deliver
    <3> QED BY <1>6, <2>1, <3>3, <3>4
  <2> QED BY <2>2, <2>3
<1>7. g[len] \in Spared
  <2> HIDE DEF Spared, len
  <2>1. \A k \in 0 .. len : g[k] \in Spared
    BY <1>4, <1>5, <1>6, StaysIn
  <2> QED BY <1>4, <2>1
<1> QED BY <1>3, <1>7

\* In a flow with simple handles a gate ignores whatever it leads to by the
\* handle that was not chosen.
LEMMA RefusedIsIgnored ==
  ASSUME NEW f \in Flows, NEW n \in f.nodes, f.kind[n] = "humanInput", SimpleHandles(f),
         NEW taken \in {0, 1},
         NEW i \in EdgeIds(f), f.edges[i].src = n, f.edges[i].out # taken
  PROVE  f.edges[i].tgt \in DetermineNodesToIgnore(f, n, {taken})
<1> DEFINE o == f.edges[i].out
           drawn(u) == {j \in EdgeIds(f) : f.edges[j].src = n /\ f.edges[j].out = u}
<1>1. f.outs[n] = 2 /\ Decision(f, n)
  BY FlowsAssumption DEF IsFlow, Decision
<1>2. o \in {0, 1} /\ o # taken
  <2> DEFINE Edges == [src : f.nodes, out : Nat, tgt : f.nodes]
  <2>1. f.edges \in Seq(Edges)
    BY FlowType
  <2>2. o \in Nat
    <3>1. f.edges[i] \in Edges
      <4> HIDE DEF Edges
      <4> QED BY <2>1 DEF EdgeIds
    <3> QED BY <3>1
  <2>3. o < 2
    BY <1>1 DEF SimpleHandles
  <2> QED BY <2>2, <2>3
<1>3. drawn(o) = {i}
  BY <1>1 DEF SimpleHandles
<1>4. FirstOf(drawn(o)) = i
  <2>1. i \in Int
    BY DEF EdgeIds
  <2> QED BY <1>3, <2>1 DEF FirstOf
<1>5. 0 .. f.outs[n] - 1 = {0, 1} /\ {taken} \cap {0, 1} # {}
  <2>1. f.outs[n] - 1 = 1 /\ 0 .. 1 = {0, 1}
    BY <1>1
  <2> QED BY <2>1
<1>6. DetermineNodesToIgnore(f, n, {taken})
        = {f.edges[FirstOf(drawn(u))].tgt : u \in {v \in {0, 1} \ {taken} : drawn(v) # {}}}
  BY <1>1, <1>5 DEF DetermineNodesToIgnore
<1>7. o \in {v \in {0, 1} \ {taken} : drawn(v) # {}}
  BY <1>2, <1>3
<1>8. f.edges[FirstOf(drawn(o))].tgt \in DetermineNodesToIgnore(f, n, {taken})
  <2> HIDE DEF drawn, o
  <2> QED BY <1>6, <1>7
<1> QED BY <1>4, <1>8

\* On resume, the branch a person refuses at a gate stays out: the answer
\* reaches the gate in a request with an empty queue and no waiting node
\* (Pending), and the gate ignores what it leads to by the other handle.
LEMMA AnswerObeyedStep ==
  ASSUME TypeInv, AnswerInv, [Next]_vars, NEW r \in Requests, Finished(r),
         NEW f, f = run[r].flow, NEW n, n = Current(r),
         f.kind[n] = "humanInput", run[r].human.node = n, SimpleHandles(f),
         NEW taken, taken = IF run[r].human.answer = "proceed" THEN 0 ELSE 1
  PROVE  RefusedBranchStays(f, n, taken, run'[r])
<1>1. FinishNode(r) /\ TypeOK
  BY FinishedIsFinish DEF TypeInv
<1>2. /\ Turn(r) /\ f \in Flows /\ n \in f.nodes /\ n \in AllNodes /\ f.nodes \subseteq AllNodes
      /\ run[r] \in Run
  BY <1>1, RunFields, CurrentType, FlowType DEF FinishNode, Executes
<1>3. run[r].human # NoInput
  BY <1>1 DEF FinishNode
<1>4. Consumes(r) /\ Tail(run[r].queue) = <<>> /\ run[r].waiting = [a \in AllNodes |-> {}]
  BY <1>2, <1>3, PendingConsumes
<1>5. Fulfilled(f, n, run[r].human) = {{taken}} /\ taken \in {0, 1}
  BY DEF Fulfilled
<1>6. run' = [run EXCEPT ![r] = AfterFinish(r, {taken})]
  BY <1>1, <1>5 DEF FinishNode
<1>7. run'[r] = AfterFinish(r, {taken})
  BY <1>1, <1>6 DEF TypeOK
<1> DEFINE ignored == DetermineNodesToIgnore(f, n, {taken})
           fan == ProcessChildren(f, n, ignored, <<>>, run[r].waiting)
<1>8. run'[r].queue = fan.queue /\ run'[r].waiting = fan.waiting
  <2>1. ~LoopsBack(r) /\ ReportsConditions(r)
    BY <1>4 DEF LoopsBack, ReportsConditions
  <2> HIDE DEF fan
  <2>2. /\ AfterFinish(r, {taken}).queue = fan.queue
        /\ AfterFinish(r, {taken}).waiting = fan.waiting
    BY <1>2, <1>4, <2>1 DEF AfterFinish, fan, Run
  <2> QED BY <1>7, <2>2
<1>9. SUFFICES ASSUME NEW m \in f.nodes,
                      \A i \in EdgeIds(f) : f.edges[i].src = n /\ f.edges[i].tgt = m
                        => f.edges[i].out # taken
               PROVE  /\ \A k \in 1 .. Len(run'[r].queue) : run'[r].queue[k] # m
                      /\ n \notin run'[r].waiting[m]
  BY DEF RefusedBranchStays
<1>10. \A i \in EdgeIds(f) : f.edges[i].src = n /\ f.edges[i].tgt = m => m \in ignored
  <2> SUFFICES ASSUME NEW i \in EdgeIds(f), f.edges[i].src = n, f.edges[i].tgt = m
               PROVE  m \in ignored
    OBVIOUS
  <2>1. f.edges[i].out # taken
    BY <1>9
  <2>2. f.edges[i].tgt \in DetermineNodesToIgnore(f, n, {taken})
    BY <1>2, <1>5, <2>1, RefusedIsIgnored
  <2> QED BY <2>2
<1>11. (\A k \in 1 .. Len(fan.queue) : fan.queue[k] # m) /\ fan.waiting[m] = {}
  <2> HIDE DEF ignored
  <2> QED BY <1>2, <1>4, <1>10, IgnoredGetNothing
<1> QED BY <1>8, <1>11

\* A person's answer at an approval gate is obeyed in every flow whose decision
\* handles carry one edge each, with any number of requests and any faults.
THEOREM AnswerIsObeyed == Spec => AnswerObeyedIfSimple
<1>1. Init => AnswerInv
  BY DEF Init, AnswerInv, Pending, FreshRun
<1>2. TypeInv /\ AnswerInv /\ [Next]_vars =>
        [\A r \in Requests :
           LET n == Current(r)
               f == run[r].flow
           IN  /\ Finished(r)
               /\ f.kind[n] = "humanInput"
               /\ run[r].human.node = n
               /\ SimpleHandles(f)
               => RefusedBranchStays(f, n, IF run[r].human.answer = "proceed" THEN 0 ELSE 1,
                                     run'[r])]_vars
  BY AnswerObeyedStep
<1> QED BY <1>1, <1>2, AnswerStep, TypeAlways, PTL DEF Spec, AnswerObeyedIfSimple

-----------------------------------------------------------------------------
(***************************************************************************)
(* The graph of a flow.                                                     *)
(***************************************************************************)

\* The ends of an edge are nodes of the flow.
LEMMA EdgeType ==
  ASSUME NEW f \in Flows, NEW i \in EdgeIds(f)
  PROVE  f.edges[i].src \in f.nodes /\ f.edges[i].tgt \in f.nodes /\ f.edges[i].out \in Nat
<1> DEFINE Edges == [src : f.nodes, out : Nat, tgt : f.nodes]
<1>1. f.edges \in Seq(Edges)
  BY FlowType
<1>2. f.edges[i] \in Edges
  <2> HIDE DEF Edges
  <2> QED BY <1>1 DEF EdgeIds
<1> QED BY <1>2

\* A flow has finitely many nodes.
LEMMA NodesFinite ==
  ASSUME NEW f \in Flows
  PROVE  IsFiniteSet(f.nodes) /\ Cardinality(f.nodes) \in Nat
<1>1. IsFiniteSet(f.nodes)
  BY FlowsAssumption DEF IsFlow
<1> QED BY <1>1, FS_CardinalityType

\* One more edge stays within the flow and loses nothing.
LEMMA OnwardType ==
  ASSUME NEW f \in Flows, NEW S \in SUBSET f.nodes
  PROVE  Onward(f, S) \in SUBSET f.nodes /\ S \subseteq Onward(f, S)
BY EdgeType DEF Onward

\* What is reachable in 0, 1, 2 ... edges.
HasReach(f, from) ==
  \E g \in [0 .. Cardinality(f.nodes) -> SUBSET f.nodes] :
    /\ g[0] = from
    /\ \A k \in 1 .. Cardinality(f.nodes) : g[k] = Onward(f, g[k - 1])
    /\ Reach(f, from) = g[Cardinality(f.nodes)]

\* The recursive function Reach is built from, by its equations.
LEMMA ReachFold ==
  ASSUME NEW f \in Flows, NEW from \in SUBSET f.nodes
  PROVE  HasReach(f, from)
<1> DEFINE len == Cardinality(f.nodes)
           reach[k \in 0 .. Cardinality(f.nodes)] ==
             IF k = 0 THEN from ELSE Onward(f, reach[k - 1])
           step == [p \in (1 .. len) \X SUBSET f.nodes |-> Onward(f, p[2])]
<1>1. Reach(f, from) = reach[Cardinality(f.nodes)]
  BY DEF Reach
<1>2. len \in Nat
  BY NodesFinite
<1>3. step \in [(1 .. len) \X SUBSET f.nodes -> SUBSET f.nodes]
  <2>1. \A p \in (1 .. len) \X SUBSET f.nodes : Onward(f, p[2]) \in SUBSET f.nodes
    BY OnwardType
  <2> QED BY <2>1
<1>4. PICK g \in [0 .. len -> SUBSET f.nodes] :
        g[0] = from /\ \A k \in 1 .. len : g[k] = step[<<k, g[k - 1]>>]
  <2>1. HasFold(SUBSET f.nodes, from, len, step)
    <3> HIDE DEF step, len
    <3> QED BY <1>2, <1>3, FoldExists
  <2> QED BY <2>1 DEF HasFold
<1>5. ASSUME NEW k \in 1 .. len
      PROVE  g[k] = Onward(f, g[k - 1])
  <2>1. k - 1 \in 0 .. len
    BY <1>2
  <2>2. <<k, g[k - 1]>> \in (1 .. len) \X SUBSET f.nodes
    BY <2>1
  <2> QED BY <1>4, <2>2
<1>6. g = [k \in 0 .. Cardinality(f.nodes) |->
             IF k = 0 THEN from ELSE Onward(f, g[k - 1])]
  <2> DEFINE rhs == [k \in 0 .. Cardinality(f.nodes) |->
                       IF k = 0 THEN from ELSE Onward(f, g[k - 1])]
  <2>1. \A k \in 0 .. len : k # 0 => k \in 1 .. len
    BY <1>2
  <2>2. \A k \in 0 .. len : g[k] = rhs[k]
    BY <1>4, <1>5, <2>1
  <2>3. g = [k \in 0 .. len |-> g[k]] /\ rhs = [k \in 0 .. len |-> rhs[k]]
    OBVIOUS
  <2> HIDE DEF rhs
  <2>4. g = rhs
    BY <2>2, <2>3
  <2> QED BY <2>4 DEF rhs
<1>7. reach = [k \in 0 .. Cardinality(f.nodes) |->
                 IF k = 0 THEN from ELSE Onward(f, reach[k - 1])]
  BY <1>6
<1> HIDE DEF reach
<1>8. reach[0] = from
  BY <1>2, <1>7
<1>9. ASSUME NEW k \in 1 .. len PROVE reach[k] = Onward(f, reach[k - 1])
  <2>1. k \in 0 .. len /\ k # 0
    BY <1>2
  <2> QED BY <1>7, <2>1
<1>10. \A k \in 0 .. len : reach[k] \in SUBSET f.nodes
  <2>1. ASSUME NEW k \in 1 .. len, reach[k - 1] \in SUBSET f.nodes
        PROVE  reach[k] \in SUBSET f.nodes
    <3>1. Onward(f, reach[k - 1]) \in SUBSET f.nodes
      BY <2>1, OnwardType
    <3> QED BY <1>9, <3>1
  <2> HIDE DEF len
  <2> QED BY <1>2, <1>8, <2>1, StaysIn
<1>11. reach \in [0 .. len -> SUBSET f.nodes]
  BY <1>7, <1>10
<1> HIDE DEF step
<1> QED BY <1>1, <1>8, <1>9, <1>11 DEF HasReach

\* A set no edge leads out of.
Closed(f, S) == \A i \in EdgeIds(f) : f.edges[i].src \in S => f.edges[i].tgt \in S

\* A step along the edges adds nothing to a closed set, and only to such a set.
LEMMA OnwardClosed ==
  ASSUME NEW f, NEW S
  PROVE  Onward(f, S) = S <=> Closed(f, S)
BY DEF Onward, Closed

\* |nodes| steps reach everything there is: a step that is not the last adds a node.
LEMMA ReachIsClosed ==
  ASSUME NEW f \in Flows, NEW from \in SUBSET f.nodes
  PROVE  /\ Reach(f, from) \in SUBSET f.nodes
         /\ from \subseteq Reach(f, from)
         /\ Closed(f, Reach(f, from))
<1> DEFINE len == Cardinality(f.nodes)
<1>1. HasReach(f, from)
  BY ReachFold
<1>2. PICK g \in [0 .. len -> SUBSET f.nodes] :
        /\ g[0] = from
        /\ \A k \in 1 .. len : g[k] = Onward(f, g[k - 1])
        /\ Reach(f, from) = g[len]
  BY <1>1 DEF HasReach
<1>3. IsFiniteSet(f.nodes) /\ len \in Nat
  BY NodesFinite
<1>4. ASSUME NEW S \in SUBSET f.nodes
      PROVE  IsFiniteSet(S) /\ Cardinality(S) \in Nat /\ Cardinality(S) <= len
  BY <1>3, FS_Subset, FS_CardinalityType
<1> DEFINE Grown(k) == from \subseteq g[k] /\ (Closed(f, g[k]) \/ Cardinality(g[k]) >= k + 1)
           Good == {k \in Nat : k <= len => Grown(k)}
<1>5. 0 \in Good
  <2>1. CASE from = {}
    BY <1>2, <2>1 DEF Closed
  <2>2. CASE from # {}
    <3>1. Cardinality(from) # 0
      BY <1>4, <2>2, FS_EmptySet
    <3> QED BY <1>2, <1>4, <3>1
  <2> QED BY <2>1, <2>2
<1>6. ASSUME NEW k \in Nat, k \in Good PROVE k + 1 \in Good
  <2> SUFFICES ASSUME k + 1 <= len PROVE Grown(k + 1)
    OBVIOUS
  <2>1. Grown(k) /\ k + 1 \in 1 .. len /\ k \in 0 .. len /\ k + 1 \in 0 .. len /\ (k + 1) - 1 = k
    BY <1>3, <1>6
  <2>2. g[k + 1] = Onward(f, g[k]) /\ g[k] \in SUBSET f.nodes /\ g[k + 1] \in SUBSET f.nodes
    BY <1>2, <2>1
  <2>3. g[k] \subseteq g[k + 1]
    BY <2>2, OnwardType
  <2>4. CASE Closed(f, g[k])
    BY <2>1, <2>2, <2>4, OnwardClosed
  <2>5. CASE ~Closed(f, g[k])
    <3>1. g[k + 1] # g[k]
      BY <2>2, <2>5, OnwardClosed
    <3>2. Cardinality(g[k]) <= Cardinality(g[k + 1]) /\ Cardinality(g[k]) # Cardinality(g[k + 1])
      BY <1>4, <2>2, <2>3, <3>1, FS_Subset
    <3>3. Cardinality(g[k]) \in Nat /\ Cardinality(g[k + 1]) \in Nat
      BY <1>4, <2>2
    <3> QED BY <2>1, <2>3, <2>5, <3>2, <3>3
  <2> QED BY <2>4, <2>5
<1>7. Grown(len)
  <2> HIDE DEF Grown, len
  <2>1. Nat \subseteq Good
    <3> HIDE DEF Good
    <3> QED BY <1>5, <1>6, SetInduction
  <2> QED BY <1>3, <2>1
<1>8. g[len] \in SUBSET f.nodes
  BY <1>2, <1>3
<1>9. ~(Cardinality(g[len]) >= len + 1)
  BY <1>3, <1>4, <1>8
<1> QED BY <1>2, <1>7, <1>8, <1>9

\* ... and nothing else.
LEMMA ReachIsLeast ==
  ASSUME NEW f \in Flows, NEW from \in SUBSET f.nodes, NEW S, from \subseteq S, Closed(f, S)
  PROVE  Reach(f, from) \subseteq S
<1> DEFINE len == Cardinality(f.nodes)
<1>1. HasReach(f, from)
  BY ReachFold
<1>2. PICK g \in [0 .. len -> SUBSET f.nodes] :
        /\ g[0] = from
        /\ \A k \in 1 .. len : g[k] = Onward(f, g[k - 1])
        /\ Reach(f, from) = g[len]
  BY <1>1 DEF HasReach
<1>3. len \in Nat
  BY NodesFinite
<1>4. g[0] \in SUBSET S
  BY <1>2
<1>5. ASSUME NEW k \in 1 .. len, g[k - 1] \in SUBSET S PROVE g[k] \in SUBSET S
  BY <1>2, <1>5 DEF Onward, Closed
<1>6. \A k \in 0 .. len : g[k] \in SUBSET S
  <2> HIDE DEF len
  <2> QED BY <1>3, <1>4, <1>5, StaysIn
<1> QED BY <1>2, <1>3, <1>6

\* Reachability composes.
LEMMA ReachTransitive ==
  ASSUME NEW f \in Flows, NEW from \in SUBSET f.nodes, NEW m \in Reach(f, from)
  PROVE  Reach(f, {m}) \subseteq Reach(f, from)
<1>1. Reach(f, from) \in SUBSET f.nodes /\ Closed(f, Reach(f, from))
  BY ReachIsClosed
<1> QED BY <1>1, ReachIsLeast

\* The last edge of a path.
LEMMA ReachBack ==
  ASSUME NEW f \in Flows, NEW from \in SUBSET f.nodes, NEW n \in Reach(f, from) \ from
  PROVE  \E i \in EdgeIds(f) : f.edges[i].tgt = n /\ f.edges[i].src \in Reach(f, from)
<1> SUFFICES ASSUME \A i \in EdgeIds(f) :
                      f.edges[i].tgt = n => f.edges[i].src \notin Reach(f, from)
             PROVE  FALSE
  OBVIOUS
<1> DEFINE S == Reach(f, from) \ {n}
<1>1. Closed(f, Reach(f, from)) /\ from \subseteq Reach(f, from)
  BY ReachIsClosed
<1>2. from \subseteq S /\ Closed(f, S)
  BY <1>1 DEF Closed
<1>3. Reach(f, from) \subseteq S
  BY <1>2, ReachIsLeast
<1> QED BY <1>3

\* An edge is a path.
LEMMA EdgeReaches ==
  ASSUME NEW f \in Flows, NEW n \in f.nodes, NEW s \in Sources(f, n)
  PROVE  s \in f.nodes /\ n \in Reach(f, {s})
<1>1. PICK i \in EdgeIds(f) : f.edges[i].tgt = n /\ f.edges[i].src = s
  BY DEF Sources
<1>2. s \in f.nodes
  BY <1>1, EdgeType
<1>3. s \in Reach(f, {s}) /\ Closed(f, Reach(f, {s}))
  BY <1>2, ReachIsClosed
<1> QED BY <1>1, <1>2, <1>3 DEF Closed

\* Two nodes of a flow without cycles do not reach each other.
LEMMA NoCycle ==
  ASSUME NEW f \in Flows, OnCanvas(f), NEW m \in f.nodes, NEW n \in Reach(f, {m}), n # m
  PROVE  m \notin Reach(f, {n})
<1>1. PICK i \in EdgeIds(f) : f.edges[i].tgt = n /\ f.edges[i].src \in Reach(f, {m})
  BY ReachBack
<1>2. n \in f.nodes
  BY <1>1, EdgeType
<1>3. ASSUME m \in Reach(f, {n}) PROVE FALSE
  <2>1. Reach(f, {m}) \subseteq Reach(f, {n})
    BY <1>2, <1>3, ReachTransitive
  <2> QED BY <1>1, <2>1 DEF OnCanvas
<1> QED BY <1>3

\* What stands before a node that stands before n stands before n.
LEMMA AncestorsNest ==
  ASSUME NEW f \in Flows, OnCanvas(f), NEW n \in f.nodes, NEW m \in Ancestors(f, n)
  PROVE  Ancestors(f, m) \subseteq Ancestors(f, n) /\ m \notin Ancestors(f, m)
<1>1. m \in f.nodes /\ m # n /\ n \in Reach(f, {m})
  BY DEF Ancestors
<1>2. m \notin Reach(f, {n})
  BY <1>1, NoCycle
<1>3. ASSUME NEW a \in Ancestors(f, m) PROVE a \in Ancestors(f, n)
  <2>1. a \in f.nodes /\ m \in Reach(f, {a})
    BY <1>3 DEF Ancestors
  <2>2. n \in Reach(f, {a})
    BY <1>1, <2>1, ReachTransitive
  <2>3. a # n
    BY <1>2, <2>1
  <2> QED BY <2>1, <2>2, <2>3 DEF Ancestors
<1> QED BY <1>3 DEF Ancestors

\* The source of an edge stands before its target.
LEMMA SourceIsAncestor ==
  ASSUME NEW f \in Flows, OnCanvas(f), NEW n \in f.nodes, NEW s \in Sources(f, n)
  PROVE  s \in Ancestors(f, n)
<1>1. PICK i \in EdgeIds(f) : f.edges[i].tgt = n /\ f.edges[i].src = s
  BY DEF Sources
<1>2. s \in f.nodes /\ n \in Reach(f, {s})
  BY EdgeReaches
<1>3. n \in Reach(f, {n})
  BY ReachIsClosed
<1>4. s # n
  BY <1>1, <1>3 DEF OnCanvas
<1> QED BY <1>2, <1>4 DEF Ancestors

\* Induction along the edges: what holds of a node when it holds of all that
\* stand before it holds of every node.
LEMMA UpwardInduction ==
  ASSUME NEW f \in Flows, OnCanvas(f), NEW S,
         \A n \in f.nodes : (\A m \in Ancestors(f, n) : m \in S) => n \in S
  PROVE  f.nodes \subseteq S
<1> SUFFICES ASSUME NEW bad \in f.nodes, bad \notin S PROVE FALSE
  OBVIOUS
<1> DEFINE Rank(n) == Cardinality(Ancestors(f, n))
           Ranks == {Rank(n) : n \in f.nodes \ S}
<1>1. ASSUME NEW n \in f.nodes PROVE IsFiniteSet(Ancestors(f, n)) /\ Rank(n) \in Nat
  <2>1. Ancestors(f, n) \in SUBSET f.nodes
    BY DEF Ancestors
  <2> QED BY <2>1, NodesFinite, FS_Subset, FS_CardinalityType
<1>2. Ranks \subseteq Nat /\ Ranks # {}
  BY <1>1
<1>3. PICK low \in Ranks : \A k \in Ranks : low <= k
  <2> HIDE DEF Ranks
  <2> QED BY <1>2, LeastNat
<1>4. PICK n \in f.nodes \ S : Rank(n) = low
  OBVIOUS
<1>5. PICK m \in Ancestors(f, n) : m \notin S
  OBVIOUS
<1>6. m \in f.nodes
  BY DEF Ancestors
<1>7. Ancestors(f, m) \in SUBSET Ancestors(f, n) /\ Ancestors(f, m) # Ancestors(f, n)
  BY <1>5, AncestorsNest
<1>8. Rank(m) <= Rank(n) /\ Rank(m) # Rank(n)
  BY <1>1, <1>7, FS_Subset
<1>9. Rank(m) \in Ranks
  BY <1>5, <1>6
<1> QED
  <2>1. Rank(m) \in Nat /\ Rank(n) \in Nat
    BY <1>1, <1>6
  <2> QED BY <1>3, <1>4, <1>8, <1>9, <2>1

-----------------------------------------------------------------------------
(***************************************************************************)
(* findConditionParent.                                                     *)
(***************************************************************************)

\* A nonempty set of edges has a first one.
LEMMA FirstOfSet ==
  ASSUME NEW E \in SUBSET Nat, E # {}
  PROVE  FirstOf(E) \in E /\ \A j \in E : FirstOf(E) <= j
<1>1. \E i \in E : \A j \in E : i <= j
  BY LeastNat
<1> QED BY <1>1 DEF FirstOf

\* The first parent is one of the sources.
LEMMA FirstParentType ==
  ASSUME NEW f \in Flows, NEW n
  PROVE  /\ n = NoNode \/ Sources(f, n) = {} => FirstParent(f, n) = NoNode
         /\ n # NoNode /\ Sources(f, n) # {} => FirstParent(f, n) \in Sources(f, n)
         /\ FirstParent(f, n) \in f.nodes \cup {NoNode}
<1> DEFINE into == {i \in EdgeIds(f) : f.edges[i].tgt = n}
<1>1. into \in SUBSET Nat /\ (into = {} <=> Sources(f, n) = {})
  <2>1. into \in SUBSET Nat
    BY DEF EdgeIds
  <2>2. Sources(f, n) = {f.edges[i].src : i \in into}
    BY DEF Sources
  <2> HIDE DEF into
  <2> QED BY <2>1, <2>2
<1>2. CASE n = NoNode \/ into = {}
  BY <1>1, <1>2 DEF FirstParent
<1>3. CASE ~(n = NoNode \/ into = {})
  <2>1. FirstOf(into) \in into
    <3> HIDE DEF into
    <3> QED BY <1>1, <1>3, FirstOfSet
  <2>2. FirstParent(f, n) = f.edges[FirstOf(into)].src
    BY <1>3 DEF FirstParent
  <2> HIDE DEF FirstParent
  <2>3. FirstParent(f, n) \in Sources(f, n)
    BY <2>1, <2>2 DEF Sources
  <2> QED BY <1>1, <1>3, <2>1, <2>2, <2>3, EdgeType
<1> QED BY <1>2, <1>3

\* The nodes met walking up from n.
Met(f, up) == {k \in 0 .. Cardinality(f.nodes) : up[k] # NoNode /\ Decision(f, up[k])}

\* up is the walk from n to the first parent, and on to its first parent.
IsWalk(f, n, up) ==
  /\ up \in [0 .. Cardinality(f.nodes) -> f.nodes \cup {NoNode}]
  /\ up[0] = n
  /\ \A k \in 1 .. Cardinality(f.nodes) : up[k] = FirstParent(f, up[k - 1])

\* The nearest decision node is the first one met on that walk.
HasWalk(f, n) ==
  \E up : /\ IsWalk(f, n, up)
          /\ FindConditionParent(f, n) = IF Met(f, up) = {} THEN NoNode ELSE up[FirstOf(Met(f, up))]

\* The recursive function FindConditionParent is built from, by its equations.
LEMMA WalkFold ==
  ASSUME NEW f \in Flows, NEW n \in f.nodes
  PROVE  HasWalk(f, n)
<1> DEFINE len == Cardinality(f.nodes)
           Steps == f.nodes \cup {NoNode}
           up[k \in 0 .. Cardinality(f.nodes)] ==
             IF k = 0 THEN n ELSE FirstParent(f, up[k - 1])
           step == [p \in (1 .. len) \X Steps |-> FirstParent(f, p[2])]
           hits == {k \in 0 .. Cardinality(f.nodes) : up[k] # NoNode /\ Decision(f, up[k])}
<1>1. FindConditionParent(f, n) = IF hits = {} THEN NoNode ELSE up[FirstOf(hits)]
  BY DEF FindConditionParent
<1>2. len \in Nat
  BY NodesFinite
<1>3. step \in [(1 .. len) \X Steps -> Steps]
  <2>1. \A p \in (1 .. len) \X Steps : FirstParent(f, p[2]) \in Steps
    BY FirstParentType
  <2> QED BY <2>1
<1>4. PICK g \in [0 .. len -> Steps] :
        g[0] = n /\ \A k \in 1 .. len : g[k] = step[<<k, g[k - 1]>>]
  <2>1. n \in Steps
    OBVIOUS
  <2>2. HasFold(Steps, n, len, step)
    <3> HIDE DEF step, len, Steps
    <3> QED BY <1>2, <1>3, <2>1, FoldExists
  <2> QED BY <2>2 DEF HasFold
<1>5. ASSUME NEW k \in 1 .. len
      PROVE  g[k] = FirstParent(f, g[k - 1])
  <2>1. k - 1 \in 0 .. len
    BY <1>2
  <2>2. <<k, g[k - 1]>> \in (1 .. len) \X Steps
    BY <2>1
  <2> QED BY <1>4, <2>2
<1>6. g = [k \in 0 .. Cardinality(f.nodes) |->
             IF k = 0 THEN n ELSE FirstParent(f, g[k - 1])]
  <2> DEFINE rhs == [k \in 0 .. Cardinality(f.nodes) |->
                       IF k = 0 THEN n ELSE FirstParent(f, g[k - 1])]
  <2>1. \A k \in 0 .. len : k # 0 => k \in 1 .. len
    BY <1>2
  <2>2. \A k \in 0 .. len : g[k] = rhs[k]
    BY <1>4, <1>5, <2>1
  <2>3. g = [k \in 0 .. len |-> g[k]] /\ rhs = [k \in 0 .. len |-> rhs[k]]
    OBVIOUS
  <2> HIDE DEF rhs
  <2>4. g = rhs
    BY <2>2, <2>3
  <2> QED BY <2>4 DEF rhs
<1>7. up = [k \in 0 .. Cardinality(f.nodes) |->
              IF k = 0 THEN n ELSE FirstParent(f, up[k - 1])]
  BY <1>6
<1> HIDE DEF up
<1>8. up[0] = n
  BY <1>2, <1>7
<1>9. ASSUME NEW k \in 1 .. len PROVE up[k] = FirstParent(f, up[k - 1])
  <2>1. k \in 0 .. len /\ k # 0
    BY <1>2
  <2> QED BY <1>7, <2>1
<1>10. \A k \in 0 .. len : up[k] \in Steps
  <2>1. ASSUME NEW k \in 1 .. len PROVE up[k] \in Steps
    BY <1>9, FirstParentType
  <2>2. up[0] \in Steps
    BY <1>8
  <2> HIDE DEF len, Steps
  <2> QED BY <1>2, <2>2, <2>1, StaysIn
<1>11. up \in [0 .. len -> Steps]
  BY <1>7, <1>10
<1>12. IsWalk(f, n, up)
  BY <1>8, <1>9, <1>11 DEF IsWalk
<1>13. hits = Met(f, up)
  BY DEF Met
<1> HIDE DEF hits, step
<1> QED BY <1>1, <1>12, <1>13 DEF HasWalk

\* A decision node is its own condition parent.
LEMMA ParentOfDecision ==
  ASSUME NEW f \in Flows, NEW n \in f.nodes, Decision(f, n)
  PROVE  FindConditionParent(f, n) = n
<1>1. HasWalk(f, n)
  BY WalkFold
<1>2. PICK up : /\ IsWalk(f, n, up)
                /\ FindConditionParent(f, n) = IF Met(f, up) = {} THEN NoNode
                                               ELSE up[FirstOf(Met(f, up))]
  BY <1>1 DEF HasWalk
<1>3. n # NoNode /\ Cardinality(f.nodes) \in Nat
  BY NodesFinite, FlowsAssumption DEF IsFlow
<1>4. 0 \in Met(f, up) /\ Met(f, up) \in SUBSET Nat
  BY <1>2, <1>3 DEF Met, IsWalk
<1>5. FirstOf(Met(f, up)) = 0
  <2>1. FirstOf(Met(f, up)) \in Nat /\ FirstOf(Met(f, up)) <= 0
    BY <1>4, FirstOfSet
  <2> QED BY <2>1
<1> QED BY <1>2, <1>4, <1>5 DEF IsWalk

\* On the canvas a walk has left the flow before its last step.
LEMMA WalkLeaves ==
  ASSUME NEW f \in Flows, OnCanvas(f), NEW n \in f.nodes, NEW up, IsWalk(f, n, up)
  PROVE  up[Cardinality(f.nodes)] = NoNode
<1> DEFINE len == Cardinality(f.nodes)
           Rank(m) == Cardinality(Ancestors(f, m))
           Good == {k \in Nat : k <= len /\ up[k] # NoNode => Rank(up[k]) + k < len}
<1>1. /\ IsFiniteSet(f.nodes) /\ len \in Nat /\ NoNode \notin f.nodes
      /\ up \in [0 .. len -> f.nodes \cup {NoNode}] /\ up[0] = n
      /\ \A k \in 1 .. len : up[k] = FirstParent(f, up[k - 1])
  BY NodesFinite, FlowsAssumption DEF IsFlow, IsWalk
<1>2. ASSUME NEW m \in f.nodes
      PROVE  IsFiniteSet(Ancestors(f, m)) /\ Rank(m) \in Nat /\ Rank(m) < len
  <2>1. /\ Ancestors(f, m) \in SUBSET f.nodes /\ m \notin Ancestors(f, m)
    BY DEF Ancestors
  <2>2. IsFiniteSet(Ancestors(f, m)) /\ Rank(m) \in Nat
    BY <1>1, <2>1, FS_Subset, FS_CardinalityType
  <2>3. Rank(m) <= len /\ Rank(m) # len
    BY <1>1, <2>1, FS_Subset
  <2> QED BY <1>1, <2>2, <2>3
<1>3. 0 \in Good
  BY <1>1, <1>2
<1>4. ASSUME NEW k \in Nat, k \in Good PROVE k + 1 \in Good
  <2> SUFFICES ASSUME k + 1 <= len, up[k + 1] # NoNode PROVE Rank(up[k + 1]) + (k + 1) < len
    OBVIOUS
  <2>1. k + 1 \in 1 .. len /\ (k + 1) - 1 = k /\ k \in 0 .. len
    BY <1>1
  <2>2. up[k + 1] = FirstParent(f, up[k]) /\ up[k] \in f.nodes \cup {NoNode}
    BY <1>1, <2>1
  <2>3. up[k] # NoNode /\ up[k + 1] \in Sources(f, up[k])
    BY <2>2, FirstParentType
  <2>4. up[k] \in f.nodes /\ Rank(up[k]) + k < len
    BY <1>4, <2>1, <2>2, <2>3
  <2>5. up[k + 1] \in Ancestors(f, up[k]) /\ up[k + 1] \in f.nodes
    BY <2>3, <2>4, SourceIsAncestor DEF Ancestors
  <2>6. /\ Ancestors(f, up[k + 1]) \in SUBSET Ancestors(f, up[k])
        /\ Ancestors(f, up[k + 1]) # Ancestors(f, up[k])
    BY <2>4, <2>5, AncestorsNest
  <2>7. Rank(up[k + 1]) <= Rank(up[k]) /\ Rank(up[k + 1]) # Rank(up[k])
    BY <1>2, <2>4, <2>6, FS_Subset
  <2>8. Rank(up[k + 1]) \in Nat /\ Rank(up[k]) \in Nat
    BY <1>2, <2>4, <2>5
  <2> HIDE DEF Rank
  <2> QED BY <1>1, <2>4, <2>7, <2>8
<1>5. len \in Good
  <2> HIDE DEF Good
  <2>1. Nat \subseteq Good
    BY <1>3, <1>4, SetInduction
  <2> QED BY <1>1, <2>1
<1>6. ASSUME up[len] # NoNode PROVE FALSE
  <2>1. up[len] \in f.nodes
    BY <1>1, <1>6
  <2>2. Rank(up[len]) \in Nat /\ Rank(up[len]) + len < len
    BY <1>1, <1>2, <1>5, <1>6, <2>1
  <2> HIDE DEF Rank
  <2> QED BY <1>1, <2>2
<1> QED BY <1>6

\* On the canvas, the condition parent of any other node is the one of its first
\* parent, and none when it has no parent.
LEMMA ParentOfOther ==
  ASSUME NEW f \in Flows, OnCanvas(f), NEW n \in f.nodes, ~Decision(f, n)
  PROVE  IF Sources(f, n) = {} THEN FindConditionParent(f, n) = NoNode
         ELSE /\ FirstParent(f, n) \in Sources(f, n)
              /\ FindConditionParent(f, n) = FindConditionParent(f, FirstParent(f, n))
<1> DEFINE len == Cardinality(f.nodes)
           p == FirstParent(f, n)
<1>1. HasWalk(f, n)
  BY WalkFold
<1>2. PICK up : /\ IsWalk(f, n, up)
                /\ FindConditionParent(f, n) = IF Met(f, up) = {} THEN NoNode
                                               ELSE up[FirstOf(Met(f, up))]
  BY <1>1 DEF HasWalk
<1>3. n # NoNode /\ len \in Nat /\ NoNode \notin f.nodes
  BY NodesFinite, FlowsAssumption DEF IsFlow
<1>4. /\ up \in [0 .. len -> f.nodes \cup {NoNode}] /\ up[0] = n
      /\ \A k \in 1 .. len : up[k] = FirstParent(f, up[k - 1])
  BY <1>2 DEF IsWalk
<1>5. 0 \notin Met(f, up)
  BY <1>4 DEF Met
<1>6. up[len] = NoNode
  BY <1>2, WalkLeaves
<1>7. len >= 1
  BY <1>3, <1>4, <1>6
<1>8. up[1] = p
  BY <1>3, <1>4, <1>7
<1>9. CASE Sources(f, n) = {}
  <2>1. up[1] = NoNode
    BY <1>8, <1>9, FirstParentType
  <2> DEFINE Good == {k \in Nat : k + 1 <= len => up[k + 1] = NoNode}
  <2>2. 0 \in Good
    BY <2>1
  <2>3. ASSUME NEW k \in Nat, k \in Good PROVE k + 1 \in Good
    <3> SUFFICES ASSUME k + 2 <= len PROVE up[k + 2] = NoNode
      OBVIOUS
    <3>1. k + 2 \in 1 .. len /\ (k + 2) - 1 = k + 1 /\ up[k + 1] = NoNode
      BY <1>3, <2>3
    <3>2. up[k + 2] = FirstParent(f, NoNode)
      BY <1>4, <3>1
    <3> QED BY <3>2, FirstParentType
  <2>4. Nat \subseteq Good
    <3> HIDE DEF Good
    <3> QED BY <2>2, <2>3, SetInduction
  <2>5. ASSUME NEW k \in Met(f, up) PROVE FALSE
    <3>1. k \in 0 .. len /\ k # 0 /\ up[k] # NoNode
      BY <1>5 DEF Met
    <3>2. k - 1 \in Nat /\ (k - 1) + 1 = k /\ k <= len
      BY <1>3, <3>1
    <3>3. k - 1 \in Good
      <4> HIDE DEF Good
      <4> QED BY <2>4, <3>2
    <3> QED BY <3>1, <3>2, <3>3
  <2> QED BY <1>2, <1>9, <2>5
<1>10. CASE Sources(f, n) # {}
  <2>1. p \in Sources(f, n) /\ p \in f.nodes
    BY <1>3, <1>10, FirstParentType, EdgeReaches
  <2>2. HasWalk(f, p)
    BY <2>1, WalkFold
  <2>3. PICK vp : /\ IsWalk(f, p, vp)
                  /\ FindConditionParent(f, p) = IF Met(f, vp) = {} THEN NoNode
                                                 ELSE vp[FirstOf(Met(f, vp))]
    BY <2>2 DEF HasWalk
  <2>4. /\ vp \in [0 .. len -> f.nodes \cup {NoNode}] /\ vp[0] = p
        /\ \A k \in 1 .. len : vp[k] = FirstParent(f, vp[k - 1])
    BY <2>3 DEF IsWalk
  <2>5. vp[len] = NoNode
    BY <2>1, <2>3, WalkLeaves
  <2> DEFINE Good == {k \in Nat : k + 1 <= len => up[k + 1] = vp[k]}
  <2>6. 0 \in Good
    BY <1>8, <2>4
  <2>7. ASSUME NEW k \in Nat, k \in Good PROVE k + 1 \in Good
    <3> SUFFICES ASSUME k + 2 <= len PROVE up[k + 2] = vp[k + 1]
      OBVIOUS
    <3>1. /\ k + 2 \in 1 .. len /\ (k + 2) - 1 = k + 1 /\ up[k + 1] = vp[k]
          /\ k + 1 \in 1 .. len /\ (k + 1) - 1 = k
      BY <1>3, <2>7
    <3>2. up[k + 2] = FirstParent(f, up[k + 1]) /\ vp[k + 1] = FirstParent(f, vp[k])
      BY <1>4, <2>4, <3>1
    <3> QED BY <3>1, <3>2
  <2>8. Nat \subseteq Good
    <3> HIDE DEF Good
    <3> QED BY <2>6, <2>7, SetInduction
  <2>9. \A k \in Nat : k + 1 <= len => up[k + 1] = vp[k]
    BY <2>8
  <2> HIDE DEF Good
  <2>10. ASSUME NEW k \in Met(f, vp) PROVE k + 1 \in Met(f, up) /\ k \in Nat /\ up[k + 1] = vp[k]
    <3>1. k \in 0 .. len /\ vp[k] # NoNode /\ Decision(f, vp[k])
      BY DEF Met
    <3>2. k # len
      BY <2>5, <3>1
    <3>3. k + 1 \in 0 .. len /\ k + 1 <= len /\ k \in Nat
      BY <1>3, <3>1, <3>2
    <3> QED BY <2>9, <3>1, <3>3 DEF Met
  <2>11. ASSUME NEW k \in Met(f, up) PROVE k - 1 \in Met(f, vp) /\ k \in Nat
    <3>1. k \in 0 .. len /\ k # 0 /\ up[k] # NoNode /\ Decision(f, up[k])
      BY <1>5 DEF Met
    <3>2. k - 1 \in Nat /\ (k - 1) + 1 = k /\ k <= len /\ k - 1 \in 0 .. len
      BY <1>3, <3>1
    <3>3. up[k] = vp[k - 1]
      BY <2>9, <3>2
    <3> QED BY <3>1, <3>2, <3>3 DEF Met
  <2>12. CASE Met(f, up) = {}
    <3>1. Met(f, vp) = {}
      BY <2>10, <2>12
    <3> QED BY <1>2, <1>10, <2>1, <2>3, <2>12, <3>1
  <2>13. CASE Met(f, up) # {}
    <3> DEFINE a == FirstOf(Met(f, up))
               b == FirstOf(Met(f, vp))
    <3>1. Met(f, up) \in SUBSET Nat /\ Met(f, vp) \in SUBSET Nat /\ Met(f, vp) # {}
      BY <2>10, <2>11, <2>13
    <3>2. /\ a \in Met(f, up) /\ a \in Nat /\ \A j \in Met(f, up) : a <= j
          /\ b \in Met(f, vp) /\ b \in Nat /\ \A j \in Met(f, vp) : b <= j
      BY <2>13, <3>1, FirstOfSet
    <3> HIDE DEF a, b
    <3>3. a <= b + 1 /\ b <= a - 1
      BY <2>10, <2>11, <3>2
    <3>4. a = b + 1
      BY <3>2, <3>3
    <3>5. up[a] = vp[b]
      BY <2>10, <3>2, <3>4
    <3> QED BY <1>2, <1>10, <2>1, <2>3, <2>13, <3>1, <3>5 DEF a, b
  <2> QED BY <2>12, <2>13
<1> QED BY <1>9, <1>10

\* A condition parent is a decision node: the node itself or one before it.
LEMMA ConditionParentType ==
  ASSUME NEW f \in Flows, OnCanvas(f), NEW n \in f.nodes, FindConditionParent(f, n) # NoNode
  PROVE  /\ FindConditionParent(f, n) \in f.nodes
         /\ Decision(f, FindConditionParent(f, n))
         /\ FindConditionParent(f, n) = n \/ FindConditionParent(f, n) \in Ancestors(f, n)
<1> DEFINE c(m) == FindConditionParent(f, m)
           S == {m \in f.nodes : c(m) # NoNode =>
                   c(m) \in f.nodes /\ Decision(f, c(m)) /\ (c(m) = m \/ c(m) \in Ancestors(f, m))}
<1>1. ASSUME NEW m \in f.nodes, \A a \in Ancestors(f, m) : a \in S PROVE m \in S
  <2> SUFFICES ASSUME c(m) # NoNode
               PROVE  /\ c(m) \in f.nodes /\ Decision(f, c(m))
                      /\ c(m) = m \/ c(m) \in Ancestors(f, m)
    OBVIOUS
  <2>1. CASE Decision(f, m)
    BY <2>1, ParentOfDecision
  <2>2. CASE ~Decision(f, m)
    <3> DEFINE p == FirstParent(f, m)
    <3>1. p \in Sources(f, m) /\ c(m) = c(p)
      BY <2>2, ParentOfOther
    <3>2. p \in Ancestors(f, m)
      BY <3>1, SourceIsAncestor
    <3>3. c(p) \in f.nodes /\ Decision(f, c(p)) /\ (c(p) = p \/ c(p) \in Ancestors(f, p))
      BY <1>1, <3>1, <3>2
    <3> HIDE DEF p
    <3> QED BY <3>1, <3>2, <3>3, AncestorsNest
  <2> QED BY <2>1, <2>2
<1>2. f.nodes \subseteq S
  <2> HIDE DEF S
  <2> QED BY <1>1, UpwardInduction
<1> QED BY <1>2

\* What a node requires, input by input: an unconditional input itself, and of a
\* conditional one some input with the same condition parent.
LEMMA ReceivedMeans ==
  ASSUME NEW f, NEW n, NEW received
  PROVE  HasReceivedRequiredInputs(f, n, received) <=>
           \A s \in Sources(f, n) :
             IF FindConditionParent(f, s) = NoNode THEN s \in received
             ELSE \E t \in Sources(f, n) :
                    t \in received /\ FindConditionParent(f, t) = FindConditionParent(f, s)
<1> DEFINE c(s) == FindConditionParent(f, s)
           Group(s) == {t \in Sources(f, n) : c(t) = c(s)}
<1>1. HasReceivedRequiredInputs(f, n, received) <=>
        /\ \A s \in Sources(f, n) : c(s) = NoNode => s \in received
        /\ \A group \in ConditionalGroups(f, n) : group \cap received # {}
  BY DEF HasReceivedRequiredInputs, ExpectedInputs
<1>2. ConditionalGroups(f, n) = {Group(s) : s \in {t \in Sources(f, n) : c(t) # NoNode}}
  <2>1. ASSUME NEW g \in ConditionalGroups(f, n)
        PROVE  g \in {Group(s) : s \in {t \in Sources(f, n) : c(t) # NoNode}}
    <3>1. PICK s \in Sources(f, n) : c(s) # NoNode /\ g = {t \in Sources(f, n) : c(t) = c(s)}
      BY DEF ConditionalGroups
    <3> QED BY <3>1
  <2>2. ASSUME NEW s \in Sources(f, n), c(s) # NoNode
        PROVE  Group(s) \in ConditionalGroups(f, n)
    BY <2>2 DEF ConditionalGroups
  <2> QED BY <2>1, <2>2
<1>3. (\A group \in ConditionalGroups(f, n) : group \cap received # {}) <=>
        \A s \in Sources(f, n) : c(s) # NoNode => Group(s) \cap received # {}
  BY <1>2
<1> QED BY <1>1, <1>3

\* More inputs do no harm.
LEMMA ReceivedMore ==
  ASSUME NEW f, NEW n, NEW few, NEW more, few \subseteq more,
         HasReceivedRequiredInputs(f, n, few)
  PROVE  HasReceivedRequiredInputs(f, n, more)
BY DEF HasReceivedRequiredInputs

\* All inputs are enough.
LEMMA ReceivedAll ==
  ASSUME NEW f, NEW n
  PROVE  HasReceivedRequiredInputs(f, n, Sources(f, n))
BY ReceivedMeans

\* Before an unconditional node there are only nodes that decide nothing and are
\* unconditional themselves, so it waits for each of its inputs.
LEMMA UnconditionalUp ==
  ASSUME NEW f \in Flows, OnCanvas(f), NEW n \in f.nodes, Unconditional(f, n)
  PROVE  \A m \in Ancestors(f, n) :
           /\ m \in f.nodes /\ ~Decision(f, m) /\ Unconditional(f, m)
           /\ FindConditionParent(f, m) = NoNode
<1> SUFFICES ASSUME NEW m \in Ancestors(f, n)
             PROVE  /\ m \in f.nodes /\ ~Decision(f, m) /\ Unconditional(f, m)
                    /\ FindConditionParent(f, m) = NoNode
  OBVIOUS
<1>1. m \in f.nodes /\ ~Decision(f, m)
  BY DEF Ancestors, Unconditional
<1>2. Unconditional(f, m)
  BY AncestorsNest DEF Unconditional
<1>3. FindConditionParent(f, m) = NoNode
  <2> SUFFICES ASSUME FindConditionParent(f, m) # NoNode PROVE FALSE
    OBVIOUS
  <2> DEFINE c == FindConditionParent(f, m)
  <2>1. Decision(f, c) /\ (c = m \/ c \in Ancestors(f, m))
    BY <1>1, ConditionParentType
  <2> HIDE DEF c
  <2> QED BY <1>1, <1>2, <2>1 DEF Unconditional
<1> QED BY <1>1, <1>2, <1>3

-----------------------------------------------------------------------------
(***************************************************************************)
(* One run through a flow, as far as it has got: D is the set of nodes that *)
(* have finished and ign[s] the set of nodes s held its result back from.   *)
(***************************************************************************)

\* The inputs n has been sent.
Passed(f, D, ign, n) == {s \in Sources(f, n) : s \in D /\ n \notin ign[s]}

\* Decision node c went by handle o.
Went(f, ign, c, o) ==
  /\ f.outs[c] > 0 => o \in 0 .. f.outs[c] - 1
  /\ \A i \in EdgeIds(f) : f.edges[i].src = c => (f.edges[i].tgt \in ign[c] <=> f.edges[i].out # o)

\* Only decision nodes hold back, and those of a well-formed flow all but one handle.
Held(f, D, ign) ==
  /\ ign \in [f.nodes -> SUBSET f.nodes]
  /\ \A s \in f.nodes : ~Decision(f, s) => ign[s] = {}
  /\ WellFormed(f) => \A c \in D : Decision(f, c) => \E o \in Int : Went(f, ign, c, o)

\* Nothing has run without what it requires.
Earned(f, D, ign) ==
  /\ D \subseteq f.nodes
  /\ \A n \in D : HasReceivedRequiredInputs(f, n, Passed(f, D, ign, n))

\* A node that has run with a condition parent has got its input from a node
\* with the same one.
LEMMA GroupMember ==
  ASSUME NEW f \in Flows, OnCanvas(f), NEW D, NEW ign, Earned(f, D, ign),
         NEW n \in D, NEW c, c = FindConditionParent(f, n), c # NoNode, n # c
  PROVE  \E s \in Sources(f, n) : /\ s \in D /\ s \in f.nodes /\ s \in Ancestors(f, n)
                                  /\ n \notin ign[s]
                                  /\ FindConditionParent(f, s) = c
<1>1. n \in f.nodes
  BY DEF Earned
<1>2. ~Decision(f, n)
  BY <1>1, ParentOfDecision
<1>3. PICK p \in Sources(f, n) : FindConditionParent(f, p) = c
  BY <1>1, <1>2, ParentOfOther
<1>4. HasReceivedRequiredInputs(f, n, Passed(f, D, ign, n))
  BY DEF Earned
<1>5. PICK s \in Sources(f, n) : s \in Passed(f, D, ign, n) /\ FindConditionParent(f, s) = c
  BY <1>3, <1>4, ReceivedMeans
<1>6. s \in f.nodes /\ s \in Ancestors(f, n)
  BY <1>1, EdgeReaches, SourceIsAncestor
<1> QED BY <1>5, <1>6 DEF Passed

\* So the condition parent has run too ...
LEMMA ParentHasRun ==
  ASSUME NEW f \in Flows, OnCanvas(f), NEW D, NEW ign, Earned(f, D, ign),
         NEW c, c # NoNode, NEW n \in D, FindConditionParent(f, n) = c
  PROVE  c \in D
<1> DEFINE S == {m \in f.nodes : m \in D /\ FindConditionParent(f, m) = c => c \in D}
<1>1. ASSUME NEW m \in f.nodes, \A a \in Ancestors(f, m) : a \in S PROVE m \in S
  <2> SUFFICES ASSUME m \in D, FindConditionParent(f, m) = c PROVE c \in D
    OBVIOUS
  <2>1. CASE m = c
    BY <2>1
  <2>2. CASE m # c
    <3>1. PICK s \in Sources(f, m) : /\ s \in D /\ s \in f.nodes /\ s \in Ancestors(f, m)
                                     /\ FindConditionParent(f, s) = c
      BY <2>2, GroupMember
    <3> QED BY <1>1, <3>1
  <2> QED BY <2>1, <2>2
<1>2. f.nodes \subseteq S
  <2> HIDE DEF S
  <2> QED BY <1>1, UpwardInduction
<1> QED BY <1>2 DEF Earned

\* The nodes handle o of c leads to.
Targets(f, c, o) == {f.edges[i].tgt : i \in Drawn(f, c, o)}

\* What a handle leads to, and what is reached from there, belongs to the flow.
LEMMA TargetsType ==
  ASSUME NEW f \in Flows, NEW c, NEW o
  PROVE  /\ Targets(f, c, o) \in SUBSET f.nodes
         /\ Reach(f, Targets(f, c, o)) \in SUBSET f.nodes
         /\ Targets(f, c, o) \subseteq Reach(f, Targets(f, c, o))
<1>1. Targets(f, c, o) \in SUBSET f.nodes
  BY EdgeType DEF Targets, Drawn
<1> QED BY <1>1, ReachIsClosed

\* A source that is reached takes its target along.
LEMMA ReachOn ==
  ASSUME NEW f \in Flows, NEW from \in SUBSET f.nodes, NEW n, NEW s \in Sources(f, n),
         s \in Reach(f, from)
  PROVE  n \in Reach(f, from)
BY ReachIsClosed DEF Closed, Sources

\* ... and the node lies on the way the condition parent went.
LEMMA RanOnTheWay ==
  ASSUME NEW f \in Flows, OnCanvas(f), NEW D, NEW ign, Earned(f, D, ign),
         NEW c \in f.nodes, NEW o, Went(f, ign, c, o),
         NEW n \in D, FindConditionParent(f, n) = c, n # c
  PROVE  n \in Reach(f, Targets(f, c, o))
<1> DEFINE W == Reach(f, Targets(f, c, o))
           S == {m \in f.nodes : m \in D /\ FindConditionParent(f, m) = c /\ m # c => m \in W}
<1>1. ASSUME NEW m \in f.nodes, \A a \in Ancestors(f, m) : a \in S PROVE m \in S
  <2> SUFFICES ASSUME m \in D, FindConditionParent(f, m) = c, m # c PROVE m \in W
    OBVIOUS
  <2>0. c # NoNode
    BY FlowsAssumption DEF IsFlow
  <2>1. PICK s \in Sources(f, m) : /\ s \in D /\ s \in f.nodes /\ s \in Ancestors(f, m)
                                   /\ m \notin ign[s]
                                   /\ FindConditionParent(f, s) = c
    BY <2>0, GroupMember
  <2>2. CASE s = c
    <3>1. PICK i \in EdgeIds(f) : f.edges[i].src = c /\ f.edges[i].tgt = m
      BY <2>2 DEF Sources
    <3>2. f.edges[i].out = o
      BY <2>1, <2>2, <3>1 DEF Went
    <3>3. m \in Targets(f, c, o)
      BY <3>1, <3>2 DEF Targets, Drawn
    <3> QED BY <3>3, TargetsType
  <2>3. CASE s # c
    <3>1. s \in W
      BY <1>1, <2>1, <2>3
    <3> HIDE DEF W
    <3> QED BY <2>1, <3>1, TargetsType, ReachOn DEF W
  <2> QED BY <2>2, <2>3
<1>2. f.nodes \subseteq S
  <2> HIDE DEF S
  <2> QED BY <1>1, UpwardInduction
<1>3. n \in f.nodes
  BY DEF Earned
<1> QED BY <1>2, <1>3

\* When a handle of c brings a node one input, it is either drawn straight to the
\* node or reaches one source of it.
LEMMA OneArrival ==
  ASSUME NEW f \in Flows, NEW n \in f.nodes, NEW c, NEW o, ArrivalsBy(f, n, c, o) = 1
  PROVE  /\ n \in Targets(f, c, o) =>
              \A s \in Sources(f, n) \ {c} : s \notin Reach(f, Targets(f, c, o))
         /\ n \notin Targets(f, c, o) =>
              \E s \in Sources(f, n) \ {c} : s \in Reach(f, Targets(f, c, o))
         /\ \A s, t \in Sources(f, n) \ {c} :
              s \in Reach(f, Targets(f, c, o)) /\ t \in Reach(f, Targets(f, c, o)) => s = t
<1> DEFINE via == {s \in Sources(f, n) \ {c} : s \in Reach(f, Targets(f, c, o))}
<1>1. Cardinality(via) + (IF n \in Targets(f, c, o) THEN 1 ELSE 0) = 1
  BY DEF ArrivalsBy, Targets
<1>2. IsFiniteSet(via) /\ Cardinality(via) \in Nat
  <2>1. via \in SUBSET f.nodes
    BY EdgeReaches
  <2> HIDE DEF via
  <2> QED BY <2>1, NodesFinite, FS_Subset, FS_CardinalityType
<1> HIDE DEF via
<1>3. n \in Targets(f, c, o) => via = {}
  <2> SUFFICES ASSUME n \in Targets(f, c, o) PROVE via = {}
    OBVIOUS
  <2>1. Cardinality(via) = 0
    BY <1>1, <1>2
  <2> QED BY <1>2, <2>1, FS_EmptySet
<1>4. n \notin Targets(f, c, o) => \E x : via = {x}
  <2> SUFFICES ASSUME n \notin Targets(f, c, o) PROVE \E x : via = {x}
    OBVIOUS
  <2>1. Cardinality(via) = 1
    BY <1>1, <1>2
  <2> QED BY <1>2, <2>1, FS_Singleton
<1>5. \A s \in Sources(f, n) \ {c} : s \in via <=> s \in Reach(f, Targets(f, c, o))
  BY DEF via
<1>6. via \subseteq Sources(f, n) \ {c}
  BY DEF via
<1> QED BY <1>3, <1>4, <1>5, <1>6

\* The condition parent of a source has handles, one of which it went by.
LEMMA ParentWent ==
  ASSUME NEW f \in Flows, OnCanvas(f), WellFormed(f), NEW D, NEW ign, Held(f, D, ign),
         NEW n \in f.nodes, NEW s \in Sources(f, n),
         NEW c \in D, c = FindConditionParent(f, s), c # NoNode
  PROVE  \E o \in 0 .. f.outs[c] - 1 : Went(f, ign, c, o)
<1>1. s \in f.nodes /\ n \in Reach(f, {s})
  BY EdgeReaches
<1>2. c \in f.nodes /\ Decision(f, c) /\ (c = s \/ c \in Ancestors(f, s))
  BY <1>1, ConditionParentType
<1>3. \E i \in EdgeIds(f) : f.edges[i].src = c
  <2>1. CASE c = s
    BY <2>1 DEF Sources
  <2>2. CASE c # s
    <3>1. s \in Reach(f, {c}) \ {c}
      BY <1>2, <2>2 DEF Ancestors
    <3> SUFFICES ASSUME \A i \in EdgeIds(f) : f.edges[i].src # c PROVE FALSE
      OBVIOUS
    <3>2. Closed(f, {c})
      BY DEF Closed
    <3>3. Reach(f, {c}) \subseteq {c}
      BY <1>2, <3>2, ReachIsLeast
    <3> QED BY <3>1, <3>3
  <2> QED BY <2>1, <2>2
<1>4. PICK i \in EdgeIds(f) : f.edges[i].src = c
  BY <1>3
<1>5. f.edges[i].out \in Nat /\ f.edges[i].out < f.outs[c]
  BY <1>2, <1>4, EdgeType DEF WellFormed, SimpleHandles
<1>6. f.outs[c] \in Nat
  BY <1>2, FlowsAssumption DEF IsFlow
<1>7. PICK o \in Int : Went(f, ign, c, o)
  BY <1>2 DEF Held
<1> QED BY <1>5, <1>6, <1>7 DEF Went

\* No two inputs with the same condition parent are sent to one node.
LEMMA OnePerGroup ==
  ASSUME NEW f \in Flows, OnCanvas(f), WellFormed(f), NEW D, NEW ign,
         Earned(f, D, ign), Held(f, D, ign), NEW n \in f.nodes,
         NEW s \in Passed(f, D, ign, n), NEW t \in Passed(f, D, ign, n),
         FindConditionParent(f, s) = FindConditionParent(f, t),
         FindConditionParent(f, s) # NoNode
  PROVE  s = t
<1> SUFFICES ASSUME s # t PROVE FALSE
  OBVIOUS
<1> DEFINE c == FindConditionParent(f, s)
<1>1. /\ s \in Sources(f, n) /\ s \in D /\ n \notin ign[s]
      /\ t \in Sources(f, n) /\ t \in D /\ n \notin ign[t]
  BY DEF Passed
<1>2. Cardinality(Sources(f, n)) > 1
  <2>1. Sources(f, n) \in SUBSET f.nodes
    BY EdgeReaches
  <2>2. IsFiniteSet(Sources(f, n)) /\ Cardinality(Sources(f, n)) \in Nat
    BY <2>1, NodesFinite, FS_Subset, FS_CardinalityType
  <2>3. Cardinality(Sources(f, n)) # 0 /\ Cardinality(Sources(f, n)) # 1
    BY <1>1, <2>2, FS_EmptySet, FS_Singleton
  <2> QED BY <2>2, <2>3
<1>3. BalancedJoin(f, n)
  BY <1>2 DEF WellFormed
<1>4. c \in D /\ c \in f.nodes
  BY <1>1, ParentHasRun DEF Earned
<1>5. PICK o \in 0 .. f.outs[c] - 1 : Went(f, ign, c, o)
  BY <1>1, <1>4, ParentWent
<1>6. ArrivalsBy(f, n, c, o) = 1
  BY <1>1, <1>3, <1>5 DEF BalancedJoin
<1>7. ASSUME NEW u \in {s, t} PROVE u = c \/ u \in Reach(f, Targets(f, c, o))
  BY <1>1, <1>4, <1>5, RanOnTheWay
<1>8. c \in {s, t} => n \in Targets(f, c, o)
  <2> SUFFICES ASSUME c \in {s, t} PROVE n \in Targets(f, c, o)
    OBVIOUS
  <2>1. PICK i \in EdgeIds(f) : f.edges[i].src = c /\ f.edges[i].tgt = n
    BY <1>1 DEF Sources
  <2>2. n \notin ign[c]
    BY <1>1
  <2>3. f.edges[i].out = o
    BY <1>5, <2>1, <2>2 DEF Went
  <2> HIDE DEF c
  <2> QED BY <2>1, <2>3 DEF Targets, Drawn
<1> HIDE DEF c
<1>9. CASE c \in {s, t}
  <2>1. PICK u \in {s, t} : u # c
    OBVIOUS
  <2>2. u \in Reach(f, Targets(f, c, o)) /\ u \in Sources(f, n) \ {c}
    BY <1>1, <1>7, <2>1
  <2> QED BY <1>6, <1>8, <1>9, <2>2, OneArrival
<1>10. CASE c \notin {s, t}
  <2>1. /\ s \in Reach(f, Targets(f, c, o)) /\ s \in Sources(f, n) \ {c}
        /\ t \in Reach(f, Targets(f, c, o)) /\ t \in Sources(f, n) \ {c}
    BY <1>1, <1>7, <1>10
  <2> QED BY <1>6, <2>1, OneArrival
<1> QED BY <1>9, <1>10

-----------------------------------------------------------------------------
(***************************************************************************)
(* What processNodeOutputs does to one child.                               *)
(***************************************************************************)

\* The edges are counted, and a node of the flow is a node.
LEMMA FlowLen ==
  ASSUME NEW f \in Flows
  PROVE  /\ Len(f.edges) \in Nat
         /\ f.nodes \subseteq AllNodes
         /\ Seq(f.nodes) \subseteq Seq(AllNodes)
<1> DEFINE Edges == [src : f.nodes, out : Nat, tgt : f.nodes]
<1>1. f.edges \in Seq(Edges) /\ f.nodes \subseteq AllNodes
  BY FlowType
<1> HIDE DEF Edges
<1> QED BY <1>1

\* p is q with more nodes behind it, n one of them exactly if it starts.
Grew(q, p, n, starts) ==
  /\ Len(q) <= Len(p)
  /\ \A k \in 1 .. Len(q) : p[k] = q[k]
  /\ IF starts
     THEN \E j \in Len(q) + 1 .. Len(p) : \A k \in Len(q) + 1 .. Len(p) : p[k] = n <=> k = j
     ELSE \A k \in Len(q) + 1 .. Len(p) : p[k] # n

\* A queue that is left alone has not grown.
LEMMA GrewNot ==
  ASSUME NEW q, NEW n
  PROVE  Len(q) \in Nat => Grew(q, q, n, FALSE)
BY DEF Grew

\* Queueing n once is the growth by n.
LEMMA GrewBy ==
  ASSUME NEW T, NEW q \in Seq(T), NEW p \in Seq(T), NEW n \in T, Grew(q, p, n, FALSE)
  PROVE  Grew(q, Append(p, n), n, TRUE)
<1> DEFINE a == Append(p, n)
<1>1. Len(q) \in Nat /\ Len(p) \in Nat /\ Len(q) <= Len(p)
  BY DEF Grew
<1>2. Len(a) = Len(p) + 1 /\ a[Len(p) + 1] = n /\ \A k \in 1 .. Len(p) : a[k] = p[k]
  OBVIOUS
<1> HIDE DEF a
<1>3. \A k \in 1 .. Len(q) : a[k] = q[k]
  BY <1>1, <1>2 DEF Grew
<1>4. \A k \in Len(q) + 1 .. Len(a) : a[k] = n <=> k = Len(p) + 1
  BY <1>1, <1>2 DEF Grew
<1>5. Len(p) + 1 \in Len(q) + 1 .. Len(a) /\ Len(q) <= Len(a)
  BY <1>1, <1>2
<1>6. Grew(q, a, n, TRUE)
  BY <1>3, <1>4, <1>5 DEF Grew
<1> QED BY <1>6 DEF a

\* Queueing another node says nothing about n.
LEMMA GrewByOther ==
  ASSUME NEW T, NEW q \in Seq(T), NEW p \in Seq(T), NEW n, NEW x \in T, x # n,
         NEW b \in BOOLEAN, Grew(q, p, n, b)
  PROVE  Grew(q, Append(p, x), n, b)
<1> DEFINE a == Append(p, x)
<1>1. Len(q) \in Nat /\ Len(p) \in Nat /\ Len(q) <= Len(p)
  BY DEF Grew
<1>2. Len(a) = Len(p) + 1 /\ a[Len(p) + 1] = x /\ \A k \in 1 .. Len(p) : a[k] = p[k]
  OBVIOUS
<1> HIDE DEF a
<1>3. (\A k \in 1 .. Len(q) : a[k] = q[k]) /\ Len(q) <= Len(a)
  BY <1>1, <1>2 DEF Grew
<1>4. \A k \in Len(q) + 1 .. Len(a) : k \in Len(q) + 1 .. Len(p) \/ k = Len(a)
  BY <1>1, <1>2
<1>5. CASE b
  <2>1. PICK j \in Len(q) + 1 .. Len(p) : \A k \in Len(q) + 1 .. Len(p) : p[k] = n <=> k = j
    BY <1>5 DEF Grew
  <2>2. \A k \in Len(q) + 1 .. Len(a) : a[k] = n <=> k = j
    BY <1>1, <1>2, <1>4, <2>1
  <2>3. j \in Len(q) + 1 .. Len(a)
    BY <1>1, <1>2
  <2>4. Grew(q, a, n, b)
    BY <1>3, <1>5, <2>2, <2>3 DEF Grew
  <2> QED BY <2>4 DEF a
<1>6. CASE ~b
  <2>1. \A k \in Len(q) + 1 .. Len(p) : p[k] # n
    BY <1>6 DEF Grew
  <2>2. \A k \in Len(q) + 1 .. Len(a) : a[k] # n
    BY <1>1, <1>2, <1>4, <2>1
  <2>3. Grew(q, a, n, b)
    BY <1>3, <1>6, <2>2 DEF Grew
  <2> QED BY <2>3 DEF a
<1> QED BY <1>5, <1>6

\* At most one edge leads from c to n.
OneEdge(f, c, n) ==
  \A i, j \in EdgeIds(f) :
    /\ f.edges[i].src = c /\ f.edges[i].tgt = n
    /\ f.edges[j].src = c /\ f.edges[j].tgt = n
    => i = j

\* c hands on its result to n.
Sent(f, c, ignored, n) == c \in Sources(f, n) /\ n \notin ignored

\* ... and n has now got everything it requires.
Starts(f, c, ignored, waiting, n) ==
  Sent(f, c, ignored, n) /\ HasReceivedRequiredInputs(f, n, waiting[n] \cup {c})

\* What the hand-out leaves in the queue and in the waiting nodes for n.
FannedOut(f, c, n, ignored, queue, waiting, fan) ==
  \E b \in BOOLEAN :
    /\ b <=> Starts(f, c, ignored, waiting, n)
    /\ Grew(queue, fan.queue, n, b)
    /\ fan.waiting[n] = IF b THEN {}
                        ELSE IF Sent(f, c, ignored, n) THEN waiting[n] \cup {c} ELSE waiting[n]

\* A child to which one edge leads either starts, and waits for nothing, or holds
\* the new input, or was not sent any.
LEMMA FanForChild ==
  ASSUME NEW f \in Flows, NEW c \in f.nodes, NEW n \in f.nodes, OneEdge(f, c, n), NEW ignored,
         NEW queue \in Seq(AllNodes), NEW waiting \in [AllNodes -> SUBSET AllNodes],
         NEW fan, fan = ProcessChildren(f, c, ignored, queue, waiting)
  PROVE  FannedOut(f, c, n, ignored, queue, waiting, fan)
<1> DEFINE len == Len(f.edges)
           met(k) == \E i \in 1 .. k : f.edges[i].src = c /\ f.edges[i].tgt = n
           sent(k) == met(k) /\ n \notin ignored
           ready == HasReceivedRequiredInputs(f, n, waiting[n] \cup {c})
           As(acc, s) == /\ Grew(queue, acc.queue, n, s /\ ready)
                         /\ acc.waiting[n] = IF s /\ ready THEN {}
                                             ELSE IF s THEN waiting[n] \cup {c} ELSE waiting[n]
<1>1. HasFan(f, c, ignored, queue, waiting)
  BY ProcessChildrenFold
<1>2. PICK g \in [0 .. len -> Fans] :
        /\ g[0] = [queue |-> queue, waiting |-> waiting]
        /\ \A k \in 1 .. len : g[k] = Deliver(f, c, ignored, f.edges[k], g[k - 1])
        /\ fan = g[len]
  BY <1>1 DEF HasFan
<1>3. len \in Nat /\ f.nodes \subseteq AllNodes
  BY FlowLen
<1> DEFINE Good == {k \in Nat : k <= len => As(g[k], sent(k))}
<1>4. 0 \in Good
  <2>1. g[0].queue = queue /\ g[0].waiting = waiting /\ ~met(0)
    BY <1>2
  <2>2. Grew(queue, queue, n, FALSE)
    <3>1. Len(queue) \in Nat
      OBVIOUS
    <3> QED BY <3>1, GrewNot
  <2> QED BY <2>1, <2>2
<1>5. ASSUME NEW k \in Nat, k \in Good PROVE k + 1 \in Good
  <2> SUFFICES ASSUME k + 1 <= len PROVE As(g[k + 1], sent(k + 1))
    OBVIOUS
  <2> DEFINE e == f.edges[k + 1]
             acc == g[k]
  <2>1. k + 1 \in 1 .. len /\ (k + 1) - 1 = k /\ k \in 0 .. len /\ k <= len
    BY <1>3
  <2>2. g[k + 1] = Deliver(f, c, ignored, e, acc) /\ acc \in Fans
    BY <1>2, <2>1
  <2>3. As(acc, sent(k))
    BY <1>5, <2>1
  <2>4. /\ acc.queue \in Seq(AllNodes) /\ acc.waiting \in [AllNodes -> SUBSET AllNodes]
        /\ e.tgt \in AllNodes /\ n \in AllNodes /\ k + 1 \in EdgeIds(f)
    <3>1. k + 1 \in EdgeIds(f)
      BY <2>1 DEF EdgeIds
    <3>2. e.tgt \in f.nodes
      BY <3>1, EdgeType
    <3> QED BY <1>3, <2>2, <3>1, <3>2 DEF Fans
  <2>5. met(k + 1) <=> met(k) \/ (e.src = c /\ e.tgt = n)
    BY <2>1
  <2>6. ASSUME e.src = c, e.tgt = n PROVE ~met(k)
    <3> SUFFICES ASSUME NEW i \in 1 .. k, f.edges[i].src = c, f.edges[i].tgt = n PROVE FALSE
      OBVIOUS
    <3>1. i \in EdgeIds(f) /\ i # k + 1
      BY <1>3, <2>1 DEF EdgeIds
    <3> QED BY <2>4, <2>6, <3>1 DEF OneEdge
  <2> HIDE DEF met, e, acc
  <2>7. CASE e.src # c \/ e.tgt \in ignored
    <3>1. g[k + 1] = acc
      BY <2>2, <2>7 DEF Deliver
    <3>2. sent(k + 1) <=> sent(k)
      BY <2>5, <2>7
    <3> QED BY <2>3, <3>1, <3>2
  <2>8. CASE e.src = c /\ e.tgt \notin ignored /\ e.tgt # n
    <3>1. sent(k + 1) <=> sent(k)
      BY <2>5, <2>8
    <3>2. g[k + 1].waiting[n] = acc.waiting[n]
      BY <2>2, <2>4, <2>8 DEF Deliver
    <3>3. g[k + 1].queue = acc.queue \/ g[k + 1].queue = Append(acc.queue, e.tgt)
      BY <2>2, <2>8 DEF Deliver
    <3>4. Grew(queue, g[k + 1].queue, n, sent(k) /\ ready)
      <4>1. PICK b \in BOOLEAN : b = (sent(k) /\ ready)
        OBVIOUS
      <4>2. Grew(queue, acc.queue, n, b)
        BY <2>3, <4>1
      <4> HIDE DEF sent, ready
      <4>3. Grew(queue, Append(acc.queue, e.tgt), n, b)
        BY <2>4, <2>8, <4>2, GrewByOther
      <4> QED BY <3>3, <4>1, <4>2, <4>3
    <3> HIDE DEF sent, ready
    <3> QED BY <2>3, <3>1, <3>2, <3>4
  <2>9. CASE e.src = c /\ e.tgt \notin ignored /\ e.tgt = n
    <3>1. sent(k + 1) /\ ~sent(k)
      BY <2>5, <2>6, <2>9
    <3>2. acc.waiting[n] = waiting[n] /\ Grew(queue, acc.queue, n, FALSE)
      <4>1. (sent(k) /\ ready) = FALSE
        BY <3>1
      <4> HIDE DEF sent, ready
      <4> QED BY <2>3, <3>1, <4>1
    <3>3. CASE ready
      <4>1. /\ g[k + 1].queue = Append(acc.queue, n)
            /\ g[k + 1].waiting = [acc.waiting EXCEPT ![n] = {}]
        BY <2>2, <2>9, <3>2, <3>3 DEF Deliver
      <4>2. Grew(queue, g[k + 1].queue, n, TRUE)
        <5>1. Grew(queue, Append(acc.queue, n), n, TRUE)
          BY <2>4, <3>2, GrewBy
        <5> QED BY <4>1, <5>1
      <4>3. g[k + 1].waiting[n] = {}
        BY <2>4, <4>1
      <4>4. (sent(k + 1) /\ ready) = TRUE
        BY <3>1, <3>3
      <4> HIDE DEF sent, ready
      <4> QED BY <4>2, <4>3, <4>4
    <3>4. CASE ~ready
      <4>1. /\ g[k + 1].queue = acc.queue
            /\ g[k + 1].waiting = [acc.waiting EXCEPT ![n] = waiting[n] \cup {c}]
        BY <2>2, <2>9, <3>2, <3>4 DEF Deliver
      <4>2. Grew(queue, g[k + 1].queue, n, FALSE)
        BY <3>2, <4>1
      <4>3. g[k + 1].waiting[n] = waiting[n] \cup {c}
        BY <2>4, <4>1
      <4>4. (sent(k + 1) /\ ready) = FALSE
        BY <3>4
      <4> HIDE DEF sent, ready
      <4> QED BY <3>1, <4>2, <4>3, <4>4
    <3> QED BY <3>3, <3>4
  <2> QED BY <2>7, <2>8, <2>9
<1>6. len \in Good
  <2> HIDE DEF Good
  <2>1. Nat \subseteq Good
    BY <1>4, <1>5, SetInduction
  <2> QED BY <1>3, <2>1
<1>7. As(g[len], sent(len))
  BY <1>3, <1>6
<1>8. sent(len) <=> Sent(f, c, ignored, n)
  BY DEF Sent, Sources, EdgeIds
<1>9. sent(len) /\ ready <=> Starts(f, c, ignored, waiting, n)
  BY <1>8 DEF Starts
<1>10. sent(len) \in BOOLEAN /\ (sent(len) /\ ready) \in BOOLEAN
  OBVIOUS
<1> HIDE DEF sent, ready
<1>11. PICK b \in BOOLEAN : b = (sent(len) /\ ready)
  BY <1>10
<1>12. /\ Grew(queue, fan.queue, n, b)
       /\ fan.waiting[n] = IF b THEN {}
                           ELSE IF sent(len) THEN waiting[n] \cup {c} ELSE waiting[n]
  BY <1>2, <1>7, <1>11
<1>13. b <=> Starts(f, c, ignored, waiting, n)
  BY <1>9, <1>11
<1> QED BY <1>8, <1>12, <1>13 DEF FannedOut

\* Only nodes of the flow join the queue.
LEMMA FanNodes ==
  ASSUME NEW f \in Flows, NEW c \in f.nodes, NEW ignored,
         NEW queue \in Seq(f.nodes), NEW waiting \in [AllNodes -> SUBSET AllNodes],
         NEW fan, fan = ProcessChildren(f, c, ignored, queue, waiting)
  PROVE  fan.queue \in Seq(f.nodes)
<1> DEFINE Own == {acc \in Fans : acc.queue \in Seq(f.nodes)}
           len == Len(f.edges)
<1>1. queue \in Seq(AllNodes)
  BY FlowLen
<1>2. HasFan(f, c, ignored, queue, waiting)
  BY <1>1, ProcessChildrenFold
<1>3. PICK g \in [0 .. len -> Fans] :
        /\ g[0] = [queue |-> queue, waiting |-> waiting]
        /\ \A k \in 1 .. len : g[k] = Deliver(f, c, ignored, f.edges[k], g[k - 1])
        /\ fan = g[len]
  BY <1>2 DEF HasFan
<1>4. len \in Nat
  BY FlowLen
<1>5. g[0] \in Own
  BY <1>3, <1>4
<1>6. ASSUME NEW k \in 1 .. len, g[k - 1] \in Own PROVE g[k] \in Own
  <2>1. k \in 0 .. len /\ k \in EdgeIds(f)
    BY <1>4 DEF EdgeIds
  <2>2. f.edges[k].tgt \in f.nodes /\ g[k] \in Fans
    BY <1>3, <2>1, EdgeType
  <2> DEFINE acc == g[k - 1]
             e == f.edges[k]
  <2>3. g[k] = Deliver(f, c, ignored, e, acc) /\ acc.queue \in Seq(f.nodes)
    BY <1>3, <1>6
  <2> HIDE DEF acc, e
  <2>4. g[k].queue = acc.queue \/ g[k].queue = Append(acc.queue, e.tgt)
    BY <2>3 DEF Deliver
  <2>5. e.tgt \in f.nodes
    BY <2>2 DEF e
  <2>6. g[k].queue \in Seq(f.nodes)
    <3> DEFINE N == f.nodes
    <3>1. acc.queue \in Seq(N) /\ e.tgt \in N
      BY <2>3, <2>5
    <3> HIDE DEF N
    <3>2. Append(acc.queue, e.tgt) \in Seq(N)
      BY <3>1
    <3> QED BY <2>4, <3>1, <3>2 DEF N
  <2> QED BY <2>2, <2>6
<1>7. \A k \in 0 .. len : g[k] \in Own
  <2> HIDE DEF Own, len
  <2> QED BY <1>4, <1>5, <1>6, StaysIn
<1> QED BY <1>3, <1>4, <1>7

-----------------------------------------------------------------------------
(***************************************************************************)
(* A run between two turns of the engine: queue q, record d, waiting nodes  *)
(* w. The sets ign of what was held back are not stored by the engine; the  *)
(* invariant says that some fit.                                            *)
(***************************************************************************)

\* The record of the run has an entry of n.
InRecord(d, n) == \E i \in 1 .. Len(d) : d[i].node = n

\* n stands in the queue.
InQueue(q, n) == \E k \in 1 .. Len(q) : q[k] = n

\* n was put in the queue at some time, and may have run since.
Fired(q, d, n) == InRecord(d, n) \/ InQueue(q, n)

\* n was put in the queue at most once.
Once(q, d, n) ==
  /\ \A i, j \in 1 .. Len(d) : d[i].node = n /\ d[j].node = n => i = j
  /\ \A i, j \in 1 .. Len(q) : q[i] = n /\ q[j] = n => i = j
  /\ ~(InRecord(d, n) /\ InQueue(q, n))

\* The nodes of the record.
Ran(f, d) == {n \in f.nodes : InRecord(d, n)}

\* The waiting nodes of a request that begins or resumes.
NothingWaits == [n \in AllNodes |-> {}]

\* The nodes whose joins come out even.
Sound(f) ==
  IF WellFormed(f) /\ Loops(f) = {} THEN f.nodes ELSE {n \in f.nodes : Unconditional(f, n)}

\* Nothing is fired twice or without its inputs; what is fired waits for nothing.
Orderly(f, q, d, w, ign, n) ==
  LET passed == Passed(f, Ran(f, d), ign, n)
  IN  /\ Once(q, d, n)
      /\ w[n] \subseteq passed
      /\ Fired(q, d, n) => HasReceivedRequiredInputs(f, n, passed) /\ w[n] = {}

\* What is not fired has not got all it requires and holds what it got.
Exact(f, q, d, w, ign, n) ==
  LET passed == Passed(f, Ran(f, d), ign, n)
  IN  ~Fired(q, d, n) => w[n] = passed /\ ~HasReceivedRequiredInputs(f, n, passed)

\* fresh says that no pause has thrown away what was queued or waiting.
Flowing(f, q, d, w, ign, fresh) ==
  /\ q \in Seq(f.nodes)
  /\ \A i \in 1 .. Len(d) : d[i].status = "FINISHED" /\ d[i].node \in f.nodes
  /\ Held(f, Ran(f, d), ign)
  /\ Loops(f) = {} => \A n \in Sound(f) : Orderly(f, q, d, w, ign, n)
  /\ fresh => \A n \in Sound(f) : Exact(f, q, d, w, ign, n)

\* A turn moves the head of the queue into the record.
LEMMA MoveToRecord ==
  ASSUME NEW T, NEW q \in Seq(T), q # <<>>, NEW c, c = Head(q), NEW d \in Seq(Entries),
         NEW e \in Entries, e.node = c, NEW d2, d2 = Append(d, e), NEW n
  PROVE  /\ InRecord(d2, n) <=> InRecord(d, n) \/ n = c
         /\ InQueue(q, n) <=> InQueue(Tail(q), n) \/ n = c
         /\ Once(q, d, n) => Once(Tail(q), d2, n)
<1> DEFINE t == Tail(q)
<1>1. Len(d) \in Nat /\ Len(d2) = Len(d) + 1 /\ d2[Len(d) + 1].node = c
      /\ \A i \in 1 .. Len(d) : d2[i] = d[i]
  <2> HIDE DEF Entries
  <2> QED OBVIOUS
<1>2. Len(q) \in Nat /\ Len(q) >= 1 /\ q[1] = c
      /\ Len(t) = Len(q) - 1 /\ \A k \in 1 .. Len(t) : t[k] = q[k + 1]
  OBVIOUS
<1> HIDE DEF t
<1>3. InRecord(d2, n) <=> InRecord(d, n) \/ n = c
  <2>1. ASSUME InRecord(d2, n) PROVE InRecord(d, n) \/ n = c
    <3>1. PICK i \in 1 .. Len(d2) : d2[i].node = n
      BY <2>1 DEF InRecord
    <3>2. i \in 1 .. Len(d) \/ i = Len(d) + 1
      BY <1>1
    <3> QED BY <1>1, <3>1, <3>2 DEF InRecord
  <2>2. ASSUME InRecord(d, n) PROVE InRecord(d2, n)
    <3>1. PICK i \in 1 .. Len(d) : d[i].node = n
      BY <2>2 DEF InRecord
    <3>2. i \in 1 .. Len(d2)
      BY <1>1
    <3> QED BY <1>1, <3>1, <3>2 DEF InRecord
  <2>3. ASSUME n = c PROVE InRecord(d2, n)
    <3>1. Len(d) + 1 \in 1 .. Len(d2)
      BY <1>1
    <3> QED BY <1>1, <2>3, <3>1 DEF InRecord
  <2> QED BY <2>1, <2>2, <2>3
<1>4. InQueue(q, n) <=> InQueue(t, n) \/ n = c
  <2>1. ASSUME InQueue(q, n) PROVE InQueue(t, n) \/ n = c
    <3>1. PICK k \in 1 .. Len(q) : q[k] = n
      BY <2>1 DEF InQueue
    <3>2. CASE k = 1
      BY <1>2, <3>1, <3>2
    <3>3. CASE k # 1
      <4>1. k - 1 \in 1 .. Len(t) /\ (k - 1) + 1 = k
        BY <1>2, <3>3
      <4> QED BY <1>2, <3>1, <4>1 DEF InQueue
    <3> QED BY <3>2, <3>3
  <2>2. ASSUME InQueue(t, n) PROVE InQueue(q, n)
    <3>1. PICK k \in 1 .. Len(t) : t[k] = n
      BY <2>2 DEF InQueue
    <3>2. k + 1 \in 1 .. Len(q) /\ q[k + 1] = n
      BY <1>2, <3>1
    <3> QED BY <3>2 DEF InQueue
  <2>3. ASSUME n = c PROVE InQueue(q, n)
    <3>1. 1 \in 1 .. Len(q)
      BY <1>2
    <3> QED BY <1>2, <2>3, <3>1 DEF InQueue
  <2> QED BY <2>1, <2>2, <2>3
<1>5. ASSUME Once(q, d, n) PROVE Once(t, d2, n)
  <2>1. \A i, j \in 1 .. Len(t) : t[i] = n /\ t[j] = n => i = j
    <3> SUFFICES ASSUME NEW i \in 1 .. Len(t), NEW j \in 1 .. Len(t), t[i] = n, t[j] = n
                 PROVE  i = j
      OBVIOUS
    <3>1. i + 1 \in 1 .. Len(q) /\ j + 1 \in 1 .. Len(q) /\ q[i + 1] = n /\ q[j + 1] = n
      BY <1>2
    <3>2. i + 1 = j + 1
      BY <1>5, <3>1 DEF Once
    <3> QED BY <1>2, <3>2
  <2>2. n = c => ~InRecord(d, n) /\ ~InQueue(t, n)
    <3> SUFFICES ASSUME n = c PROVE ~InRecord(d, n) /\ ~InQueue(t, n)
      OBVIOUS
    <3>1. ~InRecord(d, n)
      BY <1>4, <1>5 DEF Once
    <3>2. ASSUME NEW k \in 1 .. Len(t), t[k] = n PROVE FALSE
      <4>1. k + 1 \in 1 .. Len(q) /\ 1 \in 1 .. Len(q) /\ q[k + 1] = n /\ q[1] = n
        BY <1>2, <3>2
      <4>2. k + 1 = 1
        BY <1>5, <4>1 DEF Once
      <4> QED BY <1>2, <4>2
    <3> QED BY <3>1, <3>2 DEF InQueue
  <2>3. ~(InRecord(d2, n) /\ InQueue(t, n))
    BY <1>3, <1>4, <1>5, <2>2 DEF Once
  <2>4. \A i, j \in 1 .. Len(d2) : d2[i].node = n /\ d2[j].node = n => i = j
    <3> SUFFICES ASSUME NEW i \in 1 .. Len(d2), NEW j \in 1 .. Len(d2),
                        d2[i].node = n, d2[j].node = n
                 PROVE  i = j
      OBVIOUS
    <3>1. (i \in 1 .. Len(d) \/ i = Len(d) + 1) /\ (j \in 1 .. Len(d) \/ j = Len(d) + 1)
      BY <1>1
    <3>2. CASE i \in 1 .. Len(d) /\ j \in 1 .. Len(d)
      BY <1>1, <1>5, <3>2 DEF Once
    <3>3. CASE i = Len(d) + 1 /\ j \in 1 .. Len(d)
      BY <1>1, <2>2, <3>3 DEF InRecord
    <3>4. CASE j = Len(d) + 1 /\ i \in 1 .. Len(d)
      BY <1>1, <2>2, <3>4 DEF InRecord
    <3> QED BY <3>1, <3>2, <3>3, <3>4
  <2> QED BY <2>1, <2>3, <2>4 DEF Once
<1> QED BY <1>3, <1>4, <1>5 DEF t

\* What the children that joined the queue mean for one node.
LEMMA GrewMeans ==
  ASSUME NEW T, NEW q \in Seq(T), NEW p \in Seq(T), NEW n, NEW b \in BOOLEAN,
         Grew(q, p, n, b)
  PROVE  /\ InQueue(p, n) <=> InQueue(q, n) \/ b
         /\ \A d : Once(q, d, n) /\ (b => ~Fired(q, d, n)) => Once(p, d, n)
<1>1. Len(q) \in Nat /\ Len(p) \in Nat /\ Len(q) <= Len(p) /\ \A k \in 1 .. Len(q) : p[k] = q[k]
  BY DEF Grew
<1>2. \A k \in 1 .. Len(p) : k \in 1 .. Len(q) \/ k \in Len(q) + 1 .. Len(p)
  BY <1>1
<1>3. \A k \in 1 .. Len(q) : k \in 1 .. Len(p)
  BY <1>1
<1>4. \A k \in Len(q) + 1 .. Len(p) : k \in 1 .. Len(p)
  BY <1>1
<1>5. CASE b
  <2>1. PICK l \in Len(q) + 1 .. Len(p) : \A k \in Len(q) + 1 .. Len(p) : p[k] = n <=> k = l
    BY <1>5 DEF Grew
  <2>2. InQueue(p, n)
    BY <1>4, <2>1 DEF InQueue
  <2>3. ASSUME NEW d, Once(q, d, n), ~Fired(q, d, n) PROVE Once(p, d, n)
    <3>1. \A k \in 1 .. Len(p) : p[k] = n => k = l
      BY <1>1, <1>2, <2>1, <2>3 DEF Fired, InQueue
    <3> QED BY <2>3, <3>1 DEF Once, Fired
  <2> QED BY <1>5, <2>2, <2>3
<1>6. CASE ~b
  <2>1. \A k \in Len(q) + 1 .. Len(p) : p[k] # n
    BY <1>6 DEF Grew
  <2>2. \A k \in 1 .. Len(p) : p[k] = n => k \in 1 .. Len(q) /\ q[k] = n
    BY <1>1, <1>2, <2>1
  <2>3. InQueue(p, n) <=> InQueue(q, n)
    BY <1>1, <1>3, <2>2 DEF InQueue
  <2>4. ASSUME NEW d, Once(q, d, n) PROVE Once(p, d, n)
    BY <2>2, <2>3, <2>4 DEF Once
  <2> QED BY <1>6, <2>3, <2>4
<1> QED BY <1>5, <1>6

\* A sound node has at most one edge from each of its sources, and each of them
\* is sound.
LEMMA SoundSources ==
  ASSUME NEW f \in Flows, OnCanvas(f), NEW n \in Sound(f), NEW c
  PROVE  /\ n \in f.nodes
         /\ OneEdge(f, c, n)
         /\ c \in Sources(f, n) => /\ c \in Sound(f) /\ c # n /\ n \notin Sources(f, c)
                                   /\ \/ WellFormed(f) /\ Loops(f) = {}
                                      \/ ~Decision(f, c) /\ FindConditionParent(f, c) = NoNode
<1>1. n \in f.nodes
  BY DEF Sound
<1>2. ASSUME c \in Sources(f, n)
      PROVE  /\ c \in Sound(f) /\ c # n /\ n \notin Sources(f, c)
             /\ \/ WellFormed(f) /\ Loops(f) = {}
                \/ ~Decision(f, c) /\ FindConditionParent(f, c) = NoNode
  <2>1. c \in f.nodes /\ c \in Ancestors(f, n)
    BY <1>1, <1>2, EdgeReaches, SourceIsAncestor
  <2>2. c # n
    BY <2>1 DEF Ancestors
  <2>3. n \notin Sources(f, c)
    <3> SUFFICES ASSUME n \in Sources(f, c) PROVE FALSE
      OBVIOUS
    <3>1. n \in Ancestors(f, c)
      BY <2>1, SourceIsAncestor
    <3>2. c \in Ancestors(f, c)
      BY <2>1, <3>1, AncestorsNest
    <3> QED BY <3>2 DEF Ancestors
  <2>4. CASE WellFormed(f) /\ Loops(f) = {}
    BY <2>1, <2>2, <2>3, <2>4 DEF Sound
  <2>5. CASE ~(WellFormed(f) /\ Loops(f) = {})
    <3>1. Unconditional(f, n)
      BY <2>5 DEF Sound
    <3>2. ~Decision(f, c) /\ Unconditional(f, c) /\ FindConditionParent(f, c) = NoNode
      BY <1>1, <2>1, <3>1, UnconditionalUp
    <3> QED BY <2>1, <2>2, <2>3, <2>5, <3>2 DEF Sound
  <2> QED BY <2>4, <2>5
<1>3. OneEdge(f, c, n)
  <2> SUFFICES ASSUME NEW i \in EdgeIds(f), NEW j \in EdgeIds(f), i # j,
                      f.edges[i].src = c, f.edges[i].tgt = n,
                      f.edges[j].src = c, f.edges[j].tgt = n
               PROVE  FALSE
    BY DEF OneEdge
  <2>1. c \in Sources(f, n)
    BY DEF Sources
  <2>2. CASE Decision(f, c)
    <3>1. SimpleHandles(f)
      BY <1>2, <2>1, <2>2 DEF WellFormed
    <3> QED BY <2>2, <3>1 DEF SimpleHandles
  <2>3. CASE ~Decision(f, c)
    <3>1. f.edges[i].out = 0 /\ f.edges[j].out = 0 /\ f.edges[i] # f.edges[j]
      BY <2>3 DEF OnCanvas
    <3> DEFINE Edges == [src : f.nodes, out : Nat, tgt : f.nodes]
    <3>2. f.edges \in Seq(Edges)
      BY FlowType
    <3>3. f.edges[i] \in Edges /\ f.edges[j] \in Edges
      <4> HIDE DEF Edges
      <4> QED BY <3>2 DEF EdgeIds
    <3> QED BY <3>1, <3>3
  <2> QED BY <2>2, <2>3
<1> QED BY <1>1, <1>2, <1>3

-----------------------------------------------------------------------------
(***************************************************************************)
(* One turn: the head c of the queue finishes and holds its result back     *)
(* from the nodes of ignored.                                               *)
(***************************************************************************)
HeldBack(ign, c, ignored) == [ign EXCEPT ![c] = ignored]

\* What a decision node of a well-formed flow may hold back, any other node nothing.
MayHoldBack(f, c, ign, ignored) ==
  /\ ignored \in SUBSET f.nodes
  /\ ~Decision(f, c) => ignored = {}
  /\ WellFormed(f) /\ Decision(f, c) => \E o \in Int : Went(f, HeldBack(ign, c, ignored), c, o)

\* The record and the queue after the turn, before the children join.
OneMore(f, q, d, d2, c) ==
  /\ c \in f.nodes /\ Entry(c, "FINISHED") \in Entries
  /\ InQueue(q, c)
  /\ \A n : InRecord(d2, n) <=> InRecord(d, n) \/ n = c
  /\ \A n : InQueue(q, n) <=> InQueue(Tail(q), n) \/ n = c
  /\ \A n : Once(q, d, n) => Once(Tail(q), d2, n)
  /\ Ran(f, d2) = Ran(f, d) \cup {c}

\* A turn adds the node of the turn to the record.
LEMMA RanOneMore ==
  ASSUME NEW f \in Flows, NEW q \in Seq(f.nodes), q # <<>>, NEW c, c = Head(q),
         NEW d \in Seq(Entries), NEW d2, d2 = Append(d, Entry(c, "FINISHED"))
  PROVE  OneMore(f, q, d, d2, c)
<1> DEFINE e == Entry(c, "FINISHED")
<1>1. c \in f.nodes /\ e \in Entries /\ e.node = c
  BY FlowLen DEF Entries, Entry, NodeStates
<1> HIDE DEF e
<1>2. d2 = Append(d, e)
  BY DEF e
<1>3. /\ \A n : InRecord(d2, n) <=> InRecord(d, n) \/ n = c
      /\ \A n : InQueue(q, n) <=> InQueue(Tail(q), n) \/ n = c
      /\ \A n : Once(q, d, n) => Once(Tail(q), d2, n)
  <2> SUFFICES ASSUME NEW n
               PROVE  /\ InRecord(d2, n) <=> InRecord(d, n) \/ n = c
                      /\ InQueue(q, n) <=> InQueue(Tail(q), n) \/ n = c
                      /\ Once(q, d, n) => Once(Tail(q), d2, n)
    OBVIOUS
  <2> QED BY <1>1, <1>2, MoveToRecord
<1>4. InQueue(q, c) /\ Ran(f, d2) = Ran(f, d) \cup {c}
  BY <1>1, <1>3 DEF Ran
<1> QED BY <1>1, <1>3, <1>4 DEF e, OneMore

\* Of the sources of n that have passed on to it, a turn of c adds c if it sends to n.
PassedOn(f, D, ign, D2, ign2, c, ignored, n) ==
  /\ Passed(f, D, ign, n) \subseteq Passed(f, D2, ign2, n)
  /\ Sent(f, c, ignored, n) => Passed(f, D2, ign2, n) = Passed(f, D, ign, n) \cup {c}
  /\ ~Sent(f, c, ignored, n) => Passed(f, D2, ign2, n) = Passed(f, D, ign, n)

\* A turn passes to n at most the node of the turn, and that one if it was sent.
LEMMA PassedOneMore ==
  ASSUME NEW f \in Flows, OnCanvas(f), NEW q, NEW d, NEW w, NEW ign,
         NEW fresh, Flowing(f, q, d, w, ign, fresh),
         NEW c \in f.nodes, InQueue(q, c), NEW ignored, MayHoldBack(f, c, ign, ignored),
         NEW D2, D2 = Ran(f, d) \cup {c},
         NEW ign2, ign2 = HeldBack(ign, c, ignored), NEW n \in Sound(f)
  PROVE  PassedOn(f, Ran(f, d), ign, D2, ign2, c, ignored, n)
<1> DEFINE D == Ran(f, d)
           P == Passed(f, D, ign, n)
           P2 == Passed(f, D2, ign2, n)
<1>1. ign \in [f.nodes -> SUBSET f.nodes]
  BY DEF Flowing, Held
<1>2. ign2[c] = ignored /\ \A s \in f.nodes \ {c} : ign2[s] = ign[s]
  BY <1>1 DEF HeldBack
<1>3. \A s \in Sources(f, n) : s \in f.nodes
  BY SoundSources, EdgeReaches
<1>4. ASSUME c \in P PROVE c \in P2
  <2>1. c \in Sources(f, n) /\ c \in D
    BY <1>4 DEF Passed
  <2>2. c \in Sound(f) /\ ((WellFormed(f) /\ Loops(f) = {}) \/ ~Decision(f, c))
    BY <2>1, SoundSources
  <2>3. ~(WellFormed(f) /\ Loops(f) = {})
    <3> SUFFICES ASSUME WellFormed(f), Loops(f) = {} PROVE FALSE
      OBVIOUS
    <3>1. Once(q, d, c)
      BY <2>2 DEF Flowing, Orderly
    <3> QED BY <2>1, <3>1 DEF Once, Ran
  <2>4. ignored = {}
    BY <2>2, <2>3 DEF MayHoldBack
  <2> QED BY <1>2, <2>1, <2>4 DEF Passed
<1>5. P \subseteq P2
  BY <1>2, <1>3, <1>4 DEF Passed
<1>6. P2 \subseteq P \cup {c}
  BY <1>2, <1>3 DEF Passed
<1>7. c \in P2 <=> Sent(f, c, ignored, n)
  BY <1>2 DEF Passed, Sent
<1> HIDE DEF P, P2
<1>8. /\ P \subseteq P2
      /\ Sent(f, c, ignored, n) => P2 = P \cup {c}
      /\ ~Sent(f, c, ignored, n) => P2 = P
  BY <1>5, <1>6, <1>7
<1> QED BY <1>8 DEF P, P2, PassedOn

\* What may be held back after a turn, from what was before.
LEMMA HeldOneMore ==
  ASSUME NEW f \in Flows, NEW D \in SUBSET f.nodes, NEW ign, Held(f, D, ign),
         NEW c \in f.nodes, NEW ignored, MayHoldBack(f, c, ign, ignored)
  PROVE  Held(f, D \cup {c}, HeldBack(ign, c, ignored))
<1> DEFINE D2 == D \cup {c}
           ign2 == HeldBack(ign, c, ignored)
<1>1. ign \in [f.nodes -> SUBSET f.nodes]
  BY DEF Held
<1>2. ign2 \in [f.nodes -> SUBSET f.nodes] /\ ign2[c] = ignored
      /\ \A s \in f.nodes \ {c} : ign2[s] = ign[s]
  BY <1>1 DEF HeldBack, MayHoldBack
<1>3. \A s \in f.nodes : ~Decision(f, s) => ign2[s] = {}
  BY <1>2 DEF MayHoldBack, Held
<1>4. ASSUME WellFormed(f), NEW x \in D2, Decision(f, x)
      PROVE  \E o \in Int : Went(f, ign2, x, o)
  <2>1. CASE x = c
    BY <1>4, <2>1 DEF MayHoldBack
  <2>2. CASE x # c
    <3>1. x \in D /\ x \in f.nodes
      BY <2>2 DEF Ran
    <3>2. PICK o \in Int : Went(f, ign, x, o)
      BY <1>4, <3>1 DEF Held
    <3>3. ign2[x] = ign[x]
      BY <1>2, <2>2, <3>1
    <3> QED BY <3>2, <3>3 DEF Went
  <2> QED BY <2>1, <2>2
<1> QED BY <1>2, <1>3, <1>4 DEF Held

\* Without Loop nodes no input is sent to a node that is already fired.
LEMMA NotFiredBefore ==
  ASSUME NEW f \in Flows, OnCanvas(f), Loops(f) = {}, NEW q, NEW d, NEW w, NEW ign,
         NEW fresh, Flowing(f, q, d, w, ign, fresh),
         NEW c \in f.nodes, InQueue(q, c), NEW ignored, MayHoldBack(f, c, ign, ignored),
         NEW n \in Sound(f), Sent(f, c, ignored, n)
  PROVE  ~Fired(q, d, n)
<1> SUFFICES ASSUME Fired(q, d, n) PROVE FALSE
  OBVIOUS
<1> DEFINE D == Ran(f, d)
           D2 == D \cup {c}
           ign2 == HeldBack(ign, c, ignored)
<1>1. c \in Sources(f, n)
  BY DEF Sent
<1>2. /\ c \in Sound(f)
      /\ \/ WellFormed(f)
         \/ FindConditionParent(f, c) = NoNode
  BY <1>1, SoundSources
<1>3. c \notin D
  <2>1. Once(q, d, c)
    BY <1>2 DEF Flowing, Orderly
  <2> QED BY <2>1 DEF Once, Ran
<1>4. HasReceivedRequiredInputs(f, n, Passed(f, D, ign, n))
  BY DEF Flowing, Orderly
<1>5. c \notin Passed(f, D, ign, n)
  BY <1>3 DEF Passed
<1>6. FindConditionParent(f, c) # NoNode /\ WellFormed(f)
      /\ \E t \in Sources(f, n) : t \in Passed(f, D, ign, n)
                                  /\ FindConditionParent(f, t) = FindConditionParent(f, c)
  BY <1>1, <1>2, <1>4, <1>5, ReceivedMeans
<1>7. PICK t \in Passed(f, D, ign, n) : FindConditionParent(f, t) = FindConditionParent(f, c)
  BY <1>6
<1>8. Sound(f) = f.nodes
  BY <1>6 DEF Sound
<1>9. ASSUME NEW m \in Sound(f)
      PROVE  /\ Passed(f, D, ign, m) \subseteq Passed(f, D2, ign2, m)
             /\ Sent(f, c, ignored, m) =>
                  Passed(f, D2, ign2, m) = Passed(f, D, ign, m) \cup {c}
  <2> PICK ran, back : ran = Ran(f, d) \cup {c} /\ back = HeldBack(ign, c, ignored)
    OBVIOUS
  <2>1. PassedOn(f, Ran(f, d), ign, ran, back, c, ignored, m)
    BY PassedOneMore
  <2> QED BY <2>1 DEF PassedOn
<1>10. Earned(f, D2, ign2)
  <2>1. D2 \subseteq f.nodes
    BY DEF Ran
  <2> SUFFICES ASSUME NEW m \in D2
               PROVE  HasReceivedRequiredInputs(f, m, Passed(f, D2, ign2, m))
    BY <2>1 DEF Earned
  <2>2. m \in Sound(f)
    BY <1>8, <2>1
  <2>3. Fired(q, d, m)
    BY DEF Fired, Ran
  <2>4. HasReceivedRequiredInputs(f, m, Passed(f, D, ign, m))
    BY <2>2, <2>3 DEF Flowing, Orderly
  <2>5. Passed(f, D, ign, m) \subseteq Passed(f, D2, ign2, m)
    BY <1>9, <2>2
  <2> HIDE DEF D, D2, ign2
  <2> QED BY <2>4, <2>5, ReceivedMore
<1>11. Held(f, D2, ign2)
  <2>1. Held(f, D, ign) /\ D \in SUBSET f.nodes
    BY DEF Flowing, Ran
  <2> QED BY <2>1, HeldOneMore
<1>12. c \in Passed(f, D2, ign2, n) /\ t \in Passed(f, D2, ign2, n)
  BY <1>7, <1>9
<1>13. c = t
  <2>1. n \in f.nodes
    BY <1>8
  <2> HIDE DEF D, D2, ign2
  <2> QED BY <1>6, <1>7, <1>10, <1>11, <1>12, <2>1, OnePerGroup
<1> QED BY <1>5, <1>7, <1>13

\* What is queued behind t once c has sent its result on.
Joined(f, c, ignored, t, w, q2, w2) ==
  LET fan == ProcessChildren(f, c, ignored, t, w)
  IN  /\ w2 = fan.waiting
      /\ \/ q2 = fan.queue
         \/ c \in Loops(f) /\ q2 = Append(fan.queue, f.loopTo[c])

\* The hand-out with the jump of a Loop node, child by child.
LEMMA JoinedMeans ==
  ASSUME NEW f \in Flows, NEW c \in f.nodes, NEW ignored, NEW t \in Seq(f.nodes),
         NEW w \in [AllNodes -> SUBSET AllNodes], NEW q2, NEW w2,
         Joined(f, c, ignored, t, w, q2, w2)
  PROVE  /\ q2 \in Seq(f.nodes)
         /\ \A n \in f.nodes : OneEdge(f, c, n) =>
              /\ w2[n] = IF Starts(f, c, ignored, w, n) THEN {}
                         ELSE IF Sent(f, c, ignored, n) THEN w[n] \cup {c} ELSE w[n]
              /\ InQueue(t, n) \/ Starts(f, c, ignored, w, n) => InQueue(q2, n)
              /\ Loops(f) = {} =>
                   /\ InQueue(q2, n) => InQueue(t, n) \/ Starts(f, c, ignored, w, n)
                   /\ \A d : /\ Once(t, d, n)
                             /\ Starts(f, c, ignored, w, n) => ~Fired(t, d, n)
                             => Once(q2, d, n)
<1> PICK fan : fan = ProcessChildren(f, c, ignored, t, w)
  OBVIOUS
<1> PICK p : p = fan.queue
  OBVIOUS
<1>1. w2 = fan.waiting /\ (q2 = p \/ (c \in Loops(f) /\ q2 = Append(p, f.loopTo[c])))
  BY DEF Joined
<1>2. t \in Seq(AllNodes)
  BY FlowLen
<1>3. p \in Seq(f.nodes)
  BY FanNodes
<1>4. f.loopTo[c] \in f.nodes
  BY FlowsAssumption DEF IsFlow
<1>5. q2 \in Seq(f.nodes)
  <2> PICK T, x : T = f.nodes /\ x = f.loopTo[c]
    OBVIOUS
  <2>0. p \in Seq(T) /\ x \in T
    BY <1>3, <1>4
  <2>1. Append(p, x) \in Seq(T)
    BY ONLY <2>0
  <2> QED BY <1>1, <1>3, <2>1
<1>6. ASSUME NEW n PROVE InQueue(p, n) => InQueue(q2, n)
  <2> PICK x : x = f.loopTo[c]
    OBVIOUS
  <2>1. Len(p) \in Nat /\ Len(Append(p, x)) = Len(p) + 1
        /\ \A k \in 1 .. Len(p) : Append(p, x)[k] = p[k]
    BY ONLY <1>3
  <2>2. \A k \in 1 .. Len(p) : k \in 1 .. Len(Append(p, x))
    BY ONLY <2>1
  <2>3. InQueue(p, n) => InQueue(Append(p, x), n)
    BY ONLY <2>1, <2>2 DEF InQueue
  <2> QED BY <1>1, <2>3
<1>7. ASSUME NEW n \in f.nodes, OneEdge(f, c, n)
      PROVE  /\ w2[n] = IF Starts(f, c, ignored, w, n) THEN {}
                        ELSE IF Sent(f, c, ignored, n) THEN w[n] \cup {c} ELSE w[n]
             /\ InQueue(t, n) \/ Starts(f, c, ignored, w, n) => InQueue(q2, n)
             /\ Loops(f) = {} =>
                  /\ InQueue(q2, n) => InQueue(t, n) \/ Starts(f, c, ignored, w, n)
                  /\ \A d : /\ Once(t, d, n)
                            /\ Starts(f, c, ignored, w, n) => ~Fired(t, d, n)
                            => Once(q2, d, n)
  <2>1. FannedOut(f, c, n, ignored, t, w, fan)
    BY <1>2, <1>7, FanForChild
  <2>2. PICK b \in BOOLEAN :
             /\ b <=> Starts(f, c, ignored, w, n)
             /\ Grew(t, p, n, b)
             /\ fan.waiting[n] = IF b THEN {}
                                 ELSE IF Sent(f, c, ignored, n) THEN w[n] \cup {c} ELSE w[n]
    BY <2>1 DEF FannedOut
  <2>3. InQueue(p, n) <=> InQueue(t, n) \/ b
    BY <1>3, <2>2, GrewMeans
  <2>4. ASSUME NEW d, Once(t, d, n), b => ~Fired(t, d, n) PROVE Once(p, d, n)
    BY <1>3, <2>2, <2>4, GrewMeans
  <2>5. Loops(f) = {} => q2 = p
    BY <1>1
  <2>6. /\ w2[n] = IF b THEN {} ELSE IF Sent(f, c, ignored, n) THEN w[n] \cup {c} ELSE w[n]
        /\ InQueue(t, n) \/ b => InQueue(q2, n)
        /\ Loops(f) = {} =>
             /\ InQueue(q2, n) => InQueue(t, n) \/ b
             /\ \A d : Once(t, d, n) /\ (b => ~Fired(t, d, n)) => Once(q2, d, n)
    BY <1>1, <1>6, <2>2, <2>3, <2>4, <2>5
  <2> QED BY <2>2, <2>6
<1> QED BY <1>5, <1>7

\* One turn: the head of the queue finishes.
Turned(f, q, d, w, ignored, q2, d2, w2) ==
  /\ q # <<>>
  /\ d2 = Append(d, Entry(Head(q), "FINISHED"))
  /\ Joined(f, Head(q), ignored, Tail(q), w, q2, w2)

\* What a turn means for each node.
After(f, q, d, w, ignored, q2, d2, w2, c) ==
  /\ c \in f.nodes
  /\ InQueue(q, c)
  /\ q2 \in Seq(f.nodes)
  /\ Ran(f, d2) = Ran(f, d) \cup {c}
  /\ \A n \in f.nodes : OneEdge(f, c, n) =>
       /\ w2[n] = IF Starts(f, c, ignored, w, n) THEN {}
                  ELSE IF Sent(f, c, ignored, n) THEN w[n] \cup {c} ELSE w[n]
       /\ Fired(q, d, n) \/ Starts(f, c, ignored, w, n) => Fired(q2, d2, n)
       /\ Loops(f) = {} =>
            /\ Fired(q2, d2, n) => Fired(q, d, n) \/ Starts(f, c, ignored, w, n)
            /\ /\ Once(q, d, n)
               /\ Starts(f, c, ignored, w, n) => ~Fired(q, d, n)
               => Once(q2, d2, n)

\* A turn, node by node.
LEMMA TurnedMeans ==
  ASSUME NEW f \in Flows, NEW q \in Seq(f.nodes), NEW d \in Seq(Entries), NEW ignored,
         NEW w \in [AllNodes -> SUBSET AllNodes], NEW q2, NEW d2, NEW w2,
         Turned(f, q, d, w, ignored, q2, d2, w2), NEW c, c = Head(q)
  PROVE  After(f, q, d, w, ignored, q2, d2, w2, c)
<1>1. /\ q # <<>>
      /\ d2 = Append(d, Entry(c, "FINISHED"))
      /\ Joined(f, c, ignored, Tail(q), w, q2, w2)
  BY DEF Turned
<1>2. /\ c \in f.nodes
      /\ InQueue(q, c)
      /\ \A n : InRecord(d2, n) <=> InRecord(d, n) \/ n = c
      /\ \A n : InQueue(q, n) <=> InQueue(Tail(q), n) \/ n = c
      /\ \A n : Once(q, d, n) => Once(Tail(q), d2, n)
      /\ Ran(f, d2) = Ran(f, d) \cup {c}
  <2>1. /\ f \in Flows /\ q \in Seq(f.nodes) /\ q # <<>> /\ c = Head(q)
        /\ d \in Seq(Entries) /\ d2 = Append(d, Entry(c, "FINISHED"))
    BY <1>1
  <2>2. OneMore(f, q, d, d2, c)
    BY <2>1, RanOneMore
  <2> QED BY <2>2 DEF OneMore
<1> PICK t : t = Tail(q)
  OBVIOUS
<1>3. t \in Seq(f.nodes)
  BY <1>1
<1>4. /\ q2 \in Seq(f.nodes)
      /\ \A n \in f.nodes : OneEdge(f, c, n) =>
           /\ w2[n] = IF Starts(f, c, ignored, w, n) THEN {}
                      ELSE IF Sent(f, c, ignored, n) THEN w[n] \cup {c} ELSE w[n]
           /\ InQueue(t, n) \/ Starts(f, c, ignored, w, n) => InQueue(q2, n)
           /\ Loops(f) = {} =>
                /\ InQueue(q2, n) => InQueue(t, n) \/ Starts(f, c, ignored, w, n)
                /\ \A e : /\ Once(t, e, n)
                          /\ Starts(f, c, ignored, w, n) => ~Fired(t, e, n)
                          => Once(q2, e, n)
  <2>1. Joined(f, c, ignored, t, w, q2, w2)
    BY <1>1
  <2>2. c \in f.nodes
    BY <1>2
  <2> QED BY ONLY f \in Flows, w \in [AllNodes -> SUBSET AllNodes], <1>3, <2>1, <2>2, JoinedMeans
<1>5. \A n : Fired(t, d2, n) <=> Fired(q, d, n)
  BY <1>2 DEF Fired
<1>6. ASSUME NEW n \in f.nodes, OneEdge(f, c, n)
      PROVE  /\ Fired(q, d, n) \/ Starts(f, c, ignored, w, n) => Fired(q2, d2, n)
             /\ Loops(f) = {} =>
                  /\ Fired(q2, d2, n) => Fired(q, d, n) \/ Starts(f, c, ignored, w, n)
                  /\ /\ Once(q, d, n)
                     /\ Starts(f, c, ignored, w, n) => ~Fired(q, d, n)
                     => Once(q2, d2, n)
  <2>1. PICK b \in BOOLEAN : b = Starts(f, c, ignored, w, n)
    BY DEF Starts, Sent
  <2>2. /\ InQueue(t, n) \/ b => InQueue(q2, n)
        /\ Loops(f) = {} =>
             /\ InQueue(q2, n) => InQueue(t, n) \/ b
             /\ Once(t, d2, n) /\ (b => ~Fired(t, d2, n)) => Once(q2, d2, n)
    BY <1>4, <1>6, <2>1
  <2>3. Once(q, d, n) => Once(t, d2, n)
    BY <1>2
  <2>4. Fired(q2, d2, n) <=> InRecord(d2, n) \/ InQueue(q2, n)
    BY DEF Fired
  <2>5. Fired(q, d, n) <=> InRecord(d2, n) \/ InQueue(t, n)
    BY <1>5 DEF Fired
  <2> QED BY <1>5, <2>1, <2>2, <2>3, <2>4, <2>5
<1> QED BY <1>2, <1>4, <1>6 DEF After

\* A turn keeps the invariant of the run.
LEMMA FlowingStep ==
  ASSUME NEW f \in Flows, OnCanvas(f), NEW q, NEW d \in Seq(Entries),
         NEW w \in [AllNodes -> SUBSET AllNodes], NEW ign, NEW fresh \in BOOLEAN,
         Flowing(f, q, d, w, ign, fresh), NEW ignored, NEW q2, NEW d2, NEW w2,
         Turned(f, q, d, w, ignored, q2, d2, w2),
         NEW c, c = Head(q), MayHoldBack(f, c, ign, ignored)
  PROVE  Flowing(f, q2, d2, w2, HeldBack(ign, c, ignored), fresh)
<1> PICK D : D = Ran(f, d)
  OBVIOUS
<1> PICK ign2 : ign2 = HeldBack(ign, c, ignored)
  OBVIOUS
<1> DEFINE was(n) == Passed(f, D, ign, n)
           is(n) == Passed(f, Ran(f, d2), ign2, n)
<1>1. q \in Seq(f.nodes)
  BY DEF Flowing
<1>2. /\ c \in f.nodes
      /\ InQueue(q, c)
      /\ q2 \in Seq(f.nodes)
      /\ Ran(f, d2) = D \cup {c}
      /\ \A n \in f.nodes : OneEdge(f, c, n) =>
           /\ w2[n] = IF Starts(f, c, ignored, w, n) THEN {}
                      ELSE IF Sent(f, c, ignored, n) THEN w[n] \cup {c} ELSE w[n]
           /\ Fired(q, d, n) \/ Starts(f, c, ignored, w, n) => Fired(q2, d2, n)
           /\ Loops(f) = {} =>
                /\ Fired(q2, d2, n) => Fired(q, d, n) \/ Starts(f, c, ignored, w, n)
                /\ /\ Once(q, d, n)
                   /\ Starts(f, c, ignored, w, n) => ~Fired(q, d, n)
                   => Once(q2, d2, n)
  <2>1. /\ f \in Flows /\ q \in Seq(f.nodes) /\ d \in Seq(Entries)
        /\ w \in [AllNodes -> SUBSET AllNodes] /\ Turned(f, q, d, w, ignored, q2, d2, w2)
        /\ c = Head(q)
    BY <1>1
  <2>2. After(f, q, d, w, ignored, q2, d2, w2, c)
    BY <2>1, TurnedMeans
  <2> QED BY <2>2 DEF After
<1>3. \A i \in 1 .. Len(d2) : d2[i].status = "FINISHED" /\ d2[i].node \in f.nodes
  <2>1. \A i \in 1 .. Len(d) : d[i].status = "FINISHED" /\ d[i].node \in f.nodes
    BY DEF Flowing
  <2>2. PICK e : e = Entry(c, "FINISHED")
    OBVIOUS
  <2>3. e.status = "FINISHED" /\ e.node \in f.nodes /\ d2 = Append(d, e)
    BY <1>2, <2>2 DEF Entry, Turned
  <2>4. Len(d) \in Nat /\ Len(d2) = Len(d) + 1 /\ d2[Len(d) + 1] = e
        /\ \A i \in 1 .. Len(d) : d2[i] = d[i]
    BY ONLY <2>3, d \in Seq(Entries)
  <2>5. \A i \in 1 .. Len(d2) : i \in 1 .. Len(d) \/ i = Len(d) + 1
    BY ONLY <2>4
  <2> QED BY <2>1, <2>3, <2>4, <2>5
<1>4. Held(f, Ran(f, d2), ign2)
  <2>1. D \in SUBSET f.nodes /\ Held(f, D, ign)
    BY DEF Ran, Flowing
  <2> QED BY <1>2, <2>1, HeldOneMore
<1>6. c \in f.nodes /\ InQueue(q, c) /\ Ran(f, d2) = D \cup {c}
  BY <1>2
<1>7. /\ f \in Flows /\ OnCanvas(f) /\ Flowing(f, q, d, w, ign, fresh)
      /\ MayHoldBack(f, c, ign, ignored) /\ ign2 = HeldBack(ign, c, ignored)
  OBVIOUS
<1>5. ASSUME NEW n \in Sound(f)
      PROVE  /\ n \in f.nodes /\ OneEdge(f, c, n)
             /\ was(n) \subseteq is(n)
             /\ Sent(f, c, ignored, n) => is(n) = was(n) \cup {c}
             /\ ~Sent(f, c, ignored, n) => is(n) = was(n)
  <2>1. n \in f.nodes /\ OneEdge(f, c, n)
    BY SoundSources
  <2>2. /\ was(n) \subseteq is(n)
        /\ Sent(f, c, ignored, n) => is(n) = was(n) \cup {c}
        /\ ~Sent(f, c, ignored, n) => is(n) = was(n)
    <3>1. PICK D2 : D2 = Ran(f, d2)
      OBVIOUS
    <3>2. D2 = Ran(f, d) \cup {c}
      BY ONLY <1>6, <3>1, D = Ran(f, d)
    <3>3. PassedOn(f, Ran(f, d), ign, D2, ign2, c, ignored, n)
      BY ONLY <1>6, <1>7, <3>2, n \in Sound(f), PassedOneMore
    <3>4. PassedOn(f, D, ign, Ran(f, d2), ign2, c, ignored, n)
      BY ONLY <3>1, <3>3, D = Ran(f, d)
    <3> QED BY ONLY <3>4 DEF PassedOn
  <2> QED BY <2>1, <2>2
<1> HIDE DEF was, is
<1>10. ASSUME Loops(f) = {}, NEW n \in Sound(f)
       PROVE  Orderly(f, q2, d2, w2, ign2, n)
  <2>1. Once(q, d, n) /\ w[n] \subseteq was(n)
        /\ (Fired(q, d, n) => HasReceivedRequiredInputs(f, n, was(n)) /\ w[n] = {})
    BY <1>10 DEF Flowing, Orderly, was
  <2>2. Sent(f, c, ignored, n) => ~Fired(q, d, n)
    BY <1>2, <1>10, NotFiredBefore
  <2>3. PICK b \in BOOLEAN : b = Starts(f, c, ignored, w, n)
    BY DEF Starts, Sent
  <2>4. b => Sent(f, c, ignored, n) /\ HasReceivedRequiredInputs(f, n, w[n] \cup {c})
    BY <2>3 DEF Starts
  <2>5. /\ w2[n] = IF b THEN {} ELSE IF Sent(f, c, ignored, n) THEN w[n] \cup {c} ELSE w[n]
        /\ Fired(q2, d2, n) => Fired(q, d, n) \/ b
        /\ Once(q, d, n) /\ (b => ~Fired(q, d, n)) => Once(q2, d2, n)
    BY <1>2, <1>5, <1>10, <2>3
  <2>6. Once(q2, d2, n)
    BY <2>1, <2>2, <2>4, <2>5
  <2>7. w2[n] \subseteq is(n)
    BY <1>5, <2>1, <2>5
  <2>8. ASSUME Fired(q2, d2, n)
        PROVE  HasReceivedRequiredInputs(f, n, is(n)) /\ w2[n] = {}
    <3>1. CASE b
      <4>1. HasReceivedRequiredInputs(f, n, w[n] \cup {c}) /\ w[n] \cup {c} \subseteq is(n)
        BY <1>5, <2>1, <2>4, <3>1
      <4>2. HasReceivedRequiredInputs(f, n, is(n))
        BY <4>1, ReceivedMore
      <4> QED BY <2>5, <3>1, <4>2
    <3>2. CASE ~b
      <4>1. HasReceivedRequiredInputs(f, n, was(n)) /\ w[n] = {} /\ ~Sent(f, c, ignored, n)
        BY <2>1, <2>2, <2>5, <2>8, <3>2
      <4> QED BY <1>5, <2>5, <3>2, <4>1
    <3> QED BY <3>1, <3>2
  <2> QED BY <2>6, <2>7, <2>8 DEF Orderly, is
<1>11. ASSUME fresh, NEW n \in Sound(f)
       PROVE  Exact(f, q2, d2, w2, ign2, n)
  <2> SUFFICES ASSUME ~Fired(q2, d2, n)
               PROVE  w2[n] = is(n) /\ ~HasReceivedRequiredInputs(f, n, is(n))
    BY DEF Exact, is
  <2>1. ~Fired(q, d, n) /\ ~Starts(f, c, ignored, w, n)
    BY <1>2, <1>5
  <2>2. w[n] = was(n) /\ ~HasReceivedRequiredInputs(f, n, was(n))
    BY <1>11, <2>1 DEF Flowing, Exact, was
  <2>3. w2[n] = IF Sent(f, c, ignored, n) THEN w[n] \cup {c} ELSE w[n]
    BY <1>2, <1>5, <2>1
  <2> QED BY <1>5, <2>1, <2>2, <2>3 DEF Starts
<1> QED BY <1>2, <1>3, <1>4, <1>10, <1>11 DEF Flowing

\* A sequence of one.
LEMMA Singleton ==
  ASSUME NEW T, NEW x \in T, NEW s, s = <<x>>
  PROVE  1 .. Len(s) = {1} /\ s[1] = x /\ s \in Seq(T)
<1>1. Len(s) = 1 /\ s[1] = x /\ s \in Seq(T)
  OBVIOUS
<1>2. 1 .. 1 = {1}
  OBVIOUS
<1> QED BY <1>1, <1>2

\* Where a run starts: at most one node is queued, and it has no sources.
LEMMA FlowingStart ==
  ASSUME NEW f \in Flows, Cardinality(StartNodes(f)) <= 1,
         NEW q, q = IF StartNodes(f) = {} THEN <<>> ELSE <<CHOOSE n \in StartNodes(f) : TRUE>>
  PROVE  Flowing(f, q, <<>>, NothingWaits, [n \in f.nodes |-> {}], TRUE)
<1> DEFINE ign == [n \in f.nodes |-> {}]
<1>1. /\ q \in Seq(f.nodes)
      /\ \A n \in f.nodes : InQueue(q, n) <=> Sources(f, n) = {}
      /\ \A n : Once(q, <<>>, n)
  <2>1. StartNodes(f) \in SUBSET f.nodes /\ IsFiniteSet(StartNodes(f))
    BY NodesFinite, FS_Subset DEF StartNodes
  <2>2. Cardinality(StartNodes(f)) \in Nat
    BY <2>1, FS_CardinalityType
  <2>3. CASE StartNodes(f) = {}
    <3>1. q = <<>>
      BY <2>3
    <3>4. 1 .. Len(q) = {} /\ 1 .. Len(<<>>) = {} /\ <<>> \in Seq(f.nodes)
      BY <3>1
    <3>2. \A n : ~InQueue(q, n) /\ Once(q, <<>>, n)
      BY <3>4 DEF InQueue, InRecord, Once
    <3>3. \A n \in f.nodes : Sources(f, n) # {}
      BY <2>3 DEF StartNodes
    <3> QED BY <3>1, <3>2, <3>3, <3>4
  <2>4. CASE StartNodes(f) # {}
    <3>1. Cardinality(StartNodes(f)) = 1
      BY <2>1, <2>2, <2>4, FS_EmptySet
    <3>2. PICK s : StartNodes(f) = {s}
      BY <2>1, <3>1, FS_Singleton
    <3>3. q = <<s>> /\ s \in f.nodes
      BY <2>1, <2>4, <3>2
    <3>4. 1 .. Len(q) = {1} /\ q[1] = s /\ q \in Seq(f.nodes)
      BY <3>3, Singleton
    <3>5. \A n : InQueue(q, n) <=> n = s
      BY <3>4 DEF InQueue
    <3>6. \A n : Once(q, <<>>, n)
      <4>1. 1 .. Len(<<>>) = {}
        OBVIOUS
      <4> QED BY <3>4, <4>1 DEF Once, InRecord
    <3>7. \A n \in f.nodes : n = s <=> Sources(f, n) = {}
      BY <3>2 DEF StartNodes
    <3> QED BY <3>4, <3>5, <3>6, <3>7
  <2> QED BY <2>3, <2>4
<1>2. Ran(f, <<>>) = {} /\ \A n : ~InRecord(<<>>, n)
  BY DEF Ran, InRecord
<1>3. \A n : Passed(f, {}, ign, n) = {}
  BY DEF Passed
<1>4. Held(f, {}, ign)
  BY DEF Held
<1>5. \A n \in f.nodes : NothingWaits[n] = {}
  BY FlowLen DEF NothingWaits
<1>6. ASSUME NEW n \in f.nodes
      PROVE  HasReceivedRequiredInputs(f, n, {}) <=> Sources(f, n) = {}
  BY ReceivedMeans
<1>7. ASSUME NEW n \in f.nodes
      PROVE  /\ Orderly(f, q, <<>>, NothingWaits, ign, n)
             /\ Exact(f, q, <<>>, NothingWaits, ign, n)
  BY <1>1, <1>2, <1>3, <1>5, <1>6 DEF Orderly, Exact, Fired
<1>8. Sound(f) \subseteq f.nodes
  BY DEF Sound
<1>9. \A i \in 1 .. Len(<<>>) : FALSE
  OBVIOUS
<1> HIDE DEF ign
<1>10. Held(f, Ran(f, <<>>), ign)
  BY <1>2, <1>4
<1> QED BY <1>1, <1>7, <1>8, <1>9, <1>10 DEF Flowing, ign

\* A pause keeps the node it stops at and forgets what was queued behind it or
\* waiting.
LEMMA FlowingPause ==
  ASSUME NEW f \in Flows, NEW q, NEW d, NEW w, NEW ign, NEW fresh \in BOOLEAN,
         Flowing(f, q, d, w, ign, fresh), q # <<>>, NEW c, c = Head(q)
  PROVE  Flowing(f, <<c>>, d, NothingWaits, ign, FALSE)
<1>1. q \in Seq(f.nodes)
  BY DEF Flowing
<1>2. 1 \in 1 .. Len(q) /\ q[1] = c /\ c \in f.nodes
  BY <1>1
<1>3. InQueue(q, c)
  BY <1>2 DEF InQueue
<1> PICK p : p = <<c>>
  OBVIOUS
<1>4. 1 .. Len(p) = {1} /\ p[1] = c /\ p \in Seq(f.nodes)
  BY <1>2, Singleton
<1>5. \A n : InQueue(p, n) <=> n = c
  BY <1>4 DEF InQueue
<1>6. ASSUME NEW n, Once(q, d, n) PROVE Once(p, d, n)
  BY <1>3, <1>4, <1>5, <1>6 DEF Once
<1>7. \A n \in f.nodes : NothingWaits[n] = {}
  BY FlowLen DEF NothingWaits
<1>8. ASSUME NEW n \in Sound(f), Orderly(f, q, d, w, ign, n)
      PROVE  Orderly(f, p, d, NothingWaits, ign, n)
  <2>1. n \in f.nodes
    BY DEF Sound
  <2>2. Fired(p, d, n) => Fired(q, d, n)
    BY <1>3, <1>5 DEF Fired
  <2> QED BY <1>6, <1>7, <1>8, <2>1, <2>2 DEF Orderly
<1>9. Flowing(f, p, d, NothingWaits, ign, FALSE)
  BY <1>4, <1>8 DEF Flowing
<1> QED BY <1>9

\* A decision node with simple handles that goes by handle o holds its result
\* back from exactly what the other handles lead to.
LEMMA WentByHandle ==
  ASSUME NEW f \in Flows, NEW n \in f.nodes, Decision(f, n), SimpleHandles(f),
         NEW o \in Int, f.outs[n] > 0 => o \in 0 .. f.outs[n] - 1,
         NEW fulfilled, fulfilled = {o} \/ (fulfilled = {} /\ o = f.outs[n] - 1),
         NEW ign, NEW held, held = [ign EXCEPT ![n] = DetermineNodesToIgnore(f, n, fulfilled)],
         ign \in [f.nodes -> SUBSET f.nodes]
  PROVE  Went(f, held, n, o)
<1> DEFINE drawn(u) == {j \in EdgeIds(f) : f.edges[j].src = n /\ f.edges[j].out = u}
           outs == 0 .. f.outs[n] - 1
           dni == DetermineNodesToIgnore(f, n, fulfilled)
           Edges == [src : f.nodes, out : Nat, tgt : f.nodes]
<1>1. f.outs[n] \in Nat
  BY FlowsAssumption DEF IsFlow
<1>2. f.edges \in Seq(Edges)
  BY FlowType
<1>3. \A i \in EdgeIds(f) : f.edges[i].out \in Nat /\ i \in Int
  <2> SUFFICES ASSUME NEW i \in EdgeIds(f) PROVE f.edges[i].out \in Nat /\ i \in Int
    OBVIOUS
  <2>1. f.edges[i] \in Edges
    <3> HIDE DEF Edges
    <3> QED BY <1>2 DEF EdgeIds
  <2> QED BY <2>1 DEF EdgeIds
<1>4. \A i \in EdgeIds(f) : f.edges[i].src = n =>
        /\ f.edges[i].out \in outs
        /\ drawn(f.edges[i].out) = {i}
        /\ FirstOf(drawn(f.edges[i].out)) = i
        /\ \A j \in EdgeIds(f) : f.edges[j].src = n /\ f.edges[j].tgt = f.edges[i].tgt => j = i
  <2> SUFFICES ASSUME NEW i \in EdgeIds(f), f.edges[i].src = n
               PROVE  /\ f.edges[i].out \in outs
                      /\ drawn(f.edges[i].out) = {i}
                      /\ FirstOf(drawn(f.edges[i].out)) = i
                      /\ \A j \in EdgeIds(f) :
                           f.edges[j].src = n /\ f.edges[j].tgt = f.edges[i].tgt => j = i
    OBVIOUS
  <2>1. f.edges[i].out < f.outs[n]
    BY DEF SimpleHandles
  <2>2. f.edges[i].out \in outs
    BY <1>1, <1>3, <2>1
  <2>3. \A j \in EdgeIds(f) : f.edges[j].src = n /\ j # i =>
          f.edges[j].out # f.edges[i].out /\ f.edges[j].tgt # f.edges[i].tgt
    BY DEF SimpleHandles
  <2>4. drawn(f.edges[i].out) = {i}
    BY <2>3
  <2>5. FirstOf({i}) = i
    BY <1>3 DEF FirstOf
  <2> HIDE DEF drawn, outs
  <2> QED BY <2>2, <2>3, <2>4, <2>5
<1>5. dni = {f.edges[FirstOf(drawn(u))].tgt : u \in {v \in outs \ {o} : drawn(v) # {}}}
  <2>1. CASE outs = {}
    BY <2>1 DEF DetermineNodesToIgnore
  <2>2. CASE outs # {}
    <3>1. f.outs[n] > 0
      BY <1>1, <2>2
    <3>2. o \in outs
      BY <3>1
    <3>3. fulfilled = {o} => fulfilled \cap outs # {}
      BY <3>2
    <3>4. (IF fulfilled \cap outs = {} THEN {f.outs[n] - 1} ELSE fulfilled) = {o}
      BY <3>3
    <3> QED BY <3>4 DEF DetermineNodesToIgnore
  <2> QED BY <2>1, <2>2
<1> HIDE DEF drawn, outs, dni
<1>6. ASSUME NEW i \in EdgeIds(f), f.edges[i].src = n
      PROVE  f.edges[i].tgt \in dni <=> f.edges[i].out # o
  <2>1. ASSUME f.edges[i].out # o PROVE f.edges[i].tgt \in dni
    <3>1. f.edges[i].out \in {v \in outs \ {o} : drawn(v) # {}}
      BY <1>4, <1>6, <2>1
    <3> QED BY <1>4, <1>5, <1>6, <3>1
  <2>2. ASSUME f.edges[i].tgt \in dni PROVE f.edges[i].out # o
    <3>1. PICK u \in {v \in outs \ {o} : drawn(v) # {}} :
                 f.edges[i].tgt = f.edges[FirstOf(drawn(u))].tgt
      BY <1>5, <2>2
    <3>2. PICK j \in drawn(u) : TRUE
      BY <3>1
    <3>3. j \in EdgeIds(f) /\ f.edges[j].src = n /\ f.edges[j].out = u
      BY <3>2 DEF drawn
    <3>4. FirstOf(drawn(u)) = j
      BY <1>4, <3>3
    <3>5. i = j
      BY <1>4, <1>6, <3>1, <3>3, <3>4
    <3> QED BY <3>1, <3>3, <3>5
  <2> QED BY <2>1, <2>2
<1>7. held[n] = dni
  BY DEF dni
<1> QED BY <1>6, <1>7 DEF Went

\* What a node holds back when it finishes.
LEMMA FinishHoldsBack ==
  ASSUME NEW f \in Flows, NEW n \in f.nodes, NEW input, NEW fulfilled \in Fulfilled(f, n, input),
         NEW ign \in [f.nodes -> SUBSET f.nodes]
  PROVE  MayHoldBack(f, n, ign, DetermineNodesToIgnore(f, n, fulfilled))
<1> DEFINE dni == DetermineNodesToIgnore(f, n, fulfilled)
<1>1. dni \in SUBSET f.nodes
  <2> SUFFICES ASSUME NEW m \in dni PROVE m \in f.nodes
    OBVIOUS
  <2>1. PICK u : /\ {i \in EdgeIds(f) : f.edges[i].src = n /\ f.edges[i].out = u} # {}
                 /\ m = f.edges[FirstOf({i \in EdgeIds(f) : f.edges[i].src = n
                                                            /\ f.edges[i].out = u})].tgt
    BY DEF DetermineNodesToIgnore
  <2> DEFINE E == {i \in EdgeIds(f) : f.edges[i].src = n /\ f.edges[i].out = u}
  <2>2. E \subseteq EdgeIds(f) /\ E \in SUBSET Nat /\ E # {}
    BY <2>1 DEF EdgeIds
  <2>3. FirstOf(E) \in E
    <3> HIDE DEF E
    <3> QED BY <2>2, FirstOfSet
  <2>4. FirstOf(E) \in EdgeIds(f)
    BY <2>3
  <2> QED BY <2>1, <2>4, EdgeType
<1>2. ~Decision(f, n) => dni = {}
  BY DEF DetermineNodesToIgnore
<1>3. ASSUME SimpleHandles(f), Decision(f, n)
      PROVE  \E o \in Int : Went(f, HeldBack(ign, n, dni), n, o)
  <2>1. f.outs[n] \in Nat /\ (f.kind[n] = "humanInput" => f.outs[n] = 2)
    BY FlowsAssumption DEF IsFlow
  <2>2. PICK o \in Int : /\ f.outs[n] > 0 => o \in 0 .. f.outs[n] - 1
                         /\ fulfilled = {o} \/ (fulfilled = {} /\ o = f.outs[n] - 1)
    <3>1. CASE f.kind[n] = "condition"
      <4>1. fulfilled = {} \/ \E o \in 0 .. f.outs[n] - 1 : fulfilled = {o}
        BY <3>1 DEF Fulfilled
      <4>2. CASE fulfilled = {}
        <5>1. f.outs[n] - 1 \in Int /\ (f.outs[n] > 0 => f.outs[n] - 1 \in 0 .. f.outs[n] - 1)
          BY <2>1
        <5> QED BY <4>2, <5>1
      <4>3. CASE \E o \in 0 .. f.outs[n] - 1 : fulfilled = {o}
        BY <4>3
      <4> QED BY <4>1, <4>2, <4>3
    <3>2. CASE f.kind[n] = "humanInput"
      <4>1. fulfilled = {0} \/ fulfilled = {1}
        BY <3>2 DEF Fulfilled
      <4>2. 0 \in 0 .. f.outs[n] - 1 /\ 1 \in 0 .. f.outs[n] - 1
        BY <2>1, <3>2
      <4> QED BY <4>1, <4>2
    <3> QED BY <1>3, <3>1, <3>2 DEF Decision
  <2>3. Went(f, HeldBack(ign, n, dni), n, o)
    BY <1>3, <2>2, WentByHandle DEF HeldBack
  <2> QED BY <2>3
<1> QED BY <1>1, <1>2, <1>3 DEF MayHoldBack, WellFormed

\* Without undoes the last entry of a record in which its node stands alone.
LEMMA WithoutLast ==
  ASSUME NEW pre \in Seq(Entries), NEW e \in Entries, NEW d, d = Append(pre, e),
         ~InRecord(pre, e.node)
  PROVE  Without(d, e.node) = pre
<1> PICK E : E = Entries
  OBVIOUS
<1> PICK p : p = e.node
  OBVIOUS
<1>1. pre \in Seq(E) /\ d \in Seq(E) /\ e \in E
  OBVIOUS
<1>2. /\ Len(pre) \in Nat /\ Len(d) = Len(pre) + 1 /\ d[Len(d)] = e
      /\ \A k \in 1 .. Len(pre) : d[k] = pre[k]
  BY <1>1
<1>3. HasWithout(E, d, p)
  BY <1>1, WithoutFold
<1>4. PICK kept \in [0 .. Len(d) -> Seq(E)] :
        /\ kept[0] = <<>>
        /\ \A k \in 1 .. Len(d) :
             kept[k] = IF d[k].node = p THEN kept[k - 1] ELSE Append(kept[k - 1], d[k])
        /\ Without(d, p) = kept[Len(d)]
  BY <1>3 DEF HasWithout
<1> DEFINE Same == {k \in Nat : k <= Len(pre) => kept[k] = SubSeq(pre, 1, k)}
<1>5. 0 \in Same
  BY <1>1, <1>2, <1>4
<1>6. ASSUME NEW k \in Nat, k \in Same PROVE k + 1 \in Same
  <2> SUFFICES ASSUME k + 1 <= Len(pre) PROVE kept[k + 1] = SubSeq(pre, 1, k + 1)
    OBVIOUS
  <2>1. kept[k] = SubSeq(pre, 1, k) /\ k + 1 \in 1 .. Len(d) /\ k + 1 \in 1 .. Len(pre)
        /\ (k + 1) - 1 = k
    BY <1>2, <1>6
  <2>2. d[k + 1] = pre[k + 1] /\ d[k + 1].node # p
    BY <1>2, <2>1 DEF InRecord
  <2>3. kept[k + 1] = Append(SubSeq(pre, 1, k), pre[k + 1])
    BY <1>4, <2>1, <2>2
  <2>4. SubSeq(pre, 1, k + 1) = Append(SubSeq(pre, 1, k), pre[k + 1])
    BY <1>1, <1>2, <2>1
  <2> QED BY <2>3, <2>4
<1>7. Len(pre) \in Same
  <2> HIDE DEF Same
  <2> QED BY <1>2, <1>5, <1>6, SetInduction
<1>8. kept[Len(pre)] = pre
  <2>1. kept[Len(pre)] = SubSeq(pre, 1, Len(pre))
    BY <1>2, <1>7
  <2>2. SubSeq(pre, 1, Len(pre)) = pre
    BY ONLY <1>1
  <2> QED BY <2>1, <2>2
<1>9. kept[Len(d)] = kept[Len(pre)]
  <2>1. Len(d) \in 1 .. Len(d) /\ Len(d) - 1 = Len(pre) /\ d[Len(d)].node = p
    BY <1>2
  <2> QED BY <1>4, <2>1
<1> QED BY <1>4, <1>8, <1>9

-----------------------------------------------------------------------------
(***************************************************************************)
(* A run that has come to its end: the queue is empty, nothing was thrown   *)
(* away.                                                                    *)
(***************************************************************************)

\* Every node that no decision node stands before has run.
LEMMA UnconditionalRan ==
  ASSUME NEW f \in Flows, OnCanvas(f), NEW d, NEW w, NEW ign,
         Flowing(f, <<>>, d, w, ign, TRUE), NEW n \in f.nodes, Unconditional(f, n)
  PROVE  n \in Ran(f, d)
<1> DEFINE S == {m \in f.nodes : Unconditional(f, m) => InRecord(d, m)}
<1>1. ASSUME NEW m \in f.nodes, \A a \in Ancestors(f, m) : a \in S, Unconditional(f, m)
      PROVE  InRecord(d, m)
  <2> DEFINE passed == Passed(f, Ran(f, d), ign, m)
  <2>1. m \in Sound(f)
    BY <1>1 DEF Sound
  <2>2. Exact(f, <<>>, d, w, ign, m)
    BY <2>1 DEF Flowing
  <2>3. \A s \in Sources(f, m) : s \in passed
    <3> SUFFICES ASSUME NEW s \in Sources(f, m) PROVE s \in passed
      OBVIOUS
    <3>1. s \in Ancestors(f, m)
      BY <1>1, SourceIsAncestor
    <3>2. s \in f.nodes /\ ~Decision(f, s) /\ Unconditional(f, s)
      BY <1>1, <3>1, UnconditionalUp
    <3>3. s \in Ran(f, d)
      BY <1>1, <3>1, <3>2 DEF Ran
    <3>4. ign[s] = {}
      BY <3>2 DEF Flowing, Held
    <3> QED BY <3>3, <3>4 DEF Passed
  <2>4. passed = Sources(f, m)
    BY <2>3 DEF Passed
  <2>5. HasReceivedRequiredInputs(f, m, passed)
    <3> HIDE DEF passed
    <3> QED BY <2>4, ReceivedAll
  <2>6. Fired(<<>>, d, m)
    BY <2>2, <2>5 DEF Exact
  <2>7. ~InQueue(<<>>, m)
    <3>1. 1 .. Len(<<>>) = {}
      OBVIOUS
    <3> QED BY <3>1 DEF InQueue
  <2> QED BY <2>6, <2>7 DEF Fired
<1>2. f.nodes \subseteq S
  <2>1. \A m \in f.nodes : (\A a \in Ancestors(f, m) : a \in S) => m \in S
    BY <1>1
  <2> HIDE DEF S
  <2> QED BY <2>1, UpwardInduction
<1> QED BY <1>2 DEF Ran

\* A count of runs is a number.
LEMMA RunsType ==
  ASSUME NEW E, NEW d \in Seq(E), NEW n
  PROVE  Runs(d, n) \in Nat
<1>1. Len(d) \in Nat
  OBVIOUS
<1>2. IsFiniteSet(1 .. Len(d)) /\ {i \in 1 .. Len(d) : d[i].node = n} \subseteq 1 .. Len(d)
  BY <1>1, FS_Interval
<1> PICK S : S = {i \in 1 .. Len(d) : d[i].node = n}
  OBVIOUS
<1>3. IsFiniteSet(S) /\ S = {i \in 1 .. Len(d) : d[i].node = n}
  BY <1>2, FS_Subset
<1> QED BY <1>3, FS_CardinalityType DEF Runs

\* How often a node is in the record.
LEMMA RunsCount ==
  ASSUME NEW d \in Seq(Entries), NEW n
  PROVE  /\ InRecord(d, n) => Runs(d, n) >= 1
         /\ (\A i, j \in 1 .. Len(d) : d[i].node = n /\ d[j].node = n => i = j) => Runs(d, n) <= 1
<1> DEFINE S == {i \in 1 .. Len(d) : d[i].node = n}
<1>1. IsFiniteSet(S) /\ Runs(d, n) = Cardinality(S) /\ Cardinality(S) \in Nat
  <2>1. Len(d) \in Nat
    OBVIOUS
  <2>2. IsFiniteSet(1 .. Len(d)) /\ S \subseteq 1 .. Len(d)
    BY <2>1, FS_Interval
  <2>3. IsFiniteSet(S)
    <3> HIDE DEF S
    <3> QED BY <2>2, FS_Subset
  <2>4. Cardinality(S) \in Nat
    <3> HIDE DEF S
    <3> QED BY <2>3, FS_CardinalityType
  <2> QED BY <2>3, <2>4 DEF Runs
<1>2. ASSUME InRecord(d, n) PROVE Runs(d, n) >= 1
  <2>1. S # {}
    BY <1>2 DEF InRecord
  <2> HIDE DEF S
  <2>2. Cardinality(S) # 0
    BY <1>1, <2>1, FS_EmptySet
  <2> QED BY <1>1, <2>2
<1>3. ASSUME \A i, j \in 1 .. Len(d) : d[i].node = n /\ d[j].node = n => i = j
      PROVE  Runs(d, n) <= 1
  <2>1. CASE S = {}
    BY <1>1, <2>1, FS_EmptySet
  <2>2. CASE S # {}
    <3>1. PICK i : S = {i}
      BY <1>3, <2>2
    <3>2. Cardinality(S) = 1
      BY <3>1, FS_Singleton
    <3> QED BY <1>1, <3>2
  <2> QED BY <2>1, <2>2
<1> QED BY <1>2, <1>3

\* What an unconditional node of a finished run owes.
LEMMA UnconditionalRuns ==
  ASSUME NEW f \in Flows, OnCanvas(f), NEW d \in Seq(Entries), NEW w, NEW ign,
         Flowing(f, <<>>, d, w, ign, TRUE), NEW n \in f.nodes, Unconditional(f, n)
  PROVE  Runs(d, n) >= 1 /\ (Loops(f) = {} => Runs(d, n) = 1)
<1>1. InRecord(d, n)
  BY UnconditionalRan DEF Ran
<1>2. ASSUME Loops(f) = {}
      PROVE  \A i, j \in 1 .. Len(d) : d[i].node = n /\ d[j].node = n => i = j
  <2>1. n \in Sound(f)
    BY DEF Sound
  <2> QED BY <1>2, <2>1 DEF Flowing, Orderly, Once
<1>3. Runs(d, n) >= 1 /\ (Loops(f) = {} => Runs(d, n) <= 1)
  BY <1>1, <1>2, RunsCount
<1>4. Runs(d, n) \in Nat
  BY RunsType
<1> QED BY <1>3, <1>4

\* Two sources make a join.
LEMMA TwoSources ==
  ASSUME NEW f \in Flows, WellFormed(f), NEW n \in f.nodes,
         NEW s \in Sources(f, n), NEW t \in Sources(f, n), s # t
  PROVE  BalancedJoin(f, n)
<1>1. Sources(f, n) \in SUBSET f.nodes
  BY EdgeReaches
<1>2. IsFiniteSet(Sources(f, n)) /\ Cardinality(Sources(f, n)) \in Nat
  BY <1>1, NodesFinite, FS_Subset, FS_CardinalityType
<1>3. Cardinality(Sources(f, n)) # 0 /\ Cardinality(Sources(f, n)) # 1
  BY <1>2, FS_EmptySet, FS_Singleton
<1>4. Cardinality(Sources(f, n)) > 1
  BY <1>2, <1>3
<1> QED BY <1>4 DEF WellFormed

\* What handle o of c leads to has c before it, and was come to along an edge.
LEMMA OnTheWay ==
  ASSUME NEW f \in Flows, OnCanvas(f), NEW c \in f.nodes, NEW o,
         NEW v \in Reach(f, Targets(f, c, o))
  PROVE  /\ v \in f.nodes /\ c \in Ancestors(f, v) /\ v # c
         /\ \/ c \in Sources(f, v) /\ v \in Targets(f, c, o)
            \/ \E s \in Sources(f, v) : s \in Reach(f, Targets(f, c, o))
<1> DEFINE T == Targets(f, c, o)
<1>1. T \in SUBSET f.nodes /\ Reach(f, T) \in SUBSET f.nodes
  BY TargetsType
<1>2. v \in T => c \in Sources(f, v)
  BY DEF Targets, Drawn, Sources
<1>3. v \notin T => \E s \in Sources(f, v) : s \in Reach(f, T)
  BY <1>1, ReachBack DEF Sources
<1>4. Reach(f, T) \subseteq Reach(f, {c})
  <2>1. {c} \in SUBSET f.nodes
    OBVIOUS
  <2>2. c \in Reach(f, {c}) /\ Closed(f, Reach(f, {c}))
    BY <2>1, ReachIsClosed
  <2>3. T \subseteq Reach(f, {c})
    BY <2>2 DEF Targets, Drawn, Closed
  <2> HIDE DEF T
  <2> QED BY <1>1, <2>2, <2>3, ReachIsLeast
<1>5. \A m \in f.nodes : m \notin Sources(f, m)
  BY SourceIsAncestor DEF Ancestors
<1>6. v # c
  <2> SUFFICES ASSUME v = c PROVE FALSE
    OBVIOUS
  <2>1. PICK s \in Sources(f, c) : s \in Reach(f, T)
    BY <1>2, <1>3, <1>5
  <2>2. s \in f.nodes /\ s \in Reach(f, {c}) /\ s # c /\ c \in Reach(f, {s})
    BY <1>4, <1>5, <2>1, EdgeReaches
  <2> QED BY <2>2, NoCycle
<1>7. v \in f.nodes /\ c \in Ancestors(f, v)
  BY <1>1, <1>4, <1>6 DEF Ancestors
<1> QED BY <1>2, <1>3, <1>6, <1>7

\* Whatever stands behind a decision node is led to by one of its handles.
LEMMA ReachedByHandle ==
  ASSUME NEW f \in Flows, SimpleHandles(f), NEW c \in f.nodes, Decision(f, c),
         NEW s \in Reach(f, {c}), s # c
  PROVE  \E p \in 0 .. f.outs[c] - 1 : s \in Reach(f, Targets(f, c, p))
<1> DEFINE handles == 0 .. f.outs[c] - 1
           W == {m \in f.nodes : m = c \/ \E p \in handles : m \in Reach(f, Targets(f, c, p))}
<1>1. f.outs[c] \in Nat
  BY FlowsAssumption DEF IsFlow
<1>2. Closed(f, W)
  <2> SUFFICES ASSUME NEW i \in EdgeIds(f), f.edges[i].src \in W PROVE f.edges[i].tgt \in W
    BY DEF Closed
  <2>1. f.edges[i].tgt \in f.nodes /\ f.edges[i].out \in Nat
    BY EdgeType
  <2>2. CASE f.edges[i].src = c
    <3>1. f.edges[i].out \in handles
      BY <1>1, <2>1, <2>2 DEF SimpleHandles
    <3>2. f.edges[i].tgt \in Targets(f, c, f.edges[i].out)
      BY <2>2 DEF Targets, Drawn
    <3>3. f.edges[i].tgt \in Reach(f, Targets(f, c, f.edges[i].out))
      BY <3>2, TargetsType
    <3> QED BY <2>1, <3>1, <3>3
  <2>3. CASE f.edges[i].src # c
    <3>1. PICK p \in handles : f.edges[i].src \in Reach(f, Targets(f, c, p))
      BY <2>3
    <3>2. Closed(f, Reach(f, Targets(f, c, p)))
      BY TargetsType, ReachIsClosed
    <3> QED BY <2>1, <3>1, <3>2 DEF Closed
  <2> QED BY <2>2, <2>3
<1>3. {c} \in SUBSET f.nodes /\ {c} \subseteq W
  OBVIOUS
<1>4. Reach(f, {c}) \subseteq W
  <2> HIDE DEF W
  <2> QED BY <1>2, <1>3, ReachIsLeast
<1> QED BY <1>4

\* A handle that brings a node one input leads to it.
LEMMA ArrivalReaches ==
  ASSUME NEW f \in Flows, NEW n \in f.nodes, NEW c, NEW o, ArrivalsBy(f, n, c, o) = 1
  PROVE  n \in Reach(f, Targets(f, c, o))
<1>1. n \in Targets(f, c, o) \/ \E s \in Sources(f, n) : s \in Reach(f, Targets(f, c, o))
  BY OneArrival
<1> QED BY <1>1, TargetsType, ReachOn

\* In a well-formed flow, what lies on the way of a decision node and has another
\* condition parent, itself unconditional, lies on every way of it: the branches
\* of the decision node have met again before.
LEMMA EveryHandle ==
  ASSUME NEW f \in Flows, OnCanvas(f), WellFormed(f), NEW c \in f.nodes, Decision(f, c),
         NEW o, NEW v \in Reach(f, Targets(f, c, o)),
         FindConditionParent(f, v) # NoNode, FindConditionParent(f, v) # c,
         Unconditional(f, FindConditionParent(f, v)), NEW p \in 0 .. f.outs[c] - 1
  PROVE  v \in Reach(f, Targets(f, c, p))
<1> DEFINE e(m) == FindConditionParent(f, m)
           on(m) == m \in Reach(f, Targets(f, c, o))
           also(m) == m \in Reach(f, Targets(f, c, p))
           S == {m \in f.nodes :
                   on(m) /\ e(m) # NoNode /\ e(m) # c /\ Unconditional(f, e(m)) => also(m)}
<1>1. ASSUME NEW m \in f.nodes, \A a \in Ancestors(f, m) : a \in S,
             on(m), e(m) # NoNode, e(m) # c, Unconditional(f, e(m))
      PROVE  also(m)
  <2>1. c \in Ancestors(f, m)
    BY <1>1, OnTheWay
  <2>2. ~Decision(f, m)
    <3>1. Decision(f, m) => e(m) = m
      BY ParentOfDecision
    <3> QED BY <1>1, <2>1, <3>1 DEF Unconditional
  <2>3. e(c) = c
    BY ParentOfDecision
  <2>4. PICK s \in Sources(f, m) : s = c \/ on(s)
    BY <1>1, OnTheWay
  <2>5. s \in f.nodes /\ s \in Ancestors(f, m)
    BY <2>4, EdgeReaches, SourceIsAncestor
  <2>6. s # c => c \in Ancestors(f, s) /\ ~Unconditional(f, s)
    <3>1. s # c => c \in Ancestors(f, s)
      BY <2>4, OnTheWay
    <3> QED BY <3>1 DEF Unconditional
  <2>7. ASSUME on(s), e(s) # NoNode, e(s) # c, Unconditional(f, e(s)) PROVE also(m)
    <3>1. also(s)
      BY <1>1, <2>5, <2>7
    <3> QED BY <2>4, <3>1, TargetsType, ReachOn
  <2>8. CASE \E t \in Sources(f, m) : t # s
    <3>1. BalancedJoin(f, m)
      BY <2>4, <2>8, TwoSources
    <3>2. CASE e(s) = c
      <4>1. ArrivalsBy(f, m, c, p) = 1
        <5>1. e(s) # NoNode
          BY <3>2, FlowLen, FlowsAssumption
        <5>2. \A u \in 0 .. f.outs[e(s)] - 1 : ArrivalsBy(f, m, e(s), u) = 1
          BY <2>4, <3>1, <5>1 DEF BalancedJoin
        <5> QED BY <3>2, <5>2
      <4> QED BY <4>1, ArrivalReaches
    <3>3. CASE e(s) # c
      <4>1. s # c /\ on(s)
        BY <2>3, <2>4, <3>3
      <4>2. e(s) # NoNode
        BY <2>4, <2>6, <3>1, <4>1 DEF BalancedJoin
      <4>3. Unconditional(f, e(s))
        BY <2>4, <3>1, <4>2 DEF BalancedJoin
      <4> QED BY <2>7, <3>3, <4>1, <4>2, <4>3
    <3> QED BY <3>2, <3>3
  <2>9. CASE \A t \in Sources(f, m) : t = s
    <3>1. FirstParent(f, m) = s /\ e(m) = e(FirstParent(f, m))
      BY <1>1, <2>2, <2>4, <2>9, ParentOfOther
    <3>2. e(s) = e(m)
      BY <3>1
    <3>3. on(s)
      BY <1>1, <2>3, <2>4, <3>2
    <3> QED BY <1>1, <2>7, <3>2, <3>3
  <2> QED BY <2>8, <2>9
<1>2. f.nodes \subseteq S
  <2>1. \A m \in f.nodes : (\A a \in Ancestors(f, m) : a \in S) => m \in S
    BY <1>1
  <2> HIDE DEF S
  <2> QED BY <2>1, UpwardInduction
<1>3. v \in f.nodes
  BY OnTheWay
<1> QED BY <1>2, <1>3

\* t stands on the way that its condition parent c went.
OnTaken(f, D, ign, c, o, t) ==
  /\ FindConditionParent(f, t) = c /\ t # c
  /\ c \in D /\ c \in f.nodes /\ Unconditional(f, c)
  /\ o \in 0 .. f.outs[c] - 1 /\ Went(f, ign, c, o)
  /\ t \in Reach(f, Targets(f, c, o))

\* The balanced join gets what it requires if the inputs on the ways that were
\* taken have run.
LEMMA JoinGets ==
  ASSUME NEW f \in Flows, OnCanvas(f), WellFormed(f), NEW d, NEW w, NEW ign,
         Flowing(f, <<>>, d, w, ign, TRUE), NEW n \in f.nodes, BalancedJoin(f, n),
         NEW D, D = Ran(f, d),
         \A t \in Sources(f, n) : \A c, o : OnTaken(f, D, ign, c, o, t) => t \in D
  PROVE  HasReceivedRequiredInputs(f, n, Passed(f, D, ign, n))
<1> DEFINE e(m) == FindConditionParent(f, m)
           P == Passed(f, D, ign, n)
<1>1. Held(f, D, ign) /\ D \subseteq f.nodes
  BY DEF Flowing, Ran
<1>2. \A t \in Sources(f, n) : t \in f.nodes /\ t \in Ancestors(f, n)
  BY EdgeReaches, SourceIsAncestor
<1>3. \A t \in f.nodes : Decision(f, t) => e(t) = t
  BY ParentOfDecision
<1>4. NoNode \notin f.nodes
  BY FlowLen, FlowsAssumption
<1>5. \A t \in Sources(f, n) : t \in D /\ ~Decision(f, t) => t \in P
  BY <1>1, <1>2 DEF Held, Passed
<1>6. ASSUME NEW s \in Sources(f, n)
      PROVE  IF e(s) = NoNode THEN s \in P
             ELSE \E t \in Sources(f, n) : t \in P /\ e(t) = e(s)
  <2>1. CASE e(s) = NoNode
    <3>1. Unconditional(f, s)
      BY <2>1 DEF BalancedJoin
    <3>2. s \in D
      BY <1>2, <3>1, UnconditionalRan
    <3>3. ~Decision(f, s)
      BY <1>2, <1>3, <1>4, <2>1
    <3> QED BY <1>5, <2>1, <3>2, <3>3
  <2>2. CASE e(s) # NoNode
    <3> PICK c : c = e(s)
      OBVIOUS
    <3>1. c \in f.nodes /\ Decision(f, c) /\ (c = s \/ c \in Ancestors(f, s)) /\ c # NoNode
      BY <1>2, <2>2, ConditionParentType
    <3>2. Unconditional(f, c) /\ \A u \in 0 .. f.outs[c] - 1 : ArrivalsBy(f, n, c, u) = 1
      BY <2>2 DEF BalancedJoin
    <3>3. c \in D
      BY <3>1, <3>2, UnconditionalRan
    <3>4. PICK o \in 0 .. f.outs[c] - 1 : Went(f, ign, c, o)
      BY <1>1, <3>1, <3>3, ParentWent
    <3>5. ArrivalsBy(f, n, c, o) = 1
      BY <3>2
    <3>6. CASE n \in Targets(f, c, o)
      <4>1. PICK i \in EdgeIds(f) : f.edges[i].src = c /\ f.edges[i].out = o /\ f.edges[i].tgt = n
        BY <3>6 DEF Targets, Drawn
      <4>2. n \notin ign[c]
        BY <3>4, <4>1 DEF Went
      <4>3. c \in Sources(f, n) /\ c \in P
        BY <3>3, <4>1, <4>2 DEF Sources, Passed
      <4>4. e(c) = c
        BY <1>3, <3>1
      <4> QED BY <2>2, <4>3, <4>4
    <3>7. CASE n \notin Targets(f, c, o)
      <4>1. PICK t \in Sources(f, n) \ {c} : t \in Reach(f, Targets(f, c, o))
        BY <3>5, <3>7, OneArrival
      <4>2. c \in Ancestors(f, t) /\ ~Unconditional(f, t) /\ t \in f.nodes
        BY <1>2, <3>1, <4>1, OnTheWay DEF Unconditional
      <4>3. e(t) # NoNode /\ Unconditional(f, e(t))
        BY <4>1, <4>2 DEF BalancedJoin
      <4>4. e(t) = c
        <5> SUFFICES ASSUME e(t) # c PROVE FALSE
          OBVIOUS
        <5>1. \A p \in 0 .. f.outs[c] - 1 : t \in Reach(f, Targets(f, c, p))
          BY <3>1, <4>1, <4>3, EveryHandle
        <5>2. CASE s = c
          <6>1. SimpleHandles(f) /\ f.outs[c] \in Nat
            BY FlowsAssumption, <3>1 DEF WellFormed, IsFlow
          <6>2. PICK i \in EdgeIds(f) : f.edges[i].src = c /\ f.edges[i].tgt = n
            BY <5>2 DEF Sources
          <6>3. f.edges[i].out \in 0 .. f.outs[c] - 1
            BY <3>1, <6>1, <6>2, EdgeType DEF SimpleHandles
          <6>4. n \in Targets(f, c, f.edges[i].out)
            BY <6>2 DEF Targets, Drawn
          <6>5. ArrivalsBy(f, n, c, f.edges[i].out) = 1
            BY <3>2, <6>3
          <6>6. t \notin Reach(f, Targets(f, c, f.edges[i].out))
            BY <4>1, <6>4, <6>5, OneArrival
          <6> QED BY <5>1, <6>3, <6>6
        <5>3. CASE s # c
          <6>1. s \in Reach(f, {c})
            BY <3>1, <5>3 DEF Ancestors
          <6>2. SimpleHandles(f)
            BY DEF WellFormed
          <6>3. PICK p \in 0 .. f.outs[c] - 1 : s \in Reach(f, Targets(f, c, p))
            BY <3>1, <5>3, <6>1, <6>2, ReachedByHandle
          <6>4. ArrivalsBy(f, n, c, p) = 1 /\ t \in Reach(f, Targets(f, c, p))
            BY <3>2, <5>1
          <6>5. s = t
            BY <4>1, <5>3, <6>3, <6>4, OneArrival
          <6> QED BY <6>5
        <5> QED BY <5>2, <5>3
      <4>5. OnTaken(f, D, ign, c, o, t)
        BY <3>1, <3>2, <3>3, <3>4, <4>1, <4>4 DEF OnTaken
      <4>6. t \in D
        BY <4>1, <4>5
      <4>7. ~Decision(f, t)
        BY <1>3, <4>1, <4>2, <4>4
      <4> QED BY <1>5, <2>2, <4>1, <4>4, <4>6, <4>7
    <3> QED BY <3>6, <3>7
  <2> QED BY <2>1, <2>2
<1> HIDE DEF P
<1>7. HasReceivedRequiredInputs(f, n, P)
  BY <1>6, ReceivedMeans
<1> QED BY <1>7 DEF P

\* A node that has got what it requires has run.
LEMMA ReceivedRan ==
  ASSUME NEW f \in Flows, NEW d, NEW w, NEW ign, Flowing(f, <<>>, d, w, ign, TRUE),
         NEW n \in Sound(f), HasReceivedRequiredInputs(f, n, Passed(f, Ran(f, d), ign, n))
  PROVE  n \in Ran(f, d)
<1>1. Fired(<<>>, d, n)
  BY DEF Flowing, Exact
<1>2. 1 .. Len(<<>>) = {}
  OBVIOUS
<1>3. ~InQueue(<<>>, n)
  BY <1>2 DEF InQueue
<1>4. n \in f.nodes
  BY DEF Sound
<1> QED BY <1>1, <1>3, <1>4 DEF Fired, Ran

\* What stands on the way that was taken has run.
LEMMA TakenWayRan ==
  ASSUME NEW f \in Flows, OnCanvas(f), WellFormed(f), Loops(f) = {}, NEW d, NEW w, NEW ign,
         Flowing(f, <<>>, d, w, ign, TRUE), NEW D, D = Ran(f, d)
  PROVE  \A t \in f.nodes : \A c, o : OnTaken(f, D, ign, c, o, t) => t \in D
<1> DEFINE S == {t \in f.nodes : \A c, o : OnTaken(f, D, ign, c, o, t) => t \in D}
           e(m) == FindConditionParent(f, m)
<1>1. ASSUME NEW t \in f.nodes, \A a \in Ancestors(f, t) : a \in S,
             NEW c, NEW o, OnTaken(f, D, ign, c, o, t)
      PROVE  t \in D
  <2>1. /\ e(t) = c /\ t # c /\ c \in D /\ c \in f.nodes /\ Unconditional(f, c)
        /\ o \in 0 .. f.outs[c] - 1 /\ Went(f, ign, c, o)
        /\ t \in Reach(f, Targets(f, c, o))
    BY <1>1 DEF OnTaken
  <2>2. t \in Sound(f)
    BY DEF Sound
  <2>3. ~Decision(f, t)
    BY <2>1, ParentOfDecision
  <2>4. \A s \in Sources(f, t) : s \in f.nodes /\ s \in Ancestors(f, t)
    BY EdgeReaches, SourceIsAncestor
  <2>5. SUFFICES HasReceivedRequiredInputs(f, t, Passed(f, D, ign, t))
    BY <2>2, ReceivedRan
  <2>6. PICK s \in Sources(f, t) : \/ s = c /\ t \in Targets(f, c, o)
                                   \/ s \in Reach(f, Targets(f, c, o))
    BY <2>1, OnTheWay
  <2>7. CASE \E u \in Sources(f, t) : u # s
    <3>1. BalancedJoin(f, t)
      BY <2>6, <2>7, TwoSources
    <3>2. \A u \in Sources(f, t) : \A b, p : OnTaken(f, D, ign, b, p, u) => u \in D
      BY <1>1, <2>4
    <3> QED BY <3>1, <3>2, JoinGets
  <2>8. CASE \A u \in Sources(f, t) : u = s
    <3>1. s \in Passed(f, D, ign, t)
      <4>1. CASE s = c /\ t \in Targets(f, c, o)
        <5>1. t \notin ign[c]
          BY <2>1, <4>1 DEF Targets, Drawn, Went
        <5> QED BY <2>1, <2>6, <4>1, <5>1 DEF Passed
      <4>2. CASE s \in Reach(f, Targets(f, c, o))
        <5>1. FirstParent(f, t) = s /\ e(t) = e(FirstParent(f, t))
          BY <2>3, <2>6, <2>8, ParentOfOther
        <5>2. e(s) = c /\ s # c
          BY <2>1, <4>2, <5>1, OnTheWay
        <5>3. OnTaken(f, D, ign, c, o, s)
          BY <2>1, <4>2, <5>2 DEF OnTaken
        <5>4. s \in D
          BY <1>1, <2>4, <2>6, <5>3
        <5>5. ~Decision(f, s)
          BY <2>4, <2>6, <5>2, ParentOfDecision
        <5>6. ign[s] = {}
          BY <2>4, <2>6, <5>5 DEF Flowing, Held
        <5> QED BY <2>6, <5>4, <5>6 DEF Passed
      <4> QED BY <2>6, <4>1, <4>2
    <3>2. Passed(f, D, ign, t) = Sources(f, t)
      BY <2>8, <3>1 DEF Passed
    <3> QED BY <3>2, ReceivedAll
  <2> QED BY <2>7, <2>8
<1>2. f.nodes \subseteq S
  <2>1. \A t \in f.nodes : (\A a \in Ancestors(f, t) : a \in S) => t \in S
    BY <1>1
  <2> HIDE DEF S
  <2> QED BY <2>1, UpwardInduction
<1> QED BY <1>2

\* In a well-formed flow no join is left waiting at the end.
LEMMA NothingLeft ==
  ASSUME NEW f \in Flows, OnCanvas(f), WellFormed(f), Loops(f) = {}, NEW d, NEW w, NEW ign,
         Flowing(f, <<>>, d, w, ign, TRUE), NEW n \in f.nodes
  PROVE  w[n] = {}
<1> PICK D : D = Ran(f, d)
  OBVIOUS
<1> DEFINE P == Passed(f, D, ign, n)
<1>1. n \in Sound(f)
  BY DEF Sound
<1>2. Orderly(f, <<>>, d, w, ign, n) /\ Exact(f, <<>>, d, w, ign, n)
  BY <1>1 DEF Flowing
<1>3. CASE Fired(<<>>, d, n)
  BY <1>2, <1>3 DEF Orderly
<1>4. CASE ~Fired(<<>>, d, n)
  <2>1. w[n] = P /\ ~HasReceivedRequiredInputs(f, n, P)
    BY <1>2, <1>4 DEF Exact
  <2> SUFFICES ASSUME NEW s \in P PROVE FALSE
    BY <2>1
  <2>2. s \in Sources(f, n) /\ P \subseteq Sources(f, n)
    BY DEF Passed
  <2>3. CASE \E t \in Sources(f, n) : t # s
    <3>1. BalancedJoin(f, n)
      BY <2>2, <2>3, TwoSources
    <3>2. \A t \in f.nodes : \A c, o : OnTaken(f, D, ign, c, o, t) => t \in D
      BY TakenWayRan
    <3>3. \A t \in Sources(f, n) : \A c, o : OnTaken(f, D, ign, c, o, t) => t \in D
      BY <3>2, EdgeReaches
    <3> QED BY <2>1, <3>1, <3>3, JoinGets
  <2>4. CASE \A t \in Sources(f, n) : t = s
    <3>1. P = Sources(f, n)
      BY <2>2, <2>4
    <3> HIDE DEF P
    <3> QED BY <2>1, <3>1, ReceivedAll
  <2> QED BY <2>3, <2>4
<1> QED BY <1>3, <1>4

-----------------------------------------------------------------------------
(***************************************************************************)
(* The requests. A run that starts an execution flows from its start node   *)
(* to its end or its pause (Ongoing); the record a pause stores is that of  *)
(* a run that stands before the paused node (Stored), and a resume takes    *)
(* the run up there (Awaits), provided that the client does not name        *)
(* another node and the flow is not edited (Scoped).                        *)
(***************************************************************************)
Scoped == Env \cap {"named", "edit"} = {}

\* The flows in which every join is balanced and nothing jumps back.
Straight(f) == OnCanvas(f) /\ WellFormed(f) /\ Loops(f) = {}

\* Some sets of held back nodes fit what the request has in memory.
Ongoing(f, q, d, w, fresh) ==
  \E ign \in [f.nodes -> SUBSET f.nodes] : Flowing(f, q, d, w, ign, fresh)

\* d is the record of a run that stood before p when p paused.
StoredAt(f, d, p) ==
  /\ p \in f.nodes
  /\ \E pre \in Seq(Entries) : /\ d = Append(pre, Entry(p, "STOPPED"))
                               /\ Ongoing(f, <<p>>, pre, NothingWaits, FALSE)

\* d is the record of a pause.
Stored(f, d) == \E p \in f.nodes : StoredAt(f, d, p)

\* The request is about to run the node it resumes.
Awaits(x) ==
  /\ x.resumed
  /\ x.queue = <<x.human.node>>
  /\ x.waiting = NothingWaits
  /\ StoredAt(x.flow, x.data, x.human.node)

\* The request is on its way from the start, or from the node it resumed.
RunsOn(x) == Ongoing(x.flow, x.queue, x.data, x.waiting, ~x.resumed)

\* What a request holds at each point of its way.
OnRoute(x, label) ==
  /\ label \in Claiming => Awaits(x)
  /\ label = "running" => IF x.human = NoInput THEN RunsOn(x) ELSE Awaits(x)
  /\ label = "closing" => Stored(x.flow, x.data)
  /\ label = "answered" => Stored(x.flow, x.data) \/ (x.queue = <<>> /\ RunsOn(x))

\* The requests the invariant follows: all that start, and those that resume in a
\* well-formed flow.
Tracked(x) == OnCanvas(x.flow) /\ (x.resumed => Scoped /\ Straight(x.flow))

\* The part of the invariant that is about one request.
Routed(x, label) ==
  /\ label \in Claiming => x.resumed
  /\ Tracked(x) => OnRoute(x, label)

\* A row that can be resumed holds what a pause stored.
Sane(f, row) == Scoped /\ Straight(f) /\ Resumable(row) => Stored(f, ResumeData(row))

\* Every request is on its route, and every row that can be resumed holds what a
\* pause stored: a row outlives the request that wrote it.
RoutingInv ==
  /\ \A r \in Requests : Routed(run[r], pc[r])
  /\ Scoped => \A r \in Requests : run[r].flow = deployed
  /\ \A i \in 1 .. Len(execs) : Sane(deployed, execs[i])

\* What a pause stores ends with the node it stopped at, the only one that is
\* not FINISHED.
LEMMA StoredMeans ==
  ASSUME NEW f \in Flows, NEW d, NEW p, StoredAt(f, d, p)
  PROVE  /\ d \in Seq(Entries) /\ Len(d) >= 1 /\ d # <<>>
         /\ \A i \in 1 .. Len(d) : d[i].status = IF i = Len(d) THEN "STOPPED" ELSE "FINISHED"
         /\ StatusOf(d) = "STOPPED"
         /\ LastStopped(d) = p
<1>1. PICK pre \in Seq(Entries) : /\ d = Append(pre, Entry(p, "STOPPED"))
                                  /\ Ongoing(f, <<p>>, pre, NothingWaits, FALSE)
  BY DEF StoredAt
<1>2. \A i \in 1 .. Len(pre) : pre[i].status = "FINISHED"
  BY <1>1 DEF Ongoing, Flowing
<1> PICK e : e = Entry(p, "STOPPED")
  OBVIOUS
<1> PICK E : E = Entries
  OBVIOUS
<1>3. e \in E /\ e.status = "STOPPED" /\ e.node = p /\ pre \in Seq(E) /\ d = Append(pre, e)
  BY <1>1, FlowLen DEF StoredAt, Entry, Entries, NodeStates
<1>4. /\ d \in Seq(E) /\ Len(d) \in Nat /\ Len(pre) \in Nat /\ Len(d) = Len(pre) + 1
      /\ d[Len(d)] = e /\ \A i \in 1 .. Len(pre) : d[i] = pre[i]
  BY <1>3
<1>5. \A i \in 1 .. Len(d) : d[i].status = IF i = Len(d) THEN "STOPPED" ELSE "FINISHED"
  <2>1. \A i \in 1 .. Len(d) : i = Len(d) \/ i \in 1 .. Len(pre)
    BY <1>4
  <2>2. \A i \in 1 .. Len(pre) : i # Len(d)
    BY <1>4
  <2> QED BY <1>2, <1>3, <1>4, <2>1, <2>2
<1>6. Len(d) \in 1 .. Len(d) /\ Len(d) >= 1 /\ d # <<>>
  BY <1>4
<1>7. StatusOf(d) = "STOPPED"
  BY <1>5, <1>6 DEF StatusOf, Has
<1>8. LastStopped(d) = p
  <2> DEFINE at == {i \in 1 .. Len(d) : d[i].status = "STOPPED"}
  <2>1. at = {Len(d)}
    BY <1>5, <1>6
  <2>2. at # {} /\ (CHOOSE i \in at : \A j \in at : j <= i) = Len(d)
    BY <1>4, <2>1
  <2> HIDE DEF at
  <2>3. LastStopped(d) = d[CHOOSE i \in at : \A j \in at : j <= i].node
    BY <2>2 DEF LastStopped, at
  <2> QED BY <1>3, <1>4, <2>2, <2>3
<1> QED BY <1>4, <1>5, <1>6, <1>7, <1>8

\* A run that goes on has only finished nodes in its record.
LEMMA OngoingMeans ==
  ASSUME NEW f, NEW q, NEW d, NEW w, NEW fresh, Ongoing(f, q, d, w, fresh)
  PROVE  /\ \A i \in 1 .. Len(d) : d[i].status = "FINISHED"
         /\ StatusOf(d) = "FINISHED"
<1>1. \A i \in 1 .. Len(d) : d[i].status = "FINISHED"
  BY DEF Ongoing, Flowing
<1> QED BY <1>1 DEF StatusOf, Has

\* The row written when the loop has ended.
LEMMA SettledRow ==
  ASSUME NEW f \in Flows, NEW d,
         Stored(f, d) \/ (\A i \in 1 .. Len(d) : d[i].status = "FINISHED"),
         NEW row, row = [state |-> StatusOf(d), data |-> d]
  PROVE  Sane(f, row)
<1>1. CASE Stored(f, d)
  <2>1. PICK p : StoredAt(f, d, p)
    BY <1>1 DEF Stored
  <2>2. StatusOf(d) = "STOPPED"
    BY <2>1, StoredMeans
  <2>3. ResumeData(row) = d
    BY <2>2 DEF ResumeData
  <2> QED BY <1>1, <2>3 DEF Sane
<1>2. CASE \A i \in 1 .. Len(d) : d[i].status = "FINISHED"
  <2>1. StatusOf(d) = "FINISHED"
    BY <1>2 DEF StatusOf, Has
  <2> QED BY <2>1 DEF Sane, Resumable
<1> QED BY <1>1, <1>2

\* The row written by the catch block.
LEMMA FailedRow ==
  ASSUME NEW f \in Flows, NEW d \in Seq(Entries), NEW c \in AllNodes,
         NEW s \in {"ERROR", "TERMINATED"},
         Stored(f, d) \/ (\A i \in 1 .. Len(d) : d[i].status = "FINISHED"),
         NEW row, row = [state |-> s, data |-> Append(d, Entry(c, s))]
  PROVE  Sane(f, row)
<1> PICK e : e = Entry(c, s)
  OBVIOUS
<1> PICK E : E = Entries
  OBVIOUS
<1> PICK d2 : d2 = Append(d, e)
  OBVIOUS
<1>1. d \in Seq(E) /\ e \in E /\ row.state = s /\ row.data = d2
  BY DEF Entry, Entries, NodeStates
<1>2. /\ Len(d) \in Nat /\ Len(d2) = Len(d) + 1 /\ \A i \in 1 .. Len(d) : d2[i] = d[i]
      /\ SubSeq(d2, 1, Len(d)) = d
  BY ONLY <1>1, d2 = Append(d, e)
<1> SUFFICES ASSUME Resumable(row) PROVE Stored(f, ResumeData(row))
  BY DEF Sane
<1>3. s = "ERROR" /\ FailedAfterPause(d2)
  BY <1>1 DEF Resumable
<1>4. Len(d) \in 1 .. Len(d) /\ Len(d2) - 1 = Len(d) /\ d[Len(d)].status = "STOPPED"
  <2>1. Len(d2) >= 2 /\ d2[Len(d2) - 1].status = "STOPPED"
    BY <1>3 DEF FailedAfterPause
  <2>2. Len(d2) - 1 = Len(d) /\ Len(d) \in 1 .. Len(d)
    <3> PICK a, b : a = Len(d) /\ b = Len(d2)
      OBVIOUS
    <3>1. a \in Nat /\ b = a + 1 /\ b >= 2
      BY <1>2, <2>1
    <3>2. b - 1 = a /\ a \in 1 .. a
      BY ONLY <3>1
    <3> QED BY <3>2
  <2>3. d2[Len(d)] = d[Len(d)]
    BY <1>2, <2>2
  <2> QED BY <2>1, <2>2, <2>3
<1>5. Stored(f, d)
  BY <1>4
<1>6. ResumeData(row) = d
  BY <1>1, <1>2, <1>3, <1>4 DEF ResumeData
<1> QED BY <1>5, <1>6

-----------------------------------------------------------------------------
(***************************************************************************)
(* The steps of the engine keep RoutingInv, action by action.               *)
(***************************************************************************)

\* The frame of the steps of one request.
LEMMA RouteOfOne ==
  ASSUME TypeInv, RoutingInv, NEW r \in Requests, UNCHANGED deployed,
         \A q \in Requests \ {r} : pc'[q] = pc[q] /\ run'[q] = run[q],
         Routed(run'[r], pc'[r]),
         Scoped => run'[r].flow = deployed,
         \/ UNCHANGED execs
         \/ \E row \in Rows : /\ Sane(deployed, row)
                              /\ \/ execs' = [execs EXCEPT ![run[r].exec] = row]
                                 \/ execs' = Append(execs, row)
  PROVE  RoutingInv'
<1>1. TypeOK
  BY DEF TypeInv
<1>2. \A i \in 1 .. Len(execs') : Sane(deployed, execs'[i])
  <2>1. CASE UNCHANGED execs
    BY <2>1 DEF RoutingInv
  <2>2. ASSUME NEW row \in Rows, Sane(deployed, row),
               \/ execs' = [execs EXCEPT ![run[r].exec] = row]
               \/ execs' = Append(execs, row)
        PROVE  \A i \in 1 .. Len(execs') : Sane(deployed, execs'[i])
    <3>1. execs \in Seq(Rows)
      BY <1>1 DEF TypeOK
    <3> PICK R, old, j : R = Rows /\ old = execs /\ j = run[r].exec
      OBVIOUS
    <3>2. old \in Seq(R) /\ row \in R
      BY <3>1
    <3>3. \A i \in 1 .. Len(old) : Sane(deployed, old[i])
      BY DEF RoutingInv
    <3>4. ASSUME NEW new, new = [old EXCEPT ![j] = row]
          PROVE  \A i \in 1 .. Len(new) : new[i] = row \/ (i \in 1 .. Len(old) /\ new[i] = old[i])
      BY <3>2, <3>4
    <3>5. ASSUME NEW new, new = Append(old, row)
          PROVE  \A i \in 1 .. Len(new) : new[i] = row \/ (i \in 1 .. Len(old) /\ new[i] = old[i])
      BY <3>2, <3>5
    <3>6. \A i \in 1 .. Len(execs') :
            execs'[i] = row \/ (i \in 1 .. Len(old) /\ execs'[i] = old[i])
      BY <2>2, <3>4, <3>5
    <3> QED BY <2>2, <3>3, <3>6
  <2> QED BY <2>1, <2>2
<1>3. \A q \in Requests : Routed(run'[q], pc'[q])
  BY DEF RoutingInv
<1>4. Scoped => \A q \in Requests : run'[q].flow = deployed
  BY DEF RoutingInv
<1> QED BY <1>2, <1>3, <1>4 DEF RoutingInv

\* A row in progress cannot be resumed.
LEMMA InProgressIsSane ==
  ASSUME NEW f, NEW row, row.state = "INPROGRESS"
  PROVE  Sane(f, row)
BY DEF Sane, Resumable

\* A request that starts an execution.
LEMMA StartRoute ==
  ASSUME TypeInv, RoutingInv, NEW r \in Requests, Start(r)
  PROVE  RoutingInv'
<1>1. TypeOK /\ deployed \in Flows
  BY DEF TypeInv, TypeOK
<1> DEFINE queue == IF StartNodes(deployed) = {} THEN <<>>
                    ELSE <<CHOOSE n \in StartNodes(deployed) : TRUE>>
<1>2. /\ run'[r].flow = deployed /\ run'[r].resumed = FALSE /\ run'[r].human = NoInput
      /\ run'[r].data = <<>> /\ run'[r].queue = queue /\ run'[r].waiting = NothingWaits
      /\ pc'[r] = "running"
      /\ \A q \in Requests \ {r} : pc'[q] = pc[q] /\ run'[q] = run[q]
  <2> HIDE DEF queue
  <2>1. run' = [run EXCEPT ![r] =
                  [FreshRun(deployed) EXCEPT !.exec = Len(execs) + 1, !.queue = queue]]
    BY DEF Start, queue
  <2>2. pc' = [pc EXCEPT ![r] = "running"]
    BY DEF Start, Goto
  <2> QED BY <1>1, <2>1, <2>2 DEF TypeOK, FreshRun, NothingWaits
<1>3. Ongoing(deployed, queue, <<>>, NothingWaits, TRUE)
  <2>1. Flowing(deployed, queue, <<>>, NothingWaits, [n \in deployed.nodes |-> {}], TRUE)
    BY <1>1, FlowingStart DEF Start
  <2>2. [n \in deployed.nodes |-> {}] \in [deployed.nodes -> SUBSET deployed.nodes]
    OBVIOUS
  <2> HIDE DEF queue
  <2> QED BY <2>1, <2>2 DEF Ongoing
<1> HIDE DEF queue
<1>4. Routed(run'[r], pc'[r])
  BY <1>2, <1>3 DEF Routed, OnRoute, RunsOn, Claiming
<1> DEFINE row == [state |-> "INPROGRESS", data |-> <<>>]
<1>5. row \in Rows /\ row.state = "INPROGRESS" /\ execs' = Append(execs, row) /\ UNCHANGED deployed
  BY DEF Start, Rows, RowStates
<1>6. Sane(deployed, row)
  BY <1>5, InProgressIsSane
<1> HIDE DEF row
<1> QED BY <1>2, <1>4, <1>5, <1>6, RouteOfOne

\* A resume takes up the newest execution at the node it is paused at.
LEMMA ResumeRoute ==
  ASSUME TypeInv, RoutingInv, NEW r \in Requests, Resume(r)
  PROVE  RoutingInv'
<1>1. TypeOK /\ deployed \in Flows /\ execs # <<>> /\ execs \in Seq(Rows)
  BY DEF TypeInv, TypeOK, Resume
<1> PICK row : row = execs[Len(execs)]
  OBVIOUS
<1>2. PICK named \in NamedNodes, answer \in Answers :
        /\ CanResume(row, named)
        /\ run' = [run EXCEPT ![r] =
             [FreshRun(deployed) EXCEPT
                !.exec    = Len(execs),
                !.resumed = TRUE,
                !.human   = [node |-> ResumeNode(row, named), answer |-> answer],
                !.data    = ResumeData(row),
                !.queue   = <<ResumeNode(row, named)>>]]
        /\ Goto(r, IF row.state = "ERROR" THEN "trim" ELSE "claim")
  BY DEF Resume
<1> PICK p : p = ResumeNode(row, named)
  OBVIOUS
<1>3. /\ run'[r].flow = deployed /\ run'[r].resumed = TRUE /\ run'[r].human.node = p
      /\ run'[r].data = ResumeData(row) /\ run'[r].queue = <<p>>
      /\ run'[r].waiting = NothingWaits
      /\ pc'[r] \in Claiming
      /\ \A q \in Requests \ {r} : pc'[q] = pc[q] /\ run'[q] = run[q]
  <2> PICK exec, data, ans : exec = Len(execs) /\ data = ResumeData(row) /\ ans = answer
    OBVIOUS
  <2>1. run' = [run EXCEPT ![r] =
             [FreshRun(deployed) EXCEPT
                !.exec = exec, !.resumed = TRUE, !.human = [node |-> p, answer |-> ans],
                !.data = data, !.queue = <<p>>]]
    BY <1>2
  <2>2. pc' = [pc EXCEPT ![r] = IF row.state = "ERROR" THEN "trim" ELSE "claim"]
    BY <1>2 DEF Goto
  <2> QED BY <1>1, <2>1, <2>2 DEF TypeOK, FreshRun, NothingWaits, Claiming
<1>4. ASSUME Scoped, Straight(deployed) PROVE StoredAt(deployed, ResumeData(row), p)
  <2>1. Resumable(row)
    BY <1>2 DEF CanResume
  <2>2. Len(execs) \in 1 .. Len(execs)
    BY <1>1
  <2>3. Stored(deployed, ResumeData(row))
    BY <1>4, <2>1, <2>2 DEF RoutingInv, Sane
  <2>4. PICK s : StoredAt(deployed, ResumeData(row), s)
    BY <2>3 DEF Stored
  <2>5. named = NoNode
    BY <1>4 DEF Scoped, NamedNodes
  <2>6. p = s
    BY <1>1, <2>4, <2>5, StoredMeans DEF ResumeNode
  <2> QED BY <2>4, <2>6
<1>5. Routed(run'[r], pc'[r])
  <2>1. pc'[r] \notin {"running", "closing", "answered"}
    BY <1>3 DEF Claiming
  <2>2. Tracked(run'[r]) => Awaits(run'[r])
    BY <1>3, <1>4 DEF Tracked, Awaits
  <2> QED BY <1>3, <2>1, <2>2 DEF Routed, OnRoute
<1>6. UNCHANGED <<deployed, execs>>
  BY DEF Resume
<1> QED BY <1>3, <1>5, <1>6, RouteOfOne

\* Steps that touch neither the run nor the flow of the request.
LEMMA QuietRoute ==
  ASSUME TypeInv, RoutingInv, NEW r \in Requests,
         \/ RejectStart(r) \/ RejectResume(r) \/ TrimError(r) \/ ClaimRead(r)
         \/ ClaimSave(r) \/ IterationLimit(r) \/ Abort(r) \/ Crash(r)
  PROVE  RoutingInv'
<1>1. TypeOK
  BY DEF TypeInv
<1>2. /\ UNCHANGED <<deployed, run>>
      /\ \A q \in Requests \ {r} : pc'[q] = pc[q] /\ run'[q] = run[q]
  BY <1>1 DEF RejectStart, RejectResume, TrimError, ClaimRead, ClaimSave,
     IterationLimit, Abort, Crash, Goto, TypeOK
<1>3. Scoped => run'[r].flow = deployed
  BY <1>2 DEF RoutingInv
<1>4. Routed(run[r], pc[r])
  BY DEF RoutingInv
<1>5. Routed(run'[r], pc'[r])
  <2>1. \/ pc'[r] = pc[r]
        \/ pc[r] \in Claiming /\ pc'[r] \in Claiming
        \/ pc[r] \in Claiming /\ pc'[r] = "running"
        \/ pc'[r] \in {"rejected", "limit", "crashed"}
    BY <1>1 DEF RejectStart, RejectResume, TrimError, ClaimRead, ClaimSave,
       IterationLimit, Abort, Crash, Goto, TypeOK, Claiming
  <2>2. CASE pc'[r] = pc[r]
    BY <1>2, <1>4, <2>2
  <2>3. CASE pc[r] \in Claiming /\ pc'[r] \in Claiming
    BY <1>2, <1>4, <2>3 DEF Routed, OnRoute, Claiming
  <2>4. CASE pc[r] \in Claiming /\ pc'[r] = "running"
    <3>1. Tracked(run[r]) => Awaits(run[r])
      BY <1>4, <2>4 DEF Routed, OnRoute
    <3>2. Awaits(run[r]) => run[r].human # NoInput
      <4>1. run[r].flow \in Flows
        BY <1>1, RunFields
      <4>2. NoNode \notin run[r].flow.nodes
        BY <4>1, FlowLen, FlowsAssumption
      <4> QED BY <4>2 DEF Awaits, StoredAt, NoInput
    <3> QED BY <1>2, <2>4, <3>1, <3>2 DEF Routed, OnRoute, Claiming
  <2>5. CASE pc'[r] \in {"rejected", "limit", "crashed"}
    BY <2>5 DEF Routed, OnRoute, Claiming
  <2> QED BY <2>1, <2>2, <2>3, <2>4, <2>5
<1>6. \/ UNCHANGED execs
      \/ \E row \in Rows : Sane(deployed, row) /\ execs' = [execs EXCEPT ![run[r].exec] = row]
  <2>1. CASE TrimError(r)
    <3> DEFINE row == [state |-> "INPROGRESS", data |-> run[r].data]
    <3>1. row \in Rows /\ row.state = "INPROGRESS" /\ execs' = [execs EXCEPT ![run[r].exec] = row]
      BY <1>1, <2>1, RunFields DEF TrimError, Rows, RowStates
    <3> HIDE DEF row
    <3> QED BY <3>1, InProgressIsSane
  <2>2. CASE ClaimSave(r)
    <3> DEFINE row == [snap[r] EXCEPT !.state = "INPROGRESS"]
    <3>1. row \in Rows /\ row.state = "INPROGRESS"
      BY <1>1 DEF TypeOK, Rows, RowStates
    <3>2. execs' = [execs EXCEPT ![run[r].exec] = row]
      BY <2>2 DEF ClaimSave
    <3> HIDE DEF row
    <3> QED BY <3>1, <3>2, InProgressIsSane
  <2>3. CASE ~TrimError(r) /\ ~ClaimSave(r)
    BY <2>3 DEF RejectStart, RejectResume, ClaimRead, IterationLimit, Abort, Crash
  <2> QED BY <2>1, <2>2, <2>3
<1> QED BY <1>2, <1>3, <1>5, <1>6, RouteOfOne

\* Before the turn of a tracked run: the record without the entry the resumed
\* node left is that of a run that stands before the node.
LEMMA BeforeTurn ==
  ASSUME TypeInv, AnswerInv, RoutingInv, NEW r \in Requests, Turn(r), Tracked(run[r])
  PROVE  /\ Ongoing(run[r].flow, run[r].queue, DataBefore(r), run[r].waiting, ~run[r].resumed)
         /\ DataBefore(r) \in Seq(Entries)
         /\ Consumes(r) \/ run[r].human = NoInput
         /\ Current(r) \in run[r].flow.nodes
<1>1. TypeOK /\ run[r].flow \in Flows
  BY RunFields DEF TypeInv
<1>2. DataBefore(r) \in Seq(Entries)
  BY <1>1, DataBeforeType
<1>3. OnRoute(run[r], "running")
  BY DEF RoutingInv, Routed, Turn
<1>4. Consumes(r) \/ run[r].human = NoInput
  BY PendingConsumes
<1>5. Ongoing(run[r].flow, run[r].queue, DataBefore(r), run[r].waiting, ~run[r].resumed)
  <2>1. CASE run[r].human = NoInput
    <3>1. DataBefore(r) = run[r].data
      BY <2>1 DEF DataBefore, Consumes
    <3> QED BY <1>3, <2>1, <3>1 DEF OnRoute, RunsOn
  <2>2. CASE run[r].human # NoInput
    <3>1. Awaits(run[r])
      BY <1>3, <2>2 DEF OnRoute
    <3> PICK f, p, d : f = run[r].flow /\ p = run[r].human.node /\ d = run[r].data
      OBVIOUS
    <3>2. /\ run[r].resumed /\ run[r].queue = <<p>> /\ run[r].waiting = NothingWaits
          /\ StoredAt(f, d, p)
      BY <3>1 DEF Awaits
    <3>3. f \in Flows /\ Straight(f)
      BY <1>1, <3>2 DEF Tracked
    <3>4. PICK pre \in Seq(Entries) : /\ d = Append(pre, Entry(p, "STOPPED"))
                                      /\ Ongoing(f, <<p>>, pre, NothingWaits, FALSE)
      BY <3>2 DEF StoredAt
    <3>5. ~InRecord(pre, p)
      <4>1. PICK ign : Flowing(f, <<p>>, pre, NothingWaits, ign, FALSE)
        BY <3>4 DEF Ongoing
      <4>2. p \in Sound(f)
        BY <3>2, <3>3 DEF StoredAt, Straight, Sound
      <4>3. Once(<<p>>, pre, p)
        BY <3>3, <4>1, <4>2 DEF Flowing, Orderly, Straight
      <4>4. InQueue(<<p>>, p)
        <5> PICK s : s = <<p>>
          OBVIOUS
        <5>1. 1 .. Len(s) = {1} /\ s[1] = p
          BY Singleton
        <5>2. InQueue(s, p)
          BY <5>1 DEF InQueue
        <5> QED BY <5>2
      <4> QED BY <4>3, <4>4 DEF Once
    <3>6. Consumes(r) /\ Current(r) = p
      BY <1>4, <2>2 DEF Consumes
    <3>7. DataBefore(r) = Without(d, p)
      BY <3>6 DEF DataBefore
    <3>8. Without(d, p) = pre
      <4> PICK e : e = Entry(p, "STOPPED")
        OBVIOUS
      <4>1. p \in AllNodes
        BY <3>2, <3>3, FlowLen DEF StoredAt
      <4>2. e \in Entries /\ e.node = p /\ d = Append(pre, e)
        BY <3>4, <4>1 DEF Entry, Entries, NodeStates
      <4> QED BY <3>5, <4>2, WithoutLast
    <3> QED BY <3>2, <3>4, <3>7, <3>8
  <2> QED BY <2>1, <2>2
<1>6. Current(r) \in run[r].flow.nodes
  <2>1. run[r].queue \in Seq(run[r].flow.nodes)
    BY <1>5 DEF Ongoing, Flowing
  <2> QED BY <2>1 DEF Turn, Current
<1> QED BY <1>2, <1>4, <1>5, <1>6

\* A queued node always belongs to the flow, so nothing is dropped on the route.
LEMMA SkipRoute ==
  ASSUME TypeInv, AnswerInv, RoutingInv, NEW r \in Requests, SkipUnknown(r)
  PROVE  RoutingInv'
<1>1. TypeOK /\ Turn(r)
  BY DEF TypeInv, SkipUnknown
<1>2. ~Tracked(run[r])
  BY <1>1, BeforeTurn DEF SkipUnknown
<1>3. /\ run'[r].flow = run[r].flow /\ run'[r].resumed = run[r].resumed
      /\ UNCHANGED <<deployed, execs, pc>>
      /\ \A q \in Requests \ {r} : pc'[q] = pc[q] /\ run'[q] = run[q]
  BY <1>1 DEF SkipUnknown, TypeOK, Run
<1>4. Routed(run'[r], pc'[r])
  BY <1>1, <1>2, <1>3 DEF Routed, Tracked, Turn, Claiming
<1>5. Scoped => run'[r].flow = deployed
  BY <1>3 DEF RoutingInv
<1> QED BY <1>3, <1>4, <1>5, RouteOfOne

\* A pause stores the run as it stands before the node.
LEMMA PauseRoute ==
  ASSUME TypeInv, AnswerInv, RoutingInv, NEW r \in Requests, PauseNode(r)
  PROVE  RoutingInv'
<1>1. TypeOK /\ Turn(r) /\ run[r].flow \in Flows
  BY RunFields DEF TypeInv, PauseNode, Executes
<1>2. /\ run'[r].data = Append(DataBefore(r), Entry(Current(r), "STOPPED"))
      /\ run'[r].flow = run[r].flow /\ run'[r].resumed = run[r].resumed
      /\ UNCHANGED <<deployed, execs>> /\ pc'[r] = "closing"
      /\ \A q \in Requests \ {r} : pc'[q] = pc[q] /\ run'[q] = run[q]
  <2> PICK d, h, q, i : /\ d = Append(DataBefore(r), Entry(Current(r), "STOPPED"))
                        /\ h = IF Consumes(r) THEN NoInput ELSE run[r].human
                        /\ q = Tail(run[r].queue) /\ i = run[r].iters + 1
    OBVIOUS
  <2>1. run' = [run EXCEPT ![r] =
                  [run[r] EXCEPT !.data = d, !.human = h, !.queue = q, !.iters = i]]
    BY <1>1 DEF PauseNode, TypeOK, Run
  <2>2. pc' = [pc EXCEPT ![r] = "closing"] /\ UNCHANGED <<deployed, execs>>
    BY DEF PauseNode, Goto
  <2> QED BY <1>1, <2>1, <2>2 DEF TypeOK, Run
<1>3. ASSUME Tracked(run[r]) PROVE Stored(run'[r].flow, run'[r].data)
  <2> PICK f, q, d, w, fresh, c :
         /\ f = run[r].flow /\ q = run[r].queue /\ d = DataBefore(r) /\ w = run[r].waiting
         /\ fresh = ~run[r].resumed /\ c = Current(r)
    OBVIOUS
  <2>1. Ongoing(f, q, d, w, fresh) /\ d \in Seq(Entries) /\ c \in f.nodes
    BY <1>1, <1>3, BeforeTurn
  <2>2. q # <<>> /\ c = Head(q) /\ f \in Flows /\ fresh \in BOOLEAN
    BY <1>1 DEF Turn, Current
  <2>3. PICK ign \in [f.nodes -> SUBSET f.nodes] : Flowing(f, q, d, w, ign, fresh)
    BY <2>1 DEF Ongoing
  <2>4. Flowing(f, <<c>>, d, NothingWaits, ign, FALSE)
    BY <2>2, <2>3, FlowingPause
  <2>5. Ongoing(f, <<c>>, d, NothingWaits, FALSE)
    BY <2>4 DEF Ongoing
  <2>6. Stored(f, Append(d, Entry(c, "STOPPED")))
    BY <2>1, <2>5 DEF Stored, StoredAt
  <2> QED BY <1>2, <2>6
<1>4. Routed(run'[r], pc'[r])
  BY <1>2, <1>3 DEF Routed, OnRoute, Tracked, Claiming
<1>5. Scoped => run'[r].flow = deployed
  BY <1>2 DEF RoutingInv
<1> QED BY <1>2, <1>4, <1>5, RouteOfOne

\* A node that finishes takes the run one turn on.
LEMMA FinishRoute ==
  ASSUME TypeInv, AnswerInv, RoutingInv, NEW r \in Requests, FinishNode(r)
  PROVE  RoutingInv'
<1>1. TypeOK /\ Turn(r) /\ run[r].flow \in Flows /\ Current(r) \in run[r].flow.nodes
  BY RunFields DEF TypeInv, FinishNode, Executes
<1>2. PICK fulfilled \in Fulfilled(run[r].flow, Current(r), run[r].human) :
             run' = [run EXCEPT ![r] = AfterFinish(r, fulfilled)]
  BY DEF FinishNode
<1> PICK f, q, d, w, fresh, c :
       /\ f = run[r].flow /\ q = run[r].queue /\ d = DataBefore(r) /\ w = run[r].waiting
       /\ fresh = ~run[r].resumed /\ c = Current(r)
  OBVIOUS
<1> PICK ignored :
       ignored = IF ReportsConditions(r) THEN DetermineNodesToIgnore(f, c, fulfilled) ELSE {}
  OBVIOUS
<1>3. /\ Turned(f, q, d, w, ignored, run'[r].queue, run'[r].data, run'[r].waiting)
      /\ run'[r].flow = f /\ run'[r].resumed = run[r].resumed /\ run'[r].human = AnswerLeft(r)
      /\ \A o \in Requests \ {r} : pc'[o] = pc[o] /\ run'[o] = run[o]
      /\ UNCHANGED <<deployed, execs, pc>>
  <2>1. run'[r] = AfterFinish(r, fulfilled)
        /\ \A o \in Requests \ {r} : run'[o] = run[o]
    BY <1>1, <1>2 DEF TypeOK
  <2> PICK fan : fan = ProcessChildren(f, c, ignored, Tail(q), w)
    OBVIOUS
  <2> PICK d2, h, q2, loops, i :
         /\ d2 = Append(d, Entry(c, "FINISHED")) /\ h = AnswerLeft(r)
         /\ q2 = (IF LoopsBack(r) THEN Append(fan.queue, f.loopTo[c]) ELSE fan.queue)
         /\ loops = LoopCounts(r) /\ i = run[r].iters + 1
    OBVIOUS
  <2>2. AfterFinish(r, fulfilled) =
          [run[r] EXCEPT !.data = d2, !.human = h, !.queue = q2, !.waiting = fan.waiting,
                         !.loops = loops, !.iters = i]
    BY DEF AfterFinish
  <2>3. run[r] \in Run
    BY <1>1, RunFields
  <2> PICK w2 : w2 = fan.waiting
    OBVIOUS
  <2>4. /\ run'[r].data = d2 /\ run'[r].human = h /\ run'[r].queue = q2
        /\ run'[r].waiting = w2 /\ run'[r].flow = f /\ run'[r].resumed = run[r].resumed
    BY <2>1, <2>2, <2>3, SMTT(30) DEF Run
  <2>5. q # <<>> /\ c = Head(q)
    BY <1>1 DEF Turn, Current
  <2>6. LoopsBack(r) => c \in Loops(f)
    BY <1>1 DEF LoopsBack, Loops
  <2>7. Joined(f, c, ignored, Tail(q), w, q2, w2)
    BY <2>6 DEF Joined
  <2>8. Turned(f, q, d, w, ignored, q2, d2, w2)
    BY <2>5, <2>7 DEF Turned
  <2>9. UNCHANGED <<deployed, execs, pc>>
    BY DEF FinishNode
  <2> QED BY <2>1, <2>4, <2>8, <2>9
<1>4. ASSUME Tracked(run[r])
      PROVE  /\ Ongoing(f, run'[r].queue, run'[r].data, run'[r].waiting, fresh)
             /\ run'[r].human = NoInput
  <2>1. /\ Ongoing(f, q, d, w, fresh) /\ d \in Seq(Entries)
        /\ Consumes(r) \/ run[r].human = NoInput
    BY <1>1, <1>4, BeforeTurn
  <2>2. PICK ign \in [f.nodes -> SUBSET f.nodes] : Flowing(f, q, d, w, ign, fresh)
    BY <2>1 DEF Ongoing
  <2>3. /\ f \in Flows /\ OnCanvas(f) /\ c \in f.nodes /\ c = Head(q)
        /\ fresh \in BOOLEAN /\ w \in [AllNodes -> SUBSET AllNodes]
    BY <1>1, <1>4, RunFields DEF Tracked, Current
  <2>4. MayHoldBack(f, c, ign, ignored)
    <3>1. CASE ReportsConditions(r)
      BY <1>2, <2>3, <3>1, FinishHoldsBack
    <3>2. CASE ~ReportsConditions(r)
      <4>1. ignored = {}
        BY <3>2
      <4>2. ~Decision(f, c)
        BY <2>1, <3>2 DEF ReportsConditions, Decision, FinishNode
      <4> QED BY <4>1, <4>2 DEF MayHoldBack
    <3> QED BY <3>1, <3>2
  <2> PICK q2, d2, w2 : q2 = run'[r].queue /\ d2 = run'[r].data /\ w2 = run'[r].waiting
    OBVIOUS
  <2>5. Turned(f, q, d, w, ignored, q2, d2, w2)
    BY <1>3
  <2>6. Flowing(f, q2, d2, w2, HeldBack(ign, c, ignored), fresh)
    BY <2>1, <2>2, <2>3, <2>4, <2>5, FlowingStep
  <2>7. HeldBack(ign, c, ignored) \in [f.nodes -> SUBSET f.nodes]
    BY <2>4 DEF HeldBack, MayHoldBack
  <2>8. Ongoing(f, q2, d2, w2, fresh)
    BY <2>6, <2>7 DEF Ongoing
  <2>9. run'[r].human = NoInput
    BY <1>3, <2>1 DEF AnswerLeft
  <2> QED BY <2>8, <2>9
<1>5. Routed(run'[r], pc'[r])
  <2>1. pc'[r] = "running"
    BY <1>1, <1>3 DEF Turn
  <2>2. Tracked(run'[r]) => Tracked(run[r])
    BY <1>3 DEF Tracked
  <2>3. Tracked(run'[r]) => RunsOn(run'[r]) /\ run'[r].human = NoInput
    BY <1>3, <1>4, <2>2 DEF RunsOn
  <2> QED BY <2>1, <2>3 DEF Routed, OnRoute, Claiming
<1>6. Scoped => run'[r].flow = deployed
  BY <1>3 DEF RoutingInv
<1> QED BY <1>3, <1>5, <1>6, RouteOfOne

\* A request that ends without an answer.
LEMMA EndRoute ==
  ASSUME TypeInv, RoutingInv, NEW r \in Requests, UNCHANGED deployed,
         \A q \in Requests \ {r} : pc'[q] = pc[q] /\ run'[q] = run[q],
         pc'[r] = "failed", run'[r].flow = run[r].flow,
         \E row \in Rows : /\ Sane(deployed, row)
                           /\ execs' = [execs EXCEPT ![run[r].exec] = row]
  PROVE  RoutingInv'
<1>1. Routed(run'[r], pc'[r])
  BY DEF Routed, OnRoute, Claiming
<1>2. Scoped => run'[r].flow = deployed
  BY DEF RoutingInv
<1> QED BY <1>1, <1>2, RouteOfOne

\* The data of a run in the loop: what a pause stored, or finished nodes only.
LEMMA LoopData ==
  ASSUME TypeInv, RoutingInv, NEW r \in Requests,
         Scoped, Straight(deployed), pc[r] \in {"running", "closing"}
  PROVE  \/ Stored(deployed, run[r].data)
         \/ \A i \in 1 .. Len(run[r].data) : run[r].data[i].status = "FINISHED"
<1>1. run[r].flow = deployed /\ Routed(run[r], pc[r])
  BY DEF RoutingInv
<1>2. OnRoute(run[r], pc[r])
  BY <1>1 DEF Routed, Tracked, Straight
<1>3. \/ Stored(deployed, run[r].data) \/ Awaits(run[r]) \/ RunsOn(run[r])
  BY <1>1, <1>2 DEF OnRoute
<1>4. Awaits(run[r]) => Stored(deployed, run[r].data)
  BY <1>1 DEF Awaits, Stored, StoredAt
<1>5. RunsOn(run[r]) => \A i \in 1 .. Len(run[r].data) : run[r].data[i].status = "FINISHED"
  BY OngoingMeans DEF RunsOn
<1> QED BY <1>3, <1>4, <1>5

\* The row is written when the loop has ended.
LEMMA CompleteRoute ==
  ASSUME TypeInv, RoutingInv, NEW r \in Requests, Complete(r)
  PROVE  RoutingInv'
<1>1. TypeOK /\ deployed \in Flows /\ run[r].data \in Seq(Entries) /\ run[r].flow \in Flows
  BY RunFields DEF TypeInv, TypeOK
<1> DEFINE row == [state |-> StatusOf(run[r].data), data |-> run[r].data]
<1>2. row \in Rows
  BY <1>1, StatusType DEF Rows, RowStates
<1>3. Sane(deployed, row)
  <2>1. CASE Scoped /\ Straight(deployed)
    <3>1. \/ Stored(deployed, run[r].data)
          \/ \A i \in 1 .. Len(run[r].data) : run[r].data[i].status = "FINISHED"
      BY <2>1, LoopData DEF Complete
    <3> QED BY <1>1, <3>1, SettledRow
  <2> QED BY <2>1 DEF Sane
<1>4. /\ execs' = [execs EXCEPT ![run[r].exec] = row] /\ UNCHANGED <<deployed, run>>
      /\ pc'[r] \in {"failed", "answered"}
      /\ \A q \in Requests \ {r} : pc'[q] = pc[q] /\ run'[q] = run[q]
  BY <1>1 DEF Complete, Goto, TypeOK
<1>5. Tracked(run[r]) =>
        Stored(run[r].flow, run[r].data) \/ (run[r].queue = <<>> /\ RunsOn(run[r]))
  <2> SUFFICES ASSUME Tracked(run[r])
               PROVE  Stored(run[r].flow, run[r].data) \/ (run[r].queue = <<>> /\ RunsOn(run[r]))
    OBVIOUS
  <2>1. OnRoute(run[r], pc[r])
    BY DEF RoutingInv, Routed
  <2>2. CASE pc[r] = "closing"
    BY <2>1, <2>2 DEF OnRoute
  <2>3. CASE pc[r] = "running" /\ run[r].queue = <<>>
    <3>1. ~Awaits(run[r])
      <4> PICK p : p = run[r].human.node
        OBVIOUS
      <4>1. <<p>> # <<>>
        OBVIOUS
      <4> QED BY <2>3, <4>1 DEF Awaits
    <3> QED BY <2>1, <2>3, <3>1 DEF OnRoute
  <2> QED BY <2>2, <2>3 DEF Complete
<1>6. Routed(run'[r], pc'[r])
  <2>1. pc'[r] \notin Claiming \cup {"running", "closing"}
    BY <1>4 DEF Claiming
  <2> QED BY <1>4, <1>5, <2>1 DEF Routed, OnRoute
<1>7. Scoped => run'[r].flow = deployed
  BY <1>4 DEF RoutingInv
<1> HIDE DEF row
<1> QED BY <1>2, <1>3, <1>4, <1>6, <1>7, RouteOfOne

\* A node fails or is aborted.
LEMMA CatchRoute ==
  ASSUME TypeInv, RoutingInv, NEW r \in Requests, FailNode(r) \/ AbortNode(r)
  PROVE  RoutingInv'
<1>1. TypeOK /\ Turn(r) /\ deployed \in Flows /\ run[r] \in Run /\ run[r].data \in Seq(Entries)
  BY RunFields DEF TypeInv, TypeOK, FailNode, AbortNode, Executes
<1>2. PICK s \in {"ERROR", "TERMINATED"} : CatchError(r, s)
  BY DEF FailNode, AbortNode
<1>3. PICK row \in Rows :
        /\ row = [state |-> s, data |-> Append(run[r].data, Entry(Current(r), s))]
        /\ execs' = [execs EXCEPT ![run[r].exec] = row]
  BY <1>1, <1>2, CatchFrame
<1>4. /\ \A q \in Requests \ {r} : pc'[q] = pc[q] /\ run'[q] = run[q]
      /\ pc'[r] = "failed"
  BY <1>1, <1>2, CatchFrame
<1>5. run'[r].flow = run[r].flow /\ UNCHANGED deployed
  BY <1>1, <1>2 DEF CatchError, TypeOK, Run
<1>6. Sane(deployed, row)
  <2>1. CASE Scoped /\ Straight(deployed)
    <3>1. \/ Stored(deployed, run[r].data)
          \/ \A i \in 1 .. Len(run[r].data) : run[r].data[i].status = "FINISHED"
      BY <1>1, <2>1, LoopData DEF Turn
    <3>2. Current(r) \in AllNodes
      BY <1>1, CurrentType
    <3> QED BY <1>1, <1>3, <3>1, <3>2, FailedRow
  <2> QED BY <2>1 DEF Sane
<1> QED BY <1>3, <1>4, <1>5, <1>6, EndRoute

\* Every step keeps the requests on their route.
LEMMA RoutingStep ==
  TypeInv /\ AnswerInv /\ RoutingInv /\ [Next]_vars => RoutingInv'
<1> SUFFICES ASSUME TypeInv, AnswerInv, RoutingInv, [Next]_vars PROVE RoutingInv'
  OBVIOUS
<1>1. ASSUME NEW r \in Requests, Start(r) PROVE RoutingInv'
  BY <1>1, StartRoute
<1>2. ASSUME NEW r \in Requests, Resume(r) PROVE RoutingInv'
  BY <1>2, ResumeRoute
<1>3. ASSUME NEW r \in Requests,
             \/ RejectStart(r) \/ RejectResume(r) \/ TrimError(r) \/ ClaimRead(r)
             \/ ClaimSave(r) \/ IterationLimit(r) \/ Abort(r) \/ Crash(r)
      PROVE  RoutingInv'
  BY <1>3, QuietRoute
<1>4. ASSUME NEW r \in Requests, SkipUnknown(r) PROVE RoutingInv'
  BY <1>4, SkipRoute
<1>5. ASSUME NEW r \in Requests, PauseNode(r) PROVE RoutingInv'
  BY <1>5, PauseRoute
<1>6. ASSUME NEW r \in Requests, FinishNode(r) PROVE RoutingInv'
  BY <1>6, FinishRoute
<1>7. ASSUME NEW r \in Requests, FailNode(r) \/ AbortNode(r) PROVE RoutingInv'
  BY <1>7, CatchRoute
<1>8. ASSUME NEW r \in Requests, Complete(r) PROVE RoutingInv'
  BY <1>8, CompleteRoute
<1>9. CASE EditFlow
  <2>1. UNCHANGED <<execs, pc, run>> /\ ~Scoped
    BY <1>9 DEF EditFlow, Scoped
  <2> QED BY <2>1 DEF RoutingInv, Sane
<1>10. CASE UNCHANGED vars
  BY <1>10 DEF vars, RoutingInv
<1> QED BY <1>1, <1>2, <1>3, <1>4, <1>5, <1>6, <1>7, <1>8, <1>9, <1>10 DEF Next, Step

\* Nothing runs and nothing is stored at first.
LEMMA RoutingInit == Init => AnswerInv /\ RoutingInv
<1> SUFFICES ASSUME Init PROVE AnswerInv /\ RoutingInv
  OBVIOUS
<1>1. AnswerInv
  BY DEF Init, AnswerInv, Pending, FreshRun
<1>2. \A r \in Requests : pc[r] = "idle" /\ run[r].flow = deployed
  BY DEF Init, FreshRun
<1>3. \A r \in Requests : Routed(run[r], pc[r])
  BY <1>2 DEF Routed, OnRoute, Claiming
<1>4. 1 .. Len(execs) = {}
  BY DEF Init
<1> QED BY <1>1, <1>2, <1>3, <1>4 DEF RoutingInv

\* The routes are kept in every behaviour of the engine.
LEMMA RoutingAlways == Spec => [](TypeInv /\ RoutingInv)
BY RoutingInit, AnswerStep, RoutingStep, TypeAlways, PTL DEF Spec

-----------------------------------------------------------------------------
(***************************************************************************)
(* What the flow is owed.                                                   *)
(***************************************************************************)

\* A run that was not paused and is reported FINISHED has come to its end.
LEMMA RanThroughMeans ==
  ASSUME TypeInv, RoutingInv, NEW r \in Requests, RanThrough(r), OnCanvas(run[r].flow)
  PROVE  Ongoing(run[r].flow, <<>>, run[r].data, run[r].waiting, TRUE)
<1>1. run[r].flow \in Flows
  BY RunFields DEF TypeInv
<1>2. \/ Stored(run[r].flow, run[r].data)
      \/ run[r].queue = <<>> /\ RunsOn(run[r])
  BY DEF RoutingInv, Routed, Tracked, OnRoute, RanThrough
<1>3. ~Stored(run[r].flow, run[r].data)
  BY <1>1, StoredMeans DEF Stored, RanThrough
<1>4. ~run[r].resumed
  BY DEF RanThrough
<1> QED BY <1>2, <1>3, <1>4 DEF RunsOn

\* In a flow without loops a tracked run has every node in its record once.
LEMMA OngoingOnce ==
  ASSUME NEW f \in Flows, Straight(f), NEW q, NEW d \in Seq(Entries), NEW w, NEW fresh,
         Ongoing(f, q, d, w, fresh), NEW n \in f.nodes
  PROVE  Once(q, d, n)
<1>1. n \in Sound(f)
  BY DEF Sound, Straight
<1> QED BY <1>1 DEF Ongoing, Flowing, Orderly, Straight

\* ... and so has the record of a pause.
LEMMA StoredOnce ==
  ASSUME NEW f \in Flows, Straight(f), NEW d, Stored(f, d), NEW n \in f.nodes
  PROVE  Runs(d, n) <= 1
<1>1. PICK p \in f.nodes, pre \in Seq(Entries) :
        /\ d = Append(pre, Entry(p, "STOPPED"))
        /\ Ongoing(f, <<p>>, pre, NothingWaits, FALSE)
  BY DEF Stored, StoredAt
<1>2. Once(<<p>>, pre, n)
  BY <1>1, OngoingOnce
<1> PICK e : e = Entry(p, "STOPPED")
  OBVIOUS
<1> PICK E : E = Entries
  OBVIOUS
<1>3. e \in E /\ e.node = p /\ pre \in Seq(E) /\ d = Append(pre, e)
  BY <1>1, FlowLen DEF Entry, Entries, NodeStates
<1>4. /\ d \in Seq(E) /\ Len(d) \in Nat /\ Len(pre) \in Nat /\ Len(d) = Len(pre) + 1
      /\ d[Len(d)] = e /\ \A i \in 1 .. Len(pre) : d[i] = pre[i]
      /\ \A i \in 1 .. Len(d) : i = Len(d) \/ i \in 1 .. Len(pre)
  BY ONLY <1>3
<1>5. InQueue(<<p>>, p)
  <2> PICK s : s = <<p>>
    OBVIOUS
  <2>1. 1 .. Len(s) = {1} /\ s[1] = p
    BY Singleton
  <2>2. InQueue(s, p)
    BY <2>1 DEF InQueue
  <2> QED BY <2>2
<1>6. ASSUME NEW i \in 1 .. Len(d), NEW j \in 1 .. Len(d), d[i].node = n, d[j].node = n
      PROVE  i = j
  <2>1. p = n => ~InRecord(pre, n)
    BY <1>2, <1>5 DEF Once
  <2>2. CASE i \in 1 .. Len(pre) /\ j \in 1 .. Len(pre)
    BY <1>2, <1>4, <1>6, <2>2 DEF Once
  <2>3. CASE i = Len(d) \/ j = Len(d)
    <3>1. p = n
      BY <1>3, <1>4, <1>6, <2>3
    <3>2. \A k \in 1 .. Len(pre) : d[k].node # n
      BY <1>4, <2>1, <3>1 DEF InRecord
    <3> QED BY <1>4, <1>6, <3>2
  <2> QED BY <1>4, <2>2, <2>3
<1> QED BY <1>3, <1>4, <1>6, RunsCount, ZenonT(30)

\* In every drawn flow, and with any number of requests and any faults, a run
\* that is reported FINISHED without a pause has run every node that no decision
\* node stands before, and exactly once if there is no Loop node.
THEOREM UnconditionalNodesAlwaysRun == Spec => []UnconditionalNodesRun
<1>1. TypeInv /\ RoutingInv => UnconditionalNodesRun
  <2> SUFFICES ASSUME TypeInv, RoutingInv, NEW r \in Requests, RanThrough(r),
                      OnCanvas(run[r].flow),
                      NEW n \in run[r].flow.nodes, Unconditional(run[r].flow, n)
               PROVE  /\ Runs(run[r].data, n) >= 1
                      /\ Loops(run[r].flow) = {} => Runs(run[r].data, n) = 1
    BY DEF UnconditionalNodesRun
  <2>1. run[r].flow \in Flows /\ run[r].data \in Seq(Entries)
    BY RunFields DEF TypeInv
  <2>2. Ongoing(run[r].flow, <<>>, run[r].data, run[r].waiting, TRUE)
    BY RanThroughMeans
  <2>3. PICK ign : Flowing(run[r].flow, <<>>, run[r].data, run[r].waiting, ign, TRUE)
    BY <2>2 DEF Ongoing
  <2> QED BY <2>1, <2>3, UnconditionalRuns
<1> QED BY <1>1, RoutingAlways, PTL

\* As long as clients do not name the node they resume and the flow is not
\* edited between requests, no node of a well-formed flow without Loop nodes runs
\* twice, whatever pauses, failures, retries, crashes and concurrent requests
\* there are, and no join is left waiting at the end of a run.
THEOREM JoinsFireOnceAlways ==
  ASSUME Scoped PROVE Spec => []JoinsFireOnce
<1>1. ASSUME TypeInv, RoutingInv PROVE JoinsFireOnce
  <2> SUFFICES ASSUME NEW r \in Requests, pc[r] \in {"running", "closing", "answered"},
                      OnCanvas(run[r].flow), WellFormed(run[r].flow),
                      Loops(run[r].flow) = {}
               PROVE  /\ \A n \in run[r].flow.nodes : Runs(run[r].data, n) <= 1
                      /\ RanThrough(r) =>
                           \A n \in run[r].flow.nodes : run[r].waiting[n] = {}
    BY DEF JoinsFireOnce
  <2>1. run[r].flow \in Flows /\ run[r].data \in Seq(Entries)
    BY <1>1, RunFields DEF TypeInv
  <2>2. Straight(run[r].flow) /\ Tracked(run[r])
    BY DEF Straight, Tracked
  <2>3. OnRoute(run[r], pc[r])
    BY <1>1, <2>2 DEF RoutingInv, Routed
  <2>4. Stored(run[r].flow, run[r].data) \/ RunsOn(run[r])
    BY <2>3 DEF OnRoute, Awaits, Stored, StoredAt
  <2>5. \A n \in run[r].flow.nodes : Runs(run[r].data, n) <= 1
    <3> SUFFICES ASSUME NEW n \in run[r].flow.nodes PROVE Runs(run[r].data, n) <= 1
      OBVIOUS
    <3>1. CASE Stored(run[r].flow, run[r].data)
      BY <2>1, <2>2, <3>1, StoredOnce
    <3>2. CASE RunsOn(run[r])
      <4>1. Once(run[r].queue, run[r].data, n)
        BY <2>1, <2>2, <3>2, OngoingOnce DEF RunsOn
      <4> QED BY <2>1, <4>1, RunsCount DEF Once
    <3> QED BY <2>4, <3>1, <3>2
  <2>6. ASSUME RanThrough(r), NEW n \in run[r].flow.nodes PROVE run[r].waiting[n] = {}
    <3>1. Ongoing(run[r].flow, <<>>, run[r].data, run[r].waiting, TRUE)
      BY <1>1, <2>6, RanThroughMeans
    <3>2. PICK ign : Flowing(run[r].flow, <<>>, run[r].data, run[r].waiting, ign, TRUE)
      BY <3>1 DEF Ongoing
    <3> QED BY <2>1, <2>6, <3>2, NothingLeft
  <2> QED BY <2>5, <2>6
<1>2. TypeInv /\ RoutingInv => JoinsFireOnce
  BY <1>1
<1> QED BY <1>2, RoutingAlways, PTL

-----------------------------------------------------------------------------
(***************************************************************************)
(* Rounds. In a flow with one Loop node the start opens round 0, and each   *)
(* jump back opens the next round at the node l that the loop jumps to.     *)
(* F are the nodes fired in round k, D those of them that have run, and ign *)
(* what they held back.                                                     *)
(***************************************************************************)

\* The inputs of m by which its rounds are told: the first one, and those that
\* the same decision node stands before. m never starts without one of them.
Lead(f, m) ==
  {s \in Sources(f, m) :
     \/ s = FirstParent(f, m)
     \/ /\ FindConditionParent(f, s) # NoNode
        /\ FindConditionParent(f, s) = FindConditionParent(f, FirstParent(f, m))}

\* m was handed one of these inputs.
Led(f, D, ign, m) == Lead(f, m) \cap Passed(f, D, ign, m) # {}

\* Whatever is fired in a round was led into it, but for the node that opens it;
\* a later round stays behind the node the loop jumps to.
Round(f, l, k, F, D, ign) ==
  /\ F \in SUBSET f.nodes /\ D \subseteq F
  /\ Held(f, D, ign)
  /\ k >= 1 => F \subseteq Reach(f, {l})
  /\ \A m \in F : \/ Led(f, D, ign, m)
                  \/ m = l /\ k >= 1
                  \/ Sources(f, m) = {} /\ k = 0

\* A node that starts has got one of its leading inputs.
LEMMA LeadNeeded ==
  ASSUME NEW f \in Flows, NEW m \in f.nodes, NEW R, NEW c \in Sources(f, m),
         HasReceivedRequiredInputs(f, m, R)
  PROVE  Lead(f, m) \cap R # {}
<1> DEFINE p == FirstParent(f, m)
<1>1. m # NoNode
  BY FlowLen, FlowsAssumption
<1>2. p \in Sources(f, m)
  BY <1>1, FirstParentType
<1>3. IF FindConditionParent(f, p) = NoNode THEN p \in R
      ELSE \E t \in Sources(f, m) :
             t \in R /\ FindConditionParent(f, t) = FindConditionParent(f, p)
  BY <1>2, ReceivedMeans
<1> QED BY <1>2, <1>3 DEF Lead

\* Where the nodes of a round stand that have a decision node c before them: on
\* the way that c went in this round, or behind the node that opened it.
Placed(f, l, k, D, ign, c, m) ==
  \/ /\ c \in D
     /\ \E o \in Int : Went(f, ign, c, o) /\ m \in Reach(f, Targets(f, c, o))
  \/ k >= 1 /\ c \in Ancestors(f, l) /\ m \in Reach(f, {l})

LEMMA RoundPlaces ==
  ASSUME NEW f \in Flows, OnCanvas(f), WellFormed(f), NEW l \in f.nodes, NEW k \in Nat,
         NEW F, NEW D, NEW ign, Round(f, l, k, F, D, ign)
  PROVE  \A m \in F : \A c : c = FindConditionParent(f, m) /\ c # NoNode /\ c # m
           => Placed(f, l, k, D, ign, c, m)
<1> DEFINE e(m) == FindConditionParent(f, m)
           S == {m \in f.nodes : m \in F /\ e(m) # NoNode /\ e(m) # m
                                   => Placed(f, l, k, D, ign, e(m), m)}
<1>1. ASSUME NEW m \in f.nodes, \A a \in Ancestors(f, m) : a \in S,
             m \in F, e(m) # NoNode, e(m) # m
      PROVE  Placed(f, l, k, D, ign, e(m), m)
  <2> PICK c : c = e(m)
    OBVIOUS
  <2>1. c \in f.nodes /\ Decision(f, c) /\ c \in Ancestors(f, m)
    BY <1>1, ConditionParentType
  <2>2. ~Decision(f, m)
    BY <1>1, ParentOfDecision
  <2>3. Sources(f, m) # {} /\ FirstParent(f, m) \in Sources(f, m) /\ c = e(FirstParent(f, m))
    BY <1>1, <2>2, ParentOfOther
  <2>4. CASE Led(f, D, ign, m)
    <3>1. PICK s \in Lead(f, m) : s \in Passed(f, D, ign, m)
      BY <2>4 DEF Led
    <3>2. s \in Sources(f, m) /\ e(s) = c /\ s \in D /\ m \notin ign[s]
      BY <2>3, <3>1 DEF Lead, Passed
    <3>3. s \in f.nodes /\ s \in Ancestors(f, m) /\ s \in F
      BY <3>2, EdgeReaches, SourceIsAncestor DEF Round
    <3>4. CASE s = c
      <4>1. PICK o \in Int : Went(f, ign, c, o)
        BY <2>1, <3>2, <3>4 DEF Round, Held
      <4>2. PICK i \in EdgeIds(f) : f.edges[i].src = c /\ f.edges[i].tgt = m
        BY <3>2, <3>4 DEF Sources
      <4>3. f.edges[i].out = o
        BY <3>2, <3>4, <4>1, <4>2 DEF Went
      <4>4. m \in Targets(f, c, o)
        BY <4>2, <4>3 DEF Targets, Drawn
      <4>5. m \in Reach(f, Targets(f, c, o))
        BY <4>4, TargetsType
      <4> QED BY <3>2, <3>4, <4>1, <4>5 DEF Placed
    <3>5. CASE s # c
      <4>1. Placed(f, l, k, D, ign, c, s)
        BY <1>1, <3>2, <3>3, <3>5
      <4>2. ASSUME NEW o, s \in Reach(f, Targets(f, c, o))
            PROVE  m \in Reach(f, Targets(f, c, o))
        BY <3>2, <4>2, TargetsType, ReachOn
      <4>3. s \in Reach(f, {l}) => m \in Reach(f, {l})
        <5>1. {l} \in SUBSET f.nodes
          OBVIOUS
        <5> QED BY <3>2, <5>1, ReachOn
      <4> QED BY <4>1, <4>2, <4>3 DEF Placed
    <3> QED BY <3>4, <3>5
  <2>5. CASE m = l /\ k >= 1
    <3>1. l \in Reach(f, {l})
      <4>1. {l} \in SUBSET f.nodes
        OBVIOUS
      <4> QED BY <4>1, ReachIsClosed
    <3> QED BY <2>1, <2>5, <3>1 DEF Placed
  <2> QED BY <1>1, <2>3, <2>4, <2>5 DEF Round
<1>2. f.nodes \subseteq S
  <2>1. \A m \in f.nodes : (\A a \in Ancestors(f, m) : a \in S) => m \in S
    BY <1>1
  <2> HIDE DEF S
  <2> QED BY <2>1, UpwardInduction
<1> QED BY <1>2 DEF Round

\* A node is led into a round by one input only.
LEMMA RoundLeads ==
  ASSUME NEW f \in Flows, OnCanvas(f), WellFormed(f), NEW l \in f.nodes, NEW k \in Nat,
         NEW F, NEW D, NEW ign, Round(f, l, k, F, D, ign), NEW m \in f.nodes,
         NEW s \in Lead(f, m), s \in Passed(f, D, ign, m),
         NEW t \in Lead(f, m), t \in Passed(f, D, ign, m)
  PROVE  s = t
<1> DEFINE e(n) == FindConditionParent(f, n)
<1> SUFFICES ASSUME s # t PROVE FALSE
  OBVIOUS
<1> PICK c : c = e(FirstParent(f, m))
  OBVIOUS
<1>1. /\ s \in Sources(f, m) /\ s \in D /\ m \notin ign[s] /\ s \in F /\ s \in f.nodes
      /\ t \in Sources(f, m) /\ t \in D /\ m \notin ign[t] /\ t \in F /\ t \in f.nodes
  BY EdgeReaches DEF Lead, Passed, Round
<1>2. e(s) = c /\ e(t) = c /\ c # NoNode
  BY DEF Lead
<1>3. BalancedJoin(f, m)
  BY <1>1, TwoSources
<1>4. Unconditional(f, c) /\ \A o \in 0 .. f.outs[c] - 1 : ArrivalsBy(f, m, c, o) = 1
  BY <1>1, <1>2, <1>3 DEF BalancedJoin
<1>5. c \in f.nodes /\ Decision(f, c)
  BY <1>1, <1>2, ConditionParentType
<1>6. ASSUME NEW o, Targets(f, c, o) # {} PROVE o \in 0 .. f.outs[c] - 1
  <2>1. PICK i \in EdgeIds(f) : f.edges[i].src = c /\ f.edges[i].out = o
    BY <1>6 DEF Targets, Drawn
  <2>2. o < f.outs[c] /\ o \in Nat /\ f.outs[c] \in Nat
    BY <1>5, <2>1, EdgeType, FlowsAssumption DEF WellFormed, SimpleHandles, IsFlow
  <2> QED BY <2>2
<1>7. ASSUME NEW o, NEW x \in Reach(f, Targets(f, c, o)) PROVE Targets(f, c, o) # {}
  <2> SUFFICES ASSUME Targets(f, c, o) = {} PROVE FALSE
    OBVIOUS
  <2>1. {} \in SUBSET f.nodes /\ Closed(f, {})
    BY DEF Closed
  <2>2. Reach(f, {}) \subseteq {}
    BY <2>1, ReachIsLeast
  <2> QED BY <1>7, <2>2
\* Two ways of one decision node in one round are one.
<1>8. ASSUME NEW o, Went(f, ign, c, o), Targets(f, c, o) # {},
             NEW p, Went(f, ign, c, p)
      PROVE  o = p
  <2>1. PICK i \in EdgeIds(f) : f.edges[i].src = c /\ f.edges[i].out = o
    BY <1>8 DEF Targets, Drawn
  <2> QED BY <1>8, <2>1 DEF Went
\* A later round that c takes part in does not come from behind c.
<1>9. ~(c \in D /\ k >= 1 /\ c \in Ancestors(f, l))
  <2> SUFFICES ASSUME c \in D, k >= 1, c \in Ancestors(f, l) PROVE FALSE
    OBVIOUS
  <2>1. c \in Reach(f, {l}) /\ c # l /\ l \in Reach(f, {c})
    BY DEF Round, Ancestors
  <2> QED BY <1>5, <2>1, NoCycle
<1>10. ASSUME NEW x \in Sources(f, m), NEW y \in Sources(f, m), x # y, x = c, y # c,
              x \in D, m \notin ign[x], y \in F, e(y) = c
       PROVE  FALSE
  <2>1. PICK o \in Int : Went(f, ign, c, o)
    BY <1>5, <1>10 DEF Round, Held
  <2>2. m \in Targets(f, c, o)
    <3>1. PICK i \in EdgeIds(f) : f.edges[i].src = c /\ f.edges[i].tgt = m
      BY <1>10 DEF Sources
    <3>2. f.edges[i].out = o
      BY <1>10, <2>1, <3>1 DEF Went
    <3> QED BY <3>1, <3>2 DEF Targets, Drawn
  <2>3. ArrivalsBy(f, m, c, o) = 1
    BY <1>4, <1>6, <2>2
  <2>4. Placed(f, l, k, D, ign, c, y)
    BY <1>2, <1>10, RoundPlaces
  <2>5. PICK p \in Int : Went(f, ign, c, p) /\ y \in Reach(f, Targets(f, c, p))
    BY <1>9, <1>10, <2>4 DEF Placed
  <2>6. p = o
    BY <1>7, <1>8, <2>1, <2>5
  <2> QED BY <1>10, <2>2, <2>3, <2>5, <2>6, OneArrival
<1>11. CASE s = c
  BY <1>1, <1>2, <1>10, <1>11
<1>12. CASE t = c
  BY <1>1, <1>2, <1>10, <1>12
<1>13. CASE s # c /\ t # c
  <2>1. Placed(f, l, k, D, ign, c, s) /\ Placed(f, l, k, D, ign, c, t)
    BY <1>1, <1>2, <1>13, RoundPlaces
  <2>2. \E o \in 0 .. f.outs[c] - 1 :
           s \in Reach(f, Targets(f, c, o)) /\ t \in Reach(f, Targets(f, c, o))
    <3>1. CASE c \in D
      <4>1. PICK o \in Int : Went(f, ign, c, o) /\ s \in Reach(f, Targets(f, c, o))
        BY <1>9, <2>1, <3>1 DEF Placed
      <4>2. PICK p \in Int : Went(f, ign, c, p) /\ t \in Reach(f, Targets(f, c, p))
        BY <1>9, <2>1, <3>1 DEF Placed
      <4>3. Targets(f, c, o) # {} /\ p = o
        BY <1>7, <1>8, <4>1, <4>2
      <4> QED BY <1>6, <4>1, <4>2, <4>3
    <3>2. CASE c \notin D
      <4>1. c \in Ancestors(f, l) /\ s \in Reach(f, {l}) /\ t \in Reach(f, {l})
        BY <2>1, <3>2 DEF Placed
      <4>2. l \in Reach(f, {c}) /\ l # c
        BY <4>1 DEF Ancestors
      <4>3. PICK o \in 0 .. f.outs[c] - 1 : l \in Reach(f, Targets(f, c, o))
        BY <1>5, <4>2, ReachedByHandle DEF WellFormed
      <4>4. Reach(f, {l}) \subseteq Reach(f, Targets(f, c, o))
        BY <4>3, TargetsType, ReachTransitive
      <4> QED BY <4>1, <4>3, <4>4
    <3> QED BY <3>1, <3>2
  <2> QED BY <1>1, <1>4, <1>13, <2>2, OneArrival
<1> QED BY <1>11, <1>12, <1>13

\* A node that runs in a round leads the nodes it hands its result to, which have
\* not been fired in this round.
Handed(f, l, k, F, D, ign, c, ignored) ==
  LET D2 == D \cup {c}
      ign2 == HeldBack(ign, c, ignored)
  IN  /\ Round(f, l, k, F, D2, ign2)
      /\ ign2 \in [f.nodes -> SUBSET f.nodes]
      /\ \A m \in f.nodes : Led(f, D, ign, m) => Led(f, D2, ign2, m)
      /\ \A m \in f.nodes : Sent(f, c, ignored, m) /\ c \in Lead(f, m)
           => Led(f, D2, ign2, m) /\ m \notin F

LEMMA RoundTurn ==
  ASSUME NEW f \in Flows, OnCanvas(f), WellFormed(f), NEW l \in f.nodes, NEW k \in Nat,
         NEW F, NEW D, NEW ign, Round(f, l, k, F, D, ign), NEW c \in F, c \notin D,
         NEW ignored, MayHoldBack(f, c, ign, ignored)
  PROVE  Handed(f, l, k, F, D, ign, c, ignored)
<1> PICK D2, ign2 : D2 = D \cup {c} /\ ign2 = HeldBack(ign, c, ignored)
  OBVIOUS
<1>1. F \in SUBSET f.nodes /\ D \in SUBSET f.nodes /\ D \subseteq F /\ c \in f.nodes
  BY DEF Round
<1>2. ign \in [f.nodes -> SUBSET f.nodes]
  BY DEF Round, Held
<1>3. /\ ign2 \in [f.nodes -> SUBSET f.nodes] /\ ign2[c] = ignored
      /\ \A s \in D : ign2[s] = ign[s]
  BY <1>1, <1>2 DEF HeldBack, MayHoldBack
<1>4. Held(f, D2, ign2)
  <2>1. Held(f, D, ign)
    BY DEF Round
  <2> QED BY <1>1, <2>1, HeldOneMore
<1>5. \A m : Passed(f, D, ign, m) \subseteq Passed(f, D2, ign2, m)
  BY <1>3 DEF Passed
<1>6. \A m : Led(f, D, ign, m) => Led(f, D2, ign2, m)
  BY <1>5 DEF Led
<1>7. Round(f, l, k, F, D2, ign2)
  BY <1>1, <1>4, <1>6 DEF Round
<1>8. ASSUME NEW m \in f.nodes, Sent(f, c, ignored, m), c \in Lead(f, m)
      PROVE  Led(f, D2, ign2, m) /\ m \notin F
  <2>1. c \in Passed(f, D2, ign2, m) /\ c \in Sources(f, m)
    BY <1>3, <1>8 DEF Sent, Passed
  <2>2. Led(f, D2, ign2, m)
    BY <1>8, <2>1 DEF Led
  <2>3. ASSUME m \in F PROVE FALSE
    <3>1. CASE Led(f, D, ign, m)
      <4>1. PICK s \in Lead(f, m) : s \in Passed(f, D, ign, m)
        BY <3>1 DEF Led
      <4>2. s \in D /\ s \in Passed(f, D2, ign2, m)
        BY <1>5, <4>1 DEF Passed
      <4>3. s = c
        BY <1>7, <1>8, <2>1, <4>1, <4>2, RoundLeads
      <4> QED BY <4>2, <4>3
    <3>2. CASE m = l /\ k >= 1
      <4>1. c \in Reach(f, {l}) /\ c \in Ancestors(f, l)
        BY <2>1, <3>2, SourceIsAncestor DEF Round
      <4>2. l \in Reach(f, {c}) /\ l # c
        BY <4>1 DEF Ancestors
      <4> QED BY <1>1, <4>1, <4>2, NoCycle
    <3>3. CASE Sources(f, m) = {}
      BY <2>1, <3>3
    <3> QED BY <2>3, <3>1, <3>2, <3>3 DEF Round
  <2> QED BY <2>2, <2>3
<1> QED BY <1>3, <1>6, <1>7, <1>8 DEF Handed

\* What is led into a round may be fired in it.
LEMMA RoundGrows ==
  ASSUME NEW f \in Flows, NEW l \in f.nodes, NEW k \in Nat,
         NEW F, NEW D, NEW ign, Round(f, l, k, F, D, ign),
         NEW N \in SUBSET f.nodes, \A m \in N : Led(f, D, ign, m)
  PROVE  Round(f, l, k, F \cup N, D, ign)
<1>1. ASSUME k >= 1, NEW m \in N PROVE m \in Reach(f, {l})
  <2>1. PICK s \in Sources(f, m) : s \in D
    BY <1>1 DEF Led, Passed
  <2>2. s \in Reach(f, {l}) /\ {l} \in SUBSET f.nodes
    BY <1>1, <2>1 DEF Round
  <2> QED BY <2>1, <2>2, ReachOn
<1> QED BY <1>1 DEF Round

-----------------------------------------------------------------------------
(***************************************************************************)
(* The rounds of a run. h are the N nodes that were queued so far, in their *)
(* order; the first a of them have run. t[i] is the round the i-th of them  *)
(* was queued in, J the last round, ign[k] what was held back in round k.   *)
(* Rounds overlap: nodes of an old round may run after the jump back, and   *)
(* a waiting node may hold inputs of several rounds.                        *)
(***************************************************************************)

\* The nodes of round k among the first n.
Members(h, t, n, k) == {h[i] : i \in {j \in 1 .. n : t[j] = k}}

\* m was led into a round in which it was not queued yet.
Expected(f, J, h, t, N, a, ign, m) ==
  \E k \in 0 .. J : Led(f, Members(h, t, a, k), ign[k], m) /\ m \notin Members(h, t, N, k)

Numbered(f, l, J, h, N, a, w, t, ign) ==
  /\ J \in Nat /\ N \in Nat /\ a \in 0 .. N
  /\ h \in [1 .. N -> f.nodes] /\ t \in [1 .. N -> 0 .. J]
  /\ \A i, j \in 1 .. N : h[i] = h[j] /\ t[i] = t[j] => i = j
  /\ \A k \in 0 .. J : Round(f, l, k, Members(h, t, N, k), Members(h, t, a, k), ign[k])
  /\ \A m \in f.nodes : Lead(f, m) \cap w[m] # {} => Expected(f, J, h, t, N, a, ign, m)

InRounds(f, l, J, h, N, a, w) == \E t, ign : Numbered(f, l, J, h, N, a, w, t, ign)

\* What the run of c did to m: queued it behind the first N, or left it waiting.
Answered(f, c, ignored, m, h2, N, N2, w, w2) ==
  \E b \in BOOLEAN :
    /\ b <=> Starts(f, c, ignored, w, m)
    /\ IF b THEN \E j \in N + 1 .. N2 : \A i \in N + 1 .. N2 : h2[i] = m <=> i = j
       ELSE \A i \in N + 1 .. N2 : h2[i] # m
    /\ w2[m] = IF b THEN {} ELSE IF Sent(f, c, ignored, m) THEN w[m] \cup {c} ELSE w[m]

\* The next node runs, in its round.
Taken(f, l, J, h, N, a, t, ign, ign2, c) ==
  /\ \A k \in 0 .. J : Round(f, l, k, Members(h, t, N, k), Members(h, t, a + 1, k), ign2[k])
  /\ \A m \in f.nodes : Expected(f, J, h, t, N, a, ign, m) => Expected(f, J, h, t, N, a + 1, ign2, m)

LEMMA RoundsTake ==
  ASSUME NEW f \in Flows, OnCanvas(f), WellFormed(f), NEW l \in f.nodes,
         NEW J, NEW h, NEW N, NEW a, NEW w, NEW t, NEW ign,
         Numbered(f, l, J, h, N, a, w, t, ign), a < N, NEW c, c = h[a + 1],
         NEW ignored, \A k \in 0 .. J : MayHoldBack(f, c, ign[k], ignored)
  PROVE  \E ign2 : /\ Taken(f, l, J, h, N, a, t, ign, ign2, c)
                   /\ \A m \in f.nodes : Sent(f, c, ignored, m) /\ c \in Lead(f, m)
                        => Expected(f, J, h, t, N, a + 1, ign2, m)
<1>1. /\ J \in Nat /\ N \in Nat /\ a \in Nat /\ a + 1 \in 1 .. N /\ a \in 0 .. N
      /\ h \in [1 .. N -> f.nodes] /\ t \in [1 .. N -> 0 .. J]
  BY DEF Numbered
<1> PICK r : r = t[a + 1]
  OBVIOUS
<1>2. c \in f.nodes /\ r \in 0 .. J
  BY <1>1
<1> DEFINE F(k) == Members(h, t, N, k)
           D(k) == Members(h, t, a, k)
           D2(k) == Members(h, t, a + 1, k)
<1>3. /\ D2(r) = D(r) \cup {c}
      /\ \A k : k # r => D2(k) = D(k)
      /\ c \in F(r) /\ c \notin D(r)
  <2>1. \A j : j \in 1 .. a + 1 <=> j \in 1 .. a \/ j = a + 1
    BY <1>1
  <2>2. D2(r) = D(r) \cup {c} /\ \A k : k # r => D2(k) = D(k)
    BY <2>1 DEF Members
  <2>3. c \in F(r)
    BY <1>1 DEF Members
  <2>4. ASSUME c \in D(r) PROVE FALSE
    <3>1. PICK j \in 1 .. a : t[j] = r /\ h[j] = c
      BY <2>4 DEF Members
    <3>2. j \in 1 .. N /\ j # a + 1
      BY <1>1
    <3> QED BY <1>1, <3>1, <3>2 DEF Numbered
  <2> QED BY <2>2, <2>3, <2>4
<1> DEFINE ign2 == [k \in 0 .. J |-> IF k = r THEN HeldBack(ign[r], c, ignored) ELSE ign[k]]
<1>4. ign2[r] = HeldBack(ign[r], c, ignored) /\ \A k \in 0 .. J : k # r => ign2[k] = ign[k]
  BY <1>2
<1> HIDE DEF ign2
<1>5. \A k \in 0 .. J : Round(f, l, k, F(k), D(k), ign[k])
  BY DEF Numbered
<1>6. Handed(f, l, r, F(r), D(r), ign[r], c, ignored)
  <2>1. r \in Nat
    BY <1>1, <1>2
  <2> HIDE DEF F, D
  <2> QED BY <1>2, <1>3, <1>5, <2>1, RoundTurn
<1>7. /\ Round(f, l, r, F(r), D2(r), ign2[r])
      /\ \A m \in f.nodes : Led(f, D(r), ign[r], m) => Led(f, D2(r), ign2[r], m)
      /\ \A m \in f.nodes : Sent(f, c, ignored, m) /\ c \in Lead(f, m)
           => Led(f, D2(r), ign2[r], m) /\ m \notin F(r)
  <2> HIDE DEF F, D, D2
  <2> QED BY <1>3, <1>4, <1>6 DEF Handed
<1>8. \A k \in 0 .. J : Round(f, l, k, F(k), D2(k), ign2[k])
  <2> SUFFICES ASSUME NEW k \in 0 .. J PROVE Round(f, l, k, F(k), D2(k), ign2[k])
    OBVIOUS
  <2> HIDE DEF F, D, D2
  <2>1. CASE k = r
    BY <1>7, <2>1
  <2>2. CASE k # r
    BY <1>3, <1>4, <1>5, <2>2
  <2> QED BY <2>1, <2>2
<1>9. ASSUME NEW m \in f.nodes, Expected(f, J, h, t, N, a, ign, m)
      PROVE  Expected(f, J, h, t, N, a + 1, ign2, m)
  <2>1. PICK k \in 0 .. J : Led(f, D(k), ign[k], m) /\ m \notin F(k)
    BY <1>9 DEF Expected
  <2>2. Led(f, D2(k), ign2[k], m)
    <3> HIDE DEF F, D, D2
    <3>1. CASE k = r
      BY <1>7, <2>1, <3>1
    <3>2. CASE k # r
      BY <1>3, <1>4, <2>1, <3>2
    <3> QED BY <3>1, <3>2
  <2> QED BY <2>1, <2>2 DEF Expected
<1>10. ASSUME NEW m \in f.nodes, Sent(f, c, ignored, m), c \in Lead(f, m)
       PROVE  Expected(f, J, h, t, N, a + 1, ign2, m)
  BY <1>2, <1>7, <1>10 DEF Expected
<1>11. Taken(f, l, J, h, N, a, t, ign, ign2, c)
  BY <1>8, <1>9 DEF Taken
<1> QED BY <1>10, <1>11

\* One turn keeps the rounds: what starts is queued in a round that led it.
LEMMA RoundsTurn ==
  ASSUME NEW f \in Flows, OnCanvas(f), WellFormed(f), NEW l \in f.nodes,
         NEW J, NEW h, NEW N, NEW a, NEW w, NEW t, NEW ign,
         Numbered(f, l, J, h, N, a, w, t, ign), a < N, NEW c, c = h[a + 1],
         NEW ignored, \A k \in 0 .. J : MayHoldBack(f, c, ign[k], ignored),
         NEW N2 \in Nat, N <= N2, NEW h2 \in [1 .. N2 -> f.nodes], \A i \in 1 .. N : h2[i] = h[i],
         NEW w2, \A m \in f.nodes : Answered(f, c, ignored, m, h2, N, N2, w, w2)
  PROVE  InRounds(f, l, J, h2, N2, a + 1, w2)
<1>1. /\ J \in Nat /\ N \in Nat /\ a \in Nat /\ a + 1 \in 1 .. N /\ a \in 0 .. N
      /\ h \in [1 .. N -> f.nodes] /\ t \in [1 .. N -> 0 .. J] /\ c \in f.nodes
  BY DEF Numbered
<1>2. PICK ign2 : /\ Taken(f, l, J, h, N, a, t, ign, ign2, c)
                  /\ \A m \in f.nodes : Sent(f, c, ignored, m) /\ c \in Lead(f, m)
                        => Expected(f, J, h, t, N, a + 1, ign2, m)
  BY RoundsTake
<1> DEFINE Exp(m) == Expected(f, J, h, t, N, a + 1, ign2, m)
           New(m) == Starts(f, c, ignored, w, m)
<1>3. ASSUME NEW m \in f.nodes, Lead(f, m) \cap w[m] # {} PROVE Exp(m)
  BY <1>2, <1>3 DEF Numbered, Taken
<1>4. ASSUME NEW m \in f.nodes, New(m) PROVE Exp(m)
  <2>1. /\ c \in Sources(f, m) /\ Sent(f, c, ignored, m)
        /\ HasReceivedRequiredInputs(f, m, w[m] \cup {c})
    BY <1>4 DEF Starts, Sent
  <2>2. Lead(f, m) \cap (w[m] \cup {c}) # {}
    BY <2>1, LeadNeeded
  <2> QED BY <1>2, <1>3, <2>1, <2>2
<1>5. ASSUME NEW m \in f.nodes, Lead(f, m) \cap w2[m] # {} PROVE Exp(m) /\ ~New(m)
  <2>1. PICK b \in BOOLEAN :
          /\ b <=> New(m)
          /\ w2[m] = IF b THEN {} ELSE IF Sent(f, c, ignored, m) THEN w[m] \cup {c} ELSE w[m]
    BY DEF Answered
  <2>2. ~b
    BY <1>5, <2>1
  <2>3. CASE Sent(f, c, ignored, m) /\ c \in Lead(f, m)
    BY <1>2, <2>1, <2>2, <2>3
  <2>4. CASE ~(Sent(f, c, ignored, m) /\ c \in Lead(f, m))
    <3>1. Lead(f, m) \cap w[m] # {}
      BY <1>5, <2>1, <2>2, <2>4
    <3> QED BY <1>3, <2>1, <2>2, <3>1
  <2> QED BY <2>3, <2>4
<1> DEFINE Fit(m, k) == /\ k \in 0 .. J /\ Led(f, Members(h, t, a + 1, k), ign2[k], m)
                        /\ m \notin Members(h, t, N, k)
           K(m) == CHOOSE k : Fit(m, k)
           t2 == [i \in 1 .. N2 |-> IF i <= N THEN t[i] ELSE K(h2[i])]
<1>6. ASSUME NEW m \in f.nodes, New(m) PROVE Fit(m, K(m))
  <2>1. \E k : Fit(m, k)
    BY <1>4, <1>6 DEF Expected
  <2> HIDE DEF Fit
  <2> QED BY <2>1
<1>7. ASSUME NEW i \in N + 1 .. N2
      PROVE  /\ h2[i] \in f.nodes /\ New(h2[i]) /\ t2[i] = K(h2[i])
             /\ \A j \in N + 1 .. N2 : h2[j] = h2[i] => i = j
  <2>1. i \in 1 .. N2 /\ ~(i <= N)
    BY <1>1
  <2>2. h2[i] \in f.nodes
    BY <2>1
  <2>3. PICK b \in BOOLEAN :
          /\ b <=> New(h2[i])
          /\ IF b THEN \E j \in N + 1 .. N2 : \A u \in N + 1 .. N2 : h2[u] = h2[i] <=> u = j
             ELSE \A u \in N + 1 .. N2 : h2[u] # h2[i]
    BY <2>2 DEF Answered
  <2>4. t2[i] = K(h2[i])
    <3> HIDE DEF K
    <3> QED BY <2>1
  <2> QED BY <2>2, <2>3, <2>4
<1>8. \A i \in 1 .. N : t2[i] = t[i] /\ h2[i] = h[i] /\ i \in 1 .. N2
  <2> HIDE DEF K
  <2> QED BY <1>1
<1>9. \A i : i \in 1 .. N2 <=> i \in 1 .. N \/ i \in N + 1 .. N2
  BY <1>1
<1>10. t2 \in [1 .. N2 -> 0 .. J]
  <2>1. \A i \in 1 .. N2 : t2[i] \in 0 .. J
    <3> HIDE DEF t2, K, New
    <3> QED BY <1>1, <1>6, <1>7, <1>8, <1>9
  <2>2. t2 = [i \in 1 .. N2 |-> t2[i]]
    OBVIOUS
  <2> HIDE DEF t2
  <2> QED BY <2>1, <2>2
<1> HIDE DEF t2, K, New
<1>11. \A i, j \in 1 .. N2 : h2[i] = h2[j] /\ t2[i] = t2[j] => i = j
  <2>1. ASSUME NEW i \in 1 .. N, NEW j \in N + 1 .. N2, h2[i] = h2[j], t2[i] = t2[j]
        PROVE  FALSE
    <3>1. h[i] \notin Members(h, t, N, t[i])
      BY <1>6, <1>7, <1>8, <2>1
    <3> QED BY <3>1 DEF Members
  <2> SUFFICES ASSUME NEW i \in 1 .. N2, NEW j \in 1 .. N2, h2[i] = h2[j], t2[i] = t2[j]
               PROVE  i = j
    OBVIOUS
  <2>2. CASE i \in 1 .. N /\ j \in 1 .. N
    BY <1>8, <2>2 DEF Numbered
  <2>3. CASE i \in N + 1 .. N2 /\ j \in N + 1 .. N2
    BY <1>7, <2>3
  <2> QED BY <1>9, <2>1, <2>2, <2>3
<1>12. ASSUME NEW k \in 0 .. J
       PROVE  Members(h2, t2, N2, k) =
                Members(h, t, N, k) \cup {m \in f.nodes : New(m) /\ K(m) = k}
  <2>1. ASSUME NEW i \in 1 .. N2, t2[i] = k
        PROVE  h2[i] \in Members(h, t, N, k) \/ (h2[i] \in f.nodes /\ New(h2[i]) /\ K(h2[i]) = k)
    <3>1. CASE i \in 1 .. N
      BY <1>8, <2>1, <3>1 DEF Members
    <3>2. CASE i \in N + 1 .. N2
      BY <1>7, <2>1, <3>2
    <3> QED BY <1>9, <3>1, <3>2
  <2>2. ASSUME NEW i \in 1 .. N, t[i] = k PROVE h[i] \in Members(h2, t2, N2, k)
    BY <1>8, <2>2 DEF Members
  <2>3. ASSUME NEW m \in f.nodes, New(m), K(m) = k PROVE m \in Members(h2, t2, N2, k)
    <3>1. PICK j \in N + 1 .. N2 : h2[j] = m
      BY <2>3 DEF Answered, New
    <3>2. t2[j] = k /\ j \in 1 .. N2
      BY <1>7, <1>9, <2>3, <3>1
    <3> QED BY <3>1, <3>2 DEF Members
  <2>4. Members(h2, t2, N2, k) \subseteq
          Members(h, t, N, k) \cup {m \in f.nodes : New(m) /\ K(m) = k}
    <3> SUFFICES ASSUME NEW i \in 1 .. N2, t2[i] = k
                 PROVE  h2[i] \in Members(h, t, N, k) \/ (h2[i] \in f.nodes /\ New(h2[i]) /\ K(h2[i]) = k)
      BY DEF Members
    <3> QED BY <2>1
  <2>5. Members(h, t, N, k) \subseteq Members(h2, t2, N2, k)
    <3> SUFFICES ASSUME NEW i \in 1 .. N, t[i] = k PROVE h[i] \in Members(h2, t2, N2, k)
      BY DEF Members
    <3> QED BY <2>2
  <2> QED BY <2>3, <2>4, <2>5
<1>13. \A k : Members(h2, t2, a + 1, k) = Members(h, t, a + 1, k)
  <2>1. \A i \in 1 .. a + 1 : i \in 1 .. N
    BY <1>1
  <2> QED BY <1>8, <2>1 DEF Members
<1>14. \A k \in 0 .. J : Round(f, l, k, Members(h2, t2, N2, k), Members(h2, t2, a + 1, k), ign2[k])
  <2> SUFFICES ASSUME NEW k \in 0 .. J
               PROVE  Round(f, l, k, Members(h2, t2, N2, k), Members(h2, t2, a + 1, k), ign2[k])
    OBVIOUS
  <2> PICK S : S = {m \in f.nodes : New(m) /\ K(m) = k}
    OBVIOUS
  <2>1. \A m \in S : Led(f, Members(h, t, a + 1, k), ign2[k], m)
    BY <1>6
  <2>2. Round(f, l, k, Members(h, t, N, k), Members(h, t, a + 1, k), ign2[k])
    BY <1>2 DEF Taken
  <2>3. k \in Nat /\ S \in SUBSET f.nodes
    BY <1>1
  <2>4. Round(f, l, k, Members(h, t, N, k) \cup S, Members(h, t, a + 1, k), ign2[k])
    BY <2>1, <2>2, <2>3, RoundGrows
  <2> QED BY <1>12, <1>13, <2>4
<1>15. ASSUME NEW m \in f.nodes, Lead(f, m) \cap w2[m] # {}
       PROVE  Expected(f, J, h2, t2, N2, a + 1, ign2, m)
  <2>1. PICK k \in 0 .. J : Fit(m, k)
    BY <1>5, <1>15 DEF Expected
  <2>2. m \notin Members(h2, t2, N2, k)
    BY <1>5, <1>12, <1>15, <2>1
  <2> QED BY <1>13, <2>1, <2>2 DEF Expected
<1>16. a + 1 \in 0 .. N2
  BY <1>1
<1>17. Numbered(f, l, J, h2, N2, a + 1, w2, t2, ign2)
  BY <1>1, <1>10, <1>11, <1>14, <1>15, <1>16 DEF Numbered
<1> QED BY <1>17 DEF InRounds

\* The jump back opens the next round at the node it jumps to.
LEMMA RoundsJump ==
  ASSUME NEW f \in Flows, NEW l \in f.nodes, NEW J, NEW h, NEW N, NEW a, NEW w,
         InRounds(f, l, J, h, N, a, w),
         NEW h2 \in [1 .. N + 1 -> f.nodes], h2[N + 1] = l, \A i \in 1 .. N : h2[i] = h[i]
  PROVE  InRounds(f, l, J + 1, h2, N + 1, a, w)
<1>1. PICK t, ign : Numbered(f, l, J, h, N, a, w, t, ign)
  BY DEF InRounds
<1>2. /\ J \in Nat /\ N \in Nat /\ a \in Nat /\ a <= N
      /\ h \in [1 .. N -> f.nodes] /\ t \in [1 .. N -> 0 .. J]
  BY <1>1 DEF Numbered
<1> DEFINE none == [n \in f.nodes |-> {}]
           t2 == [i \in 1 .. N + 1 |-> IF i = N + 1 THEN J + 1 ELSE t[i]]
           ign2 == [k \in 0 .. J + 1 |-> IF k = J + 1 THEN none ELSE ign[k]]
<1>3. /\ t2 \in [1 .. N + 1 -> 0 .. J + 1]
      /\ t2[N + 1] = J + 1 /\ \A i \in 1 .. N : t2[i] = t[i] /\ t[i] \in 0 .. J
  BY <1>2
<1>4. ign2[J + 1] = none /\ \A k \in 0 .. J : ign2[k] = ign[k]
  <2> HIDE DEF none
  <2> QED BY <1>2
<1>5. /\ \A i : i \in 1 .. N + 1 <=> i \in 1 .. N \/ i = N + 1
      /\ \A k : k \in 0 .. J + 1 <=> k \in 0 .. J \/ k = J + 1
      /\ J + 1 \notin 0 .. J /\ N + 1 \notin 1 .. N
      /\ \A i : i \in 1 .. a => i \in 1 .. N
      /\ a \in 0 .. N + 1 /\ J + 1 \in Nat /\ N + 1 \in Nat /\ J + 1 >= 1
  BY <1>2
<1> HIDE DEF t2, ign2, none
<1>6. ASSUME NEW k \in 0 .. J
      PROVE  /\ Members(h2, t2, N + 1, k) = Members(h, t, N, k)
             /\ Members(h2, t2, a, k) = Members(h, t, a, k)
  <2>1. k # J + 1
    BY <1>5
  <2> QED BY <1>3, <1>5, <2>1 DEF Members
<1>7. Members(h2, t2, N + 1, J + 1) = {l} /\ Members(h2, t2, a, J + 1) = {}
  <2>1. \A i \in 1 .. N : t2[i] # J + 1
    BY <1>3, <1>5
  <2> QED BY <1>3, <1>5, <2>1 DEF Members
<1>8. Round(f, l, J + 1, {l}, {}, none)
  <2>1. {l} \in SUBSET f.nodes /\ {l} \subseteq Reach(f, {l})
    BY ReachIsClosed
  <2>2. Held(f, {}, none)
    BY DEF Held, none
  <2> QED BY <1>5, <2>1, <2>2 DEF Round
<1>9. \A k \in 0 .. J + 1 :
         Round(f, l, k, Members(h2, t2, N + 1, k), Members(h2, t2, a, k), ign2[k])
  BY <1>1, <1>4, <1>5, <1>6, <1>7, <1>8 DEF Numbered
<1>10. \A i, j \in 1 .. N + 1 : h2[i] = h2[j] /\ t2[i] = t2[j] => i = j
  <2> SUFFICES ASSUME NEW i \in 1 .. N + 1, NEW j \in 1 .. N + 1, h2[i] = h2[j], t2[i] = t2[j]
               PROVE  i = j
    OBVIOUS
  <2>1. CASE i \in 1 .. N /\ j \in 1 .. N
    BY <1>1, <1>3, <2>1 DEF Numbered
  <2>2. CASE i = N + 1 \/ j = N + 1
    <3>1. t2[i] = J + 1 /\ t2[j] = J + 1
      BY <1>3, <2>2
    <3>2. i \notin 1 .. N /\ j \notin 1 .. N
      BY <1>3, <1>5, <3>1
    <3> QED BY <1>5, <3>2
  <2> QED BY <1>5, <2>1, <2>2
<1>11. ASSUME NEW m \in f.nodes, Lead(f, m) \cap w[m] # {}
       PROVE  Expected(f, J + 1, h2, t2, N + 1, a, ign2, m)
  <2>1. PICK k \in 0 .. J : Led(f, Members(h, t, a, k), ign[k], m) /\ m \notin Members(h, t, N, k)
    BY <1>1, <1>11 DEF Numbered, Expected
  <2> QED BY <1>4, <1>5, <1>6, <2>1 DEF Expected
<1>12. Numbered(f, l, J + 1, h2, N + 1, a, w, t2, ign2)
  BY <1>3, <1>5, <1>9, <1>10, <1>11 DEF Numbered
<1> QED BY <1>12 DEF InRounds

\* Round 0 is opened by the start node, if there is one.
LEMMA RoundsStart ==
  ASSUME NEW f \in Flows, NEW l \in f.nodes, NEW N \in 0 .. 1, NEW h \in [1 .. N -> f.nodes],
         \A i \in 1 .. N : Sources(f, h[i]) = {}, NEW w, \A m \in f.nodes : w[m] = {}
  PROVE  InRounds(f, l, 0, h, N, 0, w)
<1> DEFINE none == [n \in f.nodes |-> {}]
           t == [i \in 1 .. N |-> 0]
           ign == [k \in 0 .. 0 |-> none]
<1>1. t \in [1 .. N -> 0 .. 0] /\ 0 \in 0 .. N /\ N \in Nat
  OBVIOUS
<1>2. \A k \in 0 .. 0 : k = 0 /\ ign[k] = none
  <2> HIDE DEF none
  <2> QED OBVIOUS
<1>3. Members(h, t, 0, 0) = {}
  <2>1. 1 .. 0 = {}
    OBVIOUS
  <2> QED BY <2>1 DEF Members
<1>4. \A m \in Members(h, t, N, 0) : m \in f.nodes /\ Sources(f, m) = {}
  BY DEF Members
<1>5. \A i, j \in 1 .. N : i = j
  <2>1. \A i \in 1 .. N : i = 1
    OBVIOUS
  <2> QED BY <2>1
<1>6. Held(f, {}, none)
  BY DEF Held
<1> HIDE DEF t, ign, none
<1>7. Round(f, l, 0, Members(h, t, N, 0), Members(h, t, 0, 0), none)
  <2> PICK F : F = Members(h, t, N, 0)
    OBVIOUS
  <2>1. F \in SUBSET f.nodes /\ \A m \in F : Sources(f, m) = {}
    BY <1>4
  <2>2. Round(f, l, 0, F, {}, none)
    BY <1>6, <2>1 DEF Round
  <2> QED BY <1>3, <2>2
<1>8. \A k \in 0 .. 0 : Round(f, l, k, Members(h, t, N, k), Members(h, t, 0, k), ign[k])
  BY <1>2, <1>7
<1>9. Numbered(f, l, 0, h, N, 0, w, t, ign)
  BY <1>1, <1>5, <1>8 DEF Numbered
<1> QED BY <1>9 DEF InRounds

\* Where n stands among the first N.
Places(h, N, n) == {i \in 1 .. N : h[i] = n}

\* No node is queued twice in a round, so none runs more often than there are rounds.
LEMMA RoundsBound ==
  ASSUME NEW f, NEW l, NEW J, NEW h, NEW N, NEW a, NEW w,
         InRounds(f, l, J, h, N, a, w), NEW n
  PROVE  /\ J + 1 \in Nat
         /\ \A S \in SUBSET Places(h, N, n) : Cardinality(S) <= J + 1
<1>1. PICK t, ign : Numbered(f, l, J, h, N, a, w, t, ign)
  BY DEF InRounds
<1>2. J \in Nat /\ N \in Nat /\ t \in [1 .. N -> 0 .. J]
  BY <1>1 DEF Numbered
<1>3. IsFiniteSet(0 .. J) /\ Cardinality(0 .. J) = J + 1
  <2>1. 0 \in Int /\ J \in Int /\ (0 <= J) /\ J - 0 + 1 = J + 1
    BY <1>2
  <2> QED BY <2>1, FS_Interval
<1> SUFFICES ASSUME NEW S \in SUBSET Places(h, N, n) PROVE Cardinality(S) <= J + 1
  BY <1>2
<1> DEFINE g == [i \in S |-> t[i]]
<1>4. g \in [S -> 0 .. J] /\ \A i, j \in S : g[i] = g[j] => i = j
  BY <1>1, <1>2 DEF Numbered, Places
<1>5. g \in Injection(S, 0 .. J)
  <2> HIDE DEF g
  <2> QED BY <1>4 DEF Injection, IsInjective
<1> HIDE DEF g
<1> QED BY <1>3, <1>5, FS_Injection

\* Between two nodes of a well-formed flow there is one edge at most.
LEMMA DrawnOnce ==
  ASSUME NEW f \in Flows, OnCanvas(f), WellFormed(f), NEW c, NEW n
  PROVE  OneEdge(f, c, n)
<1> SUFFICES ASSUME NEW i \in EdgeIds(f), NEW j \in EdgeIds(f), i # j,
                    f.edges[i].src = c, f.edges[i].tgt = n,
                    f.edges[j].src = c, f.edges[j].tgt = n
             PROVE  FALSE
  BY DEF OneEdge
<1>1. CASE Decision(f, c)
  BY <1>1 DEF WellFormed, SimpleHandles
<1>2. CASE ~Decision(f, c)
  <2>1. f.edges[i].out = 0 /\ f.edges[j].out = 0 /\ f.edges[i] # f.edges[j]
    BY <1>2 DEF OnCanvas
  <2> DEFINE Edges == [src : f.nodes, out : Nat, tgt : f.nodes]
  <2>2. f.edges \in Seq(Edges)
    BY FlowType
  <2>3. f.edges[i] \in Edges /\ f.edges[j] \in Edges
    <3> HIDE DEF Edges
    <3> QED BY <2>2 DEF EdgeIds
  <2> QED BY <2>1, <2>3
<1> QED BY <1>1, <1>2

-----------------------------------------------------------------------------
(***************************************************************************)
(* The queue and the record of a run, seen as one list: the nodes of the    *)
(* record, and behind them those of the queue.                              *)
(***************************************************************************)
Queued(q, d) ==
  [i \in 1 .. Len(d) + Len(q) |-> IF i <= Len(d) THEN d[i].node ELSE q[i - Len(d)]]

RunInRounds(f, l, J, q, d, w) ==
  InRounds(f, l, J, Queued(q, d), Len(d) + Len(q), Len(d), w)

\* The list is one of nodes of the flow.
LEMMA QueuedType ==
  ASSUME NEW T, NEW q \in Seq(T), NEW E, NEW d \in Seq(E),
         \A i \in 1 .. Len(d) : d[i].node \in T
  PROVE  /\ Len(d) \in Nat /\ Len(q) \in Nat
         /\ Queued(q, d) \in [1 .. Len(d) + Len(q) -> T]
<1>1. Len(d) \in Nat /\ Len(q) \in Nat /\ \A i \in 1 .. Len(q) : q[i] \in T
  OBVIOUS
<1>2. ASSUME NEW i \in 1 .. Len(d) + Len(q)
      PROVE  (IF i <= Len(d) THEN d[i].node ELSE q[i - Len(d)]) \in T
  <2>1. CASE i <= Len(d)
    <3>1. i \in 1 .. Len(d)
      BY <1>1, <2>1
    <3> QED BY <2>1, <3>1
  <2>2. CASE ~(i <= Len(d))
    <3>1. i - Len(d) \in 1 .. Len(q)
      BY <1>1, <2>2
    <3> QED BY <1>1, <2>2, <3>1
  <2> QED BY <2>1, <2>2
<1> QED BY <1>1, <1>2 DEF Queued

\* The head of q has moved into the record, which is d2 now, and p is the queue.
MovedOn(q, d, t, p, d2) ==
  /\ Len(d2) = Len(d) + 1 /\ Len(d) < Len(d) + Len(q)
  /\ Len(d) + Len(q) <= Len(d2) + Len(p)
  /\ Len(t) + Len(d2) = Len(d) + Len(q)
  /\ Queued(q, d)[Len(d) + 1] = Head(q)
  /\ \A i \in 1 .. Len(d) + Len(q) : Queued(p, d2)[i] = Queued(q, d)[i]

\* When the head of the queue runs, the list stays as it is or grows at its end.
LEMMA QueuedNext ==
  ASSUME NEW T, NEW q \in Seq(T), q # <<>>, NEW E, NEW d \in Seq(E), NEW e \in E,
         e.node = Head(q), NEW d2, d2 = Append(d, e), NEW p \in Seq(T),
         NEW t, t = Tail(q), Len(t) <= Len(p), \A k \in 1 .. Len(t) : p[k] = t[k]
  PROVE  MovedOn(q, d, t, p, d2)
<1> PICK a, b, u : a = Len(d) /\ b = Len(q) /\ u = Len(p)
  OBVIOUS
<1>1. /\ a \in Nat /\ b \in Nat /\ u \in Nat /\ b >= 1 /\ Len(d2) = a + 1 /\ Len(t) = b - 1
      /\ d2[a + 1] = e /\ \A i \in 1 .. a : d2[i] = d[i]
      /\ Head(q) = q[1] /\ \A k \in 1 .. b - 1 : t[k] = q[k + 1]
  BY ONLY q \in Seq(T), q # <<>>, d \in Seq(E), e \in E, d2 = Append(d, e), p \in Seq(T), t = Tail(q),
          a = Len(d), b = Len(q), u = Len(p)
<1>2. b - 1 <= u
  BY <1>1
<1>3. a < a + b /\ a + b <= a + 1 + u /\ b - 1 + (a + 1) = a + b
  BY <1>1, <1>2
<1>4. Queued(q, d)[a + 1] = q[1]
  <2>1. a + 1 \in 1 .. a + b /\ ~(a + 1 <= a) /\ a + 1 - a = 1
    BY <1>1
  <2>2. Queued(q, d) = [i \in 1 .. a + b |-> IF i <= a THEN d[i].node ELSE q[i - a]]
    BY DEF Queued
  <2> QED BY <2>1, <2>2
<1>5. ASSUME NEW i \in 1 .. a + b PROVE Queued(p, d2)[i] = Queued(q, d)[i]
  <2>1. i \in 1 .. a + 1 + u
    BY <1>1, <1>2
  <2>2. Queued(q, d)[i] = IF i <= a THEN d[i].node ELSE q[i - a]
    BY DEF Queued
  <2>3. Queued(p, d2)[i] = IF i <= a + 1 THEN d2[i].node ELSE p[i - (a + 1)]
    BY <1>1, <2>1 DEF Queued
  <2>4. CASE i <= a
    <3>1. i \in 1 .. a /\ i <= a + 1
      BY <1>1, <2>4
    <3> QED BY <1>1, <2>2, <2>3, <3>1
  <2>5. CASE i = a + 1
    <3>1. ~(i <= a) /\ i <= a + 1 /\ i - a = 1
      BY <1>1, <2>5
    <3> QED BY <1>1, <2>2, <2>3, <2>5, <3>1
  <2>6. CASE i > a + 1
    <3>1. /\ ~(i <= a) /\ ~(i <= a + 1) /\ i - (a + 1) \in 1 .. b - 1
          /\ (i - (a + 1)) + 1 = i - a
      BY <1>1, <2>6
    <3>2. p[i - (a + 1)] = t[i - (a + 1)]
      BY <1>1, <3>1
    <3>3. t[i - (a + 1)] = q[i - a]
      BY <1>1, <3>1
    <3> QED BY <2>2, <2>3, <3>1, <3>2, <3>3
  <2> QED BY <1>1, <2>4, <2>5, <2>6
<1> QED BY <1>1, <1>3, <1>4, <1>5 DEF MovedOn

\* A queued node of the loop's next round is put at the end of the list.
LEMMA QueuedMore ==
  ASSUME NEW T, NEW q \in Seq(T), NEW E, NEW d \in Seq(E), NEW x \in T,
         \A i \in 1 .. Len(d) : d[i].node \in T
  PROVE  /\ Len(d) + Len(Append(q, x)) = Len(d) + Len(q) + 1
         /\ Queued(Append(q, x), d) \in [1 .. Len(d) + Len(q) + 1 -> T]
         /\ Queued(Append(q, x), d)[Len(d) + Len(q) + 1] = x
         /\ \A i \in 1 .. Len(d) + Len(q) : Queued(Append(q, x), d)[i] = Queued(q, d)[i]
<1> PICK a, b, p : a = Len(d) /\ b = Len(q) /\ p = Append(q, x)
  OBVIOUS
<1>1. /\ a \in Nat /\ b \in Nat /\ p \in Seq(T) /\ Len(p) = b + 1 /\ p[b + 1] = x
      /\ \A k \in 1 .. b : p[k] = q[k]
  BY ONLY q \in Seq(T), d \in Seq(E), x \in T, a = Len(d), b = Len(q), p = Append(q, x)
<1>2. a + Len(p) = a + b + 1 /\ a + (b + 1) = a + b + 1
  BY <1>1
<1>3. Queued(p, d) \in [1 .. a + b + 1 -> T]
  BY <1>1, <1>2, QueuedType
<1>4. \A i \in 1 .. a + b + 1 : Queued(p, d)[i] = IF i <= a THEN d[i].node ELSE p[i - a]
  BY <1>2 DEF Queued
<1>5. Queued(p, d)[a + b + 1] = x
  <2>1. a + b + 1 \in 1 .. a + b + 1 /\ ~(a + b + 1 <= a) /\ a + b + 1 - a = b + 1
    BY <1>1
  <2> QED BY <1>1, <1>4, <2>1
<1>6. ASSUME NEW i \in 1 .. a + b PROVE Queued(p, d)[i] = Queued(q, d)[i]
  <2>1. i \in 1 .. a + b + 1
    BY <1>1
  <2>2. Queued(q, d)[i] = IF i <= a THEN d[i].node ELSE q[i - a]
    BY DEF Queued
  <2>3. ~(i <= a) => i - a \in 1 .. b
    BY <1>1
  <2> QED BY <1>1, <1>4, <2>1, <2>2, <2>3
<1> QED BY <1>2, <1>3, <1>5, <1>6

\* The record d of a run names nodes of its flow only, and so does its queue q; the
\* run is in round J.
InStep(f, l, J, q, d, w) ==
  /\ q \in Seq(f.nodes) /\ d \in Seq(Entries)
  /\ \A i \in 1 .. Len(d) : d[i].node \in f.nodes
  /\ RunInRounds(f, l, J, q, d, w)

\* One turn of the engine keeps the rounds of the run.
LEMMA RoundsOnward ==
  ASSUME NEW f \in Flows, OnCanvas(f), WellFormed(f), NEW l \in f.nodes, NEW J,
         NEW q, q # <<>>, NEW c, c = Head(q), NEW d,
         NEW w \in [AllNodes -> SUBSET AllNodes], InStep(f, l, J, q, d, w),
         NEW d2, d2 = Append(d, Entry(c, "FINISHED")),
         NEW ignored, \A ign \in [f.nodes -> SUBSET f.nodes] : MayHoldBack(f, c, ign, ignored),
         NEW fan, fan = ProcessChildren(f, c, ignored, Tail(q), w)
  PROVE  InStep(f, l, J, fan.queue, d2, fan.waiting)
<1>0. /\ q \in Seq(f.nodes) /\ d \in Seq(Entries)
      /\ \A i \in 1 .. Len(d) : d[i].node \in f.nodes
      /\ RunInRounds(f, l, J, q, d, w)
  BY DEF InStep
<1> PICK e, E : e = Entry(c, "FINISHED") /\ E = Entries
  OBVIOUS
<1> PICK t, p, w2 : t = Tail(q) /\ p = fan.queue /\ w2 = fan.waiting
  OBVIOUS
<1>1. c \in f.nodes /\ e \in E /\ e.node = c /\ d \in Seq(E) /\ d2 = Append(d, e)
  BY <1>0, FlowLen DEF Entries, Entry, NodeStates
<1>2. t \in Seq(f.nodes) /\ t \in Seq(AllNodes) /\ p \in Seq(f.nodes)
  <2>1. t \in Seq(f.nodes)
    BY <1>0
  <2> QED BY <1>1, <2>1, FlowLen, FanNodes
<1>3. d2 \in Seq(E) /\ \A i \in 1 .. Len(d2) : d2[i].node \in f.nodes
  <2>1. /\ d2 \in Seq(E) /\ Len(d) \in Nat /\ Len(d2) = Len(d) + 1
        /\ d2[Len(d2)] = e /\ \A i \in 1 .. Len(d) : d2[i] = d[i]
    BY ONLY <1>1
  <2>2. \A i \in 1 .. Len(d2) : i = Len(d2) \/ i \in 1 .. Len(d)
    BY <2>1
  <2> QED BY <1>0, <1>1, <2>1, <2>2
<1>4. ASSUME NEW m \in f.nodes
      PROVE  \E b \in BOOLEAN :
               /\ b <=> Starts(f, c, ignored, w, m)
               /\ Grew(t, p, m, b)
               /\ w2[m] = IF b THEN {}
                          ELSE IF Sent(f, c, ignored, m) THEN w[m] \cup {c} ELSE w[m]
  <2>1. OneEdge(f, c, m)
    BY DrawnOnce
  <2>2. FannedOut(f, c, m, ignored, t, w, fan)
    BY <1>1, <1>2, <2>1, FanForChild
  <2> QED BY <2>2 DEF FannedOut
<1>5. Len(t) <= Len(p) /\ \A k \in 1 .. Len(t) : p[k] = t[k]
  BY <1>1, <1>4 DEF Grew
<1> PICK h, N, a, h2, N2 : /\ h = Queued(q, d) /\ N = Len(d) + Len(q) /\ a = Len(d)
                           /\ h2 = Queued(p, d2) /\ N2 = Len(d2) + Len(p)
  OBVIOUS
<1>6. /\ Len(d2) = a + 1 /\ a < N /\ N <= N2 /\ Len(t) + (a + 1) = N
      /\ h[a + 1] = c /\ \A i \in 1 .. N : h2[i] = h[i]
  <2>1. MovedOn(q, d, t, p, d2)
    <3>1. e.node = Head(q)
      BY <1>1
    <3> QED BY ONLY <1>0, q # <<>>, t = Tail(q), <1>1, <1>2, <1>5, <3>1, QueuedNext
  <2> PICK g, g2, u, v, x, y : /\ g = Queued(q, d) /\ g2 = Queued(p, d2) /\ u = Len(d) /\ v = Len(q)
                               /\ x = Len(d2) /\ y = Len(p)
    OBVIOUS
  <2>2. /\ x = u + 1 /\ u < u + v /\ u + v <= x + y /\ Len(t) + x = u + v
        /\ g[u + 1] = c /\ \A i \in 1 .. u + v : g2[i] = g[i]
    BY <2>1 DEF MovedOn
  <2>3. h = g /\ N = u + v /\ a = u /\ h2 = g2 /\ N2 = x + y
    OBVIOUS
  <2> QED BY ONLY <2>2, <2>3, x = Len(d2)
<1>7. /\ a \in Nat /\ Len(q) \in Nat /\ Len(p) \in Nat /\ Len(t) \in Nat
      /\ h2 \in [1 .. N2 -> f.nodes] /\ N \in Nat /\ N2 \in Nat
  <2>1. a \in Nat /\ Len(q) \in Nat /\ Len(p) \in Nat /\ Len(t) \in Nat
    BY <1>0, <1>1, <1>2
  <2>2. h2 \in [1 .. N2 -> f.nodes]
    BY <1>2, <1>3, QueuedType
  <2>3. N \in Nat /\ N2 \in Nat
    <3>1. N2 = (a + 1) + Len(p) /\ N = Len(t) + (a + 1)
      BY <1>6
    <3> QED BY ONLY <2>1, <3>1
  <2> QED BY <2>1, <2>2, <2>3
<1>8. ASSUME NEW i \in N + 1 .. N2
      PROVE  i - (a + 1) \in Len(t) + 1 .. Len(p) /\ h2[i] = p[i - (a + 1)]
  <2>1. /\ i - (a + 1) \in Len(t) + 1 .. Len(p)
        /\ i \in 1 .. N2 /\ ~(i <= a + 1)
    <3>1. N2 = (a + 1) + Len(p) /\ N = Len(t) + (a + 1)
      BY <1>6
    <3> PICK u, v : u = Len(t) /\ v = Len(p)
      OBVIOUS
    <3>2. /\ i - (a + 1) \in u + 1 .. v
          /\ i \in 1 .. N2 /\ ~(i <= a + 1)
      BY ONLY i \in N + 1 .. N2, <1>7, <3>1, u = Len(t), v = Len(p)
    <3> QED BY <3>2
  <2> QED BY <1>6, <2>1 DEF Queued
<1>9. ASSUME NEW m \in f.nodes PROVE Answered(f, c, ignored, m, h2, N, N2, w, w2)
  <2>1. PICK b \in BOOLEAN :
          /\ b <=> Starts(f, c, ignored, w, m)
          /\ Grew(t, p, m, b)
          /\ w2[m] = IF b THEN {}
                     ELSE IF Sent(f, c, ignored, m) THEN w[m] \cup {c} ELSE w[m]
    BY <1>4
  <2>2. CASE b
    <3>1. PICK j \in Len(t) + 1 .. Len(p) : \A k \in Len(t) + 1 .. Len(p) : p[k] = m <=> k = j
      BY <2>1, <2>2 DEF Grew
    <3>2. j + (a + 1) \in N + 1 .. N2
      <4>1. N2 = (a + 1) + Len(p) /\ N = Len(t) + (a + 1)
        BY <1>6
      <4> QED BY ONLY j \in Len(t) + 1 .. Len(p), <1>7, <4>1
    <3>3. ASSUME NEW i \in N + 1 .. N2 PROVE h2[i] = m <=> i = j + (a + 1)
      <4>1. h2[i] = m <=> i - (a + 1) = j
        BY <1>8, <3>1, ZenonT(30)
      <4>2. i - (a + 1) = j <=> i = j + (a + 1)
        BY <1>7
      <4> QED BY <4>1, <4>2
    <3> QED BY <2>1, <2>2, <3>2, <3>3 DEF Answered
  <2>3. CASE ~b
    <3>1. \A k \in Len(t) + 1 .. Len(p) : p[k] # m
      BY <2>1, <2>3 DEF Grew
    <3>2. ASSUME NEW i \in N + 1 .. N2 PROVE h2[i] # m
      BY <1>8, <3>1, ZenonT(30)
    <3> QED BY <2>1, <2>3, <3>2 DEF Answered
  <2> QED BY <2>2, <2>3
<1>10. PICK tag, ign : Numbered(f, l, J, h, N, a, w, tag, ign)
  BY <1>0 DEF RunInRounds, InRounds
<1>11. \A k \in 0 .. J : MayHoldBack(f, c, ign[k], ignored)
  BY <1>10 DEF Numbered, Round, Held
<1>12. InRounds(f, l, J, h2, N2, a + 1, w2)
  <2>1. /\ a < N /\ c = h[a + 1] /\ N <= N2
        /\ \A i \in 1 .. N : h2[i] = h[i] 
    BY <1>6
  <2> QED BY ONLY f \in Flows, OnCanvas(f), WellFormed(f), l \in f.nodes,
                  <2>1, <1>7, <1>9, <1>10, <1>11, RoundsTurn
<1>13. RunInRounds(f, l, J, p, d2, w2)
  BY <1>6, <1>12 DEF RunInRounds
<1> QED BY <1>2, <1>3, <1>13 DEF InStep

\* ... and so does the jump of its Loop node, into the next round.
LEMMA RoundsBack ==
  ASSUME NEW f \in Flows, NEW l \in f.nodes, NEW J, NEW q, NEW d, NEW w, InStep(f, l, J, q, d, w)
  PROVE  InStep(f, l, J + 1, Append(q, l), d, w)
<1>0. /\ q \in Seq(f.nodes) /\ d \in Seq(Entries)
      /\ \A i \in 1 .. Len(d) : d[i].node \in f.nodes
  BY DEF InStep
<1> PICK h2, N : h2 = Queued(Append(q, l), d) /\ N = Len(d) + Len(q)
  OBVIOUS
<1>1. /\ Len(d) + Len(Append(q, l)) = N + 1
      /\ h2 \in [1 .. N + 1 -> f.nodes] /\ h2[N + 1] = l
      /\ \A i \in 1 .. N : h2[i] = Queued(q, d)[i]
  BY <1>0, QueuedMore
<1>2. InRounds(f, l, J, Queued(q, d), N, Len(d), w)
  BY DEF InStep, RunInRounds
<1>3. InRounds(f, l, J + 1, h2, N + 1, Len(d), w)
  BY <1>1, <1>2, RoundsJump
<1>4. RunInRounds(f, l, J + 1, Append(q, l), d, w)
  BY <1>1, <1>3 DEF RunInRounds
<1>5. Append(q, l) \in Seq(f.nodes)
  BY ONLY <1>0, l \in f.nodes
<1> QED BY <1>0, <1>4, <1>5 DEF InStep

\* How often a node can be in the record of a run, and in the one a pause or a
\* failure of the next node leaves.
LEMMA RunsInRounds ==
  ASSUME NEW f \in Flows, NEW l, NEW J, NEW q, NEW d, NEW w, InStep(f, l, J, q, d, w), NEW n
  PROVE  /\ J + 1 \in Nat /\ Runs(d, n) <= J + 1
         /\ \A s \in NodeStates : q # <<>> => Runs(Append(d, Entry(Head(q), s)), n) <= J + 1
<1>0. /\ q \in Seq(f.nodes) /\ d \in Seq(Entries)
      /\ \A i \in 1 .. Len(d) : d[i].node \in f.nodes
      /\ RunInRounds(f, l, J, q, d, w)
  BY DEF InStep
<1> PICK h, N, a : h = Queued(q, d) /\ N = Len(d) + Len(q) /\ a = Len(d)
  OBVIOUS
<1>1. a \in Nat /\ Len(q) \in Nat /\ N \in Nat /\ a <= N
  <2>1. a \in Nat /\ Len(q) \in Nat
    BY <1>0
  <2> QED BY <2>1
<1>2. \A i \in 1 .. N : h[i] = IF i <= a THEN d[i].node ELSE q[i - a]
  BY DEF Queued
<1>3. /\ J + 1 \in Nat
      /\ \A S \in SUBSET Places(h, N, n) : Cardinality(S) <= J + 1
  <2>1. InRounds(f, l, J, h, N, a, w)
    BY <1>0 DEF RunInRounds
  <2> QED BY <2>1, RoundsBound
<1>4. Runs(d, n) <= J + 1
  <2>1. {i \in 1 .. a : d[i].node = n} \in SUBSET Places(h, N, n)
    BY <1>1, <1>2 DEF Places
  <2> QED BY <1>3, <2>1 DEF Runs
<1>5. ASSUME NEW s \in NodeStates, q # <<>>
      PROVE  Runs(Append(d, Entry(Head(q), s)), n) <= J + 1
  <2> PICK e, E : e = Entry(Head(q), s) /\ E = Entries
    OBVIOUS
  <2> PICK d2 : d2 = Append(d, e)
    OBVIOUS
  <2>1. Head(q) \in f.nodes /\ Head(q) = q[1] /\ Len(q) >= 1
    BY <1>0, <1>5
  <2>2. e \in E /\ e.node = q[1] /\ d \in Seq(E)
    BY <1>0, <2>1, FlowLen DEF Entries, Entry
  <2>3. Len(d2) = a + 1 /\ d2[a + 1] = e /\ \A i \in 1 .. a : d2[i] = d[i]
    BY ONLY <2>2, a = Len(d), d2 = Append(d, e)
  <2>4. ASSUME NEW i \in 1 .. a + 1 PROVE i \in 1 .. N /\ h[i] = d2[i].node
    <3>1. i \in 1 .. N
      BY <1>1, <2>1
    <3>2. CASE i = a + 1
      <4>1. ~(i <= a) /\ i - a = 1
        BY <1>1, <3>2
      <4> QED BY <1>2, <2>2, <2>3, <3>1, <3>2, <4>1
    <3>3. CASE i # a + 1
      <4>1. i <= a /\ i \in 1 .. a
        BY <1>1, <3>3
      <4> QED BY <1>2, <2>3, <3>1, <4>1
    <3> QED BY <3>2, <3>3
  <2>5. {i \in 1 .. a + 1 : d2[i].node = n} \in SUBSET Places(h, N, n)
    BY <2>4 DEF Places
  <2>6. Runs(d2, n) <= J + 1
    BY <1>3, <2>3, <2>5 DEF Runs
  <2> QED BY <2>6
<1> QED BY <1>3, <1>4, <1>5

\* A run begins in round 0.
LEMMA RoundsBegin ==
  ASSUME NEW f \in Flows, NEW l \in f.nodes, Cardinality(StartNodes(f)) <= 1,
         NEW q, q = IF StartNodes(f) = {} THEN <<>> ELSE <<CHOOSE n \in StartNodes(f) : TRUE>>
  PROVE  InStep(f, l, 0, q, <<>>, NothingWaits)
<1>1. StartNodes(f) \in SUBSET f.nodes /\ IsFiniteSet(StartNodes(f))
  BY NodesFinite, FS_Subset DEF StartNodes
<1>2. Cardinality(StartNodes(f)) \in Nat
  BY <1>1, FS_CardinalityType
<1>3. /\ q \in Seq(f.nodes) /\ Len(q) \in 0 .. 1
      /\ \A i \in 1 .. Len(q) : Sources(f, q[i]) = {}
  <2>1. CASE StartNodes(f) = {}
    <3>1. q = <<>>
      BY <2>1
    <3>2. q \in Seq(f.nodes) /\ Len(q) = 0
      BY ONLY <3>1
    <3>3. 1 .. 0 = {} /\ 0 \in 0 .. 1
      OBVIOUS
    <3>4. 1 .. Len(q) = {} /\ Len(q) \in 0 .. 1
      BY ONLY <3>2, <3>3
    <3> QED BY ONLY <3>2, <3>4
  <2>2. CASE StartNodes(f) # {}
    <3>1. Cardinality(StartNodes(f)) = 1
      BY <1>1, <1>2, <2>2, FS_EmptySet
    <3>2. PICK s : StartNodes(f) = {s}
      BY <1>1, <3>1, FS_Singleton
    <3>3. q = <<s>> /\ s \in f.nodes
      BY <1>1, <2>2, <3>2
    <3>4. 1 .. Len(q) = {1} /\ q[1] = s /\ q \in Seq(f.nodes)
      BY <3>3, Singleton
    <3>5. Len(q) = 1 /\ 1 \in 0 .. 1
      BY ONLY <3>3
    <3>6. Sources(f, s) = {}
      BY <3>2 DEF StartNodes
    <3>7. Len(q) \in 0 .. 1 /\ \A i \in 1 .. Len(q) : Sources(f, q[i]) = {}
      BY ONLY <3>4, <3>5, <3>6
    <3> QED BY ONLY <3>4, <3>7
  <2> QED BY ONLY <2>1, <2>2
<1>4. <<>> \in Seq(f.nodes) /\ Len(<<>>) = 0 /\ 1 .. 0 = {} /\ 0 + Len(q) = Len(q)
  BY <1>3
<1> PICK h : h = Queued(q, <<>>)
  OBVIOUS
<1>5. h \in [1 .. Len(q) -> f.nodes]
  <2> PICK d : d = <<>>
    OBVIOUS
  <2>1. d \in Seq(f.nodes) /\ Len(d) = 0 /\ \A i \in 1 .. Len(d) : d[i].node \in f.nodes
    BY <1>4
  <2>2. Queued(q, d) \in [1 .. Len(d) + Len(q) -> f.nodes]
    BY ONLY <1>3, <2>1, QueuedType
  <2> QED BY <1>4, <2>1, <2>2
<1>6. ASSUME NEW i \in 1 .. Len(q) PROVE h[i] = q[i]
  <2>1. ~(i <= 0) /\ i - 0 = i
    OBVIOUS
  <2> QED BY <1>4, <2>1 DEF Queued
<1>7. \A m \in f.nodes : NothingWaits[m] = {}
  BY FlowLen DEF NothingWaits
<1>8. InRounds(f, l, 0, h, Len(q), 0, NothingWaits)
  BY <1>3, <1>5, <1>6, <1>7, RoundsStart
<1>9. RunInRounds(f, l, 0, q, <<>>, NothingWaits)
  BY <1>4, <1>8 DEF RunInRounds
<1>10. <<>> \in Seq(Entries) /\ \A i \in 1 .. Len(<<>>) : <<>>[i].node \in f.nodes
  OBVIOUS
<1> QED BY <1>3, <1>9, <1>10 DEF InStep

-----------------------------------------------------------------------------
(***************************************************************************)
(* The invariant: a run that began with a start node is in the round that   *)
(* its loop count says.                                                     *)
(***************************************************************************)

\* What LoopIsBounded is about: a run of a drawn flow with the single Loop node n.
Circling(x, n) ==
  /\ OnCanvas(x.flow) /\ WellFormed(x.flow) /\ ~x.resumed
  /\ n \in x.flow.nodes /\ Loops(x.flow) = {n}

Rounded(x, n) ==
  /\ x.loops[n] < MaxLoop(x.flow, n)
  /\ InStep(x.flow, x.flow.loopTo[n], x.loops[n], x.queue, x.data, x.waiting)

Looped(x, label) ==
  \A n : Circling(x, n) =>
    /\ Runs(x.data, n) <= MaxLoop(x.flow, n)
    /\ label = "running" => Rounded(x, n)

LoopInv == \A r \in Requests : Looped(run[r], pc[r])

\* What the engine reads off a Loop node.
LEMMA LoopFields ==
  ASSUME NEW f \in Flows, NEW n \in f.nodes
  PROVE  f.loopTo[n] \in f.nodes /\ MaxLoop(f, n) \in Nat /\ MaxLoop(f, n) >= 1
<1>1. f.loopTo \in [f.nodes -> f.nodes] /\ f.maxLoop \in [f.nodes -> Nat]
  BY FlowsAssumption DEF IsFlow
<1>2. f.loopTo[n] \in f.nodes /\ f.maxLoop[n] \in Nat
  BY <1>1
<1> QED BY <1>2 DEF MaxLoop, DefaultMaxLoop

\* The frame of the steps of one request.
LEMMA LoopOfOne ==
  ASSUME LoopInv, NEW r \in Requests, Looped(run'[r], pc'[r]),
         \A o \in Requests \ {r} : pc'[o] = pc[o] /\ run'[o] = run[o]
  PROVE  LoopInv'
BY DEF LoopInv

\* A run in the loop, before a turn.
LEMMA LoopBefore ==
  ASSUME TypeInv, AnswerInv, RoutingInv, LoopInv, NEW r \in Requests, Turn(r),
         NEW n, Circling(run[r], n)
  PROVE  /\ Current(r) \in run[r].flow.nodes
         /\ run[r].human = NoInput /\ DataBefore(r) = run[r].data
         /\ Rounded(run[r], n) /\ run[r].loops[n] \in Nat
         /\ n \in AllNodes
<1>1. TypeOK /\ run[r].flow \in Flows
  BY RunFields DEF TypeInv
<1>2. Tracked(run[r])
  BY DEF Tracked, Circling
<1>3. /\ Ongoing(run[r].flow, run[r].queue, DataBefore(r), run[r].waiting, ~run[r].resumed)
      /\ Current(r) \in run[r].flow.nodes
  BY <1>2, BeforeTurn
<1>4. run[r].human = NoInput
  BY PendingConsumes DEF Circling
<1>5. DataBefore(r) = run[r].data
  BY <1>4 DEF DataBefore, Consumes
<1>6. Rounded(run[r], n)
  BY DEF LoopInv, Looped, Turn
<1>7. n \in AllNodes /\ run[r].loops[n] \in Nat
  BY <1>1, FlowLen, RunFields DEF Circling
<1> QED BY <1>3, <1>4, <1>5, <1>6, <1>7

\* A request that starts an execution is in round 0.
LEMMA StartLoop ==
  ASSUME TypeInv, LoopInv, NEW r \in Requests, Start(r)
  PROVE  LoopInv'
<1>1. TypeOK /\ deployed \in Flows
  BY DEF TypeInv, TypeOK
<1> PICK queue : queue = IF StartNodes(deployed) = {} THEN <<>>
                         ELSE <<CHOOSE n \in StartNodes(deployed) : TRUE>>
  OBVIOUS
<1>2. /\ run'[r].flow = deployed /\ run'[r].data = <<>> /\ run'[r].queue = queue
      /\ run'[r].waiting = NothingWaits /\ run'[r].loops = [n \in AllNodes |-> 0]
      /\ \A o \in Requests \ {r} : pc'[o] = pc[o] /\ run'[o] = run[o]
  <2>1. run' = [run EXCEPT ![r] =
                  [FreshRun(deployed) EXCEPT !.exec = Len(execs) + 1, !.queue = queue]]
    BY DEF Start
  <2>2. pc' = [pc EXCEPT ![r] = "running"]
    BY DEF Start, Goto
  <2> QED BY <1>1, <2>1, <2>2 DEF TypeOK, FreshRun, NothingWaits
<1>3. ASSUME NEW n, Circling(run'[r], n)
      PROVE  /\ Runs(run'[r].data, n) <= MaxLoop(run'[r].flow, n)
             /\ Rounded(run'[r], n)
  <2>1. n \in deployed.nodes /\ n \in AllNodes
    BY <1>1, <1>2, <1>3, FlowLen DEF Circling
  <2>2. deployed.loopTo[n] \in deployed.nodes /\ MaxLoop(deployed, n) \in Nat
        /\ MaxLoop(deployed, n) >= 1
    BY <1>1, <2>1, LoopFields
  <2>3. run'[r].loops[n] = 0 /\ 0 < MaxLoop(deployed, n)
    BY <1>2, <2>1, <2>2
  <2>4. InStep(deployed, deployed.loopTo[n], 0, queue, <<>>, NothingWaits)
    BY <1>1, <2>2, RoundsBegin DEF Start
  <2>5. Runs(<<>>, n) <= MaxLoop(deployed, n)
    <3>1. {i \in 1 .. Len(<<>>) : <<>>[i].node = n} = {}
      OBVIOUS
    <3>2. Runs(<<>>, n) = 0
      BY <3>1, FS_EmptySet DEF Runs
    <3> QED BY <2>2, <3>2
  <2> QED BY <1>2, <2>3, <2>4, <2>5 DEF Rounded
<1>4. Looped(run'[r], pc'[r])
  BY <1>3 DEF Looped
<1> QED BY <1>2, <1>4, LoopOfOne

\* A node that pauses, fails or is aborted is the last one of the record.
LEMMA StopLoop ==
  ASSUME TypeInv, AnswerInv, RoutingInv, LoopInv, NEW r \in Requests, Turn(r),
         NEW s \in NodeStates, NEW d \in {DataBefore(r), run[r].data},
         run'[r].data = Append(d, Entry(Current(r), s)),
         run'[r].flow = run[r].flow, run'[r].resumed = run[r].resumed,
         \A o \in Requests \ {r} : pc'[o] = pc[o] /\ run'[o] = run[o],
         pc'[r] # "running"
  PROVE  LoopInv'
<1>1. ASSUME NEW n, Circling(run'[r], n)
      PROVE  Runs(run'[r].data, n) <= MaxLoop(run'[r].flow, n)
  <2>1. Circling(run[r], n)
    BY <1>1 DEF Circling
  <2> PICK f, J, q, w, M : /\ f = run[r].flow /\ J = run[r].loops[n] /\ q = run[r].queue
                           /\ w = run[r].waiting /\ M = MaxLoop(run[r].flow, n)
    OBVIOUS
  <2>2. /\ q # <<>> /\ d = run[r].data
        /\ J < M /\ InStep(f, f.loopTo[n], J, q, d, w) /\ J \in Nat
    BY <2>1, LoopBefore DEF Rounded, Turn
  <2>3. f \in Flows /\ d \in Seq(Entries) /\ Current(r) = Head(q)
    BY <2>2, RunFields DEF TypeInv, Current
  <2>4. n \in f.nodes /\ M \in Nat
    BY <2>1, <2>3, LoopFields DEF Circling
  <2>5. Runs(Append(d, Entry(Head(q), s)), n) <= J + 1
    BY <2>2, <2>3, RunsInRounds
  <2> PICK R : R = Runs(Append(d, Entry(Head(q), s)), n)
    OBVIOUS
  <2>6. R = Runs(run'[r].data, n) /\ run'[r].flow = f
    BY <2>3
  <2>7. R \in Int
    <3>1. Entry(Head(q), s) \in Entries
      BY <2>3, CurrentType DEF TypeInv, Entry, Entries
    <3> PICK e, E, d2 : e = Entry(Head(q), s) /\ E = Entries /\ d2 = Append(d, e)
      OBVIOUS
    <3>2. d2 \in Seq(E)
      BY ONLY <2>3, <3>1, e = Entry(Head(q), s), E = Entries, d2 = Append(d, e)
    <3>3. R = Runs(d2, n)
      OBVIOUS
    <3> QED BY ONLY <3>2, <3>3, RunsType
  <2>8. R <= M
    BY ONLY <2>2, <2>4, <2>5, <2>7, R = Runs(Append(d, Entry(Head(q), s)), n)
  <2> QED BY <2>6, <2>8
<1>2. Looped(run'[r], pc'[r])
  BY <1>1 DEF Looped
<1> QED BY <1>2, LoopOfOne

\* A node that finishes takes the run one turn on, and a Loop node that jumps
\* back opens the round its count then says.
LEMMA FinishLoop ==
  ASSUME TypeInv, AnswerInv, RoutingInv, LoopInv, NEW r \in Requests, FinishNode(r)
  PROVE  LoopInv'
<1>1. TypeOK /\ Turn(r) /\ run[r].flow \in Flows /\ run[r] \in Run
  BY RunFields DEF TypeInv, FinishNode, Executes
<1>2. PICK fulfilled \in Fulfilled(run[r].flow, Current(r), run[r].human) :
             run' = [run EXCEPT ![r] = AfterFinish(r, fulfilled)]
  BY DEF FinishNode
<1> PICK f, q, d, w, c :
       /\ f = run[r].flow /\ q = run[r].queue /\ d = DataBefore(r) /\ w = run[r].waiting
       /\ c = Current(r)
  OBVIOUS
<1> PICK ignored :
       ignored = IF ReportsConditions(r) THEN DetermineNodesToIgnore(f, c, fulfilled) ELSE {}
  OBVIOUS
<1> PICK fan : fan = ProcessChildren(f, c, ignored, Tail(q), w)
  OBVIOUS
<1> PICK d2, q2, loops :
       /\ d2 = Append(d, Entry(c, "FINISHED")) /\ loops = LoopCounts(r)
       /\ q2 = (IF LoopsBack(r) THEN Append(fan.queue, f.loopTo[c]) ELSE fan.queue)
  OBVIOUS
<1>3. /\ run'[r].flow = f /\ run'[r].resumed = run[r].resumed
      /\ run'[r].data = d2 /\ run'[r].queue = q2 /\ run'[r].waiting = fan.waiting
      /\ run'[r].loops = loops
      /\ \A o \in Requests \ {r} : pc'[o] = pc[o] /\ run'[o] = run[o]
  <2>1. /\ run'[r] = AfterFinish(r, fulfilled)
        /\ \A o \in Requests \ {r} : pc'[o] = pc[o] /\ run'[o] = run[o]
    BY <1>1, <1>2 DEF TypeOK, FinishNode
  <2> PICK h, i, w2 : h = AnswerLeft(r) /\ i = run[r].iters + 1 /\ w2 = fan.waiting
    OBVIOUS
  <2>2. AfterFinish(r, fulfilled) =
          [run[r] EXCEPT !.data = d2, !.human = h, !.queue = q2, !.waiting = w2,
                         !.loops = loops, !.iters = i]
    BY DEF AfterFinish
  <2> QED BY <1>1, <2>1, <2>2, SMTT(30) DEF Run
<1>4. ASSUME NEW n, Circling(run'[r], n)
      PROVE  /\ Runs(run'[r].data, n) <= MaxLoop(run'[r].flow, n)
             /\ Rounded(run'[r], n)
  <2>1. Circling(run[r], n)
    BY <1>3, <1>4 DEF Circling
  <2> PICK J, l, M : J = run[r].loops[n] /\ l = f.loopTo[n] /\ M = MaxLoop(f, n)
    OBVIOUS
  <2>2. /\ q # <<>> /\ d = run[r].data /\ c \in f.nodes
        /\ J < M /\ InStep(f, l, J, q, d, w) /\ J \in Nat
        /\ run[r].human = NoInput /\ n \in AllNodes
    BY <1>1, <2>1, LoopBefore DEF Rounded, Turn
  <2>3. /\ f \in Flows /\ d \in Seq(Entries) /\ c = Head(q) /\ w \in [AllNodes -> SUBSET AllNodes]
        /\ OnCanvas(f) /\ WellFormed(f) /\ n \in f.nodes /\ Loops(f) = {n}
    BY <1>1, <2>1, <2>2, RunFields DEF Current, Circling
  <2>4. l \in f.nodes /\ M \in Nat
    BY <2>3, LoopFields
  <2>5. ASSUME NEW ign \in [f.nodes -> SUBSET f.nodes] PROVE MayHoldBack(f, c, ign, ignored)
    <3>1. CASE ReportsConditions(r)
      BY <1>1, <1>2, <2>2, <3>1, FinishHoldsBack
    <3>2. CASE ~ReportsConditions(r)
      <4>1. ignored = {}
        BY <3>2
      <4>2. ~Decision(f, c)
        BY <2>2, <3>2 DEF ReportsConditions, Decision, FinishNode
      <4> QED BY <4>1, <4>2 DEF MayHoldBack
    <3> QED BY <3>1, <3>2
  <2>6. InStep(f, l, J, fan.queue, d2, fan.waiting)
    BY ONLY <2>2, <2>3, <2>4, <2>5, d2 = Append(d, Entry(c, "FINISHED")),
            fan = ProcessChildren(f, c, ignored, Tail(q), w), RoundsOnward
  <2>7. PICK K \in Nat : K = loops[n] /\ K < M /\ InStep(f, l, K, q2, d2, fan.waiting)
    <3>1. CASE LoopsBack(r)
      <4>1. f.kind[c] = "loop" /\ run[r].loops[c] + 1 < MaxLoop(f, c)
        BY <3>1 DEF LoopsBack
      <4>2. c = n
        BY <2>2, <2>3, <4>1 DEF Loops
      <4>3. q2 = Append(fan.queue, l) /\ J + 1 < M
        BY <3>1, <4>1, <4>2
      <4>4. loops[n] = J + 1
        <5>1. run[r].loops \in [AllNodes -> Nat]
          BY <1>1 DEF Run
        <5>2. loops = [run[r].loops EXCEPT ![n] = @ + 1]
          BY <3>1, <4>2 DEF LoopCounts
        <5> QED BY <2>2, <5>1, <5>2
      <4>5. InStep(f, l, J + 1, q2, d2, fan.waiting)
        <5> PICK p, w2, p2 : p = fan.queue /\ w2 = fan.waiting /\ p2 = Append(p, l)
          OBVIOUS
        <5>1. InStep(f, l, J, p, d2, w2)
          BY <2>6
        <5>2. InStep(f, l, J + 1, p2, d2, w2)
          BY ONLY <2>3, <2>4, <5>1, p2 = Append(p, l), RoundsBack
        <5> QED BY <4>3, <5>2
      <4>6. J + 1 \in Nat
        BY <2>2
      <4> QED BY <4>3, <4>4, <4>5, <4>6
    <3>2. CASE ~LoopsBack(r)
      BY <2>2, <2>6, <3>2 DEF LoopCounts
    <3> QED BY <3>1, <3>2
  <2>8. K + 1 \in Nat /\ Runs(d2, n) <= K + 1
    BY ONLY <2>3, <2>6, <2>7, RunsInRounds
  <2>9. Runs(d2, n) \in Nat
    BY <2>6, RunsType DEF InStep
  <2> PICK R : R = Runs(d2, n)
    OBVIOUS
  <2>10. R <= M
    BY ONLY <2>4, <2>7, <2>8, <2>9, R = Runs(d2, n)
  <2> QED BY <1>3, <2>7, <2>10 DEF Rounded
<1>5. Looped(run'[r], pc'[r])
  BY <1>4 DEF Looped
<1> QED BY <1>3, <1>5, LoopOfOne

\* Steps that leave the memory of the request alone.
LEMMA QuietLoop ==
  ASSUME TypeInv, RoutingInv, LoopInv, NEW r \in Requests, UNCHANGED run,
         \A o \in Requests \ {r} : pc'[o] = pc[o],
         pc'[r] = "running" => pc[r] \in Claiming \cup {"running"}
  PROVE  LoopInv'
<1>1. Looped(run[r], pc[r]) /\ (pc[r] \in Claiming => run[r].resumed)
  BY DEF LoopInv, RoutingInv, Routed
<1>2. Looped(run'[r], pc'[r])
  BY <1>1 DEF Looped, Circling
<1> QED BY <1>2, LoopOfOne

\* Every step keeps the requests in the round their count says.
LEMMA LoopStep ==
  TypeInv /\ AnswerInv /\ RoutingInv /\ LoopInv /\ [Next]_vars => LoopInv'
<1> SUFFICES ASSUME TypeInv, AnswerInv, RoutingInv, LoopInv, [Next]_vars PROVE LoopInv'
  OBVIOUS
<1>1. TypeOK
  BY DEF TypeInv
<1>2. ASSUME NEW r \in Requests, Start(r) PROVE LoopInv'
  BY <1>2, StartLoop
<1>3. ASSUME NEW r \in Requests, Resume(r) PROVE LoopInv'
  <2>1. run'[r].resumed /\ \A o \in Requests \ {r} : pc'[o] = pc[o] /\ run'[o] = run[o]
    BY <1>1, <1>3 DEF Resume, Goto, TypeOK, FreshRun
  <2>2. Looped(run'[r], pc'[r])
    BY <2>1 DEF Looped, Circling
  <2> QED BY <2>1, <2>2, LoopOfOne
<1>4. ASSUME NEW r \in Requests,
             \/ RejectStart(r) \/ RejectResume(r) \/ TrimError(r) \/ ClaimRead(r)
             \/ ClaimSave(r) \/ IterationLimit(r) \/ Complete(r) \/ Abort(r) \/ Crash(r)
      PROVE  LoopInv'
  <2>1. UNCHANGED run /\ \A o \in Requests \ {r} : pc'[o] = pc[o]
    BY <1>1, <1>4 DEF RejectStart, RejectResume, TrimError, ClaimRead, ClaimSave,
       IterationLimit, Complete, Abort, Crash, Goto, TypeOK
  <2>2. pc'[r] = "running" => pc[r] \in Claiming \cup {"running"}
    BY <1>1, <1>4 DEF RejectStart, RejectResume, TrimError, ClaimRead, ClaimSave,
       IterationLimit, Complete, Abort, Crash, Goto, TypeOK, Claiming
  <2> QED BY <2>1, <2>2, QuietLoop
<1>5. ASSUME NEW r \in Requests, SkipUnknown(r) PROVE LoopInv'
  <2>1. /\ run'[r].flow = run[r].flow /\ run'[r].resumed = run[r].resumed
        /\ \A o \in Requests \ {r} : pc'[o] = pc[o] /\ run'[o] = run[o]
    BY <1>1, <1>5 DEF SkipUnknown, TypeOK, Run
  <2>2. ASSUME NEW n, Circling(run'[r], n) PROVE FALSE
    <3>1. Tracked(run[r]) /\ Turn(r)
      BY <1>5, <2>1, <2>2 DEF Tracked, Circling, SkipUnknown
    <3> QED BY <1>5, <3>1, BeforeTurn DEF SkipUnknown
  <2>3. Looped(run'[r], pc'[r])
    BY <2>2 DEF Looped
  <2> QED BY <2>1, <2>3, LoopOfOne
<1>6. ASSUME NEW r \in Requests, PauseNode(r) PROVE LoopInv'
  <2> PICK d, h, q, i : /\ d = Append(DataBefore(r), Entry(Current(r), "STOPPED"))
                        /\ h = IF Consumes(r) THEN NoInput ELSE run[r].human
                        /\ q = Tail(run[r].queue) /\ i = run[r].iters + 1
    OBVIOUS
  <2>1. run' = [run EXCEPT ![r] =
                  [run[r] EXCEPT !.data = d, !.human = h, !.queue = q, !.iters = i]]
    BY <1>1, <1>6 DEF PauseNode, TypeOK, Run
  <2>2. pc' = [pc EXCEPT ![r] = "closing"] /\ Turn(r)
    BY <1>6 DEF PauseNode, Goto, Executes
  <2>3. /\ run'[r].data = d /\ run'[r].flow = run[r].flow /\ run'[r].resumed = run[r].resumed
        /\ \A o \in Requests \ {r} : pc'[o] = pc[o] /\ run'[o] = run[o]
        /\ pc'[r] # "running" /\ "STOPPED" \in NodeStates
    BY <1>1, <2>1, <2>2 DEF TypeOK, Run, NodeStates
  <2> QED BY <2>2, <2>3, StopLoop
<1>7. ASSUME NEW r \in Requests, FinishNode(r) PROVE LoopInv'
  BY <1>7, FinishLoop
<1>8. ASSUME NEW r \in Requests, FailNode(r) \/ AbortNode(r) PROVE LoopInv'
  <2>1. PICK s \in {"ERROR", "TERMINATED"} : CatchError(r, s)
    BY <1>8 DEF FailNode, AbortNode
  <2> PICK d, q, i : /\ d = Append(run[r].data, Entry(Current(r), s))
                     /\ q = Tail(run[r].queue) /\ i = run[r].iters + 1
    OBVIOUS
  <2>2. /\ run' = [run EXCEPT ![r] = [run[r] EXCEPT !.data = d, !.queue = q, !.iters = i]]
        /\ pc' = [pc EXCEPT ![r] = "failed"] /\ Turn(r)
    BY <1>1, <1>8, <2>1 DEF CatchError, Goto, TypeOK, Run, FailNode, AbortNode, Executes
  <2>3. /\ run'[r].data = d /\ run'[r].flow = run[r].flow /\ run'[r].resumed = run[r].resumed
        /\ \A o \in Requests \ {r} : pc'[o] = pc[o] /\ run'[o] = run[o]
        /\ pc'[r] # "running" /\ s \in NodeStates
    BY <1>1, <2>2 DEF TypeOK, Run, NodeStates
  <2> QED BY <2>2, <2>3, StopLoop
<1>9. CASE EditFlow
  BY <1>9 DEF EditFlow, LoopInv
<1>10. CASE UNCHANGED vars
  BY <1>10 DEF vars, LoopInv
<1> QED BY <1>2, <1>3, <1>4, <1>5, <1>6, <1>7, <1>8, <1>9, <1>10 DEF Next, Step

\* At first nothing has run.
LEMMA LoopInit == TypeInv /\ Init => LoopInv
<1> SUFFICES ASSUME TypeInv, Init, NEW r \in Requests, NEW n, Circling(run[r], n)
             PROVE  Runs(run[r].data, n) <= MaxLoop(run[r].flow, n) /\ pc[r] # "running"
  BY DEF LoopInv, Looped
<1>1. pc[r] = "idle" /\ run[r].data = <<>>
  BY DEF Init, FreshRun
<1>2. MaxLoop(run[r].flow, n) \in Nat
  BY RunFields, LoopFields DEF TypeInv, Circling
<1>3. Runs(<<>>, n) = 0
  <2>1. {i \in 1 .. Len(<<>>) : <<>>[i].node = n} = {}
    OBVIOUS
  <2> QED BY <2>1, FS_EmptySet DEF Runs
<1> QED BY <1>1, <1>2, <1>3

\* The single Loop node of a drawn, well-formed flow is run at most Max Loop Count
\* times by a request that starts an execution, whatever joins and decisions lie
\* between the loop and the node it jumps to, and whatever pauses, failures,
\* aborts and other requests there are.
THEOREM LoopIsAlwaysBounded == Spec => []LoopIsBounded
<1>1. LoopInv /\ TypeInv => LoopIsBounded
  <2> SUFFICES ASSUME TypeInv, LoopInv, NEW r \in Requests, NEW n \in Loops(run[r].flow),
                      Cardinality(Loops(run[r].flow)) = 1, ~run[r].resumed,
                      OnCanvas(run[r].flow), WellFormed(run[r].flow)
               PROVE  Runs(run[r].data, n) <= MaxLoop(run[r].flow, n)
    BY DEF LoopIsBounded
  <2>1. n \in run[r].flow.nodes /\ run[r].flow \in Flows
    BY RunFields DEF TypeInv, Loops
  <2>2. Loops(run[r].flow) = {n}
    <3>1. IsFiniteSet(Loops(run[r].flow))
      BY <2>1, NodesFinite, FS_Subset DEF Loops
    <3> QED BY <3>1, FS_Singleton
  <2>3. Circling(run[r], n)
    BY <2>1, <2>2 DEF Circling
  <2> QED BY <2>3 DEF LoopInv, Looped
<1>2. Init => TypeInv
  BY TypeInit
<1> QED BY <1>1, <1>2, LoopInit, LoopStep, RoutingInit, AnswerStep, RoutingStep, TypeAlways, PTL DEF Spec
=============================================================================
