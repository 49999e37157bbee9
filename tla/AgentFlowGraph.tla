--------------------------- MODULE AgentFlowGraph ---------------------------
(***************************************************************************)
(* The pure part of the AgentFlow engine                                    *)
(* (packages/server/src/utils/buildAgentflow.ts): what the engine reads off *)
(* the drawn flow while it routes results from node to node.                *)
(*                                                                          *)
(* A flow is a record                                                       *)
(*   nodes    the node ids                                                  *)
(*   kind     the component behind each node (Kinds)                        *)
(*   edges    the drawn edges, in the order in which flowData stores them;  *)
(*            out is the index in the handle "<src>-output-<index>"         *)
(*   outs     how many conditions a decision node reports                   *)
(*   loopTo   the node a Loop node jumps back to                            *)
(*   maxLoop  the "Max Loop Count" of a Loop node, 0 when it does not parse *)
(***************************************************************************)
EXTENDS Integers, Sequences, FiniteSets

CONSTANT NoNode   \* the null of findConditionParent, never a node id

Kinds == {"start", "plain", "condition", "humanInput", "agent", "loop"}

\* MAX_LOOP_COUNT: what a maxLoopCount of 0 falls back to
DefaultMaxLoop == 10

IsFlow(f) ==
  /\ IsFiniteSet(f.nodes) /\ NoNode \notin f.nodes
  /\ f.kind \in [f.nodes -> Kinds]
  /\ f.edges \in Seq([src : f.nodes, out : Nat, tgt : f.nodes])
  /\ f.outs \in [f.nodes -> Nat]
  /\ f.loopTo \in [f.nodes -> f.nodes]
  /\ f.maxLoop \in [f.nodes -> Nat]
  /\ \A n \in f.nodes : f.kind[n] = "humanInput" => f.outs[n] = 2   \* proceed, reject

Decision(f, n) == f.kind[n] \in {"condition", "humanInput"}

EdgeIds(f) == 1 .. Len(f.edges)

\* edges.find(...): the least index in a set of edge indexes
FirstOf(E) == CHOOSE i \in E : \A j \in E : i <= j

Sources(f, n) == {f.edges[i].src : i \in {j \in EdgeIds(f) : f.edges[j].tgt = n}}

\* The nodes of in-degree zero.
StartNodes(f) == {n \in f.nodes : Sources(f, n) = {}}

\* The Start node carries the start input type, without which nothing runs.
HasStart(f) == \E n \in f.nodes : f.kind[n] = "start"

-----------------------------------------------------------------------------
(***************************************************************************)
(* The decision node an input is attributed to: the node itself, else the   *)
(* first one met walking up, at each node along its FIRST incoming edge.    *)
(* A walk that meets no decision node within |nodes| steps is a cycle, the  *)
(* case the visited set of the code ends.                                   *)
(***************************************************************************)
FirstParent(f, n) ==
  LET into == {i \in EdgeIds(f) : f.edges[i].tgt = n}
  IN  IF n = NoNode \/ into = {} THEN NoNode ELSE f.edges[FirstOf(into)].src

FindConditionParent(f, n) ==
  LET up[k \in 0 .. Cardinality(f.nodes)] ==
        IF k = 0 THEN n ELSE FirstParent(f, up[k - 1])
      hits == {k \in 0 .. Cardinality(f.nodes) :
                 up[k] # NoNode /\ Decision(f, up[k])}
  IN  IF hits = {} THEN NoNode ELSE up[FirstOf(hits)]

\* setupNodeDependencies: the inputs a node needs one and all ...
ExpectedInputs(f, n) ==
  {s \in Sources(f, n) : FindConditionParent(f, s) = NoNode}

\* ... and those of which it needs one per decision node.
ConditionalGroups(f, n) ==
  {{s \in Sources(f, n) : FindConditionParent(f, s) = c} :
     c \in {FindConditionParent(f, s) : s \in Sources(f, n)} \ {NoNode}}

\* Mutant: only the conditional inputs are waited for.
HasReceivedOnePerGroup(f, n, received) ==
  \A group \in ConditionalGroups(f, n) : group \cap received # {}

\* Mutant: the first input starts the node.
HasReceivedAny(f, n, received) == received # {}

HasReceivedRequiredInputs(f, n, received) ==
  /\ ExpectedInputs(f, n) \subseteq received
  /\ \A group \in ConditionalGroups(f, n) : group \cap received # {}

\* Mutant: the safety net holds whether or not a condition is fulfilled.
IgnoreButLast(f, n, fulfilled) ==
  {f.edges[i].tgt : i \in {j \in EdgeIds(f) :
     /\ Decision(f, n)
     /\ f.edges[j].src = n
     /\ f.edges[j].out \in (0 .. f.outs[n] - 2) \ fulfilled}}

(***************************************************************************)
(* For each condition that is not fulfilled, the target of the FIRST edge   *)
(* drawn from its handle. fulfilled is the set of fulfilled conditions; a   *)
(* node that reports no conditions (outs = 0) ignores nothing, and when     *)
(* none is fulfilled the last one counts as the else branch.                *)
(***************************************************************************)
DetermineNodesToIgnore(f, n, fulfilled) ==
  LET outs   == 0 .. f.outs[n] - 1
      taken  == IF fulfilled \cap outs = {} THEN {f.outs[n] - 1} ELSE fulfilled
      drawn(o) == {i \in EdgeIds(f) : f.edges[i].src = n /\ f.edges[i].out = o}
  IN  IF ~Decision(f, n) THEN {}
      ELSE {f.edges[FirstOf(drawn(o))].tgt :
              o \in {u \in outs \ taken : drawn(u) # {}}}

-----------------------------------------------------------------------------
(***************************************************************************)
(* processNodeOutputs hands the result of n to the children of n in edge    *)
(* order. waiting[c] is the set of sources whose results the waiting node c *)
(* holds, {} when waitingNodes has no entry for c. A child that has all it  *)
(* requires leaves the map and joins the queue; a later delivery starts it  *)
(* afresh.                                                                  *)
(***************************************************************************)
Deliver(f, n, ignored, e, acc) ==
  LET received == acc.waiting[e.tgt] \cup {n}
  IN  IF e.src # n \/ e.tgt \in ignored THEN acc
      ELSE IF HasReceivedRequiredInputs(f, e.tgt, received)
      THEN [queue   |-> Append(acc.queue, e.tgt),
            waiting |-> [acc.waiting EXCEPT ![e.tgt] = {}]]
      ELSE [queue   |-> acc.queue,
            waiting |-> [acc.waiting EXCEPT ![e.tgt] = received]]

ProcessChildren(f, n, ignored, queue, waiting) ==
  LET fan[k \in 0 .. Len(f.edges)] ==
        IF k = 0 THEN [queue |-> queue, waiting |-> waiting]
        ELSE Deliver(f, n, ignored, f.edges[k], fan[k - 1])
  IN  fan[Len(f.edges)]

\* result.output.maxLoopCount || MAX_LOOP_COUNT
MaxLoop(f, n) == IF f.maxLoop[n] = 0 THEN DefaultMaxLoop ELSE f.maxLoop[n]
=============================================================================
