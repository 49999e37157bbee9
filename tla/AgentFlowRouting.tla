--------------------------- MODULE AgentFlowRouting ---------------------------
(***************************************************************************)
(* What the routing of AgentFlow owes the person who drew the flow: which   *)
(* nodes run, how often, and what is left waiting. None of it holds of      *)
(* every flow the canvas accepts, so each property names the shape of flow  *)
(* it is about.                                                             *)
(***************************************************************************)
EXTENDS AgentFlow

\* The nodes reachable from a set of nodes along the drawn edges.
Onward(f, S) == S \cup {f.edges[i].tgt : i \in {j \in EdgeIds(f) : f.edges[j].src \in S}}

Reach(f, from) ==
  LET reach[k \in 0 .. Cardinality(f.nodes)] ==
        IF k = 0 THEN from ELSE Onward(f, reach[k - 1])
  IN  reach[Cardinality(f.nodes)]

Ancestors(f, n) == {m \in f.nodes \ {n} : n \in Reach(f, {m})}

\* What one can draw: no edge that closes a cycle, no edge twice, and only the
\* decision nodes have more than one handle.
OnCanvas(f) ==
  \A i \in EdgeIds(f) :
    /\ f.edges[i].src \notin Reach(f, {f.edges[i].tgt})
    /\ ~Decision(f, f.edges[i].src) => f.edges[i].out = 0
    /\ \A j \in EdgeIds(f) \ {i} : f.edges[j] # f.edges[i]

\* No decision node stands before n.
Unconditional(f, n) == \A m \in Ancestors(f, n) : ~Decision(f, m)

Loops(f) == {n \in f.nodes : f.kind[n] = "loop"}

Drawn(f, n, o) == {i \in EdgeIds(f) : f.edges[i].src = n /\ f.edges[i].out = o}

\* The edges of a decision node leave by the handles it has, each handle carries
\* at most one of them, and no two lead to one node.
SimpleHandles(f) ==
  \A i \in EdgeIds(f) : Decision(f, f.edges[i].src) =>
    /\ f.edges[i].out < f.outs[f.edges[i].src]
    /\ \A j \in EdgeIds(f) \ {i} : f.edges[i].src = f.edges[j].src =>
         f.edges[i].out # f.edges[j].out /\ f.edges[i].tgt # f.edges[j].tgt

\* How many of the inputs of n a decision node c sends on its way when only
\* condition o is fulfilled.
ArrivalsBy(f, n, c, o) ==
  LET targets == {f.edges[i].tgt : i \in Drawn(f, c, o)}
      via     == {s \in Sources(f, n) \ {c} : s \in Reach(f, targets)}
  IN  Cardinality(via) + (IF n \in targets THEN 1 ELSE 0)

(***************************************************************************)
(* A join is balanced when each of its inputs is either sure to come or     *)
(* belongs to a decision node that is itself sure to run and whose every    *)
(* outcome brings exactly one of them.                                      *)
(***************************************************************************)
BalancedJoin(f, n) ==
  \A s \in Sources(f, n) :
    LET c == FindConditionParent(f, s)
    IN  IF c = NoNode THEN Unconditional(f, s)
        ELSE /\ Unconditional(f, c)
             /\ \A o \in 0 .. f.outs[c] - 1 : ArrivalsBy(f, n, c, o) = 1

WellFormed(f) ==
  /\ SimpleHandles(f)
  /\ \A n \in f.nodes : Cardinality(Sources(f, n)) > 1 => BalancedJoin(f, n)

Runs(d, n) == Cardinality({i \in 1 .. Len(d) : d[i].node = n})

\* r ran from the start to the end of the flow without a pause.
RanThrough(r) ==
  /\ pc[r] = "answered"
  /\ ~run[r].resumed
  /\ StatusOf(run[r].data) = "FINISHED"

-----------------------------------------------------------------------------
\* A run of a drawn flow that is reported FINISHED has run every node that no
\* decision node stands before, once if the flow has no Loop node: joins of
\* parallel branches neither starve nor fire early.
UnconditionalNodesRun ==
  \A r \in Requests :
    LET f == run[r].flow
        d == run[r].data
    IN  RanThrough(r) /\ OnCanvas(f) =>
          \A n \in f.nodes : Unconditional(f, n) =>
            Runs(d, n) >= 1 /\ (Loops(f) = {} => Runs(d, n) = 1)

\* In a well-formed flow without Loop nodes no node runs twice, not even when a
\* pause threw away the queue and the waiting nodes, and a FINISHED run leaves no
\* join waiting for a branch that was not taken.
JoinsFireOnce ==
  \A r \in Requests :
    LET f == run[r].flow
        d == run[r].data
    IN  /\ pc[r] \in {"running", "closing", "answered"}
        /\ OnCanvas(f) /\ WellFormed(f) /\ Loops(f) = {}
        => /\ \A n \in f.nodes : Runs(d, n) <= 1
           /\ RanThrough(r) => \A n \in f.nodes : run[r].waiting[n] = {}

\* With a single Loop node, a request that starts an execution passes it at most
\* Max Loop Count times. (loopCounts is not stored: a resume counts from zero.)
LoopIsBounded ==
  \A r \in Requests :
    LET f == run[r].flow
        d == run[r].data
    IN  \A n \in Loops(f) :
          /\ Cardinality(Loops(f)) = 1 /\ ~run[r].resumed
          /\ OnCanvas(f) /\ WellFormed(f)
          => Runs(d, n) <= MaxLoop(f, n)

\* The branch a person refuses at an approval gate gets nothing: a node drawn
\* only from the handle that was not chosen neither joins the queue nor
\* receives the gate's result. Condition results go the same way.
RefusedBranchStays(f, n, taken, after) ==
  \A m \in f.nodes :
    (\A i \in EdgeIds(f) : f.edges[i].src = n /\ f.edges[i].tgt = m => f.edges[i].out # taken)
    => /\ \A k \in 1 .. Len(after.queue) : after.queue[k] # m
       /\ n \notin after.waiting[m]

\* On resume, in the flows in which each handle of a gate carries one edge, the
\* branch that was not chosen stays out. (Of a handle with several edges the code
\* holds back the first only.)
AnswerObeyedIfSimple ==
  [][\A r \in Requests :
       LET n == Current(r)
           f == run[r].flow
       IN  /\ Finished(r)
           /\ f.kind[n] = "humanInput"
           /\ run[r].human.node = n
           /\ SimpleHandles(f)
           => RefusedBranchStays(f, n, IF run[r].human.answer = "proceed" THEN 0 ELSE 1,
                                 run'[r])]_vars
=============================================================================
