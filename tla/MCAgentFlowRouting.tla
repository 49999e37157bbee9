-------------------------- MODULE MCAgentFlowRouting --------------------------
(* Every acyclic flow of up to five nodes whose only start is node 1, with  *)
(* a few kinds per place.                                                   *)
EXTENDS AgentFlowRouting, SequencesExt

E(s, o, t) == [src |-> s, out |-> o, tgt |-> t]

FlowOf(kind, edges, loopTo, max) ==
  [nodes |-> DOMAIN kind, kind |-> kind, edges |-> edges,
   outs |-> [n \in DOMAIN kind |->
               IF kind[n] \in {"condition", "humanInput"} THEN 2 ELSE 0],
   loopTo |-> [n \in DOMAIN kind |-> IF kind[n] = "loop" THEN loopTo ELSE n],
   maxLoop |-> [n \in DOMAIN kind |-> IF kind[n] = "loop" THEN max ELSE 0]]

PairList == << <<1,2>>, <<1,3>>, <<1,4>>, <<1,5>>, <<2,3>>, <<2,4>>, <<2,5>>,
               <<3,4>>, <<3,5>>, <<4,5>> >>

Pairs(n) == {PairList[i] : i \in {j \in 1 .. 10 : PairList[j][2] <= n}}

\* Edge sets in which every node but the first has a parent.
Shapes(n) ==
  {S \in SUBSET Pairs(n) : \A t \in 2 .. n : \E p \in S : p[2] = t}

Decides(kind, p) == kind[p[1]] \in {"condition", "humanInput"}

\* The edges of a decision node leave by either of its two handles. The
\* handles are interchangeable, so the edge to its least child leaves by 0.
Handles(kind, S) ==
  {h \in [{p \in S : Decides(kind, p)} -> {0, 1}] :
     \A p \in DOMAIN h :
       (\A q \in DOMAIN h : q[1] = p[1] => p[2] <= q[2]) => h[p] = 0}

EdgeList(kind, S, h, pairs) ==
  LET s == SelectSeq(pairs, LAMBDA p : p \in S)
  IN  [i \in 1 .. Len(s) |->
         E(s[i][1], IF Decides(kind, s[i]) THEN h[s[i]] ELSE 0, s[i][2])]

\* All flows with these kinds whose edges are stored in one of these orders.
FlowsOf(n, kinds, orders) ==
  UNION {UNION {{FlowOf(kind, EdgeList(kind, S, h, pairs), 2, 2) :
                   h \in Handles(kind, S), pairs \in orders} :
                  S \in {T \in Shapes(n) : \A p \in T : kind[p[1]] # "loop"}} :
           kind \in kinds}

Four == FlowsOf(4, {<<"start", a, b, c>> : a \in {"plain", "condition", "humanInput"},
                                           b \in {"plain", "condition", "humanInput"},
                                           c \in {"plain", "loop"}},
                {PairList, Reverse(PairList)})

Five == FlowsOf(5, {<<"start", a, "plain", "plain", "plain">> :
                      a \in {"plain", "condition", "humanInput"}} \cup
                   {<<"start", "condition", "condition", "plain", "plain">>,
                    <<"start", "plain", "condition", "plain", "loop">>},
                {PairList})

MCFlows == Four \cup Five
=============================================================================
