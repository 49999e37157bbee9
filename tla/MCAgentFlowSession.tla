------------------------- MODULE MCAgentFlowSession -------------------------
(***************************************************************************)
(* One chat session on small flows with pauses.                             *)
(*                                                                          *)
(* Gates: two approval gates in sequence, the second inside the approved    *)
(* branch of the first. AgentFirst: an agent that asks before it uses a     *)
(* tool, then a gate. Looped: a gate inside a loop. Twin: two gates side by *)
(* side. Loose: a node not yet connected, a second start. Blank: a canvas   *)
(* without a Start node. Ring: a Start node with an edge into it. Spin: a   *)
(* loop without a gate, longer than MaxIterations.                          *)
(***************************************************************************)
EXTENDS AgentFlow, TLC

E(s, o, t) == [src |-> s, out |-> o, tgt |-> t]

FlowOf(kind, edges, loopTo, max) ==
  [nodes |-> DOMAIN kind, kind |-> kind, edges |-> edges,
   outs |-> [n \in DOMAIN kind |->
               IF kind[n] \in {"condition", "humanInput"} THEN 2 ELSE 0],
   loopTo |-> [n \in DOMAIN kind |-> IF kind[n] = "loop" THEN loopTo ELSE n],
   maxLoop |-> [n \in DOMAIN kind |-> IF kind[n] = "loop" THEN max ELSE 0]]

Gates == FlowOf(<<"start", "humanInput", "humanInput", "plain">>,
                <<E(1, 0, 2), E(2, 0, 3), E(3, 0, 4), E(3, 1, 4)>>, 1, 0)

AgentFirst == FlowOf(<<"start", "agent", "humanInput", "plain">>,
                <<E(1, 0, 2), E(2, 0, 3), E(3, 0, 4)>>, 1, 0)

Looped == FlowOf(<<"start", "humanInput", "plain", "loop">>,
                <<E(1, 0, 2), E(2, 0, 3), E(3, 0, 4)>>, 2, 2)

Twin == FlowOf(<<"start", "humanInput", "humanInput">>,
                <<E(1, 0, 2), E(1, 0, 3)>>, 1, 0)

Loose == FlowOf(<<"start", "plain">>, <<>>, 1, 0)

Blank == FlowOf(<<>>, <<>>, 1, 0)

Ring == FlowOf(<<"start", "plain">>, <<E(1, 0, 2), E(2, 0, 1)>>, 1, 0)

Spin == FlowOf(<<"start", "plain", "loop">>, <<E(1, 0, 2), E(2, 0, 3)>>, 2, 3)

MCFlows == {Gates, AgentFirst, Looped, Twin, Loose, Blank, Ring, Spin}
MCEditFlows == {Gates, Looped, Loose}
MCLiveFlows == {Gates, Looped, Twin, Loose, Spin}
MCGates == {Gates}

\* The requests of a session are interchangeable.
MCSymmetry == Permutations(Requests)
=============================================================================
