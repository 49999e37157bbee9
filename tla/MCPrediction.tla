----------------------------- MODULE MCPrediction -----------------------------
(* Requests that may share flow and chat, in either mode of the server.       *)
EXTENDS Prediction, TLC

MCSymmetry == Permutations(Requests) \cup Permutations(Workers) \cup Permutations(Flows)

Door(d) == {r \in Requests : req[r].door = d}

\* Bound: a history has lost streams, webhooks or runs of schedules beside its
\* predictions, but only one of these, on one flow and without aborts of runs and
\* deaths of workers.
MCApart ==
  LET Hook == Door("webhook")
      Run == Door("schedule")
  IN  /\ lost \cup Hook \cup Run # {} =>
           /\ crashes = 0 /\ aborts = 0
           /\ Cardinality({req[r].flow : r \in Requests} \ {None}) <= 1
      /\ lost = {} \/ Hook = {}
      /\ Run = {} \/ lost \cup Hook = {}
=============================================================================
