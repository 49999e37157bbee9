SPECIFICATION Spec
CONSTANTS
  NoNode = 0
  Flows <- MCFlows
  Requests = {r1, r2, r3}
  MaxIterations = 4
  Env = {"resume", "named", "overlap", "error", "abort", "crash"}
INVARIANTS TypeOK StateMatchesRecord InProgressIsOwned
PROPERTIES GateNeedsOwnAnswer AnswerSpentOnce
SYMMETRY MCSymmetry
CHECK_DEADLOCK FALSE
