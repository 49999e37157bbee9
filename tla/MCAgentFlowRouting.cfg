SPECIFICATION Spec
CONSTANTS
  NoNode = 0
  Flows <- MCFlows
  Requests = {r1, r2}
  MaxIterations = 20
  Env = {"resume"}
INVARIANTS UnconditionalNodesRun JoinsFireOnce LoopIsBounded
PROPERTIES AnswerObeyedIfSimple
CHECK_DEADLOCK FALSE
