SPECIFICATION Spec
CONSTANTS
  NoNode = 0
  Flows <- MCGates
  Requests = {r1, r2, r3}
  MaxIterations = 4
  Env = {"resume", "overlap"}
PROPERTIES OnlyStoppedIsResumed
CHECK_DEADLOCK FALSE
