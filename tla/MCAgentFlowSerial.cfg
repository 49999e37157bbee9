SPECIFICATION Spec
CONSTANTS
  NoNode = 0
  Flows <- MCEditFlows
  Requests = {r1, r2, r3}
  MaxIterations = 4
  Env = {"resume", "named", "error", "abort", "crash", "edit"}
PROPERTIES LifecycleKept
SYMMETRY MCSymmetry
CHECK_DEADLOCK FALSE
