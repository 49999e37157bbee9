SPECIFICATION FairSpec
CONSTANTS
  NoNode = 0
  Flows <- MCLiveFlows
  Requests = {r1, r2}
  MaxIterations = 4
  Env = {"resume", "named", "overlap", "error", "abort", "crash", "edit"}
PROPERTIES RequestsEnd
CHECK_DEADLOCK FALSE
