SPECIFICATION Spec
CONSTANTS
  Requests = {r1, r2, r3}
  Doors = {"prediction", "webhook", "schedule"}
  Flows = {f1, f2}
  Chats = {c1}
  Workers = {w1}
  Modes = {"direct", "queue"}
  Limit = 1
  MaxCrashes = 1
  MaxAborts = 1
  MaxLost = 1
  None = None
INVARIANTS TypeOK LoneRunIsAbortable LoneStreamIsKept QuietLeavesNothing
INVARIANTS OvershootIsOverlap AbortIsNotLost OnlyAskedStop
CONSTRAINT MCApart
CHECK_DEADLOCK FALSE
SYMMETRY MCSymmetry
