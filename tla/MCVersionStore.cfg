SPECIFICATION Spec
CONSTANTS
  Flows = {f1, f2}
  Contents <- MCContents
  Requests = {r1, r2, r3}
  NoText = NoText
  NoOne = NoOne
  a = a
  b = b
  name = name
  Env = {"overlap", "delete", "fail"}
INVARIANTS TypeOK LastVersionIsCurrent QuietTreeIsCommitted
PROPERTIES HistoryKept
SYMMETRY MCSymmetry
CHECK_DEADLOCK FALSE
