SPECIFICATION Spec
CONSTANTS
  Flows = {f1, f2}
  Contents <- MCContents
  Requests = {r1, r2, r3}
  NoText = NoText
  NoOne = NoOne
  a = a
  b = b
  name = name
  Env = {"fail"}
INVARIANTS NextSaveRecovers
CHECK_DEADLOCK FALSE
