SPECIFICATION Spec
CONSTANTS
  Requests = {r1, r2}
  Count = 2
  Window = 1
  MaxStep = 3
  MaxFactors = 3
  MaxBatches = 2
  MaxRequests = 6
  None = None
INVARIANTS TypeOK StepSpentOnce SupersededStaysOut PendingBounded
PROPERTIES CodeSpentOnce WatermarkAdvances GoodCodeWorks
SYMMETRY MCSymmetry
CHECK_DEADLOCK FALSE
