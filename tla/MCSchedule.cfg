\* One flow, two requests at a time, both backends, a restart.
CONSTANTS
  Flows = {f1}
  Requests = {r1, r2}
  Ticks = {t1}
  ca = ca
  cb = cb
  cf = cf
  Crons <- MCCrons
  Fallback = cf
  Slots <- MCSlots
  Configs <- MCConfigs
  Stored <- MCStored
  Modes = {TRUE, FALSE}
  PageSize = 1
  MaxTime = 2
  MaxRows = 2
  MaxOps = 2
  MaxRestarts = 1
  None = None
  Plain = Plain
  Gone = Gone
SPECIFICATION LiveSpec
INVARIANTS TypeOK JobsFollowRecords RecordFollowsFlow
PROPERTIES JobsRunOrGo
