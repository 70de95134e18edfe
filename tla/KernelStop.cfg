SPECIFICATION FairKernelSpec
CONSTANTS
  m1 = m1
  m2 = m2
  m3 = m3
  c1 = c1
  s1 = s1
  s2 = s2
  None = None
  Items = {m1, m3, c1}
  Messages = {m1, m3}
  Conts = {c1}
  Stops = {m3}
  Resets = {}
  Sessions = {s1}
  SessionOf <- OneSession
  RowId <- OwnId
  DedupKey <- OwnId
  StampOf <- Stamps
  InOrder = FALSE
  Modes = {"followup", "interrupt"}
  CollectWindow = 0
  MaxBacklog = 0
  Window = 8
  MaxAttempts = 1
  MaxStamp = 2
  MaxCrashes = 1
INVARIANTS RunIdFree RunningIsOwned CancelledHasNone
PROPERTIES ImplementsLanes RowsEnd LanesFreed
CHECK_DEADLOCK FALSE
