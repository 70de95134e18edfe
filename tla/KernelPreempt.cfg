SPECIFICATION KernelSpec
CONSTANTS
  m1 = m1
  m2 = m2
  m3 = m3
  c1 = c1
  s1 = s1
  s2 = s2
  None = None
  Items = {m1, m2, m3}
  Messages = {m1, m2, m3}
  Conts = {}
  Stops = {}
  Resets = {}
  Sessions = {s1}
  SessionOf <- OneSession
  RowId <- OwnId
  DedupKey <- OwnId
  StampOf <- Stamps
  InOrder = FALSE
  Modes = {"interrupt", "steer-backlog"}
  CollectWindow = 0
  MaxBacklog = 0
  Window = 8
  MaxAttempts = 0
  MaxStamp = 2
  MaxCrashes = 0
INVARIANTS CallbackOwed
CHECK_DEADLOCK FALSE
