SPECIFICATION MCSpec
CONSTANTS
  i1 = i1
  e2 = e2
  e3 = e3
  k1 = k1
  f1 = f1
  g1 = g1
  g2 = g2
  g3 = g3
  b4 = b4
  b5 = b5
  Reminders = {i1, i2}
  Delays = {1}
  Anchored = {TRUE}
  BatchSize = 2
  Horizon = 3
  MaxEdits = 2
  MaxKills = 1
  CronIds = {i1}
  CronJobs = {o1, o2, o3, o4}
  CronIdOf <- MCCronIdOf
  Recurring = {o1, o2, o4}
  Unplannable = {o4}
  NoJob = NoJob
  MaxHandlers = 1
  Events = {e2, e3}
  ContextOf <- MCContextOf
  Beats = {b1, b2}
  MaxEvents = 1
  MaxRetries = 1
  MaxObstacles = 1
  AcpSessionKeys = {k1}
  AcpOps = {a1, a2, a3}
  KeyOf <- MCKeyOf
  AcpTurns = {a1}
  Closes = {a3}
  NoOp = NoOp
  MaxEvictions = 1
  Sockets = {c1, c2}
  Clients = {w1}
  Commands = {q1}
  Targets = {t1}
  NoSocket = NoSocket
  Models = {d1, f1, v1}
  NoModel = NoModel
  DefaultModel = d1
  Fallbacks <- MCFallbacks
  Sanitized = {f1}
  MediaModel = v1
  Turns = {p1, p2}
  NoTurn = NoTurn
  MediaTurns = {p1}
  MaxModelFaults = 1
  MaxPicks = 1
  MaxDeltas = 3
  MaxChannelFaults = 2
  Files = {y1, y2}
  MaxFileEdits = 3
  CallIds = {k2, k3}
  HistoryLimit = 2
  KeepLast = 1
  SoftAt = 4
  HardAt = 7
  SoftMax = 2
  TrimmedSize = 2
  ClearedSize = 1
  MinPrunable = 1
  ResultSizes = {1, 4}
  MaxMessages = 6
  Prompts = {g1, g2, g3}
  NoPrompt = NoPrompt
  BridgeSessions = {b4, b5}
  BridgeSessionOf <- MCBridgeSessionOf
  MaxBridgeSessions = 1
  MaxCancels = 1
INVARIANTS ServicesTypeOK CronAlive EventsAccounted OpsSerialized RelayConsistent ModelsRestored FinalTextWins ContextAccepted
PROPERTIES FiredAsAsked DueFires EventsServed OpsFinish TurnsEnd IndexCatchesUp PromptsAnswered
CHECK_DEADLOCK FALSE
