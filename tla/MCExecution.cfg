SPECIFICATION MCSpec
CONSTANTS
  m1 = m1
  m2 = m2
  sub = sub
  stop = stop
  s1 = s1
  s2 = s2
  p1 = p1
  j1 = j1
  None = None
  Runs = {m1, m2, sub}
  Sessions = {s1, s2}
  SessionOf <- MCSessionOf
  Timed = {sub}
  Resetting = {m2}
  Callers = {m2, stop}
  Tasks = {t1, t2, t3}
  Parents = {p1}
  ParentOf <- MCParentOf
  Refused = {t3}
  Unstarted = {t3}
  MaxConcurrent = 1
  MaxRestarts = 1
  MaxFaults = 1
  Jobs = {j1}
  JobRuns = {r1, r2}
  JobOf <- MCJobOf
  Waiters = {w1, w2}
  Awaited <- MCAwaited
  Impatient = {w2}
  Retries = 1
  MaxPrunes = 1
  Execs = {x1, x2, x3}
  OneShots = {x1}
  Yielding = {x2}
  TimedExecs = {x1, x2}
  Abortable = {x1, x2, x3}
  Stubborn = {x1, x2}
  MaxCalls = 1
  MaxHostRestarts = 1
INVARIANTS LiveIndex EntriesOwned SlotsHeld NoBlackHole RowsHonest
PROPERTIES TerminalOnce RunsFinish OutcomeKept SpawnsServed ImplementsFutures WaitersServed RunsEnd
CHECK_DEADLOCK FALSE
