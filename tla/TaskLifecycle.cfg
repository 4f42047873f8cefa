SPECIFICATION FairSpec
CONSTANTS
  t1 = t1  t2 = t2  h1 = h1  h2 = h2  v1 = v1
  Tasks = {t1, t2}
  Handlers = {h1, h2}
  Viewers = {}
  ModeOf <- AskMode
  None = None  Absent = Absent
  Asked <- MCAsked
  MaxAsks = 0
  MaxStops = 1
  MaxFaults = 0
INVARIANTS
  TypeOK
  NothingIsLost
  NoLostWakeup
PROPERTIES
  TerminalIsFinal
  ImplementsTaskLife
  CancelEnds
CHECK_DEADLOCK FALSE
