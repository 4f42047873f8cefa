SPECIFICATION Spec
CONSTANTS
  t1 = t1  t2 = t2  h1 = h1  h2 = h2  v1 = v1
  Tasks = {t1}
  Handlers = {h1}
  Viewers = {v1}
  ModeOf <- AutoMode
  None = None  Absent = Absent
  Asked <- MCAsked
  MaxAsks = 2
  MaxStops = 1
  MaxFaults = 1
INVARIANTS
  NobodyIsLeftWaiting
  GrantedAsTold
  DeletionNeedsOperator
CHECK_DEADLOCK FALSE
