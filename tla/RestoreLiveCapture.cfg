SPECIFICATION SmallSpec
CONSTANTS
  c1 = c1  c2 = c2  k1 = k1  k2 = k2  b1 = b1  r1 = r1
  Procs = {r1}
  Backups = {}
  Restores = {r1}
  Units <- MCUnits
  Services <- MCUnits
  Registry <- MCUnits
  Texts <- MCTexts
  Configs <- MCConfigs
  Rendered <- MCRendered
  Unrenderable = {}
  Keys = {k1, k2}
  Service = "llama"  Chat = "openwebui"  Qdrant = "qdrant"
  MemoryOn = {c1}
  Rows <- MCRows
  BackupGate <- MCGate
  RestoreGate <- MCGate
  Archives <- MCArchives
  NoKey = NoKey  None = None  Down = Down  Free = Free
  MaxFaults = 1
  MaxWrites = 1
INVARIANTS
  RollbackLosesNothing
CHECK_DEADLOCK FALSE
