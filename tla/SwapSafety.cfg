SPECIFICATION StartSpec
CONSTANTS
  c1 = c1  c2 = c2  c3 = c3  k1 = k1  k2 = k2
  swap1 = swap1  post1 = post1
  Procs = {swap1, post1}
  Cli = {swap1}
  Dash = {post1}
  Units <- MCUnits
  Services <- MCUnits
  Registry <- MCRegistry
  Texts <- MCTexts
  Configs <- MCConfigs
  Rendered <- MCRendered
  Unrenderable = {c3}
  Keys = {k1, k2}
  Service = "llama"
  NoKey = NoKey  None = None  Down = Down  Free = Free
  MaxFaults = 1
  MaxCrashes = 1
INVARIANTS
  TypeOK
  NoLostUpdate
  TouchedIsRecorded
  NeverStartsTheStopped
  OutcomesAreHonest
PROPERTIES
  ImplementsAtomicSwap
  EveryInvocationReturns
