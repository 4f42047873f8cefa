SPECIFICATION StartSpec
CONSTANTS
  vulkan = vulkan  r1 = r1  r2 = r2
  m1 = m1  m2 = m2
  gpu1 = gpu1  gpu2 = gpu2
  Host = Host
  NoToken = NoToken
  Unread = Unread
  NoBackend = NoBackend
  Backends = {vulkan, r1, r2}
  Models = {m1, m2}
  TokenOf <- MCTokenOf
  FaultScanned = {r1, r2}
  Rejecting = {vulkan}
  Weight = 2
  DraftWeight = 1
  MaxSwaps = 1
  MaxCrashes = 1
  Loads <- MCLoads
  Reps = 2
  Warmup = 1
  Vulkan = vulkan
  Rocm = r1
  Hosts = {"", "h"}
  SchemaVersion = 2
INVARIANTS
  BenchIsHonest
  FoldsAreSound
PROPERTY PassIsEarned
CHECK_DEADLOCK FALSE
