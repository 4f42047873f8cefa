SPECIFICATION Spec
CONSTANTS
  Requests <- MCRequests
  Recs <- MCRecs
  Hosts <- MCHosts
  Teardowns <- MCTeardowns
  NewKey = NewKey  NoKey = NoKey  oldKey = oldKey
  Fixable = {"selinux", "linger"}
  Advisory = {"linger"}
  Unreadable = {"config", "llama", "image", "dashboard"}
  MaxRuns = 2
  MaxFaults = 2
  MaxCrashes = 1
INVARIANTS
  TypeOK
  
  VerdictsAreSound
CHECK_DEADLOCK FALSE
