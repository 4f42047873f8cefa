SPECIFICATION Spec
CONSTANTS
  Catalog <- MCCatalog
  Footprint <- MCFootprint
  Top = 511
  TopInt = 255
  PromptCache = 2
  SeqMax = 2
  UBatch = 2
  CellPad = 2
  Checkpoints = 1
  Unknown = Unknown
  None = None
  Hosts <- MCHosts
  Ctxs <- MCCtxs
  Subsystems <- MCSubsystems
  PrimaryPort = 0
  Ports = {1, 2}
  Slug <- MCSlug
  MaxResident = 2
  MaxVerbs = 4
INVARIANTS
  TypeOK
  SwapServesWhatFits
  StackStaysServable
  PickIsSound
