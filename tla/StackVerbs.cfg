SPECIFICATION StartSpec
CONSTANTS
  c1 = c1  c2 = c2  c3 = c3  c4 = c4  k1 = k1  k2 = k2
  swap1 = swap1  verb1 = verb1  verb2 = verb2
  Procs = {swap1, verb1}
  Cli = {swap1}
  Dash = {}
  Verbs = {verb1}
  Units <- MCUnits
  Services <- MCUnits
  Registry <- MCRegistry
  Texts <- MCTexts
  Configs <- MCConfigs
  Rendered <- MCRendered
  Unrenderable = {c3}
  Keys = {k1, k2}
  Service = "llama"
  NoKey = NoKey  None = None  Down = Down  Free = Free  All = All
  MaxFaults = 1
  MaxCrashes = 1
  MaxEdits = 1
INVARIANT ConfigIsAsChosen
PROPERTY VerbsAreHonest
