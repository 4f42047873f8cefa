SPECIFICATION Spec
CONSTANTS
  r1 = r1  r2 = r2
  Kinds = {"inference", "memory"}
  Stateful = {"memory"}
  Core = "inference"
  Order <- MCOrder
  Table <- MCTable
  MaxSerial = 3
  Runs = {r1, r2}
  Unpinned = Unpinned  NoTuple = NoTuple  Nobody = Nobody  Down = Down  Lost = Lost
  MaxFaults = 2
SYMMETRY RunSymmetry
INVARIANTS
  TypeOK
  ReportsAreTrue
PROPERTY DataSurvives
CHECK_DEADLOCK FALSE
