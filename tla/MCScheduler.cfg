SPECIFICATION FairSpec
CONSTANTS
  Checks = {k1}
  Defs = {a, b}
  MaxEdits = 4
  MaxExits = 1
  MaxWorkers = 4
INVARIANTS
  TypeOK
  OneWorkerPerCheck
PROPERTIES
  ProbeCatchesUp
