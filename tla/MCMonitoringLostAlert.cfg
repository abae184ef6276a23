SPECIFICATION Spec
CONSTANTS
  c1 = c1
  p1 = p1
  p2 = p2
  p3 = p3
  Checks = {c1}
  Probes = {p1, p2, p3}
  ConfigProbes = {p1, p2, p3}
  EvidenceTTLs = {1}
  OfflineAfter = 1
  StreakCap = 2
  MaxBatch = 1
  MaxRequests = 1
  Env = {"seed", "tick", "heartbeat"}
SYMMETRY ProbeSymmetry
INVARIANTS
  StableTransitionsRecorded
