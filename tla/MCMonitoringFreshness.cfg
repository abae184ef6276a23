SPECIFICATION FairSpec
CONSTANTS
  c1 = c1
  p1 = p1
  Checks = {c1}
  Probes = {p1}
  ConfigProbes = {}
  EvidenceTTLs = {1}
  OfflineAfter = 1
  StreakCap = 2
  MaxBatch = 1
  MaxRequests = 1
  Env = {"seed", "tick", "heartbeat", "crash", "register", "credential"}
INVARIANTS
  ProbesKnown
  StateMatchesVotes
PROPERTIES
  ExpiredEvidenceLeaves
  SilentProbeGoesOffline
