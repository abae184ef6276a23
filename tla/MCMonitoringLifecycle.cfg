SPECIFICATION Spec
CONSTANTS
  c1 = c1
  p1 = p1
  Checks = {c1}
  Probes = {p1}
  ConfigProbes = {p1}
  EvidenceTTLs = {1}
  OfflineAfter = 1
  StreakCap = 2
  MaxBatch = 2
  MaxRequests = 1
  Env = {"create", "delete", "heartbeat", "tick", "crash", "commit_fails", "commit_unknown"}
INVARIANTS
  TypeOK
  NoIncidentForDeletedCheck
  IncidentAgreement
  RecoveryRowsCurrent
PROPERTIES
  RollbackRestores
