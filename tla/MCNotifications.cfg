SPECIFICATION FairSpec
CONSTANTS
  c1 = c1
  w1 = w1
  w2 = w2
  Checks = {c1}
  Workers = {w1, w2}
  StaleAfter = 2
  HoldLimit = 3
  MaxRetryDelay = 2
  AttemptCap = 3
  MaxIncidents = 1
  Env = {"delete", "crash", "mark_fails"}
INVARIANTS
  TypeOK
  NoLiveDownAfterRecovery
  NoDuplicateSends
PROPERTIES
  FinalStatesStay
  NotificationsSettle
