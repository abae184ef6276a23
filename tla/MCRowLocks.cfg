SPECIFICATION FairSpec
CONSTANTS
  Ingest = ingest
  Deleters = {d1}
  MaxIncidents = 2
INVARIANTS
  TypeOK
  NoIncidentForDeletedCheck
  NoDownAlertForDeletedCheck
PROPERTIES
  TransactionsEnd
  ImplementsRows
