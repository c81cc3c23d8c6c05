\* Three contracts and a pinger with batches of 2.
SPECIFICATION FairSpec
CONSTANTS
  MaxContracts = 3
  NumReplicators = 1
  NumAuditors = 1
  NumPingers = 1
  AuditLimit = 1
  PingLimit = 2
PROPERTY ActivePinged
