\* Three contracts: an auditor with batches of 2, a pinger with batches of 1.
SPECIFICATION FairSpec
CONSTANTS
  MaxContracts = 3
  NumReplicators = 1
  NumAuditors = 1
  NumPingers = 1
  AuditLimit = 2
  PingLimit = 1
INVARIANTS
  TypeOK
  DaemonsInv
PROPERTIES
  NoFiringByShutdown
  OvertakesNobody
  AuditedAgain
  ShutdownEnds
