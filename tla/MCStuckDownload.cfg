\* A restart during a download.
SPECIFICATION FairSpec
CONSTANTS
  FileIds = {1}
  Bags = {b1}
  Providers = {p1}
  TargetReplicas <- Target1
  BagOf <- OwnBag
  MaxContracts = 1
  ReplicationLimit = 1
  Keys = {k1}
  KeyOf <- OneKey
  Clients = {c1}
  Deletable = {}
  Wanted = {1}
  NumCleaners = 1
  CleanerLimit = 1
PROPERTIES
  OffloadAfterRestart
