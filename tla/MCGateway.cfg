\* Two uploads of one key with a bag each, a download, deletions and a cleaner.
SPECIFICATION FairSpec
CONSTANTS
  FileIds = {1, 2}
  Bags = {b1, b2}
  Providers = {p1}
  TargetReplicas <- Target1
  BagOf <- OwnBag
  MaxContracts = 1
  ReplicationLimit = 1
  Keys = {k1}
  KeyOf <- OneKey
  Clients = {c1}
  Deletable = {2}
  Wanted = {2}
  NumCleaners = 1
  CleanerLimit = 1
INVARIANTS
  TypeOK
  JobsTracked
  NoListUnderDownload
  
  
PROPERTIES
  WaitsEnd
  OffloadEventually
