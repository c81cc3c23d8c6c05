\* A provider that has yet to fetch the bag.
SPECIFICATION Spec
CONSTANTS
  FileIds = {1}
  Bags = {b1}
  Providers = {p1}
  TargetReplicas <- Target1
  BagOf <- OwnBag
  MaxContracts = 1
  ReplicationLimit = 1
  Keys = {k1}
  KeyOf <- OneKey
  Clients = {}
  Deletable = {}
  Wanted = {1}
  NumCleaners = 1
  CleanerLimit = 1
PROPERTIES
  StoredBeforeOffload
