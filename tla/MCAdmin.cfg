\* The two pools and an admin who hires and withdraws by hand.
SPECIFICATION FairSpec
CONSTANTS
  FileIds = {1}
  Bags = {b1}
  Providers = {p1}
  TargetReplicas <- Target1
  BagOf <- OneBag
  MaxContracts = 2
  ReplicationLimit = 1
  LateSlots = {}
  NumReplicators = 1
  NumAuditors = 1
  ManualRequests = {x1}
  WithdrawRequests = {x1}
INVARIANTS
  ShortfallInv
  HiringInv
PROPERTIES
  ImplementsLedger
  Heals
