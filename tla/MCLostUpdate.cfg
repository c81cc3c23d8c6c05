\* A hire that overlaps the removal of another provider of the bag.
SPECIFICATION Spec
CONSTANTS
  FileIds = {1}
  Bags = {b1}
  Providers = {p1, p2, p3}
  TargetReplicas <- Target2
  BagOf <- OneBag
  MaxContracts = 3
  ReplicationLimit = 1
  LateSlots = {}
  NumReplicators = 1
  NumAuditors = 2
  ManualRequests = {}
  WithdrawRequests = {}
SYMMETRY Symmetry
PROPERTY OnlyHiresAdd
