\* The two pools alone, on one file; the second replicator has no share in it;
\* one transaction may be late at a time.
SPECIFICATION Spec
CONSTANTS
  FileIds = {1}
  Bags = {b1}
  Providers = {p1, p2}
  TargetReplicas <- Target2
  BagOf <- OneBag
  MaxContracts = 3
  ReplicationLimit = 1
  LateSlots = {t1}
  NumReplicators = 2
  NumAuditors = 2
  ManualRequests = {}
  WithdrawRequests = {}
SYMMETRY Symmetry
INVARIANTS
  TypeOK
  ShortfallIsOwed
  NoOverHire
  DistinctProviders
  HiringInv
PROPERTIES
  StatusNeverGoesBack
  PromotionOwed
  FilesComeAndGo
  PaidUnknownOnlyBy
  ImplementsLedger
