\* One name, and two requests at a time that write or read it.
SPECIFICATION Spec
CONSTANTS
  Buckets = {b1}
  Keys = {k1}
  Contents = {c1, c2}
  Requests = {r1, r2}
  MaxWrites = 3
SYMMETRY Symmetry
INVARIANTS
  TypeOK
  ServesWhatWasPut
  UntouchedKept
  ObjectsInv
PROPERTIES
  OrphansOnlyBy
