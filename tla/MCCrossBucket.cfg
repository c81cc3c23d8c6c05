\* Two buckets with an object of the same key.
SPECIFICATION Spec
CONSTANTS
  Buckets = {b1, b2}
  Keys = {k1}
  Contents = {c1, c2}
  Requests = {r1}
  MaxWrites = 4
SYMMETRY Symmetry
INVARIANT BucketsApart
