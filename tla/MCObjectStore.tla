--------------------------- MODULE MCObjectStore ---------------------------
(***************************************************************************)
(* Instances of ObjectStore for TLC.                                       *)
(***************************************************************************)
EXTENDS ObjectStore, TLC

Symmetry ==
  Permutations(Contents) \cup Permutations(Buckets)
  \cup Permutations(Requests)
=============================================================================
