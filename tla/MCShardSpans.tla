---------------------------- MODULE MCShardSpans ----------------------------
(* Model values for ShardSpans.  Files, block services and locations are  *)
(* model values: the code only compares their ids for equality, so the runs*)
(* may use their permutations as symmetry.  Every block service is its own *)
(* failure domain.                                                         *)
EXTENDS ShardSpans, TLC

MCFailureDomain == [b \in BlockServices |-> b]

MCSymmetry ==
  Permutations(Files) \cup Permutations(BlockServices) \cup Permutations(Locations)

=============================================================================
