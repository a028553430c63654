---------------------------- MODULE MCShardEdges ----------------------------
(* Model values for ShardEdges.  Names and file ids are only compared for *)
(* equality (name hashes are taken to be collision free), so the runs may *)
(* use their permutations as symmetry.  Directories are not permuted: the *)
(* root is special.                                                       *)
EXTENDS ShardEdges, TLC
MCSymmetry ==
  Permutations(Names) \cup Permutations(LocalFiles) \cup Permutations(RemoteFiles)
=============================================================================
