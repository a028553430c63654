--------------------------- MODULE MCShardReadDir ---------------------------
(***************************************************************************)
(* The TLC instance of ShardReadDir.  Names and hashes are numbers because *)
(* their order matters; no symmetry is declared.                           *)
(***************************************************************************)
EXTENDS ShardReadDir

====
