---------------------------- MODULE MCShardApply ----------------------------
(***************************************************************************)
(* The TLC instance of ShardApply.  The entry bodies are records; no       *)
(* symmetry is declared, because the runs check liveness.                  *)
(***************************************************************************)
EXTENDS ShardApply

\* two bodies of different kinds: a name with a NUL and a 255 byte and no
\* ids, and no name and two ids, the second needing a third byte
MCEntries ==
  {[kind |-> 1, name |-> <<0, 255>>, ids |-> <<>>],
   [kind |-> 2, name |-> <<>>, ids |-> <<1, 65536>>]}

====
