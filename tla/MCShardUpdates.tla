----------------------------- MODULE MCShardUpdates -----------------------------
(***************************************************************************)
(* Three symbols in shards of two over three days, or two in a shard over     *)
(* four; the days are of two months.                                          *)
(***************************************************************************)
EXTENDS ShardUpdates

ThreeSymbols == <<"A", "B", "C">>
TwoSymbols == <<"A", "B">>
TwoByTwo == [d \in Days |-> IF d < 3 THEN 1 ELSE 2]
=================================================================================
