---------------------------- MODULE MCPriceUpdate ---------------------------
(* PriceUpdate for TLC: interchangeable pushers and RedStone-only feeds. *)
EXTENDS PriceUpdate, TLC

PushSymmetry == Permutations(Pushers) \cup Permutations(RedStoneFeeds \ PythFeeds)
=============================================================================
