----------------------------- MODULE MCPushCheck ----------------------------
(* PushCheck for TLC: two markets over the same two feeds. *)
EXTENDS PushCheck

CheckedMarkets == <<Feeds, Feeds>>
=============================================================================
