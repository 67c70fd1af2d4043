---------------------------- MODULE MCMarketScan ----------------------------
(* A feed pair over both legs: each feed has a source on either, in opposite *)
(* orders, and the first choice of both goes through the same rate contract. *)
EXTENDS MarketScan

source(leg, feed, call) == [leg |-> leg, feed |-> feed, call |-> call]
MCPriceIds == <<"borrow", "collateral">>
MCSources ==
  [borrow     |-> <<source("pyth", 0, "none"), source("lazer", 1, "lst"), source("redstone", "BTC", "none")>>,
   collateral |-> <<source("redstone", "BTC", "lst"), source("lazer", 2, "none")>>]

quote(point, age) == [point |-> point, age |-> age]
both(q) == [ch \in ToSet(Channels) |-> q]
MCQuotes ==
  {[ch \in {} |-> quote("timed", 0)],
   [ch \in {"real_time"} |-> quote("timed", 1)],
   \* soon stale on the first channel, or unusable there, and fresh on the second
   [both(quote("timed", 0)) EXCEPT !["fixed_rate@200ms"] = quote("timed", MaxAge)],
   [both(quote("timed", 0)) EXCEPT !["fixed_rate@200ms"] = quote("malformed", 0)],
   both(quote("timed", -Skew - 1)), both(quote("untimed", 0)), both(quote("mistyped", 0))}

package(signer, value, age) == [signer |-> signer, value |-> value, age |-> age]
MCPackageLists ==
  {\* one signer far off, one lagging
   <<package(1, 10, 0), package(2, 90, 0), package(3, 11, MaxAge + 1)>>,
   \* one signer served again and again, behind an unreadable package
   <<package(1, Unparsable, 0), package(2, 90, 0), package(2, 90, 0), package(2, 90, 0),
     package(1, 10, 1), package(3, 11, 1)>>,
   \* an even number
   <<package(1, 10, 1), package(2, 12, 1), package(3, 90, -1), package(4, 11, 1)>>,
   \* all of them old
   <<package(1, 10, MaxAge), package(2, 10, MaxAge), package(3, 10, MaxAge)>>}
=============================================================================
