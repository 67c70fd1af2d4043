----------------------------- MODULE MCRegistry -----------------------------
(* Two registries that overlap.  Two markets share a collateral, one of them *)
(* borrows USDC; the third deployment is retired, the fourth is an adapter.  *)
EXTENDS Registry

MCListing == << <<"m1", "old", "m2">>, <<"adapter", "old">> >>
MCCollateral == [m \in Deployments |-> "btc"]
MCBorrow == [m \in Deployments |-> IF m = "m2" THEN "usdc" ELSE "usdt"]

\* A healthy market and what each of the checks can find wrong with one.  The
\* first is moved to another proxy oracle, and the old one loses its sources.
good == [market |-> TRUE, version |-> TRUE, oracle |-> "proxy", sources |-> {"proxy"}, decimals |-> TRUE]
MCFacts ==
  [m1      |-> {good, [good EXCEPT !.oracle = "proxy2", !.sources = {"proxy2"}],
                [good EXCEPT !.oracle = "core"]},
   m2      |-> {good, [good EXCEPT !.sources = {}], [good EXCEPT !.version = FALSE, !.decimals = FALSE]},
   old     |-> {good},
   adapter |-> {[good EXCEPT !.market = FALSE]}]
=============================================================================
