----------------------------- MODULE MCStrategy -----------------------------
(* Strategy for TLC: amounts around the points where a buffer of 50 or 300  *)
(* basis points rounds to the next unit, and a u128 small enough for the     *)
(* largest balances to overflow.                                             *)
EXTENDS Strategy

CONSTANTS Percents, FixedAmounts, Minimums

MCStrategies ==
  [kind : {"Percentage"}, percentage : Percents]
    \cup [kind : {"Fixed"}, amount : FixedAmounts]

\* One unit of collateral is worth 3, 1, or 3/7 units of borrow asset, and a
\* liquidator pays all or nine tenths of it.
MCMarkets ==
  {[unit_num |-> u[1], unit_den |-> u[2], keep_num |-> k[1], keep_den |-> k[2],
    minimum |-> min, partial |-> part] :
     u \in {<<3, 1>>, <<1, 1>>, <<3, 7>>}, k \in {<<9, 10>>, <<1, 1>>},
     min \in Minimums, part \in BOOLEAN}

MCBalances == (0..12) \cup (98..104) \cup {150} \cup (197..206) \cup {301, 398, 399,
  400, 402, 403}
MCDeposits == {0, 1, 2, 30, 33, 34, 66, 67, 100, 101, 201, 250, 402}
=============================================================================
