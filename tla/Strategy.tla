------------------------------ MODULE Strategy ------------------------------
(***************************************************************************)
(* The arithmetic of one liquidation attempt: the two built-in strategies  *)
(* size it, the profitability gate judges it, and the market contract      *)
(* meets it at prices that have moved since the scan.  All amounts are raw *)
(* token units in u128; the release build checks overflow and aborts on    *)
(* it, so a product that does not fit is an outcome of its own ("Abort").  *)
(* Decimal quotients of the price and the spread are exact rationals here, *)
(* rounded where the code rounds (to_u128_floor, to_u128_ceil, the f64     *)
(* cast).  Factoring them out leaves two rates per market: what one raw    *)
(* unit of collateral is worth, and the share of it that a liquidator pays *)
(* (one minus liquidation_maximum_spread).                                 *)
(***************************************************************************)
EXTENDS Integers

CONSTANTS
  MaxU128,      \* u128::MAX
  Strategies,   \* [kind |-> "Percentage", percentage |-> ...] or
                \* [kind |-> "Fixed", amount |-> usd_to_raw_units(...)]
  Markets,      \* market configurations
  Balances,     \* amounts of borrow asset the inventory may have available
  Deposits,     \* collateral amounts a position may have
  GasCosts,     \* gas estimates in borrow asset units
  MarginBps,    \* MIN_PROFIT_BPS
  CapDrops,     \* by how many bps the eligible collateral shrinks, and
  PriceRises    \* the price rises, between the scan and the execution

BPS == 10000

Market == [unit_num : Nat \ {0}, unit_den : Nat \ {0},
           keep_num : Nat \ {0}, keep_den : Nat \ {0},
           minimum : Nat, partial : BOOLEAN]
StrategyKind == [kind : {"Percentage"}, percentage : 1..100]
                  \cup [kind : {"Fixed"}, amount : Nat]

ASSUME WidthAssumption == MaxU128 \in Nat
ASSUME InputsAssumption ==
  /\ Strategies \subseteq StrategyKind
  /\ Markets \subseteq Market
  /\ Balances \subseteq 0..MaxU128
  /\ Deposits \subseteq 0..MaxU128
  /\ GasCosts \subseteq 0..MaxU128
  /\ MarginBps \in Nat
  /\ CapDrops \subseteq 0..BPS
  /\ PriceRises \subseteq Nat

-----------------------------------------------------------------------------
(***************************************************************************)
(* Arithmetic.                                                             *)
(***************************************************************************)
SAFETY_BUFFER_BPS == 50
LIQUIDATABLE_CAP_BUFFER_BPS == 300

fits(x) == x <= MaxU128
div_ceil(a, b) == (a + b - 1) \div b
saturating(x) == IF fits(x) THEN x ELSE MaxU128
least(a, b) == IF a <= b THEN a ELSE b

\* Fault: no headroom below the contract's cap.
UnbufferedCap(liquidatable) == liquidatable

apply_liquidatable_cap_buffer(liquidatable) ==
  (liquidatable * (BPS - LIQUIDATABLE_CAP_BUFFER_BPS)) \div BPS

min_with_cap_buffer(desired, liquidatable) ==
  least(desired, apply_liquidatable_cap_buffer(liquidatable))

\* What a liquidator pays for one raw unit of collateral.
rate_num(m) == m.unit_num * m.keep_num
rate_den(m) == m.unit_den * m.keep_den

\* Fault: the collateral a budget buys is rounded up.
CollateralRoundedUp(m, borrow) == div_ceil(borrow * rate_den(m), rate_num(m))

borrow_to_collateral(m, borrow) == (borrow * rate_den(m)) \div rate_num(m)

collateral_to_borrow(m, collateral) ==
  div_ceil(collateral * rate_num(m), rate_den(m))

\* The repay with the buffer the contract refunds.
buffer(amount) == (amount * SAFETY_BUFFER_BPS) \div BPS

-----------------------------------------------------------------------------
(***************************************************************************)
(* StrategyDecision.  `site' tells the early returns apart, as the log     *)
(* lines do.                                                               *)
(***************************************************************************)
Sized(repay, collateral) ==
  [kind |-> "Sized", repay |-> repay, collateral |-> collateral]
Decline(reason, site) == [kind |-> "Decline", reason |-> reason, site |-> site]
Abort == [kind |-> "Abort"]
Undecided == [kind |-> "Undecided"]

\* Fault: whoever is bound by the inventory is told to top up.
InventoryBoundOnly(m, full, collateral, liquidatable) ==
  IF ~full /\ collateral < apply_liquidatable_cap_buffer(liquidatable)
  THEN "InsufficientInventory" ELSE "NotViable"

\* A funding cause only if the inventory bound the slice and the largest slice
\* would reach the minimum.
below_minimum_decline_reason(m, full, collateral, liquidatable) ==
  LET cap == apply_liquidatable_cap_buffer(liquidatable)
      repay == collateral_to_borrow(m, cap) IN
  IF /\ ~full
     /\ collateral < cap
     /\ fits(repay)
     /\ saturating(repay + buffer(repay)) >= m.minimum
  THEN "InsufficientInventory"
  ELSE "NotViable"

\* Its two unchecked products, the second for a repay that converts.
below_minimum_overflows(m, liquidatable) ==
  LET repay == collateral_to_borrow(m, apply_liquidatable_cap_buffer(liquidatable)) IN
  \/ ~fits(liquidatable * (BPS - LIQUIDATABLE_CAP_BUFFER_BPS))
  \/ fits(repay) /\ ~fits(repay * SAFETY_BUFFER_BPS)

\* PercentageLiquidationStrategy::calculate_liquidation_amount.
percentage_amount(s, m, liquidatable, available) ==
  LET after_buffer == (available * (BPS - SAFETY_BUFFER_BPS)) \div BPS
      target_amount == (after_buffer * s.percentage) \div 100
      collateral == borrow_to_collateral(m, target_amount)
      target_collateral == IF m.partial
                           THEN min_with_cap_buffer(collateral, liquidatable)
                           ELSE liquidatable
      theoretical == collateral_to_borrow(m, target_collateral)
      final == saturating(theoretical + buffer(theoretical)) IN
  IF ~fits(available * (BPS - SAFETY_BUFFER_BPS)) THEN Abort
  ELSE IF target_amount = 0 THEN Decline("InsufficientInventory", "target")
  ELSE IF ~fits(collateral) THEN Decline("NotViable", "collateral")
  ELSE IF m.partial /\ ~fits(liquidatable * (BPS - LIQUIDATABLE_CAP_BUFFER_BPS))
       THEN Abort
  ELSE IF target_collateral = 0 THEN Decline("NotViable", "dust")
  ELSE IF ~fits(theoretical) THEN Decline("NotViable", "repay")
  ELSE IF ~fits(theoretical * SAFETY_BUFFER_BPS) THEN Abort
  ELSE IF final > available THEN Decline("InsufficientInventory", "balance")
  ELSE IF final < m.minimum
       THEN IF below_minimum_overflows(m, liquidatable) THEN Abort
            ELSE Decline(below_minimum_decline_reason(m, ~m.partial, collateral,
                                                      liquidatable), "minimum")
  ELSE Sized(final, target_collateral)

\* FixedAmountLiquidationStrategy::calculate_liquidation_amount.
fixed_amount(s, m, liquidatable, available) ==
  LET max_collateral == borrow_to_collateral(m, s.amount)
      safe_collateral == (max_collateral * (BPS - SAFETY_BUFFER_BPS)) \div BPS
      target_collateral == IF m.partial
                           THEN min_with_cap_buffer(safe_collateral, liquidatable)
                           ELSE liquidatable
      expected_minimum == collateral_to_borrow(m, target_collateral)
      with_buffer == saturating(expected_minimum
                       + (IF buffer(expected_minimum) >= 1
                          THEN buffer(expected_minimum) ELSE 1))
      final == least(with_buffer, s.amount) IN
  IF s.amount > available THEN Decline("InsufficientInventory", "budget")
  ELSE IF ~fits(max_collateral) THEN Decline("NotViable", "collateral")
  ELSE IF m.partial
          /\ \/ ~fits(max_collateral * (BPS - SAFETY_BUFFER_BPS))
             \/ ~fits(liquidatable * (BPS - LIQUIDATABLE_CAP_BUFFER_BPS))
       THEN Abort
  ELSE IF target_collateral = 0 THEN Decline("NotViable", "dust")
  ELSE IF ~fits(expected_minimum) THEN Decline("NotViable", "repay")
  ELSE IF ~fits(expected_minimum * SAFETY_BUFFER_BPS) THEN Abort
  ELSE IF ~m.partial /\ with_buffer > s.amount
       THEN Decline("NotViable", "full")
  ELSE IF final < m.minimum THEN Decline("NotViable", "minimum")
  ELSE IF ~m.partial /\ final > available
       THEN Decline("InsufficientInventory", "balance")
  ELSE Sized(final, target_collateral)

calculate_liquidation_amount(s, m, liquidatable, available) ==
  IF s.kind = "Percentage"
  THEN percentage_amount(s, m, liquidatable, available)
  ELSE fixed_amount(s, m, liquidatable, available)

\* Both built-in strategies declare that they may spend the whole balance.
max_liquidation_percentage == 100

\* validate_sizing: quotient and remainder keep the cap exact.
declared_cap(available) ==
  (available \div 100) * max_liquidation_percentage
    + ((available % 100) * max_liquidation_percentage) \div 100

validate_sizing(d, available) ==
  d.repay # 0 /\ d.collateral # 0 /\ d.repay <= declared_cap(available)

\* The part of size_position after the read of the inventory.
size_position(s, m, liquidatable, available) ==
  LET d == calculate_liquidation_amount(s, m, liquidatable, available) IN
  IF available < m.minimum
  THEN Decline("InsufficientInventory", "below_minimum")
  ELSE IF d.kind = "Sized" /\ ~validate_sizing(d, available)
       THEN Decline("NotViable", "invalid")
  ELSE d

-----------------------------------------------------------------------------
(***************************************************************************)
(* Profitability.                                                          *)
(***************************************************************************)
convert_collateral_to_borrow_asset(m, collateral) ==
  (collateral * m.unit_num) \div m.unit_den

\* Fault: the required revenue is rounded down.
ShouldLiquidateFloor(amount, value, gas) ==
  LET total_cost == saturating(amount + gas) IN
  value >= (total_cost * (BPS + MarginBps)) \div BPS

\* LiquidationStrategy::should_liquidate: a requirement that does not fit in a
\* u128 is never met.
should_liquidate(amount, value, gas) ==
  LET total_cost == saturating(amount + gas)
      scaled == total_cost * (BPS + MarginBps) IN
  fits(scaled) /\ value >= div_ceil(scaled, BPS)

\* The repay without its buffer: what the contract is expected to keep.
theoretical_amount_for_profit(repay) ==
  saturating(repay * BPS) \div (BPS + SAFETY_BUFFER_BPS)

-----------------------------------------------------------------------------
(***************************************************************************)
(* One position, attempted again and again.                                *)
(***************************************************************************)
VARIABLES
  strategy,   \* fixed when the bot starts
  market,     \* fixed when the market is registered
  available,  \* get_available_balance of the borrow asset
  deposit,    \* adjusted_position.collateral_asset_deposit: the liquidatable
              \* part, or the whole position on a market without partials
  gas,        \* the gas estimate of the attempt
  stage,      \* "size", "assess", "submit", or "end" of the attempt
  decision,   \* what size_position decided
  result      \* how the attempt ended

vars == <<strategy, market, available, deposit, gas, stage, decision, result>>

Init ==
  /\ strategy \in Strategies
  /\ market \in Markets
  /\ available \in Balances
  /\ deposit \in Deposits
  /\ gas \in GasCosts
  /\ stage = "size"
  /\ decision = Undecided
  /\ result = "none"

End(r) == stage' = "end" /\ result' = r

SkipOutcome(d) ==
  CASE d.kind = "Abort" -> "Aborted"
    [] d.kind = "Decline" /\ d.reason = "InsufficientInventory" -> "SkippedUnfunded"
    [] OTHER -> "Skipped"

\* size_position: sized, declined, or (a panic under panic = "abort") the end
\* of the process.
SizePosition ==
  /\ stage = "size"
  /\ decision' = size_position(strategy, market, deposit, available)
  /\ \/ /\ decision'.kind = "Sized"
        /\ stage' = "assess"
        /\ UNCHANGED result
     \/ /\ decision'.kind # "Sized"
        /\ End(SkipOutcome(decision'))
  /\ UNCHANGED <<strategy, market, available, deposit, gas>>

\* create_price_pair fails on the oracle response: liquidate returns the error.
PricePairFails ==
  /\ stage = "size"
  /\ End("Error")
  /\ UNCHANGED <<strategy, market, available, deposit, gas, decision>>

\* assess_profitability: both conversions must succeed, then the gate decides.
AssessProfitability ==
  LET value == convert_collateral_to_borrow_asset(market, decision.collateral) IN
  /\ stage = "assess"
  /\ \/ End("Skipped")
     \/ /\ fits(value)
        /\ IF should_liquidate(theoretical_amount_for_profit(decision.repay),
                               value, gas)
           THEN stage' = "submit" /\ UNCHANGED result
           ELSE End("Unprofitable")
  /\ UNCHANGED <<strategy, market, available, deposit, gas, decision>>

\* The contract, at the time of execution: the eligible collateral has shrunk
\* by `drop' and the price risen by `rise' basis points since the scan.
eligible_now(drop) == (deposit * (BPS - drop)) \div BPS
required_now(rise) ==
  div_ceil(decision.collateral * rate_num(market) * (BPS + rise),
           rate_den(market) * BPS)

Verdict(drop, rise) ==
  IF market.partial /\ decision.collateral > eligible_now(drop)
  THEN "ExcessiveLiquidation"
  ELSE IF decision.repay < required_now(rise) THEN "OfferTooLow"
  ELSE "Liquidated"

\* The contract keeps what it requires and refunds the rest; a position
\* liquidated in part may have any smaller amount eligible afterwards.
Submit(drop, rise) ==
  /\ stage = "submit"
  /\ End(Verdict(drop, rise))
  /\ IF Verdict(drop, rise) = "Liquidated"
     THEN /\ available' = available - required_now(rise)
          /\ deposit' \in {d \in Deposits : d <= deposit - decision.collateral}
     ELSE UNCHANGED <<available, deposit>>
  /\ UNCHANGED <<strategy, market, gas, decision>>

\* The next iteration or round: the balance was topped up or spent elsewhere,
\* or the position and the gas price moved.
NextAttempt ==
  /\ stage = "end"
  /\ result # "Aborted"
  /\ stage' = "size"
  /\ result' = "none"
  /\ decision' = Undecided
  /\ \/ available' \in Balances /\ UNCHANGED <<deposit, gas>>
     \/ deposit' \in Deposits /\ gas' \in GasCosts /\ UNCHANGED available
  /\ UNCHANGED <<strategy, market>>

Aborted == result = "Aborted" /\ UNCHANGED vars

Next ==
  \/ SizePosition \/ PricePairFails \/ AssessProfitability
  \/ \E drop \in CapDrops, rise \in PriceRises : Submit(drop, rise)
  \/ NextAttempt \/ Aborted

Spec == Init /\ [][Next]_vars

-----------------------------------------------------------------------------
(***************************************************************************)
(* Properties.                                                             *)
(***************************************************************************)
Reasons == {"InsufficientInventory", "NotViable"}
Sites == {"below_minimum", "target", "budget", "collateral", "dust", "repay",
          "full", "balance", "minimum", "invalid"}
Decision ==
  {Undecided, Abort}
    \cup [kind : {"Sized"}, repay : Nat, collateral : Nat]
    \cup [kind : {"Decline"}, reason : Reasons, site : Sites]
Results == {"none", "Skipped", "SkippedUnfunded", "Unprofitable", "Aborted", "Error",
            "Liquidated", "ExcessiveLiquidation", "OfferTooLow"}

TypeOK ==
  /\ strategy \in Strategies
  /\ market \in Markets
  /\ available \in Nat
  /\ deposit \in Deposits
  /\ gas \in GasCosts
  /\ stage \in {"size", "assess", "submit", "end"}
  /\ decision \in Decision
  /\ result \in Results

\* What sizing promises: the balance covers the repay, the request stays in the
\* buffered cap (or is the whole position), and the repay covers the request
\* with its buffer.
WellSized(d, m, liquidatable, balance) ==
  LET need == collateral_to_borrow(m, d.collateral) IN
  /\ d.repay \in Nat
  /\ d.collateral \in Nat \ {0}
  /\ d.repay <= balance
  /\ m.partial => d.collateral <= apply_liquidatable_cap_buffer(liquidatable)
  /\ d.collateral <= liquidatable
  /\ need + buffer(need) <= d.repay

\* What the stages of an attempt know, for the proofs.
StagesConsistent ==
  /\ stage \in {"assess", "submit"} =>
       decision.kind = "Sized" /\ WellSized(decision, market, deposit, available)
  /\ stage = "submit" =>
       should_liquidate(theoretical_amount_for_profit(decision.repay),
         convert_collateral_to_borrow_asset(market, decision.collateral), gas)

\* "Both built-ins satisfy these internally" (validate_sizing): the check
\* after the strategy never rejects one of them, and a slice that the market
\* lets the bot choose is never larger than the balance it was cut from.
SizingIsValid ==
  decision.kind = "Decline" =>
    /\ decision.site # "invalid"
    /\ decision.site = "balance" => ~market.partial

\* The two buffers do what their comments promise: a cap that shrinks by up to
\* LIQUIDATABLE_CAP_BUFFER_BPS does not trip ExcessiveLiquidation, and a price
\* that rises by up to SAFETY_BUFFER_BPS leaves the offer at most one raw unit
\* (the rounding) below what the contract asks.  In particular, at the scan's
\* prices the contract takes every offer.
DriftTolerated ==
  stage = "submit" =>
    \A drop \in CapDrops, rise \in PriceRises :
      /\ market.partial /\ drop <= LIQUIDATABLE_CAP_BUFFER_BPS
           => decision.collateral <= eligible_now(drop)
      /\ rise <= SAFETY_BUFFER_BPS => required_now(rise) <= decision.repay + 1
      /\ required_now(0) <= decision.repay

\* "The gate must never accept a value strictly below" the margin
\* (should_liquidate).  The amount it is given has the buffer divided out
\* again, so what is kept by the contract is understated by at most one unit.
MarginKept ==
  stage = "submit" /\ fits(decision.repay * BPS) =>
    (collateral_to_borrow(market, decision.collateral) - 1 + gas) * (BPS + MarginBps)
      <= convert_collateral_to_borrow_asset(market, decision.collateral) * BPS

\* A larger balance would have been sized.
Fundable ==
  \E b \in Balances :
    /\ b > available
    /\ size_position(strategy, market, deposit, b).kind = "Sized"

\* "A funding cause requires BOTH that the inventory-derived target bound the
\* slice AND that a larger balance could actually reach the minimum"
\* (below_minimum_decline_reason): below the market's minimum, the bot asks for
\* a top-up exactly when one helps.
BelowMinimumHonest ==
  decision.kind = "Decline" /\ decision.site = "minimum" =>
    (decision.reason = "InsufficientInventory" <=> Fundable)
=============================================================================
