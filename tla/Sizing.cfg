\* Sizing, the profitability gate and drift, for both strategies.
SPECIFICATION Spec
CONSTANTS
  MaxU128 = 4000000
  Percents = {25, 100}
  FixedAmounts = {5, 100, 202}
  Minimums = {0, 40}
  Strategies <- MCStrategies
  Markets <- MCMarkets
  Balances <- MCBalances
  Deposits <- MCDeposits
  GasCosts = {0, 2}
  MarginBps = 1100
  CapDrops = {0, 300, 400}
  PriceRises = {0, 25, 50, 80}
INVARIANTS
  SizingIsValid
  DriftTolerated
  MarginKept
  BelowMinimumHonest
