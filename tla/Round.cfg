\* The loop, live or simulated, and a gateway whose answer may be unclear
\* (no symmetry: liveness).
SPECIFICATION FairSpec
CONSTANTS
  p1 = p1
  p2 = p2
  Positions = {p1, p2}
  Concurrency = 2
  ContractMinimum = 1
  MaxIterations = 2
  LoopLiquidation = TRUE
  SwapToBorrow = TRUE
  TruthfulGateway = FALSE
  MaxPercentage = 100
  MaxBalance = 2
INVARIANTS
  ReservedIsHeld
  BalanceBacked
  CommitmentsFunded
  UnfundedPaysNoGas
  IterationBudget
PROPERTIES
  LedgerRefined
  RoundEnds
  ShutdownDrains
