\* Three positions, one attempt each, an answer that always tells the truth.
SPECIFICATION Spec
CONSTANTS
  p1 = p1
  p2 = p2
  p3 = p3
  Positions = {p1, p2, p3}
  Concurrency = 2
  MaxIterations = 1
  LoopLiquidation = FALSE
  SwapToBorrow = TRUE
  TruthfulGateway = TRUE
  ContractMinimum = 1
  MaxPercentage = 100
  MaxBalance = 3
SYMMETRY PositionSymmetry
INVARIANTS
  NoDoubleSpend
  SummaryMatchesChain
