\* The documented claim without its exception.
SPECIFICATION Spec
CONSTANTS
  p1 = p1
  p2 = p2
  Positions = {p1, p2}
  Concurrency = 2
  ContractMinimum = 1
  MaxIterations = 1
  LoopLiquidation = FALSE
  SwapToBorrow = FALSE
  TruthfulGateway = FALSE
  MaxPercentage = 100
  MaxBalance = 2
SYMMETRY PositionSymmetry
INVARIANTS
  NoDoubleSpend
