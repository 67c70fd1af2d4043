\* The documented claim about the counts, in loop mode.
SPECIFICATION Spec
CONSTANTS
  p1 = p1
  p2 = p2
  Positions = {p1, p2}
  Concurrency = 2
  ContractMinimum = 1
  MaxIterations = 2
  LoopLiquidation = TRUE
  SwapToBorrow = FALSE
  TruthfulGateway = TRUE
  MaxPercentage = 100
  MaxBalance = 2
SYMMETRY PositionSymmetry
INVARIANTS
  ExecutedIsCounted
