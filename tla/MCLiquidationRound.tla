------------------------- MODULE MCLiquidationRound -------------------------
(* LiquidationRound for TLC: interchangeable positions. *)
EXTENDS LiquidationRound, TLC

PositionSymmetry == Permutations(Positions)
=============================================================================
