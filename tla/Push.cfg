\* Two positions push two RedStone feeds and a feed Pyth Pro refreshes too;
\* writes are answered truthfully and in time.
SPECIFICATION UpdateSpec
CONSTANTS
  p1 = p1
  p2 = p2
  f1 = f1
  f2 = f2
  f3 = f3
  Pushers = {p1, p2}
  Feeds = {f1, f2, f3}
  PythFeeds = {f3}
  RedStoneFeeds = {f1, f2, f3}
  PythProPush = TRUE
  RedStoneLeg = TRUE
  MinInterval = 3
  TruthfulGateway = TRUE
  PromptGateway = TRUE
SYMMETRY PushSymmetry
INVARIANTS
  NoEarlyWrite
  SuppressionJustified
  PushReachesProxy
