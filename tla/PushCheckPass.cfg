\* A live check of two markets over a RedStone feed and a Pyth Pro feed.
SPECIFICATION CheckSpec
CONSTANTS
  me = me
  f1 = f1
  f2 = f2
  Me = me
  Pushers = {me}
  Feeds = {f1, f2}
  PythFeeds = {f2}
  RedStoneFeeds = {f1}
  PythProPush = TRUE
  RedStoneLeg = TRUE
  MinInterval = 2
  TruthfulGateway = TRUE
  PromptGateway = TRUE
  Markets <- CheckedMarkets
  DryRun = FALSE
INVARIANTS
  PassMeansOwnPush
