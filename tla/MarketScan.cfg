CONSTANTS
  Callers = {"scan"}
  Symbols = {"BTC"}
  Gateways = 1
  PackageLists <- MCPackageLists
  Ttl = 2
  Backoff = 1
  MaxTime = 3
  PriceIds <- MCPriceIds
  Sources <- MCSources
  LazerFeeds = {1, 2}
  Quotes <- MCQuotes
  MaxAge = 2
  Skew = 1
  Rates = {1, 2}
  PageSize = 2
  MaxScans = 2
  MaxOpens = 1
  MaxCloses = 2
SPECIFICATION Spec
INVARIANTS MedianRobust BadFeedIsolated SourceOrderKept OneRatePerScan ListingMissesFew
