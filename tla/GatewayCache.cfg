\* Two callers over two symbols and two gateways.  The clock crosses
\* a TTL and a backoff, with a tick left for what follows.  No property reads
\* what is served for a symbol, so the package maps are empty here; MarketScan
\* gives them content.
CONSTANTS
  Callers = {c1, c2}
  Symbols = {BTC, USDC}
  Gateways = 2
  PackageLists = {}
  Ttl = 2
  Backoff = 2
  MaxTime = 3
SPECIFICATION CacheSpec
INVARIANTS FetchesSpaced AnswersSound
PROPERTIES EveryCallAnswered
