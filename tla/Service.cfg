\* Both modes, two markets that come and go, an alert at the second failure in a
\* row, room for two messages in flight.
SPECIFICATION FairServiceSpec
CONSTANTS
  m1 = m1
  m2 = m2
  b1 = b1
  k1 = k1
  NoMarket = NoMarket
  Markets = {m1, m2}
  Borrowers = {b1}
  Kinds = {k1}
  Cooldown = 2
  MaxInflight = 2
  Threshold = 2
  MaxFailures = 3
INVARIANTS
  AlertsPaired
  NothingNewAfterSignal
  ExitDelivers
  SilenceIsEarned
  NoFlood
PROPERTIES
  NotifierSpec
  GracefulExit
  OnceEnds
