\* Batch and jit swaps over endless cycles, an open deposit outliving its call.
SPECIFICATION FairSpec
CONSTANTS
  MaxAttempts = 3
  PollLimit = 2
  MaxCollateral = 2
INVARIANTS
  DepositsOnce
  DefinitiveIsAccounted
  UnaccountedIsAlerted

  
