CONSTANTS
  Deployments = {"m1", "m2", "old", "adapter"}
  Listing <- MCListing
  Collateral <- MCCollateral
  Borrow <- MCBorrow
  Facts <- MCFacts
  Proxies = {"proxy", "proxy2"}
  Usdc = {"usdc"}
  Allowed = {"m1", "m2", "old", "adapter"}
  Deprecated = {"old"}
  Ignored = {}
  AllowedCollateral = {}
  IgnoredCollateral = {}
  MaxRefreshes = 2
SPECIFICATION Spec
INVARIANTS AdmissionSound GaugesBalance SwapRoutesSound
