\* Four settings mirrored with a crash anywhere, or three bids selected in any order.
SPECIFICATION GatewaySpec
CONSTANTS
  Native = Native
  token = token
  watcher = watcher
  other = other
  k1 = k1
  k2 = k2
  shop = shop
  method = method
  nft = nft
  zero = zero
  NoGuardian = NoGuardian
  NoAddress = NoAddress
  NoSelector = zero
  Target = {token}
  Selector = {method, nft, zero}
  NFTSelector = {nft}
  Guardian = {watcher, other}
  PaymentKey = {k1, k2}
  PaymentHash = {}
  Amount = {1, 2}
  Maximum = {0, 1}
  Day = 2
  MaxTime = 2
  MaxCharges = 1
  MerchantOf <- OneShop
  PaymentTerms <- TwoTerms
  PreflightCalls <- AllCalls
  MaxBids = 4
  MaxLog = 4
  MaxCrashes = 1
INVARIANTS PoliciesShown PreflightAgrees OneWinner
CONSTRAINT Scoped
CHECK_DEADLOCK FALSE
