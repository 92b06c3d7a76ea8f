\* One merchant, two services that may share an id, up to MaxLog events and one crash.
SPECIFICATION MirrorSpec
CONSTANTS
  merchant = merchant
  hash = hash
  sid = sid
  ZeroAddress = ZeroAddress
  ZeroHash = ZeroHash
  Hash = {hash}
  ServiceId = {sid}
  Address = {merchant}
  Commitments <- Quotes
  MaxMerchants = 1
  MaxServices = 2
  MaxFacilitators = 1
  MaxReceipts = 2
  MaxDisputes = 1
  MaxSignals = 1
  MaxCommits = 2
  MaxTime = 2
  MaxLog = 7
  MaxCrashes = 1
INVARIANTS RowsReal MirrorExact
ACTION_CONSTRAINT MirrorLast
CONSTRAINT Focus
CHECK_DEADLOCK FALSE
