\* Two receipts and a dispute of one merchant, or two merchants and facilitators.
SPECIFICATION Spec
CONSTANTS
  merchant = merchant
  agent = agent
  facilitator = facilitator
  hash = hash
  sid = sid
  ZeroAddress = ZeroAddress
  ZeroHash = ZeroHash
  ServiceId = {sid}
  Hash = {hash}
  Address = {merchant, agent, facilitator}
  Commitments <- TheCommitments
  MaxMerchants = 2
  MaxServices = 2
  MaxFacilitators = 2
  MaxReceipts = 2
  MaxDisputes = 1
  MaxSignals = 1
  MaxCommits = 2
  MaxTime = 2
INVARIANTS TypeOK FacilitatorIndexExact ChainSound ReceiptsCovered ActorsAuthorised
PROPERTY TrailOnlyGrows
CONSTRAINT Scoped
CHECK_DEADLOCK FALSE
