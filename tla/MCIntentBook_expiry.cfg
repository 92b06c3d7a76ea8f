\* One intent, tried after its deadline.
SPECIFICATION Spec
CONSTANTS
  owner = owner
  solver = solver
  rival = rival
  hash = hash
  audit = audit
  profile = profile
  ZeroAddress = ZeroAddress
  ZeroHash = ZeroHash
  Address = {owner, rival}
  Schema = {audit}
  Subject = {profile}
  Hash = {hash}
  Intents <- SimpleIntents
  Offers <- AllOffers
  MaxAttestations = 0
  MaxIntents = 1
  MaxBids = 1
  MaxTime = 4
INVARIANT LateFillRecorded

CHECK_DEADLOCK FALSE
