\* Agents, operators and attestations of one address, five events, one crash.
SPECIFICATION MirrorSpec
CONSTANTS
  owner = owner
  audit = audit
  profile = profile
  ZeroAddress = ZeroAddress
  ZeroHash = ZeroHash
  Address = {owner}
  Schema = {audit}
  Subject = {profile}
  MaxAttestations = 2
  MaxAgents = 1
  MaxVersion = 1
  Bond = {0, 1}
  MaxLog = 5
  MaxCrashes = 1
INVARIANT TablesAgree
PROPERTY RevocationsStay
CONSTRAINT Separate
CHECK_DEADLOCK FALSE
