\* One demanding intent bid for twice, or three intents sharing nonces.
SPECIFICATION Spec
CONSTANTS
  owner = owner
  solver = solver
  rival = rival
  hash = hash
  audit = audit
  profile = profile
  ZeroAddress = ZeroAddress
  ZeroHash = ZeroHash
  Address = {owner, solver, rival}
  Schema = {audit, ZeroHash}
  Subject = {profile}
  Hash = {hash}
  Intents <- AllIntents
  Offers <- AllOffers
  MaxAttestations = 1
  MaxIntents = 3
  MaxBids = 2
  MaxTime = 4
INVARIANTS TypeOK SelectionConsistent FillsHonourAgreements NonceNeverReplayed OneFillPerIntent
PROPERTIES TermsAreImmutable ImplementsLifecycle TerminalIsFrozen
CONSTRAINT Scoped
CHECK_DEADLOCK FALSE
