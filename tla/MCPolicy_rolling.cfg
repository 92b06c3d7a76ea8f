\* Spends of one token across the edge of a window.
SPECIFICATION Spec
CONSTANTS
  Native = Native
  token = token
  key = key
  watcher = watcher
  method = method
  merchant = merchant
  h1 = h1
  h2 = h2
  NoGuardian = NoGuardian
  Module = Module
  Self = Self
  Target = {token}
  Selector = {}
  Guardian = {}
  PaymentKey = {}
  PaymentHash = {}
  Amount = {1, 2}
  Maximum = {0, 1, 2}
  Day = 2
  MaxTime = 5
  Key = {}
  Calls <- SpendCalls
  Order = {}
  Expiry = {}
  MaxDepth = 1
  MaxSpends = 3
  MaxPayments = 0
  GrantedTarget = {token}
  GrantedFunction = {}
INVARIANT RollingDailyLimit
CHECK_DEADLOCK FALSE
