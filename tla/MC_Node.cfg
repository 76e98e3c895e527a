\* The runtime's tasks, the RPC submissions and the fork history, with crashes.
SPECIFICATION FairSpec
CONSTANTS
  alice = alice
  bob = bob
  None = None
  Address = {alice, bob}
  U64 = 1000
  Tx <- MCTx
  Raw <- MCRaw
  MaxSize = 3
  MaxPerAccount = 2
  MinGasPrice = 1
  MaxAge = 0
  MaxAdded = 3
  Client = {c1, c2}
  BlockGasLimit = 4
  MaxTxCount = 3
  PersistLimit = 3
  Retention = 1
  Recent = 0
  Threshold = 1
  MaxFailures = 1
  MaxHeight = 1
  MaxTime = 1
INVARIANTS
  PoolNeverAhead
  SelectionGreedy
  AcknowledgedSurvives
  SignificantForksKept
PROPERTIES
  PersistedEventually
