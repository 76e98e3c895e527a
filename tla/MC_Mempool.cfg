CONSTANTS
  alice = alice
  bob = bob
  Address = {alice, bob}
  U64 = 1000
  Tx <- MCTx
  MaxSize = 3
  MaxPerAccount = 2
  MinGasPrice = 2
  MaxAge = 1
  MaxAdded = 5
SPECIFICATION FairSpec
INVARIANTS
  EntriesIndexed
  SenderCountsExact
  LimitsRespected
  MetricsConsistent
PROPERTIES
  EntriesExpire
