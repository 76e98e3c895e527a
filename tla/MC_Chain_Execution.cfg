SPECIFICATION Spec

CONSTANTS
  alice = alice
  bob = bob
  Address = {alice, bob}
  U64 = 16
  NoAccount = NoAccount
  NotRecorded = NotRecorded
  Tx <- MCTx
  Hash = {g, h1}
  GenesisHash = g
  NoHash = NoHash
  NoBlock = NoBlock
  NoReceipt = NoReceipt
  WrongRoot = WrongRoot
  Bodies <- MCBodies
  Directly <- MCDirectly
  GasUsed = 1
  Funding = {"committed"}
  FundAmounts = {4}
  MaxMinted = 8
  MaxHeight = 1
  MaxTime = 1

INVARIANTS
  NoReplay
  NonceCountsExecutions
  Conservation

PROPERTIES
  TransactionsAtomic
