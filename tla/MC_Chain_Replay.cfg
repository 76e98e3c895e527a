SPECIFICATION Spec

CONSTANTS
  alice = alice
  bob = bob
  Address = {alice, bob}
  U64 = 16
  NoAccount = NoAccount
  NotRecorded = NotRecorded
  Tx <- MCTxPay
  Hash = {g, h1, h2}
  GenesisHash = g
  NoHash = NoHash
  NoBlock = NoBlock
  NoReceipt = NoReceipt
  WrongRoot = WrongRoot
  Bodies <- MCBodiesPay
  Directly <- MCNoTx
  GasUsed = 1
  Funding = {"bare"}
  FundAmounts = {4}
  MaxMinted = 8
  MaxHeight = 2
  MaxTime = 2

INVARIANT
  NoReplay
