SPECIFICATION Spec

CONSTANTS
  alice = alice
  bob = bob
  Address = {alice, bob}
  U64 = 16
  NoAccount = NoAccount
  NotRecorded = NotRecorded
  Tx <- MCNoTx
  Hash = {g, h1, h2, h3, h4, h5}
  GenesisHash = g
  NoHash = NoHash
  NoBlock = NoBlock
  NoReceipt = NoReceipt
  WrongRoot = WrongRoot
  Bodies <- MCEmptyBody
  Directly <- MCNoTx
  GasUsed = 1
  Funding = {"committed"}
  FundAmounts = {}
  MaxMinted = 8
  MaxHeight = 3
  MaxTime = 3

SYMMETRY MCSymmetry

INVARIANTS
  HeadIndexed
  VerifiesUnlessForked
