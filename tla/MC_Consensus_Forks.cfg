SPECIFICATION Spec

CONSTANTS
  v = v
  w = w
  Address = {v, w}
  NoValidator = NoValidator
  None = None
  U64 = 1000
  MinStake = 40
  UnbondingPeriod = 1
  MaxDowntimeBlocks = 1
  BlocksPerDay = 1
  Hash <- MCHash
  Genesis = 0
  Ancestors <- MCAncestors
  Number <- MCNumber
  Proposer <- MCProposer
  MaxNumber = 3
  SearchLimit = 10
  MaxReorgDepth = 3
  FinalityBlocks = 2
  BlocksPerEpoch = 2
  MaxHistory = 2
  MaxCount = 2
  Deposits = {40}
  Withdrawals = {40}
  Statuses = {"Active"}
  Reports = {}
  Checkpoints = {0, 1, 2, 3}
  MaxBonded = 80
  MaxProduced = 2
  MaxMissed = 0
  MaxOffenses = 0
  MaxForks = 3
  MaxTime = 0

INVARIANT
  HeadCanonical

PROPERTY
  FinalStays
