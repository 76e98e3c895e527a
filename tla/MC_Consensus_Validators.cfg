SPECIFICATION Spec

CONSTANTS
  v = v
  w = w
  Address = {v, w}
  NoValidator = NoValidator
  None = None
  U64 = 1000
  MinStake = 40
  UnbondingPeriod = 1
  MaxDowntimeBlocks = 1
  BlocksPerDay = 1
  Hash <- MCChain
  Genesis = 0
  Ancestors <- MCChainAncestors
  Number <- MCChainNumber
  Proposer <- MCChainProposer
  MaxNumber = 2
  SearchLimit = 10
  MaxReorgDepth = 3
  FinalityBlocks = 2
  BlocksPerEpoch = 2
  MaxHistory = 1
  MaxCount = 2
  Deposits = {40}
  Withdrawals = {12}
  Statuses = {"Active"}
  Reports = {"GovernanceAttack"}
  Checkpoints = {}
  MaxBonded = 80
  MaxProduced = 1
  MaxMissed = 1
  MaxOffenses = 2
  MaxForks = 1
  MaxTime = 1

INVARIANTS
  OffensesEscalate
  StakeAccounted
  SlotsProportional
