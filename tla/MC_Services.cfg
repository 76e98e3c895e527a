\* The services beside the chain, one behaviour each; pools may be inactive.
SPECIFICATION Spec
CONSTANTS
  Validator = {v1, v2}
  Year = 1
  Never = 99
  U64 = 5
  Precision = 65536
  MaxTime = 1
  Amounts = {0, 1, 4, 6}
  FeeRate = 30
  Unbonding = 1
  MaxCalls = 4
  LoanAmounts = {0, 3, 6}
  Collaterals = {6}
  BaseRate = 5000
  OptimalUtilization = 8000
  RateAtOptimal = 6000
  MaxRate = 20000
  CollateralRatio = 15000
  LiquidationThreshold = 12000
  MaxSupply = 6
  Category = {c1, c2}
  StandardCategory = {c1}
  Budgets = {0, 1, 2}
  Plans <- MCPlans
  TreasuryDeposits = {1}
  MaxTreasury = 1
  MaxGrants = 2
  PoolInfo <- MCPoolInfo
  Chosen <- MCChosen
  Deployable = {3, 5}
  Delay = {1}
  MinDeployment = 1
  Apys = {0}
  Scores = {10001}
  NoLimit = NoLimit
  MaxTvl = 5
  MaxAdjusted = 1
  TargetTransactions = 2
  TargetAddresses = 1
  AllowOverride = TRUE
  NoticePeriod = 2
  BlendPeriod = 2
  Metrics = {0, 1}
  Phase1Rate <- MCPhase1Rate
  Phase2Rate <- MCPhase2Rate
  Observed = {0, 1}
  MaxTransactions = 2
  MaxHeight = 4
  MaxMinted = 2
  Account = {v1, v2}
  Precompile = {p}
  NoTarget = NoTarget
  Values = {0, 1}
  GasLimits = {2, 4, 6}
  TxGas = 2
  TxCreateGas = 2
  CreateGas = 2
  CallGas = 2
  PrecompileGas = 2
  EstimationGas = 6
  MaxNonce = 1
  MaxBalance = 2
INVARIANTS
  SecondPhaseEarned
  DeploymentsNumbered
  PoolsBalanced
  LoansCovered
  DisbursedWithinGranted
SYMMETRY MCSymmetry
CHECK_DEADLOCK FALSE
