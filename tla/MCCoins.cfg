CONSTANTS
  u1 = u1
  u2 = u2
  evm = evm
  feecoll = feecoll
  Users <- MCUsers
  Modules <- MCModules
  Reserve = Reserve
  Minters <- MCMinters
  Burners <- MCBurners
  EVM = evm
  FeeCollector = feecoll
  ConversionFactor = 3
  MaxAmount = 7
  MaxSupply = 3
  v1 = v1
  v2 = v2
  admin = admin
  Validators = {v1, v2}
  MinBlocksInEpoch = 1
  MaxBlocksInEpoch = 2
  MinRewardsPerEpoch = 3
  MaxRewardsPerEpoch = 8
  DefaultRewardSettings <- MCDefaultRewardSettings
  Precision = 100
  PowerPoints = 10
  ProposerBonusPoints = 1
  Commits <- MCCommits
  BlocksInputs = {0, 1, 2}
  RewardsInputs = {3, 9}
  Scenarios <- MCScenarios
  MaxEpoch = 2
  MaxPool = 12
SPECIFICATION MCSpec
CHECK_DEADLOCK FALSE
INVARIANTS
  ReserveBacking
  SendIffFunded
  MintAndBurnBacked
  EpochBudget
  ExportValidates
PROPERTIES
  RefinesExtendedLedger
  SettledOnce
  OnlyPayoutUnfunds
