CONSTANTS
  alice = alice
  bob = bob
  Precision = 2
  ElasticityMultiplier = 2
  BaseFeeChangeDenominator = 2
  MinGasMultiplier = 1
  Accounts <- MCAccounts
  Scenarios <- MCScenarios
  IntrinsicGas = 1
  RefundQuotient = 2
  MaxNonce = 4
  MaxHeight = 3
SPECIFICATION Spec
CHECK_DEADLOCK FALSE
INVARIANTS
  FeesExact
  NoReplay
  ReceiptsAddUp
PROPERTY
  BaseFeeFollowsGas
