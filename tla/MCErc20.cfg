SPECIFICATION MCSpec
CONSTANTS
  alice = alice
  bob = bob
  Users = {alice, bob}
  Amounts = {1, 2}
  Behaviours <- MCBehaviours
  MaxSent = 1
  MaxReceived = 1
  MaxVouchers = 3
INVARIANTS CoinsBacked EscrowCoversClaims
PROPERTIES OnlySignerPays RefinesAssetLedger RefundsNotBlocked OwnerConsents
CHECK_DEADLOCK FALSE
