SPECIFICATION MCSpec
CONSTANTS
  alice = alice
  bob = bob
  Users = {alice, bob}
  Amounts = {1, 2}
  Behaviours <- MCRefusal
  MaxSent = 1
  MaxReceived = 1
  MaxVouchers = 3
PROPERTY RefundReturned
CHECK_DEADLOCK FALSE
