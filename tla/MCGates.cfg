CONSTANTS
  op = op
  user = user
  gov = gov
  Accounts = {op, user}
  Authority = gov
  MaxNestedIbcMsgs = 3
  MaxNesting = 2
  Txs <- MCTxs
  Proposals <- MCProposals
SPECIFICATION Spec
INVARIANTS
  OperatorCanRestore
PROPERTIES
  IbcStopHolds
  SystemStopHolds
