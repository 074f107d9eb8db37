SPECIFICATION MCProposals
CONSTANTS
    acc1 = acc1
    acc2 = acc2
    Accounts = {acc1, acc2}
    Txs <- MCTxs
    AccountStates <- MCAccountStates
    Genesis <- MCGenesis
    MaxBlocks = 1
    MaxFailures = 1
    AccountSlots = 1
    GlobalSlots = 2
    AccountQueue = 1
    GlobalQueue = 1
    PriceBump = 10
    Senders = {acc1, acc2}
    EvmPools <- MCEvmPools
    CosmosPools <- MCCosmosPools
    BaseFees = {0, 1, 2}
    NoFee = NoFee
    MinTips = {NoFee, 1}
    MaxHeads = 2
PROPERTY AdvancesWhatWasOffered
CHECK_DEADLOCK FALSE
