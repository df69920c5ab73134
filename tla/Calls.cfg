SPECIFICATION FairCalls
CONSTANTS
    alice = alice
    bob = bob
    carol = carol
    mallory = mallory
    usdc = usdc
    apes = apes
    Users <- WithMallory
    Wallets = {mallory}
    Protocol = bvb
    NoOne = noone
    Deployer = bob
    WETH = weth
    Assets = {weth, usdc}
    Collections = {apes}
    TokenIds = {1}
    MaxUint <- Huge
    InitialBalance <- AmpleBalance
    InitialAllowance <- MCAllowance
    InitialEther <- AmpleEther
    InitialOwner <- AliceHasOne
    InitialApproval <- MCApproval
    Orders <- BullSide
    SignedOrders <- BullSide
    SellOrders <- Offers
    SignedSellOrders <- Offers
    MaxTime = 3
    FeeRates = {50}
    Revokers = {}
    Nonces = {}
    Tips = {0}
    Takers = {mallory}
    Recipients = {bob}
    Successors = {}
    Holders = {}
    Amounts = {}
    Approvals = {}
    Notifying = {usdc}
    MaxBatch = 1
    MaxCallbacks = 2
    MaxDepth = 2
CHECK_DEADLOCK FALSE
PROPERTIES
    CallsAreAtomic
    TransactionsEnd
