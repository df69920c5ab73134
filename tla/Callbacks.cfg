SPECIFICATION CallsSpec
CONSTANTS
    alice = alice
    bob = bob
    carol = carol
    mallory = mallory
    usdc = usdc
    apes = apes
    Users <- AliceAndMallory
    Wallets = {mallory}
    Protocol = bvb
    NoOne = noone
    Deployer = mallory
    WETH = usdc
    Assets = {usdc}
    Collections = {apes}
    TokenIds = {1, 2}
    MaxUint <- Huge
    InitialBalance <- ScarceBalance
    InitialAllowance <- MCAllowance
    InitialEther <- AmpleEther
    InitialOwner <- MalloryHasAll
    InitialApproval <- MCApproval
    Orders <- BothSides
    SignedOrders <- BothSides
    SellOrders = {}
    SignedSellOrders = {}
    MaxTime = 3
    FeeRates = {0, 50}
    Revokers = {}
    Nonces = {}
    Tips = {0}
    Takers = {mallory}
    Recipients = {mallory}
    Successors = {}
    Holders = {}
    Amounts = {}
    Approvals = {}
    Notifying = {usdc}
    MaxBatch = 2
    MaxCallbacks = 1
    MaxDepth = 2
CHECK_DEADLOCK FALSE
INVARIANT SolventThroughoutCalls
PROPERTY BatchesAreAllOrNothing
