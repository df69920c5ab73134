SPECIFICATION Spec
CONSTANTS
    alice = alice
    bob = bob
    carol = carol
    mallory = mallory
    usdc = usdc
    apes = apes
    Users <- ThreeUsers
    Wallets = {}
    Protocol = bvb
    NoOne = noone
    Deployer = carol
    WETH = weth
    Assets = {weth, usdc}
    Collections = {apes}
    TokenIds = {1}
    MaxUint <- Huge
    InitialBalance <- MCBalance
    InitialAllowance <- MCAllowance
    InitialEther <- MCEther
    InitialOwner <- MCOwner
    InitialApproval <- MCApproval
    Orders <- OneOrder
    SignedOrders <- OneOrder
    SellOrders <- Sales
    SignedSellOrders <- Sales
    MaxTime = 3
    FeeRates = {20, 50}
    Revokers = {alice}
    Nonces = {}
    Tips = {0}
    Takers = {bob, carol}
    Recipients = {}
    Successors = {}
    Holders = {}
    Amounts = {}
    Approvals = {}
CHECK_DEADLOCK FALSE
PROPERTY DisallowedCollectionsAreNotSold
