SPECIFICATION CallersSpec
VIEW WithoutCaller
CONSTANTS
    alice = alice
    bob = bob
    carol = carol
    mallory = mallory
    usdc = usdc
    apes = apes
    Users <- ThreeUsers
    Wallets = {}
    Protocol = bvb
    NoOne = noone
    Deployer = carol
    WETH = weth
    Assets = {weth, usdc}
    Collections = {apes}
    TokenIds = {1}
    MaxUint <- Huge
    InitialBalance <- MCBalance
    InitialAllowance <- MCAllowance
    InitialEther <- MCEther
    InitialOwner <- MCOwner
    InitialApproval <- MCApproval
    Orders <- OneOrder
    SignedOrders <- OneOrder
    SellOrders <- Sales
    SignedSellOrders <- Sales
    MaxTime = 3
    FeeRates = {50}
    Revokers = {alice}
    Nonces = {0, 1}
    Tips = {3}
    Takers = {bob, carol}
    Recipients = {alice}
    Successors = {}
    Holders = {}
    Amounts = {}
    Approvals = {}
CHECK_DEADLOCK FALSE
INVARIANT NeverUsedAndCanceled
PROPERTIES
    RevokedStaysRevoked
    PositionMovesOnlyWithConsent
    BuyersGetLiveContracts
    MoneyIsConserved
    SurplusOnlyFromGifts
