SPECIFICATION HelpersSpec
VIEW WithoutCaller
CONSTANTS
    alice = alice
    bob = bob
    carol = carol
    mallory = mallory
    usdc = usdc
    apes = apes
    Users <- ThreeUsers
    Wallets = {}
    Protocol = bvb
    NoOne = noone
    Deployer = carol
    WETH = weth
    Assets = {weth}
    Collections = {apes}
    TokenIds = {1}
    MaxUint <- Huge
    InitialBalance <- HelpersBalance
    InitialAllowance <- MCAllowance
    InitialEther <- HelpersEther
    InitialOwner <- MCOwner
    InitialApproval <- MCApproval
    Orders <- AllThree
    SignedOrders <- SignedTwo
    SellOrders <- BothOffers
    SignedSellOrders <- BothOffers
    MaxTime = 1
    FeeRates = {20, 50}
    Revokers = {alice}
    Nonces = {1}
    Tips = {0}
    Takers = {bob}
    Recipients = {}
    Successors = {carol}
    Holders = {alice}
    Amounts = {}
    Approvals = {0}
    Deployments = {bvb}
CHECK_DEADLOCK FALSE
INVARIANT ValidOrdersCanBeMatched
PROPERTIES
    QuotesAreCharged
    AnswersHoldUnlessMakerOrOwnerActs
    SaleAnswersHoldUnlessSellerActs
    NobodyPaysUnasked
