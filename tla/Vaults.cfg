SPECIFICATION Spec
CONSTANTS
    Fees = fees
    alice = alice
    bob = bob
    carol = carol
    mallory = mallory
    usdc = usdc
    apes = apes
    Users <- ThreeUsers
    Wallets = {}
    Protocol = bvb
    NoOne = noone
    Deployer = carol
    WETH = weth
    Assets = {weth}
    Collections = {apes}
    TokenIds = {1}
    MaxUint <- Huge
    InitialBalance <- SmallBalance
    InitialAllowance <- MCAllowance
    InitialEther <- SmallEther
    InitialOwner <- MCOwner
    InitialApproval <- MCApproval
    Orders <- TwoOrders
    SignedOrders <- TwoOrders
    SellOrders <- FirstOffers
    SignedSellOrders <- FirstOffers
    MaxTime = 4
    FeeRates = {50}
    Revokers = {alice}
    Nonces = {}
    Tips = {0}
    Takers = {bob}
    Recipients = {bob}
    Successors = {}
    Holders = {}
    Amounts = {}
    Approvals = {}
CHECK_DEADLOCK FALSE
PROPERTIES
    EveryContractHasItsOwnVault
