SPECIFICATION Spec
CONSTANTS
    alice = alice
    bob = bob
    carol = carol
    mallory = mallory
    usdc = usdc
    apes = apes
    Users <- TwoUsers
    Wallets = {}
    Protocol = bvb
    NoOne = noone
    Deployer = bob
    WETH = weth
    Assets = {weth}
    Collections = {apes}
    TokenIds = {1}
    MaxUint <- LimitMax
    InitialBalance <- TightBalance
    InitialAllowance <- TightAllowance
    InitialEther <- TightEther
    InitialOwner <- MCOwner
    InitialApproval <- TightApproval
    Orders <- LimitOrders
    SignedOrders <- LimitOrders
    SellOrders = {}
    SignedSellOrders = {}
    MaxTime = 3
    FeeRates = {0}
    Revokers = {alice}
    Nonces = {}
    Tips = {}
    Takers = {alice, bob}
    Recipients = {bvb}
    Successors = {}
    Holders = {alice, bob}
    Amounts = {40}
    Approvals = {40}
CHECK_DEADLOCK FALSE
INVARIANTS
    BalancesFit
    BullCanReclaim
    BearCanSettle
PROPERTY SurplusOnlyFromGifts
