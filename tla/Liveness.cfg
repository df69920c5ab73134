SPECIFICATION FairSpec
CONSTANTS
    alice = alice
    bob = bob
    carol = carol
    mallory = mallory
    usdc = usdc
    apes = apes
    Users <- WithMallory
    Wallets = {mallory}
    Protocol = bvb
    NoOne = noone
    Deployer = bob
    WETH = weth
    Assets = {weth}
    Collections = {apes}
    TokenIds = {1}
    MaxUint <- Huge
    InitialBalance <- MCBalance
    InitialAllowance <- MCAllowance
    InitialEther <- MCEther
    InitialOwner <- MCOwner
    InitialApproval <- MCApproval
    Orders <- EscrowOrders
    SignedOrders <- EscrowOrders
    SellOrders = {}
    SignedSellOrders = {}
    MaxTime = 4
    FeeRates = {50}
    Revokers = {alice}
    Nonces = {}
    Tips = {}
    Takers = {bob, mallory}
    Recipients = {mallory, bvb}
    Successors = {alice}
    Holders = {}
    Amounts = {}
    Approvals = {}
PROPERTIES
    EveryContractEnds
    SettledNFTIsDelivered
