SPECIFICATION Spec
CONSTANTS
    alice = alice
    bob = bob
    carol = carol
    mallory = mallory
    usdc = usdc
    apes = apes
    Users <- FourUsers
    Wallets = {mallory}
    Protocol = bvb
    NoOne = noone
    Deployer = carol
    WETH = weth
    Assets = {weth}
    Collections = {apes}
    TokenIds = {1}
    MaxUint <- Huge
    InitialBalance <- MCBalance
    InitialAllowance <- MCAllowance
    InitialEther <- MCEther
    InitialOwner <- MCOwner
    InitialApproval <- MCApproval
    Orders <- EscrowOrders
    SignedOrders <- EscrowOrders
    SellOrders = {}
    SignedSellOrders = {}
    MaxTime = 4
    FeeRates = {20, 50, 51}
    Revokers = {alice}
    Nonces = {}
    Tips = {}
    Takers = {bob, mallory}
    Recipients = {bob}
    Successors = {}
    Holders = {}
    Amounts = {}
    Approvals = {}
INVARIANTS
    TypeOK
    Solvent
    Custody
    OutcomesInOrder
    BearCanSettle
PROPERTIES
    OneOutcome
    MakerChargeWithinSignedFee
