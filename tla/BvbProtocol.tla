----------------------------- MODULE BvbProtocol -----------------------------
(****************************************************************************)
(* BvbProtocol: makers sign put option orders off-chain, a taker matches    *)
(* one, the premium and the collateral are escrowed, and then either the    *)
(* bear settles with an NFT before expiry or the bull reclaims afterwards.  *)
(* Positions can be sold (signed SellOrder) or given away.                  *)
(*                                                                          *)
(* One action is one transaction: a call either performs all of its effects *)
(* or, when a require or a token call fails, none (the action is disabled). *)
(* An order stands for its EIP712 hash and for the contractId made from it: *)
(* distinct orders have distinct hashes.                                    *)
(****************************************************************************)
EXTENDS BvbTokens

CONSTANTS
    Orders,            \* the Order structs of this instance
    SellOrders,        \* the SellOrder structs of this instance
    SignedOrders,      \* the orders for which a signature of the maker exists
    SignedSellOrders,  \* the sell orders for which one exists
    NoOne,             \* address(0)
    Deployer           \* the account that runs the constructor

CONSTANTS              \* bounds on the calls that are explored
    MaxTime,           \* last block.timestamp
    FeeRates,          \* arguments of the constructor and of setFee
    Revokers,          \* callers of setMinimumValidNonce and its sell twin
    Nonces,            \* their arguments
    Tips,              \* tipAmount of buyPosition
    Takers,            \* callers of matchOrder and buyPosition
    Recipients,        \* recipients of transferPosition and withdrawFees
    Successors         \* arguments of transferOwnership

OrderType ==
    [premium : 0 .. MaxUint, collateral : 0 .. MaxUint, validity : Nat, expiry : Nat,
     nonce : Nat, fee : Nat, maker : Users, asset : Assets, collection : Collections,
     isBull : BOOLEAN]

SellOrderType ==
    [orderHash : Orders, price : 0 .. MaxUint, start : Nat, end : Nat, nonce : Nat,
     maker : Users, asset : Assets, whitelist : SUBSET Users, isBull : BOOLEAN]

ASSUME OrdersAssumption ==
    /\ IsFiniteSet(Orders)
    /\ Orders \subseteq OrderType
    /\ SellOrders \subseteq SellOrderType

\* Only an account with a private key signs, so no contract wallet is a maker.
ASSUME SignaturesAssumption ==
    /\ SignedOrders \subseteq Orders
    /\ SignedSellOrders \subseteq SellOrders
    /\ \A o \in SignedOrders : o.maker \notin Wallets
    /\ \A s \in SignedSellOrders : s.maker \notin Wallets

ASSUME CallsAssumption ==
    /\ NoOne \notin Accounts
    /\ Deployer \in Users
    /\ MaxTime \in Nat
    /\ FeeRates \subseteq Nat
    /\ \E rate \in FeeRates : rate <= 50
    /\ Revokers \subseteq Users
    /\ Nonces \subseteq Nat
    /\ Tips \subseteq Nat
    /\ Takers \subseteq Users
    /\ Recipients \subseteq Accounts
    /\ Successors \subseteq Users

VARIABLES
    now,                    \* block.timestamp
    owner,                  \* Ownable's _owner
    fee,                    \* current fee rate, 1 = 0.1%
    allowedAsset, allowedCollection,
    withdrawableFees,       \* asset -> fees the owner may withdraw
    matchedOrders,          \* orders that became contracts
    bulls, bears,           \* order -> holder of the position
    settledContracts, reclaimedContracts,
    claimableTokenId,       \* order -> token the bear settled with
    canceledOrders, canceledSellOrders,
    boughtSellOrders,
    minimumValidNonce, minimumValidNonceSell

ownerVars == <<owner, fee, allowedAsset, allowedCollection>>
contractVars == <<matchedOrders, settledContracts, reclaimedContracts, claimableTokenId>>
positionVars == <<bulls, bears>>
revocationVars == <<canceledOrders, canceledSellOrders, minimumValidNonce,
                    minimumValidNonceSell>>
protocolVars == <<now, owner, fee, allowedAsset, allowedCollection, withdrawableFees,
                  matchedOrders, bulls, bears, settledContracts, reclaimedContracts,
                  claimableTokenId, canceledOrders, canceledSellOrders, boughtSellOrders,
                  minimumValidNonce, minimumValidNonceSell>>
vars == <<protocolVars, tokenVars>>

ProtocolTypeOK ==
    /\ now \in 0 .. MaxTime
    /\ owner \in Users \cup {NoOne}
    /\ fee \in 0 .. 50
    /\ allowedAsset \subseteq Assets
    /\ allowedCollection \subseteq Collections
    /\ withdrawableFees \in [Assets -> 0 .. MaxUint]
    /\ matchedOrders \subseteq Orders
    /\ bulls \in [Orders -> Accounts \cup {NoOne}]
    /\ bears \in [Orders -> Accounts \cup {NoOne}]
    /\ settledContracts \subseteq Orders
    /\ reclaimedContracts \subseteq Orders
    /\ claimableTokenId \in [Orders -> TokenIds \cup {0}]
    /\ canceledOrders \subseteq Orders
    /\ canceledSellOrders \subseteq SellOrders
    /\ boughtSellOrders \subseteq SellOrders
    /\ minimumValidNonce \in [Users -> Nat]
    /\ minimumValidNonceSell \in [Users -> Nat]

\* Every variable holds a value of its Solidity type: the ledgers never go
\* negative and the fee rate stays within the 5% the constructor and setFee allow.
TypeOK == TokenTypeOK /\ ProtocolTypeOK

------------------------------------------------------------------------------
(* Deployment.                                                              *)

\* Faulty variant: the fee rate is not capped.
AnyFeeRate(rate) == TRUE

\* Fee rate can't be greater than 5%.
FeeRateAllowed(rate) == rate <= 50

Init ==
    /\ TokenInit
    /\ now = 0
    /\ owner = Deployer
    /\ fee \in {rate \in FeeRates : FeeRateAllowed(rate)}
    /\ allowedAsset = {}
    /\ allowedCollection = {}
    /\ withdrawableFees = [a \in Assets |-> 0]
    /\ matchedOrders = {}
    /\ bulls = [o \in Orders |-> NoOne]
    /\ bears = [o \in Orders |-> NoOne]
    /\ settledContracts = {}
    /\ reclaimedContracts = {}
    /\ claimableTokenId = [o \in Orders |-> 0]
    /\ canceledOrders = {}
    /\ canceledSellOrders = {}
    /\ boughtSellOrders = {}
    /\ minimumValidNonce = [u \in Users |-> 0]
    /\ minimumValidNonceSell = [u \in Users |-> 0]

\* Blocks are mined: time only moves forward.
Tick ==
    /\ now < MaxTime
    /\ now' = now + 1
    /\ UNCHANGED <<ownerVars, withdrawableFees, contractVars, positionVars,
                   revocationVars, boughtSellOrders, tokenVars>>

------------------------------------------------------------------------------
(* matchOrder                                                               *)

BullFees(order) == (order.collateral * fee) \div 1000
BearFees(order) == (order.premium * fee) \div 1000
BullPrice(order) == order.collateral + BullFees(order)
BearPrice(order) == order.premium + BearFees(order)
MakerPrice(order) == IF order.isBull THEN BullPrice(order) ELSE BearPrice(order)
TakerPrice(order) == IF order.isBull THEN BearPrice(order) ELSE BullPrice(order)

\* No checked uint256 operation of matchOrder overflows.
PricesFit(order) ==
    /\ order.collateral * fee <= MaxUint
    /\ order.premium * fee <= MaxUint
    /\ BullPrice(order) <= MaxUint
    /\ BearPrice(order) <= MaxUint
    /\ withdrawableFees[order.asset] + BullFees(order) + BearFees(order) <= MaxUint

\* Faulty variant: the maker's bound on the fee is ignored.
FeeUnchecked(order) == TRUE

\* The fee rate in force is within the one the maker signed.
FeeAgreed(order) == order.fee >= fee

\* Faulty variant: the signature is not checked.
AnySignature(order) == TRUE

\* The signature passed along is one the maker made of this order.
SignedByMaker(order) == order \in SignedOrders

CheckIsValidOrder(order) ==
    /\ SignedByMaker(order)
    /\ order.validity > now
    /\ order \notin canceledOrders
    /\ order.nonce >= minimumValidNonce[order.maker]
    /\ order.expiry > order.validity
    /\ FeeAgreed(order)
    /\ order.asset \in allowedAsset
    /\ order.collection \in allowedCollection
    /\ order \notin matchedOrders

\* Faulty variant: a maker who cannot pay is let off.
PullWhatThereIs(bal, allowed, order) ==
    IF CanPull(bal, allowed, order.asset, order.maker, MakerPrice(order))
    THEN /\ balanceOf' = Moved(bal, order.asset, order.maker, Protocol, MakerPrice(order))
         /\ allowance' = Spent(allowed, order.asset, order.maker, MakerPrice(order))
    ELSE balanceOf' = bal /\ allowance' = allowed

\* The maker pays, after the taker left these balances and allowances.
PullFromMaker(bal, allowed, order) ==
    /\ CanPull(bal, allowed, order.asset, order.maker, MakerPrice(order))
    /\ balanceOf' = Moved(bal, order.asset, order.maker, Protocol, MakerPrice(order))
    /\ allowance' = Spent(allowed, order.asset, order.maker, MakerPrice(order))

\* Faulty variant: only the maker pays.
CollectFromMaker(taker, order, value) ==
    /\ PullFromMaker(balanceOf, allowance, order)
    /\ UNCHANGED ether

\* The taker pays first, in ether (wrapped by the protocol) or in the asset,
\* then the maker: when both are one account the second pull sees the first.
CollectPayments(taker, order, value) ==
    LET afterTaker == IF value > 0
                      THEN Minted(balanceOf, WETH, Protocol, value)
                      ELSE Moved(balanceOf, order.asset, taker, Protocol, TakerPrice(order))
        allowedAfterTaker == IF value > 0 THEN allowance
                             ELSE Spent(allowance, order.asset, taker, TakerPrice(order))
    IN  /\ IF value > 0
           THEN ether[taker] >= value
           ELSE CanPull(balanceOf, allowance, order.asset, taker, TakerPrice(order))
        /\ PullFromMaker(afterTaker, allowedAfterTaker, order)
        /\ ether' = [ether EXCEPT ![taker] = @ - value]

MatchRequires(order, value) ==
    /\ CheckIsValidOrder(order)
    /\ PricesFit(order)
    /\ value > 0 => value = TakerPrice(order) /\ order.asset = WETH

\* What matchOrder stores before it collects the payments.
RecordMatch(sender, order) ==
    /\ withdrawableFees' =
          [withdrawableFees EXCEPT ![order.asset] = @ + BullFees(order) + BearFees(order)]
    /\ bulls' = [bulls EXCEPT ![order] = IF order.isBull THEN order.maker ELSE sender]
    /\ bears' = [bears EXCEPT ![order] = IF order.isBull THEN sender ELSE order.maker]
    /\ matchedOrders' = matchedOrders \cup {order}

MatchOrder(sender, order, value) ==
    /\ MatchRequires(order, value)
    /\ RecordMatch(sender, order)
    /\ CollectPayments(sender, order, value)
    /\ UNCHANGED <<now, ownerVars, settledContracts, reclaimedContracts, claimableTokenId,
                   revocationVars, boughtSellOrders, erc721Vars>>

------------------------------------------------------------------------------
(* settleContract and reclaimContract                                       *)

Stake(order) == order.premium + order.collateral

\* The protocol sends the premium and the collateral to the winner.
PayStake(order, winner) ==
    /\ Stake(order) <= MaxUint
    /\ balanceOf[order.asset][Protocol] >= Stake(order)
    /\ balanceOf' = Moved(balanceOf, order.asset, Protocol, winner, Stake(order))

\* Faulty variant: a contract can be settled and reclaimed at its expiry.
ExpiredAtExpiry(order) == now >= order.expiry

Expired(order) == now > order.expiry

\* Faulty variant: the expiry is not checked.
SettleRequiresNoExpiry(sender, order) ==
    /\ sender = bears[order]
    /\ order \notin settledContracts

SettleRequires(sender, order) ==
    /\ sender = bears[order]
    /\ now <= order.expiry
    /\ order \notin settledContracts

\* Faulty variant: the NFT goes straight to the bull, who may refuse it.
PushNFT(order, bear, tokenId) ==
    SafeTransferNFT(order.collection, bear, bulls[order], tokenId)

\* The NFT is kept by the protocol until the contract is reclaimed.
TakeNFT(order, bear, tokenId) ==
    SafeTransferNFT(order.collection, bear, Protocol, tokenId)

SettleContract(sender, order, tokenId) ==
    /\ SettleRequires(sender, order)
    /\ settledContracts' = settledContracts \cup {order}
    /\ claimableTokenId' = [claimableTokenId EXCEPT ![order] = tokenId]
    /\ TakeNFT(order, sender, tokenId)
    /\ PayStake(order, sender)
    /\ UNCHANGED <<now, ownerVars, withdrawableFees, matchedOrders, reclaimedContracts,
                   positionVars, revocationVars, boughtSellOrders, allowance, ether,
                   isApprovedForAll, shouldBlock>>

\* Faulty variant: a contract is reclaimed as often as one likes.
ReclaimRequiresMatched(order) == order \in matchedOrders

\* Faulty variant: a contract whose asset was delisted cannot be reclaimed.
ReclaimRequiresListed(order) ==
    /\ order \in matchedOrders
    /\ order \notin reclaimedContracts
    /\ order.asset \in allowedAsset

ReclaimRequires(order) ==
    /\ order \in matchedOrders
    /\ order \notin reclaimedContracts

ReclaimNFT(order) ==
    /\ order \in settledContracts
    /\ SafeTransferNFT(order.collection, Protocol, bulls[order], claimableTokenId[order])
    /\ UNCHANGED balanceOf

ReclaimStake(order) ==
    /\ order \notin settledContracts
    /\ Expired(order)
    /\ PayStake(order, bulls[order])
    /\ UNCHANGED ownerOf

\* Anybody may call it; what it releases goes to the bull.
ReclaimContract(order) ==
    /\ ReclaimRequires(order)
    /\ reclaimedContracts' = reclaimedContracts \cup {order}
    /\ ReclaimNFT(order) \/ ReclaimStake(order)
    /\ UNCHANGED <<now, ownerVars, withdrawableFees, matchedOrders, settledContracts,
                   claimableTokenId, positionVars, revocationVars, boughtSellOrders,
                   allowance, ether, isApprovedForAll, shouldBlock>>

------------------------------------------------------------------------------
(* buyPosition and transferPosition                                         *)

\* Faulty variant: a reclaimed bull position is still for sale.
PositionForSaleReclaimed(sellOrder, order) ==
    IF sellOrder.isBull
    THEN sellOrder.maker = bulls[order]
    ELSE sellOrder.maker = bears[order] /\ now < order.expiry

\* The maker holds the position and it can still be of use to the buyer.
PositionForSale(sellOrder, order) ==
    IF sellOrder.isBull
    THEN sellOrder.maker = bulls[order] /\ order \notin reclaimedContracts
    ELSE sellOrder.maker = bears[order] /\ now < order.expiry

\* Faulty variant: a signed sell order can be used again.
Reusable(sellOrder) == TRUE

NotBoughtYet(sellOrder) == sellOrder \notin boughtSellOrders

\* `order' is the contract whose position is sold; buyPosition passes the one the
\* sell order names.
CheckIsValidSellOrder(sellOrder, order) ==
    /\ sellOrder \in SignedSellOrders
    /\ PositionForSale(sellOrder, order)
    /\ NotBoughtYet(sellOrder)
    /\ sellOrder \notin canceledSellOrders
    /\ sellOrder.start <= now
    /\ now <= sellOrder.end
    /\ order \notin settledContracts
    /\ sellOrder.nonce >= minimumValidNonceSell[sellOrder.maker]
    /\ sellOrder.asset \in allowedAsset

IsWhitelisted(whitelist, buyer) == buyer \in whitelist

\* Faulty variant: the seller gets the price and the protocol keeps the tip.
ForwardPrice(buyer, sellOrder, value) ==
    /\ ether' = [ether EXCEPT ![buyer] = @ - value]
    /\ balanceOf' = Moved(Minted(balanceOf, WETH, Protocol, value),
                          WETH, Protocol, sellOrder.maker, sellOrder.price)

\* Ether is wrapped into the protocol's own balance and leaves it in the same call.
ForwardEther(buyer, sellOrder, value) ==
    /\ ether' = [ether EXCEPT ![buyer] = @ - value]
    /\ balanceOf' = Moved(Minted(balanceOf, WETH, Protocol, value),
                          WETH, Protocol, sellOrder.maker, value)

\* The buyer's payment reaches the seller.
PaySeller(buyer, sellOrder, buyPrice, value) ==
    \/ /\ value > 0
       /\ value = buyPrice
       /\ sellOrder.asset = WETH
       /\ ether[buyer] >= value
       /\ ForwardEther(buyer, sellOrder, value)
       /\ UNCHANGED allowance
    \/ /\ value = 0
       /\ CanPull(balanceOf, allowance, sellOrder.asset, buyer, buyPrice)
       /\ balanceOf' = Moved(balanceOf, sellOrder.asset, buyer, sellOrder.maker, buyPrice)
       /\ allowance' = Spent(allowance, sellOrder.asset, buyer, buyPrice)
       /\ UNCHANGED ether

BuyRequires(sender, sellOrder, tipAmount) ==
    /\ CheckIsValidSellOrder(sellOrder, sellOrder.orderHash)
    /\ sellOrder.whitelist = {} \/ IsWhitelisted(sellOrder.whitelist, sender)
    /\ sellOrder.price + tipAmount <= MaxUint

\* What buyPosition stores before the payment.
RecordSale(sender, sellOrder) ==
    /\ IF sellOrder.isBull
       THEN /\ bulls' = [bulls EXCEPT ![sellOrder.orderHash] = sender]
            /\ UNCHANGED bears
       ELSE /\ bears' = [bears EXCEPT ![sellOrder.orderHash] = sender]
            /\ UNCHANGED bulls
    /\ boughtSellOrders' = boughtSellOrders \cup {sellOrder}

BuyPosition(sender, sellOrder, tipAmount, value) ==
    /\ BuyRequires(sender, sellOrder, tipAmount)
    /\ RecordSale(sender, sellOrder)
    /\ PaySeller(sender, sellOrder, sellOrder.price + tipAmount, value)
    /\ UNCHANGED <<now, ownerVars, withdrawableFees, contractVars, revocationVars,
                   erc721Vars>>

\* Faulty variant: anybody gives a position away.
AnyHolder(sender, order, isBull) == TRUE

HoldsPosition(sender, order, isBull) ==
    sender = IF isBull THEN bulls[order] ELSE bears[order]

TransferPosition(sender, order, isBull, recipient) ==
    /\ HoldsPosition(sender, order, isBull)
    /\ IF isBull
       THEN /\ bulls' = [bulls EXCEPT ![order] = recipient]
            /\ UNCHANGED bears
       ELSE /\ bears' = [bears EXCEPT ![order] = recipient]
            /\ UNCHANGED bulls
    /\ UNCHANGED <<now, ownerVars, withdrawableFees, contractVars, revocationVars,
                   boughtSellOrders, tokenVars>>

------------------------------------------------------------------------------
(* Revocation of signed orders by their maker                               *)

\* Faulty variant: an order can be canceled after it was matched.
MayCancelMatched(sender, order) ==
    /\ sender = order.maker
    /\ order \notin canceledOrders

MayCancel(sender, order) ==
    /\ sender = order.maker
    /\ order \notin canceledOrders
    /\ order \notin matchedOrders

CancelOrder(sender, order) ==
    /\ MayCancel(sender, order)
    /\ canceledOrders' = canceledOrders \cup {order}
    /\ UNCHANGED <<now, ownerVars, withdrawableFees, contractVars, positionVars,
                   canceledSellOrders, minimumValidNonce, minimumValidNonceSell,
                   boughtSellOrders, tokenVars>>

\* Faulty variant: anybody cancels a sell order.
AnySellOrder(sender, sellOrder) == TRUE

OwnSellOrder(sender, sellOrder) == sender = sellOrder.maker

CancelSellOrder(sender, sellOrder) ==
    /\ OwnSellOrder(sender, sellOrder)
    /\ sellOrder \notin canceledSellOrders
    /\ sellOrder \notin boughtSellOrders
    /\ canceledSellOrders' = canceledSellOrders \cup {sellOrder}
    /\ UNCHANGED <<now, ownerVars, withdrawableFees, contractVars, positionVars,
                   canceledOrders, minimumValidNonce, minimumValidNonceSell,
                   boughtSellOrders, tokenVars>>

\* Faulty variant: the minimum may be lowered again.
NonceDiffers(current, nonce) == nonce # current

NonceRises(current, nonce) == nonce > current

SetMinimumValidNonce(sender, nonce) ==
    /\ NonceRises(minimumValidNonce[sender], nonce)
    /\ minimumValidNonce' = [minimumValidNonce EXCEPT ![sender] = nonce]
    /\ UNCHANGED <<now, ownerVars, withdrawableFees, contractVars, positionVars,
                   canceledOrders, canceledSellOrders, minimumValidNonceSell,
                   boughtSellOrders, tokenVars>>

SetMinimumValidNonceSell(sender, nonce) ==
    /\ NonceRises(minimumValidNonceSell[sender], nonce)
    /\ minimumValidNonceSell' = [minimumValidNonceSell EXCEPT ![sender] = nonce]
    /\ UNCHANGED <<now, ownerVars, withdrawableFees, contractVars, positionVars,
                   canceledOrders, canceledSellOrders, minimumValidNonce,
                   boughtSellOrders, tokenVars>>

------------------------------------------------------------------------------
(* Owner methods                                                            *)

OnlyOwner(sender) == sender = owner

SetAllowedCollection(sender, collection, allowed) ==
    /\ OnlyOwner(sender)
    /\ allowedCollection' = IF allowed THEN allowedCollection \cup {collection}
                                       ELSE allowedCollection \ {collection}
    /\ UNCHANGED <<now, owner, fee, allowedAsset, withdrawableFees, contractVars,
                   positionVars, revocationVars, boughtSellOrders, tokenVars>>

SetAllowedAsset(sender, asset, allowed) ==
    /\ OnlyOwner(sender)
    /\ allowedAsset' = IF allowed THEN allowedAsset \cup {asset} ELSE allowedAsset \ {asset}
    /\ UNCHANGED <<now, owner, fee, allowedCollection, withdrawableFees, contractVars,
                   positionVars, revocationVars, boughtSellOrders, tokenVars>>

SetFee(sender, rate) ==
    /\ OnlyOwner(sender)
    /\ FeeRateAllowed(rate)
    /\ fee' = rate
    /\ UNCHANGED <<now, owner, allowedAsset, allowedCollection, withdrawableFees,
                   contractVars, positionVars, revocationVars, boughtSellOrders, tokenVars>>

\* Faulty variant: the fees paid out stay on the books.
FeesNotCleared(asset) == withdrawableFees

FeesCleared(asset) == [withdrawableFees EXCEPT ![asset] = 0]

WithdrawFees(sender, asset, recipient) ==
    /\ OnlyOwner(sender)
    /\ withdrawableFees' = FeesCleared(asset)
    /\ balanceOf[asset][Protocol] >= withdrawableFees[asset]
    /\ balanceOf' = Moved(balanceOf, asset, Protocol, recipient, withdrawableFees[asset])
    /\ UNCHANGED <<now, ownerVars, contractVars, positionVars, revocationVars,
                   boughtSellOrders, allowance, ether, erc721Vars>>

TransferOwnership(sender, successor) ==
    /\ OnlyOwner(sender)
    /\ owner' = successor
    /\ UNCHANGED <<now, fee, allowedAsset, allowedCollection, withdrawableFees, contractVars,
                   positionVars, revocationVars, boughtSellOrders, tokenVars>>

RenounceOwnership(sender) ==
    /\ OnlyOwner(sender)
    /\ owner' = NoOne
    /\ UNCHANGED <<now, fee, allowedAsset, allowedCollection, withdrawableFees, contractVars,
                   positionVars, revocationVars, boughtSellOrders, tokenVars>>

------------------------------------------------------------------------------

(* The calls of some accounts, and the steps all accounts make together.    *)

OrderCallsBy(senders) ==
    \E order \in Orders :
        \/ \E sender \in senders \cap Takers, value \in {0, TakerPrice(order)} :
               MatchOrder(sender, order, value)
        \/ \E sender \in senders, tokenId \in TokenIds : SettleContract(sender, order, tokenId)
        \/ ReclaimContract(order)
        \/ \E sender \in senders, isBull \in BOOLEAN, recipient \in Recipients :
               TransferPosition(sender, order, isBull, recipient)
        \/ \E sender \in senders : CancelOrder(sender, order)

SellOrderCallsBy(senders) ==
    \E sellOrder \in SellOrders :
        \/ \E sender \in senders \cap Takers, tip \in Tips :
              \E value \in {0, sellOrder.price + tip} :
                  BuyPosition(sender, sellOrder, tip, value)
        \/ \E sender \in senders : CancelSellOrder(sender, sellOrder)

NonceCallsBy(senders) ==
    \E sender \in senders \cap Revokers, nonce \in Nonces :
        SetMinimumValidNonce(sender, nonce) \/ SetMinimumValidNonceSell(sender, nonce)

OwnerCallsBy(senders) ==
    \E sender \in senders :
        \/ \E collection \in Collections, allowed \in BOOLEAN :
               SetAllowedCollection(sender, collection, allowed)
        \/ \E asset \in Assets, allowed \in BOOLEAN : SetAllowedAsset(sender, asset, allowed)
        \/ \E rate \in FeeRates : SetFee(sender, rate)
        \/ \E asset \in Assets, recipient \in Recipients : WithdrawFees(sender, asset, recipient)
        \/ \E successor \in Successors : TransferOwnership(sender, successor)
        \/ RenounceOwnership(sender)

OrderNext == OrderCallsBy(Users)
SellOrderNext == SellOrderCallsBy(Users)
NonceNext == NonceCallsBy(Users)
OwnerNext == OwnerCallsBy(Users)
TokenCalls == TokenNext /\ UNCHANGED protocolVars

Next == Tick \/ OrderNext \/ SellOrderNext \/ NonceNext \/ OwnerNext \/ TokenCalls

Spec == Init /\ [][Next]_vars

\* Blocks keep coming, and as anybody may call reclaimContract somebody (the
\* beneficiary at least) eventually does.  No other call is ever certain.
FairSpec ==
    /\ Spec
    /\ WF_vars(Tick)
    /\ \A order \in Orders : WF_vars(ReclaimContract(order))

------------------------------------------------------------------------------
(* Safety                                                                   *)

\* Contracts whose premium and collateral are still in escrow.
LiveContracts == matchedOrders \ (settledContracts \cup reclaimedContracts)

\* What the contracts of a set hold in escrow.
Escrow(contracts) == SumFunctionOnSet([order \in Orders |-> Stake(order)], contracts)

Locked(asset) == Escrow({order \in LiveContracts : order.asset = asset})

\* The protocol's balance covers the premium and collateral of every live
\* contract on top of the fees the owner may withdraw: neither withdrawFees nor
\* the outcome of one contract is ever paid with the money of another
\* (README: owner methods never "take custody of user's funds").
Solvent ==
    \A asset \in Assets :
        balanceOf[asset][Protocol] >= withdrawableFees[asset] + Locked(asset)

Undelivered == settledContracts \ reclaimedContracts

\* The NFT a bear settled with stays with the protocol until its own contract is
\* reclaimed: no reclaimContract of another contract, settled with the same
\* token at another time, can take it.
Custody ==
    /\ \A order \in Undelivered :
          /\ claimableTokenId[order] \in TokenIds
          /\ ownerOf[order.collection][claimableTokenId[order]] = Protocol
    /\ \A o1, o2 \in Undelivered :
          o1.collection = o2.collection /\ claimableTokenId[o1] = claimableTokenId[o2] => o1 = o2

\* What settleContract and buyPosition rely on without reading it: only a matched
\* order has holders and an outcome, and a contract that was reclaimed unsettled has
\* expired, so that the bear's window and the bull's never overlap.
OutcomesInOrder ==
    /\ \A order \in Orders :
          /\ order \in matchedOrders <=> bulls[order] # NoOne
          /\ order \in matchedOrders <=> bears[order] # NoOne
    /\ settledContracts \subseteq matchedOrders
    /\ reclaimedContracts \subseteq matchedOrders
    /\ \A order \in reclaimedContracts \ settledContracts : now > order.expiry

\* cancelOrder and cancelSellOrder exclude matchOrder and buyPosition whatever
\* the order in which maker and taker get their transactions in: nothing is both
\* used and canceled.
NeverUsedAndCanceled ==
    /\ matchedOrders \cap canceledOrders = {}
    /\ boughtSellOrders \cap canceledSellOrders = {}

\* A contract has one outcome: once the bull reclaimed the money of an unsettled
\* contract the bear cannot settle it, although settleContract does not read
\* reclaimedContracts and relies on the two time windows being disjoint.
OneOutcome ==
    [][\A order \in settledContracts' \ settledContracts : order \notin reclaimedContracts]_vars

\* Matching charges the maker no more than the premium or collateral plus the fee
\* at the rate the maker signed, whatever the owner did to the fee meanwhile.
MakerChargeWithinSignedFee ==
    [][\A order \in matchedOrders' \ matchedOrders :
          LET principal == IF order.isBull THEN order.collateral ELSE order.premium
              taker == IF order.isBull THEN bears'[order] ELSE bulls'[order]
          IN  taker # order.maker =>
                balanceOf[order.asset][order.maker] - balanceOf'[order.asset][order.maker]
                    <= principal + (principal * order.fee) \div 1000]_vars

Supply(asset) == SupplyOf(asset, balanceOf[asset], Accounts, ether)

\* Every payment path, also the ones that wrap ether and pass it on, debits what it
\* credits: the sum of all balances of an asset (with the ether still to be wrapped)
\* never changes, which is what lets solmate's ERC20 add balances unchecked.
MoneyIsConserved == [][\A asset \in Assets : Supply(asset)' = Supply(asset)]_vars

\* What the protocol holds beyond the fees and the stakes of live contracts: nobody
\* can take it out again.
Surplus(asset) == balanceOf[asset][Protocol] - withdrawableFees[asset] - Locked(asset)

\* The ways in which money is given to the protocol itself: a user sends it tokens, the
\* owner withdraws the fees to it, or it was made the bull of a contract nobody settled.
GivenToProtocol(asset) ==
    \/ \E user \in Holders, n \in Amounts :
           Transfer(user, asset, Protocol, n) /\ UNCHANGED protocolVars
    \/ \E sender \in Users : WithdrawFees(sender, asset, Protocol)
    \/ \E order \in LiveContracts :
           order.asset = asset /\ bulls[order] = Protocol /\ ReclaimContract(order)

\* Every call that takes money in passes on, books as fees or locks exactly that much, and
\* every outcome pays out exactly what was locked: a tip kept, a side of a match that was
\* booked and not collected (the maker spent the money, or is the taker as well), or a
\* stake paid with the money of another contract moves the surplus.  Only gifts raise it.
SurplusOnlyFromGifts ==
    [][\A asset \in Assets :
          \/ Surplus(asset)' = Surplus(asset)
          \/ Surplus(asset)' > Surplus(asset) /\ GivenToProtocol(asset)]_vars

\* No balance outgrows a uint256, although solmate's ERC20 credits it unchecked: a
\* transfer that wrapped around would lose money that is somebody's.
BalancesFit ==
    \A asset \in Assets, account \in Accounts : balanceOf[asset][account] <= MaxUint

\* Until a live contract expires its bear can settle it with any token held and
\* approved: neither a bull that refuses NFTs, nor the owner delisting, raising
\* fees, withdrawing them or resigning, stands in the way.
BearCanSettle ==
    \A order \in LiveContracts, tokenId \in TokenIds :
        /\ now <= order.expiry
        /\ bears[order] \in isApprovedForAll[order.collection]
        /\ ownerOf[order.collection][tokenId] = bears[order]
        => ENABLED SettleContract(bears[order], order, tokenId)

\* After its expiry the bull of a contract nobody settled gets the stake with one
\* call: no sum or balance that was fine when the order was matched is too large or
\* too small then.
BullCanReclaim ==
    \A order \in LiveContracts : Expired(order) => ENABLED ReclaimContract(order)

\* Whoever buys a position buys a contract whose outcome is still open: it was
\* matched, and neither settled nor reclaimed, also on the bear side where
\* checkIsValidSellOrder does not look at reclaimedContracts.
BuyersGetLiveContracts ==
    [][\A sellOrder \in boughtSellOrders' \ boughtSellOrders :
          sellOrder.orderHash \in LiveContracts]_vars

\* Signed orders that were never used and no longer can be.
DeadOrders ==
    {order \in Orders \ matchedOrders :
        \/ order \in canceledOrders
        \/ order.nonce < minimumValidNonce[order.maker]
        \/ order.validity <= now}

DeadSellOrders ==
    {sellOrder \in SellOrders \ boughtSellOrders :
        \/ sellOrder \in canceledSellOrders
        \/ sellOrder.nonce < minimumValidNonceSell[sellOrder.maker]
        \/ sellOrder.end < now}

\* A revocation is final: an order or sell order that was canceled, outdated by
\* its maker's minimum nonce, or left to pass its validity is never used later.
RevokedStaysRevoked ==
    [][DeadOrders \subseteq DeadOrders' /\ DeadSellOrders \subseteq DeadSellOrders']_vars

------------------------------------------------------------------------------
(* Liveness, under FairSpec                                                 *)

\* Money does not stay in escrow for ever: every contract is settled, or its
\* stake goes to the bull after expiry, even if asset and collection are
\* delisted, the fees are withdrawn and the protocol has no owner any more.
EveryContractEnds ==
    \A order \in Orders :
        order \in matchedOrders ~> order \in settledContracts \cup reclaimedContracts

\* The NFT of a settled contract reaches the bull, unless the bull is (at some
\* time) a wallet that refuses it.
SettledNFTIsDelivered ==
    \A order \in Orders :
        order \in settledContracts ~>
            (order \in reclaimedContracts \/ bulls[order] \in shouldBlock)

------------------------------------------------------------------------------
(* Statements of the documentation the code departs from                    *)

\* README "Settle Contract": "BvbProtocol will retrieve the token specified by the
\* Bear and send it to the Bull", when the contract is settled and the bull takes it.
SettlingSendsTheTokenToTheBull ==
    [][\A order \in settledContracts' \ settledContracts :
          AcceptsERC721(bulls[order]) =>
              ownerOf'[order.collection][claimableTokenId'[order]] = bulls[order]]_vars

\* README "Reclaim Contract": "Callable by any User, for an expired Contract that
\* hasn't been settled by the Bear."
OnlyUnsettledContractsAreReclaimed ==
    [][\A order \in reclaimedContracts' \ reclaimedContracts :
          Expired(order) /\ order \notin settledContracts]_vars

\* README "Set Allowed Collection": the owner can "disallow a collection (ERC721)
\* to be used on any Order or SellOrder", so no position on it is bought.
DisallowedCollectionsAreNotSold ==
    [][\A sellOrder \in boughtSellOrders' \ boughtSellOrders :
          sellOrder.orderHash.collection \in allowedCollection]_vars
==============================================================================
