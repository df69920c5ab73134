------------------------- MODULE BvbProtocolHelpers --------------------------
(****************************************************************************)
(* BvbProtocolHelpers: views by which front ends and takers ask, before     *)
(* they send a transaction, whether BvbProtocol would accept an order or a  *)
(* sell order and what it would cost.  The contract keeps the address of    *)
(* the protocol it asks, and an owner of its own who may change it.         *)
(*                                                                          *)
(* The array views repeat these views for the elements of their arguments.  *)
(****************************************************************************)
EXTENDS BvbCallers

CONSTANT Deployments   \* the arguments of setBvb: Protocol, or some other address

VARIABLES
    bvb,            \* the address the helper asks
    helpersOwner    \* Ownable's _owner of the helper

helpersVars == <<bvb, helpersOwner>>

HelpersInit ==
    /\ CallersInit
    /\ bvb \in Deployments
    /\ helpersOwner = Deployer

------------------------------------------------------------------------------
(* The views, when the helper asks this protocol                             *)

MakerPrincipal(order) == IF order.isBull THEN order.collateral ELSE order.premium
TakerPrincipal(order) == IF order.isBull THEN order.premium ELSE order.collateral

\* The fee is applied to the principal of one side.
WithFee(principal) == principal + (principal * fee) \div 1000

\* The view that computes the price does not revert.
QuoteFits(principal) == principal * fee <= MaxUint /\ WithFee(principal) <= MaxUint

GetMakerPrice(order) == WithFee(MakerPrincipal(order))

\* Faulty variant: the taker is quoted the maker's side of the order.
GetTakerPriceOfMaker(order) == WithFee(MakerPrincipal(order))

GetTakerPrice(order) == WithFee(TakerPrincipal(order))

\* BvbProtocol.checkIsValidOrder does not revert.
RequireIsValidOrder(order) == CheckIsValidOrder(order)

\* Faulty variant: the fee the maker pays on top is forgotten.
HasAllowanceWithoutFee(order) ==
    /\ balanceOf[order.asset][order.maker] >= MakerPrincipal(order)
    /\ allowance[order.asset][order.maker] >= MakerPrincipal(order)

HasAllowanceOrder(order) ==
    /\ QuoteFits(MakerPrincipal(order))
    /\ balanceOf[order.asset][order.maker] >= GetMakerPrice(order)
    /\ allowance[order.asset][order.maker] >= GetMakerPrice(order)

IsValidOrder(order) == RequireIsValidOrder(order) /\ HasAllowanceOrder(order)

\* BvbProtocol.checkIsValidSellOrder does not revert for the order that is passed,
\* which need not be the one the sell order names.
IsValidSellOrder(sellOrder, order) == CheckIsValidSellOrder(sellOrder, order)

------------------------------------------------------------------------------
(* The helper's own state                                                    *)

SetBvb(sender, deployment) ==
    /\ sender = helpersOwner
    /\ bvb' = deployment
    /\ UNCHANGED helpersOwner

TransferHelpersOwnership(sender, successor) ==
    /\ sender = helpersOwner
    /\ helpersOwner' = successor
    /\ UNCHANGED bvb

RenounceHelpersOwnership(sender) ==
    /\ sender = helpersOwner
    /\ helpersOwner' = NoOne
    /\ UNCHANGED bvb

HelpersCallsBy(sender) ==
    \/ \E deployment \in Deployments : SetBvb(sender, deployment)
    \/ \E successor \in Successors : TransferHelpersOwnership(sender, successor)
    \/ RenounceHelpersOwnership(sender)

HelpersNext ==
    \/ \E sender \in Users : HelpersCallsBy(sender) /\ caller' = sender /\ UNCHANGED vars
    \/ CallersNext /\ UNCHANGED helpersVars

HelpersSpec == HelpersInit /\ [][HelpersNext]_<<callersVars, helpersVars>>

------------------------------------------------------------------------------

CanPay(buyer, asset, n) == CanPull(balanceOf, allowance, asset, buyer, n)

\* The helper asks the protocol the order is sent to.
Answers(answer) == bvb = Protocol /\ answer

\* When the helper says an order is valid, whoever can pay the taker price it quotes
\* can match that order at once: the maker's money, fees included, is there, whatever
\* the maker's other orders took of it, and no sum of matchOrder overflows that did not
\* in the helper (the maker's own matching apart, which pulls both prices from one
\* account).
ValidOrdersCanBeMatched ==
    \A order \in Orders, taker \in Takers :
        /\ Answers(IsValidOrder(order))
        /\ taker # order.maker
        /\ QuoteFits(TakerPrincipal(order))
        /\ CanPay(taker, order.asset, GetTakerPrice(order))
        => ENABLED MatchOrder(taker, order, 0)

\* The helper computes the prices a second time, from the current fee: matching costs
\* maker and taker exactly what it quoted in the state before, in the asset or in ether.
QuotesAreCharged ==
    [][\A order \in Orders, taker \in Users :
          /\ order \in matchedOrders' \ matchedOrders
          /\ taker = IF order.isBull THEN bears'[order] ELSE bulls'[order]
          /\ taker # order.maker
          => /\ Purse(order.asset, order.maker) - Purse(order.asset, order.maker)'
                    = GetMakerPrice(order)
             /\ Purse(order.asset, taker) - Purse(order.asset, taker)'
                    = GetTakerPrice(order)]_<<callersVars, helpersVars>>

\* The maker calls (to spend, unwrap or stop approving money, to revoke, or to take or buy
\* something), or somebody uses another order the maker signed.
MakerActs(maker) ==
    \/ caller' = maker
    \/ \E order \in (matchedOrders' \ matchedOrders) \cap SignedOrders : order.maker = maker

\* Between the answer and the transaction, an order found valid only becomes invalid
\* when time passes, the protocol's owner changes fee or lists, or its maker acts or
\* has signed something that somebody used: no third party makes the protocol spend
\* the maker's money, or take an order off the market, without the maker's signature.
AnswersHoldUnlessMakerOrOwnerActs ==
    [][\A order \in Orders :
          IsValidOrder(order) /\ ~IsValidOrder(order)' =>
              \/ now' # now
              \/ <<fee, allowedAsset, allowedCollection>>'
                     # <<fee, allowedAsset, allowedCollection>>
              \/ MakerActs(order.maker)]_<<callersVars, helpersVars>>

\* The seller calls, or somebody uses another sell order the seller signed.
SellerActs(seller) ==
    \/ caller' = seller
    \/ \E sellOrder \in (boughtSellOrders' \ boughtSellOrders) \cap SignedSellOrders :
           sellOrder.maker = seller

\* A sell order found valid, for whatever contract the helper was given next to it, only
\* becomes invalid when time passes, the asset is delisted, that contract ends, or the
\* seller acts or has signed a sell order that somebody used: nobody takes the position
\* away from under the buyer, or the offer off the market, without the seller.
SaleAnswersHoldUnlessSellerActs ==
    [][\A sellOrder \in SellOrders, order \in Orders :
          IsValidSellOrder(sellOrder, order) /\ ~IsValidSellOrder(sellOrder, order)' =>
              \/ now' # now
              \/ sellOrder.asset \in allowedAsset \ allowedAsset'
              \/ order \in settledContracts' \cup reclaimedContracts'
              \/ SellerActs(sellOrder.maker)]_<<callersVars, helpersVars>>
==============================================================================
