------------------------------ MODULE BvbCallers -------------------------------
(****************************************************************************)
(* BvbProtocol with a history variable: who sent the last transaction.      *)
(* What nobody may do to somebody else's money, tokens and positions is     *)
(* said of that account; nothing in the protocol reads it later.            *)
(****************************************************************************)
EXTENDS BvbProtocol

VARIABLE caller   \* msg.sender of the last transaction, NoOne when time passed

callersVars == <<vars, caller>>

\* What one account may do: calls of the protocol, and of its tokens and its wallet.
CallsBy(sender) ==
    \/ OrderCallsBy({sender})
    \/ SellOrderCallsBy({sender})
    \/ NonceCallsBy({sender})
    \/ OwnerCallsBy({sender})
    \/ TokenCallsBy({sender} \cap Holders, {sender} \cap Wallets) /\ UNCHANGED protocolVars

CallersInit == Init /\ caller = Deployer

CallersNext ==
    \/ Tick /\ caller' = NoOne
    \/ \E sender \in Users : CallsBy(sender) /\ caller' = sender

CallersSpec == CallersInit /\ [][CallersNext]_callersVars

------------------------------------------------------------------------------

\* A signed sell order of the holder is used up and pays at least its price.
SoldBy(holder, order, isBull) ==
    \E sellOrder \in (boughtSellOrders' \ boughtSellOrders) \cap SignedSellOrders :
        /\ sellOrder.orderHash = order
        /\ sellOrder.isBull = isBull
        /\ sellOrder.maker = holder
        /\ caller' # holder => balanceOf'[sellOrder.asset][holder]
                                   >= balanceOf[sellOrder.asset][holder] + sellOrder.price

\* A side of a contract that passes from one account to another is created by a match of
\* an order its maker signed, sold by its holder, or given away by a call of the holder;
\* only the maker, the buyer who calls, or whom the holder names gets it.
MovedWithConsent(order, isBull, from, to) ==
    from # to =>
        \/ /\ order \in (matchedOrders' \ matchedOrders) \cap SignedOrders
           /\ to = IF isBull = order.isBull THEN order.maker ELSE caller'
        \/ SoldBy(from, order, isBull) /\ to = caller'
        \/ caller' = from /\ TransferPosition(from, order, isBull, to)

\* A position changes hands only when its holder calls transferPosition or when a sell
\* order the holder signed is used, which happens once and pays the holder: nobody gives
\* away the position of another, and a former holder's sell order cannot be replayed
\* after the position came back.
PositionMovesOnlyWithConsent ==
    [][\A order \in Orders :
          /\ MovedWithConsent(order, TRUE, bulls[order], bulls'[order])
          /\ MovedWithConsent(order, FALSE, bears[order], bears'[order])]_callersVars

\* A signed order of this account is matched, and costs it no more than it signed for.
PaysForSignedOrder(user, asset) ==
    \E order \in (matchedOrders' \ matchedOrders) \cap SignedOrders :
        /\ order.maker = user
        /\ order.asset = asset
        /\ LET principal == IF order.isBull THEN order.collateral ELSE order.premium IN
           Purse(asset, user) - Purse(asset, user)'
               <= principal + (principal * order.fee) \div 1000

\* The approvals everybody gives the protocol are used for nobody but the account that
\* calls, or the maker of an order that is signed: no other account loses money, whoever
\* matches, buys, settles or reclaims what, and no NFT leaves an account that does not call.
NobodyPaysUnasked ==
    [][\A user \in Users \ {caller'} :
          /\ \A asset \in Assets :
                Purse(asset, user)' < Purse(asset, user) => PaysForSignedOrder(user, asset)
          /\ \A collection \in Collections, id \in TokenIds :
                ownerOf[collection][id] = user => ownerOf'[collection][id] = user]_callersVars
==============================================================================
