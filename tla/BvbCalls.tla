------------------------------ MODULE BvbCalls -------------------------------
(****************************************************************************)
(* BvbProtocol as the EVM runs it: a transaction is a call or a batch of    *)
(* calls; a call takes the reentrancy guard, checks, stores its outcome and *)
(* then makes external calls one after the other.  A wallet contract that   *)
(* an external call reaches runs code of its own in the middle, and may     *)
(* call the protocol again.  What fails undoes the whole transaction.       *)
(*                                                                          *)
(* The variables of BvbProtocol are the state in the middle of a            *)
(* transaction.  A call that reverts in a callback which catches the error  *)
(* has no effect: it is the callback that does not make it.                 *)
(****************************************************************************)
EXTENDS BvbProtocol, Sequences

CONSTANTS
    Notifying,     \* assets that call the wallets they debit and credit
    MaxBatch,      \* calls in a batch
    MaxCallbacks,  \* what wallets do in one transaction (gas is finite)
    MaxDepth       \* calls in progress at once

ASSUME CallbacksAssumption ==
    /\ Notifying \subseteq Assets
    /\ MaxBatch \in Nat /\ MaxCallbacks \in Nat /\ MaxDepth \in Nat

VARIABLES
    entered,   \* ReentrancyGuard's _status = _ENTERED
    request,   \* the calls of the running transaction, <<>> when there is none
    position,  \* how many of them were begun
    frames,    \* the calls in progress, the innermost last
    callbacks, \* how much the wallets may still do in this transaction
    stored     \* the storage the last transaction left, restored by a revert

callVars == <<entered, request, position, frames, callbacks, stored>>

Storage ==
    [now |-> now, owner |-> owner, fee |-> fee, allowedAsset |-> allowedAsset,
     allowedCollection |-> allowedCollection, withdrawableFees |-> withdrawableFees,
     matchedOrders |-> matchedOrders, bulls |-> bulls, bears |-> bears,
     settledContracts |-> settledContracts, reclaimedContracts |-> reclaimedContracts,
     claimableTokenId |-> claimableTokenId, canceledOrders |-> canceledOrders,
     canceledSellOrders |-> canceledSellOrders, boughtSellOrders |-> boughtSellOrders,
     minimumValidNonce |-> minimumValidNonce,
     minimumValidNonceSell |-> minimumValidNonceSell, balanceOf |-> balanceOf,
     allowance |-> allowance, ether |-> ether, ownerOf |-> ownerOf,
     isApprovedForAll |-> isApprovedForAll, shouldBlock |-> shouldBlock]

CallsInit ==
    /\ Init
    /\ entered = FALSE
    /\ request = <<>>
    /\ position = 0
    /\ frames = <<>>
    /\ callbacks = 0
    /\ stored = Storage

------------------------------------------------------------------------------
(* The calls.  Anybody may reclaim, so that call has no sender.              *)

MatchCalls(senders) ==
    UNION {{[op |-> "matchOrder", sender |-> sender, order |-> order, value |-> value] :
               value \in {0, TakerPrice(order)}} : sender \in senders, order \in Orders}

SettleCalls(senders) ==
    {[op |-> "settleContract", sender |-> sender, order |-> order, tokenId |-> tokenId] :
        sender \in senders, order \in Orders, tokenId \in TokenIds}

ReclaimCalls == {[op |-> "reclaimContract", order |-> order] : order \in Orders}

BuyCalls(senders) ==
    UNION {{[op |-> "buyPosition", sender |-> sender, sellOrder |-> sellOrder,
             tipAmount |-> tip, value |-> value] : value \in {0, sellOrder.price + tip}} :
           sender \in senders, sellOrder \in SellOrders, tip \in Tips}

TransferCalls(senders) ==
    {[op |-> "transferPosition", sender |-> sender, order |-> order, isBull |-> isBull,
      recipient |-> recipient] :
        sender \in senders, order \in Orders, isBull \in BOOLEAN, recipient \in Recipients}

WithdrawCalls(senders) ==
    {[op |-> "withdrawFees", sender |-> sender, asset |-> asset, recipient |-> recipient] :
        sender \in senders, asset \in Assets, recipient \in Recipients}

CallsOf(senders) ==
    UNION {MatchCalls(senders \cap Takers), SettleCalls(senders), ReclaimCalls,
           BuyCalls(senders \cap Takers), TransferCalls(senders), WithdrawCalls(senders)}

\* What one batch function may be given; batchMatchOrders takes no ether.
BatchGroups ==
    {{call \in MatchCalls({sender}) : call.value = 0} : sender \in Takers}
    \cup {SettleCalls({sender}) : sender \in Users} \cup {ReclaimCalls}

Requests ==
    {<<call>> : call \in CallsOf(Users)}
    \cup UNION {[1 .. n -> group] : n \in 2 .. MaxBatch, group \in BatchGroups}

------------------------------------------------------------------------------
(* Checks and effects                                                       *)

MatchEffects(call) ==
    /\ MatchRequires(call.order, call.value)
    /\ RecordMatch(call.sender, call.order)
    /\ UNCHANGED <<now, ownerVars, settledContracts, reclaimedContracts, claimableTokenId,
                   revocationVars, boughtSellOrders, tokenVars>>

SettleEffects(call) ==
    /\ SettleRequires(call.sender, call.order)
    /\ settledContracts' = settledContracts \cup {call.order}
    /\ claimableTokenId' = [claimableTokenId EXCEPT ![call.order] = call.tokenId]
    /\ UNCHANGED <<now, ownerVars, withdrawableFees, matchedOrders, reclaimedContracts,
                   positionVars, revocationVars, boughtSellOrders, tokenVars>>

ReclaimEffects(call) ==
    /\ ReclaimRequires(call.order)
    /\ call.order \in settledContracts \/ Expired(call.order)
    /\ reclaimedContracts' = reclaimedContracts \cup {call.order}
    /\ UNCHANGED <<now, ownerVars, withdrawableFees, matchedOrders, settledContracts,
                   claimableTokenId, positionVars, revocationVars, boughtSellOrders,
                   tokenVars>>

BuyEffects(call) ==
    /\ BuyRequires(call.sender, call.sellOrder, call.tipAmount)
    /\ call.value > 0 => /\ call.value = call.sellOrder.price + call.tipAmount
                         /\ call.sellOrder.asset = WETH
    /\ RecordSale(call.sender, call.sellOrder)
    /\ UNCHANGED <<now, ownerVars, withdrawableFees, contractVars, revocationVars, tokenVars>>

WithdrawEffects(call) ==
    /\ OnlyOwner(call.sender)
    /\ withdrawableFees' = FeesCleared(call.asset)
    /\ UNCHANGED <<now, ownerVars, contractVars, positionVars, revocationVars,
                   boughtSellOrders, tokenVars>>

Effects(call) ==
    \/ call.op = "matchOrder" /\ MatchEffects(call)
    \/ call.op = "settleContract" /\ SettleEffects(call)
    \/ call.op = "reclaimContract" /\ ReclaimEffects(call)
    \/ call.op = "buyPosition" /\ BuyEffects(call)
    \/ /\ call.op = "transferPosition"
       /\ TransferPosition(call.sender, call.order, call.isBull, call.recipient)
    \/ call.op = "withdrawFees" /\ WithdrawEffects(call)

------------------------------------------------------------------------------
(* External calls, in the order the code makes them, with the amounts and    *)
(* addresses it read before the first of them.                               *)

Pull(asset, from, to, n) ==
    [kind |-> "pull", asset |-> asset, from |-> from, to |-> to, n |-> n]
Push(asset, to, n) ==
    [kind |-> "push", asset |-> asset, from |-> Protocol, to |-> to, n |-> n]
Wrap(from, n) ==
    [kind |-> "wrap", asset |-> WETH, from |-> from, to |-> Protocol, n |-> n]
MoveNFT(collection, from, to, id) ==
    [kind |-> "nft", collection |-> collection, from |-> from, to |-> to, id |-> id]

\* Payments of nothing are not made (withdrawFees makes them).
UnlessNothing(payment) == IF payment.n > 0 THEN <<payment>> ELSE <<>>

MatchTransfers(call) ==
    LET order == call.order IN
    UnlessNothing(IF call.value > 0 THEN Wrap(call.sender, call.value)
                  ELSE Pull(order.asset, call.sender, Protocol, TakerPrice(order)))
        \o UnlessNothing(Pull(order.asset, order.maker, Protocol, MakerPrice(order)))

SettleTransfers(call) ==
    <<MoveNFT(call.order.collection, call.sender, Protocol, call.tokenId)>>
        \o UnlessNothing(Push(call.order.asset, call.sender, Stake(call.order)))

ReclaimTransfers(order) ==
    IF order \in settledContracts
    THEN <<MoveNFT(order.collection, Protocol, bulls[order], claimableTokenId[order])>>
    ELSE UnlessNothing(Push(order.asset, bulls[order], Stake(order)))

BuyTransfers(call) ==
    LET offer == call.sellOrder
        buyPrice == offer.price + call.tipAmount
    IN  IF call.value > 0
        THEN <<Wrap(call.sender, call.value), Push(WETH, offer.maker, call.value)>>
        ELSE UnlessNothing(Pull(offer.asset, call.sender, offer.maker, buyPrice))

Transfers(call) ==
    CASE call.op = "matchOrder" -> MatchTransfers(call)
      [] call.op = "settleContract" -> SettleTransfers(call)
      [] call.op = "reclaimContract" -> ReclaimTransfers(call.order)
      [] call.op = "buyPosition" -> BuyTransfers(call)
      [] call.op = "transferPosition" -> <<>>
      [] call.op = "withdrawFees" ->
            <<Push(call.asset, call.recipient, withdrawableFees[call.asset])>>

Pays(t) ==
    \/ /\ t.kind = "pull"
       /\ CanPull(balanceOf, allowance, t.asset, t.from, t.n)
       /\ balanceOf' = Moved(balanceOf, t.asset, t.from, t.to, t.n)
       /\ allowance' = Spent(allowance, t.asset, t.from, t.n)
       /\ UNCHANGED ether
    \/ /\ t.kind = "push"
       /\ t.n <= MaxUint
       /\ balanceOf[t.asset][Protocol] >= t.n
       /\ balanceOf' = Moved(balanceOf, t.asset, Protocol, t.to, t.n)
       /\ UNCHANGED <<allowance, ether>>
    \/ /\ t.kind = "wrap"
       /\ ether[t.from] >= t.n
       /\ ether' = [ether EXCEPT ![t.from] = @ - t.n]
       /\ balanceOf' = Minted(balanceOf, WETH, Protocol, t.n)
       /\ UNCHANGED allowance

\* Faulty variant: a transfer that returned false is taken for one that succeeded.
PerformUnchecked(t) ==
    \/ Pays(t) /\ UNCHANGED <<protocolVars, erc721Vars>>
    \/ ~ENABLED Pays(t) /\ t.kind # "nft" /\ UNCHANGED vars
    \/ /\ t.kind = "nft"
       /\ SafeTransferNFT(t.collection, t.from, t.to, t.id)
       /\ UNCHANGED <<protocolVars, erc20Vars, isApprovedForAll, shouldBlock>>

Perform(t) ==
    \/ Pays(t) /\ UNCHANGED <<protocolVars, erc721Vars>>
    \/ /\ t.kind = "nft"
       /\ SafeTransferNFT(t.collection, t.from, t.to, t.id)
       /\ UNCHANGED <<protocolVars, erc20Vars, isApprovedForAll, shouldBlock>>

\* Wallets told before they are debited, and after they were credited.
Warned(t) ==
    IF t.kind = "pull" /\ t.asset \in Notifying THEN {t.from} \cap Wallets ELSE {}
Notified(t) ==
    IF t.to \in Wallets /\ (t.kind = "nft" \/ t.asset \in Notifying) THEN t.to ELSE NoOne

------------------------------------------------------------------------------
(* A transaction                                                            *)

Idle == request = <<>>

Innermost == frames[Len(frames)]

\* withdrawFees is the only call with an external call and no guard.
NonReentrant(call) == call.op # "withdrawFees"

\* Faulty variant: the guard does not keep a second call out.
AlwaysOpen(call) == TRUE

GuardOpen(call) == NonReentrant(call) => ~entered

Begin(call) ==
    /\ GuardOpen(call)
    /\ Effects(call)
    /\ entered' = (entered \/ NonReentrant(call))
    /\ frames' = Append(frames, [call |-> call, todo |-> Transfers(call), control |-> NoOne])

Submit(calls) ==
    /\ Idle
    /\ Begin(calls[1])
    /\ request' = calls
    /\ position' = 1
    /\ callbacks' = MaxCallbacks
    /\ UNCHANGED stored

\* Faulty variant: a failed call ends the batch and what was done before it stays.
BeginNextOrStop ==
    /\ frames = <<>>
    /\ position < Len(request)
    /\ \/ /\ Begin(request[position + 1])
          /\ position' = position + 1
          /\ UNCHANGED <<request, callbacks, stored>>
       \/ /\ ~ENABLED Begin(request[position + 1])
          /\ request' = <<>> /\ position' = 0 /\ callbacks' = 0 /\ stored' = Storage
          /\ UNCHANGED <<vars, entered, frames>>

BeginNext ==
    /\ frames = <<>>
    /\ position < Len(request)
    /\ Begin(request[position + 1])
    /\ position' = position + 1
    /\ UNCHANGED <<request, callbacks, stored>>

\* The innermost call makes its next external call.
Interact ==
    /\ frames # <<>>
    /\ Innermost.todo # <<>>
    /\ Innermost.control = NoOne
    /\ Perform(Innermost.todo[1])
    /\ frames' = [frames EXCEPT ![Len(frames)] =
                     [call |-> @.call, todo |-> Tail(@.todo), control |-> Notified(@.todo[1])]]
    /\ UNCHANGED <<entered, request, position, callbacks, stored>>

\* The wallets whose code runs now.
Running ==
    CASE frames = <<>> -> {}
      [] frames # <<>> /\ Innermost.control # NoOne -> {Innermost.control}
      [] frames # <<>> /\ Innermost.control = NoOne /\ Innermost.todo # <<>> ->
            Warned(Innermost.todo[1])
      [] OTHER -> {}

\* The functions of the protocol that make no external call and have no guard.
UnguardedCalls(senders) ==
    \E sender \in senders :
        \/ \E order \in Orders : CancelOrder(sender, order)
        \/ \E sellOrder \in SellOrders : CancelSellOrder(sender, sellOrder)
        \/ /\ sender \in Revokers
           /\ \E nonce \in Nonces : \/ SetMinimumValidNonce(sender, nonce)
                                    \/ SetMinimumValidNonceSell(sender, nonce)
        \/ \E collection \in Collections, allowed \in BOOLEAN :
               SetAllowedCollection(sender, collection, allowed)
        \/ \E asset \in Assets, allowed \in BOOLEAN : SetAllowedAsset(sender, asset, allowed)
        \/ \E rate \in FeeRates : SetFee(sender, rate)
        \/ \E successor \in Successors : TransferOwnership(sender, successor)
        \/ RenounceOwnership(sender)

CallsWithoutInteraction(senders) ==
    \/ UnguardedCalls(senders)
    \/ /\ TokenCallsBy(senders \cap Holders, senders \cap Holders \cap Wallets)
       /\ UNCHANGED protocolVars

\* What a wallet does while its code runs.
Callback ==
    /\ callbacks > 0
    /\ \E wallet \in Running :
          \/ CallsWithoutInteraction({wallet}) /\ UNCHANGED <<entered, frames>>
          \/ /\ Len(frames) < MaxDepth
             /\ \E call \in CallsOf({wallet}) : Begin(call)
    /\ callbacks' = callbacks - 1
    /\ UNCHANGED <<request, position, stored>>

Return ==
    /\ frames # <<>>
    /\ Innermost.control # NoOne
    /\ frames' = [frames EXCEPT ![Len(frames)].control = NoOne]
    /\ UNCHANGED <<vars, entered, request, position, callbacks, stored>>

\* Faulty variant: the guard is not released.
StillEntered(call) == entered

\* The guard after a call.
Released(call) == entered /\ ~NonReentrant(call)

\* The end of a call, and of the transaction when it was the last one.
Leave ==
    /\ frames # <<>>
    /\ Innermost.todo = <<>>
    /\ Innermost.control = NoOne
    /\ entered' = Released(Innermost.call)
    /\ frames' = SubSeq(frames, 1, Len(frames) - 1)
    /\ IF Len(frames) = 1 /\ position = Len(request)
       THEN request' = <<>> /\ position' = 0 /\ callbacks' = 0 /\ stored' = Storage
       ELSE UNCHANGED <<request, position, callbacks, stored>>
    /\ UNCHANGED vars

\* Something failed, a wallet refused, or the gas ran out.
Revert ==
    /\ ~Idle
    /\ request' = <<>> /\ position' = 0 /\ frames' = <<>> /\ callbacks' = 0
    /\ entered' = FALSE
    /\ owner' = stored.owner /\ fee' = stored.fee
    /\ allowedAsset' = stored.allowedAsset
    /\ allowedCollection' = stored.allowedCollection
    /\ withdrawableFees' = stored.withdrawableFees
    /\ matchedOrders' = stored.matchedOrders
    /\ bulls' = stored.bulls /\ bears' = stored.bears
    /\ settledContracts' = stored.settledContracts
    /\ reclaimedContracts' = stored.reclaimedContracts
    /\ claimableTokenId' = stored.claimableTokenId
    /\ canceledOrders' = stored.canceledOrders
    /\ canceledSellOrders' = stored.canceledSellOrders
    /\ boughtSellOrders' = stored.boughtSellOrders
    /\ minimumValidNonce' = stored.minimumValidNonce
    /\ minimumValidNonceSell' = stored.minimumValidNonceSell
    /\ balanceOf' = stored.balanceOf /\ allowance' = stored.allowance
    /\ ether' = stored.ether /\ ownerOf' = stored.ownerOf
    /\ isApprovedForAll' = stored.isApprovedForAll
    /\ shouldBlock' = stored.shouldBlock
    /\ UNCHANGED <<now, stored>>

\* Blocks and the calls that are over at once.
BetweenCalls ==
    /\ Idle
    /\ Tick \/ CallsWithoutInteraction(Users)
    /\ stored' = Storage'
    /\ UNCHANGED <<entered, request, position, frames, callbacks>>

\* What the EVM does by itself once a transaction has begun.
Proceed == BeginNext \/ Interact \/ Return \/ Leave \/ Revert

CallsNext == BetweenCalls \/ (\E calls \in Requests : Submit(calls)) \/ Callback \/ Proceed

CallsSpec == CallsInit /\ [][CallsNext]_<<vars, callVars>>

\* The EVM runs a transaction to its end: it never waits, and gas is finite.
FairCalls == CallsSpec /\ WF_<<vars, callVars>>(Proceed)

------------------------------------------------------------------------------

Atomic == INSTANCE BvbProtocol WITH
    now <- stored.now, owner <- stored.owner, fee <- stored.fee,
    allowedAsset <- stored.allowedAsset, allowedCollection <- stored.allowedCollection,
    withdrawableFees <- stored.withdrawableFees, matchedOrders <- stored.matchedOrders,
    bulls <- stored.bulls, bears <- stored.bears,
    settledContracts <- stored.settledContracts,
    reclaimedContracts <- stored.reclaimedContracts,
    claimableTokenId <- stored.claimableTokenId, canceledOrders <- stored.canceledOrders,
    canceledSellOrders <- stored.canceledSellOrders,
    boughtSellOrders <- stored.boughtSellOrders,
    minimumValidNonce <- stored.minimumValidNonce,
    minimumValidNonceSell <- stored.minimumValidNonceSell,
    balanceOf <- stored.balanceOf, allowance <- stored.allowance, ether <- stored.ether,
    ownerOf <- stored.ownerOf, isApprovedForAll <- stored.isApprovedForAll,
    shouldBlock <- stored.shouldBlock

\* A transaction with one call does what the single step of BvbProtocol does or
\* nothing, in whatever order its checks, effects and transfers run and although
\* wallets called in the middle try to enter the protocol again: nonReentrant keeps
\* them out.  (withdrawFees lacks it, so its recipients are no wallets here.)
CallsAreAtomic == Atomic!Spec

\* What an external call adds to the protocol's balance, or takes from it: one of the
\* given kinds, in the asset, with the protocol on one side.
Due(t, asset, kinds) ==
    IF t.kind \in kinds /\ t.asset = asset /\ Protocol \in {t.from, t.to} THEN t.n ELSE 0

DueOf(transfers, asset, kinds) ==
    SumFunctionOnSet([i \in DOMAIN transfers |-> Due(transfers[i], asset, kinds)],
                     DOMAIN transfers)

\* What the calls in progress still have to pay of an asset.
Outstanding(asset, kinds) ==
    SumFunctionOnSet([i \in DOMAIN frames |-> DueOf(frames[i].todo, asset, kinds)],
                     DOMAIN frames)

\* Also in the middle of a transaction, when wallets run, owners withdraw fees that
\* are booked but not yet paid and change the rate: what the protocol holds and the
\* calls in progress still collect covers the fees, the live contracts and what
\* these calls still pay out.
SolventThroughoutCalls ==
    \A asset \in Assets :
        balanceOf[asset][Protocol] + Outstanding(asset, {"pull", "wrap"})
            >= withdrawableFees[asset] + Locked(asset) + Outstanding(asset, {"push"})

\* What a call did to the order it is about, from one storage to another.
Served(call, before, after) ==
    CASE call.op = "matchOrder" -> call.order \in after.matchedOrders \ before.matchedOrders
      [] call.op = "settleContract" ->
            call.order \in after.settledContracts \ before.settledContracts
      [] OTHER -> call.order \in after.reclaimedContracts \ before.reclaimedContracts

\* A batch serves every order it names, each once, or leaves no trace: an order that
\* fails, or that comes twice, undoes those before it.
BatchesAreAllOrNothing ==
    [][Len(request) > 1 /\ stored' # stored =>
          /\ \A i \in DOMAIN request : Served(request[i], stored, stored')
          /\ IsInjective([i \in DOMAIN request |-> request[i].order])]_<<vars, callVars>>

\* Every transaction ends, with the guard open for the next one.
TransactionsEnd == ~Idle ~> Idle /\ ~entered
==============================================================================
