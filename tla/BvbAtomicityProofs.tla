------------------------- MODULE BvbAtomicityProofs --------------------------
(****************************************************************************)
(* BvbCalls implements BvbProtocol: a transaction of one call does what the *)
(* single step of BvbProtocol does, or nothing, whatever wallets that are   *)
(* reached in the middle try.                                               *)
(*                                                                          *)
(* The proof compares the state in the middle of a call with the stored     *)
(* one, at which BvbProtocol still is: it differs by what the call booked   *)
(* and by those of its external calls that were made.                       *)
(****************************************************************************)
EXTENDS BvbCallsProofs

\* Transactions of one call; wallets own nothing and have no say, so what they can do in
\* the middle of a call of somebody else is to call the guarded functions.
\* (A batch is several steps of BvbProtocol, and so is a call that lets a maker revoke or
\* an owner withdraw in the middle.)
LoneCalls ==
    /\ MaxBatch < 2
    /\ Wallets \cap (Holders \cup Revokers \cup Successors \cup Recipients \cup {Deployer}) = {}
    /\ \A order \in Orders : order.maker \notin Wallets
    /\ \A sellOrder \in SellOrders : sellOrder.maker \notin Wallets

\* The stored state is the current one.
Published ==
    /\ stored.now = now
    /\ stored.owner = owner /\ stored.fee = fee
    /\ stored.allowedAsset = allowedAsset /\ stored.allowedCollection = allowedCollection
    /\ stored.withdrawableFees = withdrawableFees
    /\ stored.matchedOrders = matchedOrders
    /\ stored.bulls = bulls /\ stored.bears = bears
    /\ stored.settledContracts = settledContracts
    /\ stored.reclaimedContracts = reclaimedContracts
    /\ stored.claimableTokenId = claimableTokenId
    /\ stored.canceledOrders = canceledOrders
    /\ stored.canceledSellOrders = canceledSellOrders
    /\ stored.boughtSellOrders = boughtSellOrders
    /\ stored.minimumValidNonce = minimumValidNonce
    /\ stored.minimumValidNonceSell = minimumValidNonceSell
    /\ stored.balanceOf = balanceOf /\ stored.allowance = allowance /\ stored.ether = ether
    /\ stored.ownerOf = ownerOf /\ stored.isApprovedForAll = isApprovedForAll
    /\ stored.shouldBlock = shouldBlock

\* It is after a transaction.
LEMMA StorageIsPublished == stored = Storage => Published
BY DEF Storage, Published

------------------------------------------------------------------------------
(* Between transactions.                                                     *)

\* The deployment is one of BvbProtocol.
LEMMA StoredStart == CallsInit => Atomic!Init
<1> SUFFICES ASSUME CallsInit PROVE Atomic!Init
  OBVIOUS
<1>1. Init /\ Published
  BY StorageIsPublished DEF CallsInit
<1>2. Atomic!TokenInit
  BY <1>1 DEF Init, TokenInit, Published, Atomic!TokenInit, Accounts, Atomic!Accounts
<1> QED
  BY <1>1, <1>2 DEF Init, Published, Atomic!Init, FeeRateAllowed, Atomic!FeeRateAllowed

\* So is the time.
LEMMA StoredTick ==
    ASSUME Published, Published',
           Tick
    PROVE  Atomic!Tick
BY DEF Published, Tick, Atomic!Tick,
       ownerVars, contractVars, positionVars, revocationVars, tokenVars, erc20Vars, erc721Vars,
       Atomic!ownerVars, Atomic!contractVars, Atomic!positionVars, Atomic!revocationVars,
       Atomic!tokenVars, Atomic!erc20Vars, Atomic!erc721Vars

\* The functions without external calls are the ones of BvbProtocol.
LEMMA StoredCancelOrder ==
    ASSUME Published, Published', NEW sender, NEW order,
           CancelOrder(sender, order)
    PROVE  Atomic!CancelOrder(sender, order)
BY DEF Published, CancelOrder, MayCancel, Atomic!CancelOrder, Atomic!MayCancel,
       ownerVars, contractVars, positionVars, revocationVars, tokenVars, erc20Vars, erc721Vars,
       Atomic!ownerVars, Atomic!contractVars, Atomic!positionVars, Atomic!revocationVars,
       Atomic!tokenVars, Atomic!erc20Vars, Atomic!erc721Vars

\* cancelSellOrder.
LEMMA StoredCancelSellOrder ==
    ASSUME Published, Published', NEW sender, NEW sellOrder,
           CancelSellOrder(sender, sellOrder)
    PROVE  Atomic!CancelSellOrder(sender, sellOrder)
BY DEF Published, CancelSellOrder, OwnSellOrder, Atomic!CancelSellOrder,
       Atomic!OwnSellOrder,
       ownerVars, contractVars, positionVars, revocationVars, tokenVars, erc20Vars, erc721Vars,
       Atomic!ownerVars, Atomic!contractVars, Atomic!positionVars, Atomic!revocationVars,
       Atomic!tokenVars, Atomic!erc20Vars, Atomic!erc721Vars

\* setMinimumValidNonce.
LEMMA StoredMinimumNonce ==
    ASSUME Published, Published', NEW sender, NEW nonce,
           SetMinimumValidNonce(sender, nonce)
    PROVE  Atomic!SetMinimumValidNonce(sender, nonce)
BY DEF Published, SetMinimumValidNonce, NonceRises, Atomic!SetMinimumValidNonce,
       Atomic!NonceRises,
       ownerVars, contractVars, positionVars, revocationVars, tokenVars, erc20Vars, erc721Vars,
       Atomic!ownerVars, Atomic!contractVars, Atomic!positionVars, Atomic!revocationVars,
       Atomic!tokenVars, Atomic!erc20Vars, Atomic!erc721Vars

\* setMinimumValidNonceSell.
LEMMA StoredMinimumNonceSell ==
    ASSUME Published, Published', NEW sender, NEW nonce,
           SetMinimumValidNonceSell(sender, nonce)
    PROVE  Atomic!SetMinimumValidNonceSell(sender, nonce)
BY DEF Published, SetMinimumValidNonceSell, NonceRises, Atomic!SetMinimumValidNonceSell,
       Atomic!NonceRises,
       ownerVars, contractVars, positionVars, revocationVars, tokenVars, erc20Vars, erc721Vars,
       Atomic!ownerVars, Atomic!contractVars, Atomic!positionVars, Atomic!revocationVars,
       Atomic!tokenVars, Atomic!erc20Vars, Atomic!erc721Vars

\* setAllowedCollection.
LEMMA StoredAllowedCollection ==
    ASSUME Published, Published', NEW sender, NEW collection, NEW allowed,
           SetAllowedCollection(sender, collection, allowed)
    PROVE  Atomic!SetAllowedCollection(sender, collection, allowed)
BY DEF Published, SetAllowedCollection, OnlyOwner, Atomic!SetAllowedCollection,
       Atomic!OnlyOwner,
       ownerVars, contractVars, positionVars, revocationVars, tokenVars, erc20Vars, erc721Vars,
       Atomic!ownerVars, Atomic!contractVars, Atomic!positionVars, Atomic!revocationVars,
       Atomic!tokenVars, Atomic!erc20Vars, Atomic!erc721Vars

\* setAllowedAsset.
LEMMA StoredAllowedAsset ==
    ASSUME Published, Published', NEW sender, NEW asset, NEW allowed,
           SetAllowedAsset(sender, asset, allowed)
    PROVE  Atomic!SetAllowedAsset(sender, asset, allowed)
BY DEF Published, SetAllowedAsset, OnlyOwner, Atomic!SetAllowedAsset,
       Atomic!OnlyOwner,
       ownerVars, contractVars, positionVars, revocationVars, tokenVars, erc20Vars, erc721Vars,
       Atomic!ownerVars, Atomic!contractVars, Atomic!positionVars, Atomic!revocationVars,
       Atomic!tokenVars, Atomic!erc20Vars, Atomic!erc721Vars

\* setFee.
LEMMA StoredFee ==
    ASSUME Published, Published', NEW sender, NEW rate,
           SetFee(sender, rate)
    PROVE  Atomic!SetFee(sender, rate)
BY DEF Published, SetFee, OnlyOwner, FeeRateAllowed, Atomic!SetFee, Atomic!OnlyOwner,
       Atomic!FeeRateAllowed,
       ownerVars, contractVars, positionVars, revocationVars, tokenVars, erc20Vars, erc721Vars,
       Atomic!ownerVars, Atomic!contractVars, Atomic!positionVars, Atomic!revocationVars,
       Atomic!tokenVars, Atomic!erc20Vars, Atomic!erc721Vars

\* transferOwnership.
LEMMA StoredOwnership ==
    ASSUME Published, Published', NEW sender, NEW successor,
           TransferOwnership(sender, successor)
    PROVE  Atomic!TransferOwnership(sender, successor)
BY DEF Published, TransferOwnership, OnlyOwner, Atomic!TransferOwnership,
       Atomic!OnlyOwner,
       ownerVars, contractVars, positionVars, revocationVars, tokenVars, erc20Vars, erc721Vars,
       Atomic!ownerVars, Atomic!contractVars, Atomic!positionVars, Atomic!revocationVars,
       Atomic!tokenVars, Atomic!erc20Vars, Atomic!erc721Vars

\* renounceOwnership.
LEMMA StoredRenouncement ==
    ASSUME Published, Published', NEW sender,
           RenounceOwnership(sender)
    PROVE  Atomic!RenounceOwnership(sender)
BY DEF Published, RenounceOwnership, OnlyOwner, Atomic!RenounceOwnership,
       Atomic!OnlyOwner,
       ownerVars, contractVars, positionVars, revocationVars, tokenVars, erc20Vars, erc721Vars,
       Atomic!ownerVars, Atomic!contractVars, Atomic!positionVars, Atomic!revocationVars,
       Atomic!tokenVars, Atomic!erc20Vars, Atomic!erc721Vars

\* The calls of the token holders are, too.
LEMMA StoredApprove ==
    ASSUME Published, Published', NEW user, NEW asset, NEW n,
           Approve(user, asset, n)
    PROVE  Atomic!Approve(user, asset, n)
BY DEF Published, Approve, Atomic!Approve,
       erc20Vars, erc721Vars, Atomic!erc20Vars,
       Atomic!erc721Vars

\* transfer.
LEMMA StoredTransfer ==
    ASSUME Published, Published', NEW user, NEW asset, NEW to, NEW n,
           Transfer(user, asset, to, n)
    PROVE  Atomic!Transfer(user, asset, to, n)
BY DEF Published, Transfer, Atomic!Transfer, Moved, Atomic!Moved,
       erc20Vars, erc721Vars, Atomic!erc20Vars,
       Atomic!erc721Vars

\* deposit.
LEMMA StoredDeposit ==
    ASSUME Published, Published', NEW user, NEW n,
           Deposit(user, n)
    PROVE  Atomic!Deposit(user, n)
BY DEF Published, Deposit, Atomic!Deposit, Minted, Atomic!Minted,
       erc20Vars, erc721Vars, Atomic!erc20Vars,
       Atomic!erc721Vars

\* withdraw.
LEMMA StoredWithdraw ==
    ASSUME Published, Published', NEW user, NEW n,
           Withdraw(user, n)
    PROVE  Atomic!Withdraw(user, n)
BY DEF Published, Withdraw, Atomic!Withdraw,
       erc20Vars, erc721Vars, Atomic!erc20Vars,
       Atomic!erc721Vars

\* setApprovalForAll.
LEMMA StoredSetApprovalForAll ==
    ASSUME Published, Published', NEW user, NEW collection, NEW approved,
           SetApprovalForAll(user, collection, approved)
    PROVE  Atomic!SetApprovalForAll(user, collection, approved)
BY DEF Published, SetApprovalForAll, Atomic!SetApprovalForAll,
       erc20Vars, erc721Vars, Atomic!erc20Vars,
       Atomic!erc721Vars

\* safeTransferFrom.
LEMMA StoredTransferNFT ==
    ASSUME Published, Published', NEW user, NEW collection, NEW to, NEW id,
           TransferNFT(user, collection, to, id)
    PROVE  Atomic!TransferNFT(user, collection, to, id)
BY DEF Published, TransferNFT, Atomic!TransferNFT, AcceptsERC721,
       Atomic!AcceptsERC721,
       erc20Vars, erc721Vars, Atomic!erc20Vars,
       Atomic!erc721Vars

\* setShouldBlockTransfer.
LEMMA StoredSetShouldBlockTransfer ==
    ASSUME Published, Published', NEW wallet, NEW block,
           SetShouldBlockTransfer(wallet, block)
    PROVE  Atomic!SetShouldBlockTransfer(wallet, block)
BY DEF Published, SetShouldBlockTransfer, Atomic!SetShouldBlockTransfer,
       erc20Vars, erc721Vars, Atomic!erc20Vars,
       Atomic!erc721Vars

\* Users that call tokens only, or a function of the protocol without external calls.
LEMMA StoredCalls ==
    ASSUME Published, Published', CallsWithoutInteraction(Users)
    PROVE  Atomic!Next
<1>1. CASE UnguardedCalls(Users)
  <2>1. PICK sender \in Users :
           \/ \E order \in Orders : CancelOrder(sender, order)
           \/ \E sellOrder \in SellOrders : CancelSellOrder(sender, sellOrder)
           \/ /\ sender \in Revokers
              /\ \E nonce \in Nonces : \/ SetMinimumValidNonce(sender, nonce)
                                       \/ SetMinimumValidNonceSell(sender, nonce)
           \/ \E collection \in Collections, allowed \in BOOLEAN :
                  SetAllowedCollection(sender, collection, allowed)
           \/ \E asset \in Assets, allowed \in BOOLEAN : SetAllowedAsset(sender, asset, allowed)
           \/ \E rate \in FeeRates : SetFee(sender, rate)
           \/ \E successor \in Successors : TransferOwnership(sender, successor)
           \/ RenounceOwnership(sender)
    BY <1>1 DEF UnguardedCalls
  <2>2. CASE \E order \in Orders : CancelOrder(sender, order)
    BY <2>2, StoredCancelOrder DEF Atomic!Next, Atomic!OrderNext, Atomic!OrderCallsBy
  <2>3. CASE \E sellOrder \in SellOrders : CancelSellOrder(sender, sellOrder)
    BY <2>3, StoredCancelSellOrder DEF Atomic!Next, Atomic!SellOrderNext,
                                       Atomic!SellOrderCallsBy
  <2>4. CASE /\ sender \in Revokers
             /\ \E nonce \in Nonces : \/ SetMinimumValidNonce(sender, nonce)
                                      \/ SetMinimumValidNonceSell(sender, nonce)
    BY <2>4, StoredMinimumNonce, StoredMinimumNonceSell DEF Atomic!Next,
                                                            Atomic!NonceNext,
                                                            Atomic!NonceCallsBy
  <2>5. CASE \/ \E collection \in Collections, allowed \in BOOLEAN :
                   SetAllowedCollection(sender, collection, allowed)
             \/ \E asset \in Assets, allowed \in BOOLEAN :
                   SetAllowedAsset(sender, asset, allowed)
             \/ \E rate \in FeeRates : SetFee(sender, rate)
             \/ \E successor \in Successors : TransferOwnership(sender, successor)
             \/ RenounceOwnership(sender)
    BY <2>5, StoredAllowedCollection, StoredAllowedAsset, StoredFee, StoredOwnership,
       StoredRenouncement
       DEF Atomic!Next, Atomic!OwnerNext, Atomic!OwnerCallsBy
  <2> QED
    BY <2>1, <2>2, <2>3, <2>4, <2>5
<1>2. CASE /\ TokenCallsBy(Users \cap Holders, Users \cap Holders \cap Wallets)
           /\ UNCHANGED protocolVars
  <2>1. UNCHANGED Atomic!protocolVars
    BY <1>2 DEF Published, protocolVars, Atomic!protocolVars
  <2>2. Atomic!TokenNext
    <3>1. CASE \E user \in Holders, asset \in Assets :
                  \/ \E n \in Approvals : Approve(user, asset, n)
                  \/ \E to \in Accounts, n \in Amounts : Transfer(user, asset, to, n)
      BY <3>1, StoredApprove, StoredTransfer
         DEF Atomic!TokenNext, Atomic!TokenCallsBy, Accounts, Atomic!Accounts
    <3>2. CASE \E user \in Holders, n \in Amounts : Deposit(user, n) \/ Withdraw(user, n)
      BY <3>2, StoredDeposit, StoredWithdraw DEF Atomic!TokenNext, Atomic!TokenCallsBy
    <3>3. CASE \E user \in Holders, collection \in Collections :
                  \/ \E approved \in BOOLEAN : SetApprovalForAll(user, collection, approved)
                  \/ \E to \in Accounts, id \in TokenIds :
                        TransferNFT(user, collection, to, id)
      BY <3>3, StoredSetApprovalForAll, StoredTransferNFT
         DEF Atomic!TokenNext, Atomic!TokenCallsBy, Accounts, Atomic!Accounts
    <3>4. CASE \E wallet \in Wallets, block \in BOOLEAN : SetShouldBlockTransfer(wallet, block)
      BY <3>4, StoredSetShouldBlockTransfer DEF Atomic!TokenNext, Atomic!TokenCallsBy
    <3> QED
      BY <1>2, <3>1, <3>2, <3>3, <3>4 DEF TokenCallsBy
  <2> QED
    BY <2>1, <2>2 DEF Atomic!Next, Atomic!TokenCalls
<1> QED
  BY <1>1, <1>2 DEF CallsWithoutInteraction

\* So every step between transactions is one of BvbProtocol.
LEMMA StoredBetweenCalls ==
    ASSUME Published, BetweenCalls
    PROVE  Atomic!Next /\ Published'
<1>1. (stored = Storage)'
  BY DEF BetweenCalls
<1>2. Published'
  BY <1>1, StorageIsPublished, PTL
<1>3. CASE Tick
  BY <1>2, <1>3, StoredTick DEF Atomic!Next
<1>4. CASE CallsWithoutInteraction(Users)
  BY <1>2, <1>4, StoredCalls
<1> QED
  BY <1>2, <1>3, <1>4 DEF BetweenCalls
------------------------------------------------------------------------------
(* The external calls of a transaction, one after the other.                 *)

\* What external calls change, and what it was before the transaction.
TokensNow == [balanceOf |-> balanceOf, allowance |-> allowance, ether |-> ether,
            ownerOf |-> ownerOf]
StoredTokens == [balanceOf |-> stored.balanceOf, allowance |-> stored.allowance,
                  ether |-> stored.ether, ownerOf |-> stored.ownerOf]

\* Their types.
TokensOK(s) ==
    /\ s.balanceOf \in [Assets -> [Accounts -> Nat]]
    /\ s.allowance \in [Assets -> [Users -> 0 .. MaxUint]]
    /\ s.ether \in [Users -> Nat]

\* External call t turns the ledgers s into r; approvals and refusals are as stored.
Pulls(t, s, r) ==
    /\ t.kind = "pull"
    /\ CanPull(s.balanceOf, s.allowance, t.asset, t.from, t.n)
    /\ r.balanceOf = Moved(s.balanceOf, t.asset, t.from, t.to, t.n)
    /\ r.allowance = Spent(s.allowance, t.asset, t.from, t.n)
    /\ r.ether = s.ether /\ r.ownerOf = s.ownerOf
Pushes(t, s, r) ==
    /\ t.kind = "push"
    /\ t.n <= MaxUint
    /\ s.balanceOf[t.asset][Protocol] >= t.n
    /\ r.balanceOf = Moved(s.balanceOf, t.asset, Protocol, t.to, t.n)
    /\ r.allowance = s.allowance /\ r.ether = s.ether /\ r.ownerOf = s.ownerOf
Wraps(t, s, r) ==
    /\ t.kind = "wrap"
    /\ s.ether[t.from] >= t.n
    /\ r.ether = [s.ether EXCEPT ![t.from] = @ - t.n]
    /\ r.balanceOf = Minted(s.balanceOf, WETH, Protocol, t.n)
    /\ r.allowance = s.allowance /\ r.ownerOf = s.ownerOf
MovesNFT(t, s, r) ==
    /\ t.kind = "nft"
    /\ s.ownerOf[t.collection][t.id] = t.from
    /\ t.from = Protocol \/ t.from \in stored.isApprovedForAll[t.collection]
    /\ t.to \notin stored.shouldBlock
    /\ r.ownerOf = [s.ownerOf EXCEPT ![t.collection][t.id] = t.to]
    /\ r.balanceOf = s.balanceOf /\ r.allowance = s.allowance /\ r.ether = s.ether
Makes(t, s, r) == Pulls(t, s, r) \/ Pushes(t, s, r) \/ Wraps(t, s, r) \/ MovesNFT(t, s, r)

\* Together the external calls of a plan turn s into r.
MakesAll(plan, s, r) ==
    \/ plan = <<>> /\ r = s
    \/ \E t : plan = <<t>> /\ Makes(t, s, r)
    \/ \E t, u, m : plan = <<t, u>> /\ Makes(t, s, m) /\ Makes(u, m, r)

\* From the stored ledgers, the ones of a plan that are not to do any more were made.
Underway(plan, todo) ==
    \/ todo = plan /\ TokensNow = StoredTokens
    \/ \E t : plan = <<t>> /\ todo = <<>> /\ Makes(t, StoredTokens, TokensNow)
    \/ \E t, u : plan = <<t, u>> /\ todo = <<u>> /\ Makes(t, StoredTokens, TokensNow)
    \/ \E t, u, m : /\ plan = <<t, u>> /\ todo = <<>>
                    /\ Makes(t, StoredTokens, m) /\ Makes(u, m, TokensNow)

\* No call makes more than two.
IsPlan(plan) == plan = <<>> \/ (\E t : plan = <<t>>) \/ (\E t, u : plan = <<t, u>>)

\* A plan of one external call, and one of two.
LEMMA PlanOfOne ==
    ASSUME NEW t
    PROVE  /\ <<t>> # <<>> /\ <<t>>[1] = t /\ Tail(<<t>>) = <<>>
           /\ \A u : <<t>> = <<u>> => t = u
           /\ \A u, v : <<t>> # <<u, v>>
OBVIOUS

\* A plan of two.
LEMMA PlanOfTwo ==
    ASSUME NEW t, NEW u
    PROVE  /\ <<t, u>> # <<>> /\ <<t, u>>[1] = t /\ Tail(<<t, u>>) = <<u>>
           /\ \A v, w : <<t, u>> = <<v, w>> => t = v /\ u = w
           /\ \A v : <<t, u>> # <<v>>
OBVIOUS

\* Plans follow each other.
LEMMA PlansJoined ==
    ASSUME NEW t, NEW u
    PROVE  /\ <<>> \o <<>> = <<>> /\ <<>> \o <<u>> = <<u>>
           /\ <<t>> \o <<>> = <<t>> /\ <<t>> \o <<u>> = <<t, u>>
<1>1. <<>> \o <<>> = <<>>
  OBVIOUS
<1>2. <<>> \o <<u>> = <<u>>
  OBVIOUS
<1>3. <<t>> \o <<>> = <<t>>
  <2>1. <<t>> \in Seq({t}) /\ <<>> \in Seq({t}) /\ Len(<<t>>) = 1 /\ Len(<<>>) = 0 /\ <<t>>[1] = t
    OBVIOUS
  <2>2. PICK p : p = <<t>> \o <<>>
    OBVIOUS
  <2>3. p \in Seq({t}) /\ Len(p) = 1 /\ p[1] = t
    BY <2>1, <2>2, ConcatProperties
  <2> QED
    BY <2>1, <2>2, <2>3, SeqEqual
<1>4. <<t>> \o <<u>> = <<t, u>>
  <2> DEFINE S == {t, u}
  <2>1. /\ <<t>> \in Seq(S) /\ <<u>> \in Seq(S) /\ <<t, u>> \in Seq(S)
        /\ Len(<<t>>) = 1 /\ Len(<<u>>) = 1 /\ Len(<<t, u>>) = 2
        /\ <<t>>[1] = t /\ <<u>>[1] = u /\ <<t, u>>[1] = t /\ <<t, u>>[2] = u
    OBVIOUS
  <2>2. PICK p : p = <<t>> \o <<u>>
    OBVIOUS
  <2> HIDE DEF S
  <2>3. p \in Seq(S) /\ Len(p) = 2 /\ p[1] = t /\ p[2] = u
    BY <2>1, <2>2, ConcatProperties
  <2>4. PICK q : q = <<t, u>>
    OBVIOUS
  <2>5. q \in Seq(S) /\ Len(q) = 2 /\ q[1] = t /\ q[2] = u
    BY <2>1, <2>4
  <2>6. \A i \in 1 .. Len(p) : p[i] = q[i]
    BY <2>3, <2>5
  <2>7. p = q
    BY <2>3, <2>5, <2>6, SeqEqual
  <2> QED
    BY <2>2, <2>4, <2>7
<1> QED
  BY <1>1, <1>2, <1>3, <1>4

\* The list of calls in progress with one call.
LEMMA OneFrame ==
    ASSUME NEW f, NEW g
    PROVE  /\ <<f>> # <<>> /\ Len(<<f>>) = 1 /\ <<f>>[1] = f
           /\ Append(<<>>, f) = <<f>> /\ [<<f>> EXCEPT ![1] = g] = <<g>>
           /\ SubSeq(<<f>>, 1, 0) = <<>>
OBVIOUS

------------------------------------------------------------------------------
(* A transaction of one call in progress: what it checked of the stored      *)
(* state, what it booked since, and its external calls.                      *)

\* What it leaves alone.
OwnerVarsStay == ownerVars = Atomic!ownerVars
ContractVarsStay == contractVars = Atomic!contractVars
PositionVarsStay == positionVars = Atomic!positionVars
RevocationVarsStay == revocationVars = Atomic!revocationVars

\* What matchOrder collects.
TakerPays(sender, order, value) ==
    IF value > 0 THEN Wrap(sender, value)
    ELSE Pull(order.asset, sender, Protocol, Atomic!TakerPrice(order))

MakerPays(order) == Pull(order.asset, order.maker, Protocol, Atomic!MakerPrice(order))

\* The state is the stored one with what matchOrder books, and what it requires held
\* there; the same for the other calls.
Matched(sender, order, value) ==
    /\ Atomic!MatchRequires(order, value)
    /\ withdrawableFees =
          [stored.withdrawableFees EXCEPT
              ![order.asset] = @ + Atomic!BullFees(order) + Atomic!BearFees(order)]
    /\ bulls = [stored.bulls EXCEPT ![order] = IF order.isBull THEN order.maker ELSE sender]
    /\ bears = [stored.bears EXCEPT ![order] = IF order.isBull THEN sender ELSE order.maker]
    /\ matchedOrders = stored.matchedOrders \cup {order}
    /\ settledContracts = stored.settledContracts
    /\ reclaimedContracts = stored.reclaimedContracts
    /\ claimableTokenId = stored.claimableTokenId
    /\ boughtSellOrders = stored.boughtSellOrders
    /\ OwnerVarsStay /\ RevocationVarsStay

Settled(sender, order, tokenId) ==
    /\ Atomic!SettleRequires(sender, order)
    /\ settledContracts = stored.settledContracts \cup {order}
    /\ claimableTokenId = [stored.claimableTokenId EXCEPT ![order] = tokenId]
    /\ withdrawableFees = stored.withdrawableFees
    /\ matchedOrders = stored.matchedOrders
    /\ reclaimedContracts = stored.reclaimedContracts
    /\ boughtSellOrders = stored.boughtSellOrders
    /\ OwnerVarsStay /\ PositionVarsStay /\ RevocationVarsStay

Reclaimed(order) ==
    /\ Atomic!ReclaimRequires(order)
    /\ order \in stored.settledContracts \/ Atomic!Expired(order)
    /\ reclaimedContracts = stored.reclaimedContracts \cup {order}
    /\ withdrawableFees = stored.withdrawableFees
    /\ matchedOrders = stored.matchedOrders
    /\ settledContracts = stored.settledContracts
    /\ claimableTokenId = stored.claimableTokenId
    /\ boughtSellOrders = stored.boughtSellOrders
    /\ OwnerVarsStay /\ PositionVarsStay /\ RevocationVarsStay

Bought(sender, sellOrder, tip, value) ==
    /\ Atomic!BuyRequires(sender, sellOrder, tip)
    /\ value > 0 => sellOrder.asset = WETH
    /\ bulls = IF sellOrder.isBull THEN [stored.bulls EXCEPT ![sellOrder.orderHash] = sender]
               ELSE stored.bulls
    /\ bears = IF sellOrder.isBull THEN stored.bears
               ELSE [stored.bears EXCEPT ![sellOrder.orderHash] = sender]
    /\ boughtSellOrders = stored.boughtSellOrders \cup {sellOrder}
    /\ withdrawableFees = stored.withdrawableFees
    /\ OwnerVarsStay /\ ContractVarsStay /\ RevocationVarsStay

Given(sender, order, isBull, recipient) ==
    /\ sender = IF isBull THEN stored.bulls[order] ELSE stored.bears[order]
    /\ bulls = IF isBull THEN [stored.bulls EXCEPT ![order] = recipient] ELSE stored.bulls
    /\ bears = IF isBull THEN stored.bears ELSE [stored.bears EXCEPT ![order] = recipient]
    /\ withdrawableFees = stored.withdrawableFees
    /\ boughtSellOrders = stored.boughtSellOrders
    /\ OwnerVarsStay /\ ContractVarsStay /\ RevocationVarsStay

Cleared(sender, asset) ==
    /\ Atomic!OnlyOwner(sender)
    /\ withdrawableFees = Atomic!FeesCleared(asset)
    /\ boughtSellOrders = stored.boughtSellOrders
    /\ OwnerVarsStay /\ ContractVarsStay /\ PositionVarsStay /\ RevocationVarsStay

\* The calls that are in progress, each with its external calls.
MatchRuns(call, plan) ==
    \E sender \in Takers, order \in Orders : \E value \in {0, Atomic!TakerPrice(order)} :
        /\ call = [op |-> "matchOrder", sender |-> sender, order |-> order, value |-> value]
        /\ plan = UnlessNothing(TakerPays(sender, order, value))
                    \o UnlessNothing(MakerPays(order))
        /\ Matched(sender, order, value)

SettleRuns(call, plan) ==
    \E sender \in Users, order \in Orders, tokenId \in TokenIds :
        /\ call = [op |-> "settleContract", sender |-> sender, order |-> order,
                   tokenId |-> tokenId]
        /\ plan = <<MoveNFT(order.collection, sender, Protocol, tokenId)>>
                    \o UnlessNothing(Push(order.asset, sender, Stake(order)))
        /\ Settled(sender, order, tokenId)

ReclaimRuns(call, plan) ==
    \E order \in Orders :
        /\ call = [op |-> "reclaimContract", order |-> order]
        /\ plan = IF order \in stored.settledContracts
                  THEN <<MoveNFT(order.collection, Protocol, stored.bulls[order],
                                 stored.claimableTokenId[order])>>
                  ELSE UnlessNothing(Push(order.asset, stored.bulls[order], Stake(order)))
        /\ Reclaimed(order)

BuyRuns(call, plan) ==
    \E sender \in Takers, sellOrder \in SellOrders, tip \in Tips :
        \E value \in {0, sellOrder.price + tip} :
            /\ call = [op |-> "buyPosition", sender |-> sender, sellOrder |-> sellOrder,
                       tipAmount |-> tip, value |-> value]
            /\ plan = IF value > 0
                      THEN <<Wrap(sender, value), Push(WETH, sellOrder.maker, value)>>
                      ELSE UnlessNothing(Pull(sellOrder.asset, sender, sellOrder.maker,
                                              sellOrder.price + tip))
            /\ Bought(sender, sellOrder, tip, value)

TransferRuns(call, plan) ==
    \E sender \in Users, order \in Orders, isBull \in BOOLEAN, recipient \in Recipients :
        /\ call = [op |-> "transferPosition", sender |-> sender, order |-> order,
                   isBull |-> isBull, recipient |-> recipient]
        /\ plan = <<>>
        /\ Given(sender, order, isBull, recipient)

WithdrawRuns(call, plan) ==
    \E sender \in Users, asset \in Assets, recipient \in Recipients :
        /\ call = [op |-> "withdrawFees", sender |-> sender, asset |-> asset,
                   recipient |-> recipient]
        /\ plan = <<Push(asset, recipient, stored.withdrawableFees[asset])>>
        /\ Cleared(sender, asset)

Runs(call, plan) ==
    \/ MatchRuns(call, plan) \/ SettleRuns(call, plan) \/ ReclaimRuns(call, plan)
    \/ BuyRuns(call, plan) \/ TransferRuns(call, plan) \/ WithdrawRuns(call, plan)

\* Those of a call are two at most.
LEMMA RunsByPlan ==
    ASSUME NEW call, NEW plan, Runs(call, plan)
    PROVE  IsPlan(plan)
<1>1. ASSUME NEW t, NEW u
      PROVE  IsPlan(UnlessNothing(t) \o UnlessNothing(u)) /\ IsPlan(<<t>> \o UnlessNothing(u))
  BY PlansJoined DEF UnlessNothing, IsPlan
<1>2. CASE MatchRuns(call, plan)
  BY <1>1, <1>2 DEF MatchRuns
<1>3. CASE SettleRuns(call, plan)
  BY <1>1, <1>3 DEF SettleRuns
<1>4. CASE ReclaimRuns(call, plan)
  BY <1>4 DEF ReclaimRuns, UnlessNothing, IsPlan
<1>5. CASE BuyRuns(call, plan)
  BY <1>5 DEF BuyRuns, UnlessNothing, IsPlan
<1>6. CASE TransferRuns(call, plan) \/ WithdrawRuns(call, plan)
  BY <1>6 DEF TransferRuns, WithdrawRuns, IsPlan
<1> QED
  BY <1>2, <1>3, <1>4, <1>5, <1>6 DEF Runs

\* A call in progress stays the same call while nobody books anything.
LEMMA RunsOn ==
    ASSUME NEW call, NEW plan, Runs(call, plan), UNCHANGED <<stored, protocolVars>>
    PROVE  Runs(call, plan)'
<1>1. /\ UNCHANGED <<stored, withdrawableFees, matchedOrders, bulls, bears, settledContracts,
                     reclaimedContracts, claimableTokenId, boughtSellOrders>>
      /\ UNCHANGED <<ownerVars, contractVars, positionVars, revocationVars>>
  BY DEF protocolVars, ownerVars, contractVars, positionVars, revocationVars
<1>2. /\ OwnerVarsStay' = OwnerVarsStay /\ ContractVarsStay' = ContractVarsStay
      /\ PositionVarsStay' = PositionVarsStay /\ RevocationVarsStay' = RevocationVarsStay
  BY <1>1 DEF OwnerVarsStay, ContractVarsStay, PositionVarsStay, RevocationVarsStay,
              Atomic!ownerVars, Atomic!contractVars, Atomic!positionVars,
              Atomic!revocationVars
<1>3. CASE MatchRuns(call, plan)
  <2>1. \A order \in Orders :
           /\ Atomic!BullFees(order)' = Atomic!BullFees(order)
           /\ Atomic!BearFees(order)' = Atomic!BearFees(order)
           /\ Atomic!BullPrice(order)' = Atomic!BullPrice(order)
           /\ Atomic!BearPrice(order)' = Atomic!BearPrice(order)
    BY <1>1 DEF Atomic!BullPrice, Atomic!BearPrice, Atomic!BullFees, Atomic!BearFees
  <2>2. \A order \in Orders :
           /\ Atomic!TakerPrice(order)' = Atomic!TakerPrice(order)
           /\ MakerPays(order)' = MakerPays(order)
    BY <2>1 DEF MakerPays, Atomic!TakerPrice, Atomic!MakerPrice
  <2>3. PICK sender, order, value :
           /\ sender \in Takers /\ order \in Orders
           /\ value \in {0, Atomic!TakerPrice(order)}
           /\ call = [op |-> "matchOrder", sender |-> sender, order |-> order,
                      value |-> value]
           /\ plan = UnlessNothing(TakerPays(sender, order, value))
                       \o UnlessNothing(MakerPays(order))
           /\ Matched(sender, order, value)
    BY <1>3 DEF MatchRuns
  <2>4. TakerPays(sender, order, value)' = TakerPays(sender, order, value)
    BY <2>2, <2>3 DEF TakerPays
  <2>5. Atomic!MatchRequires(order, value)'
    BY <1>1, <2>1, <2>2, <2>3
       DEF Matched, Atomic!MatchRequires, Atomic!CheckIsValidOrder, Atomic!PricesFit,
           Atomic!SignedByMaker, Atomic!FeeAgreed
  <2>6. Matched(sender, order, value)'
    BY <1>1, <1>2, <2>1, <2>3, <2>5 DEF Matched
  <2>7. MatchRuns(call, plan)'
    BY <2>2, <2>3, <2>4, <2>6 DEF MatchRuns
  <2> QED
    BY <2>7 DEF Runs
<1>4. CASE SettleRuns(call, plan)
  BY <1>1, <1>2, <1>4 DEF Runs, SettleRuns, Settled, Atomic!SettleRequires, Stake
<1>5. CASE ReclaimRuns(call, plan)
  BY <1>1, <1>2, <1>5
     DEF Runs, ReclaimRuns, Reclaimed, Atomic!ReclaimRequires, Atomic!Expired, Stake
<1>6. CASE BuyRuns(call, plan)
  <2>1. ASSUME NEW sender, NEW sellOrder, NEW tip, NEW value,
               Bought(sender, sellOrder, tip, value)
        PROVE  Bought(sender, sellOrder, tip, value)'
    <3>1. Atomic!BuyRequires(sender, sellOrder, tip)'
      BY <1>1, <2>1
         DEF Bought, Atomic!BuyRequires, Atomic!CheckIsValidSellOrder,
             Atomic!PositionForSale, Atomic!NotBoughtYet, Atomic!IsWhitelisted
    <3> QED
      BY <1>1, <1>2, <2>1, <3>1 DEF Bought
  <2>2. BuyRuns(call, plan)'
    BY <1>6, <2>1 DEF BuyRuns
  <2> QED
    BY <2>2 DEF Runs
<1>7. CASE TransferRuns(call, plan)
  <2>1. ASSUME NEW sender, NEW order, NEW isBull, NEW recipient,
               Given(sender, order, isBull, recipient)
        PROVE  Given(sender, order, isBull, recipient)'
    BY <1>1, <1>2, <2>1 DEF Given
  <2>2. TransferRuns(call, plan)'
    BY <1>7, <2>1 DEF TransferRuns
  <2> QED
    BY <2>2 DEF Runs
<1>8. CASE WithdrawRuns(call, plan)
  BY <1>1, <1>2, <1>8
     DEF Runs, WithdrawRuns, Cleared, Atomic!OnlyOwner, Atomic!FeesCleared
<1> QED
  BY <1>3, <1>4, <1>5, <1>6, <1>7, <1>8 DEF Runs

\* Nobody but a transaction without external calls changes who may move or refuse NFTs.
ApprovalsStay == isApprovedForAll = stored.isApprovedForAll /\ shouldBlock = stored.shouldBlock

\* An external call does to the current ledgers what it makes of any.
LEMMA PerformMakes ==
    ASSUME NEW t, Perform(t), ApprovalsStay, UNCHANGED stored
    PROVE  /\ \E r : r = TokensNow' /\ Makes(t, TokensNow, r)
           /\ UNCHANGED protocolVars /\ ApprovalsStay'
<1>1. UNCHANGED <<protocolVars, isApprovedForAll, shouldBlock>>
  BY DEF Perform, erc721Vars
<1>2. Makes(t, TokensNow, TokensNow')
  <2>1. CASE t.kind = "pull" /\ Pays(t) /\ UNCHANGED erc721Vars
    BY <2>1 DEF Pays, erc721Vars, TokensNow, Makes, Pulls
  <2>2. CASE t.kind = "push" /\ Pays(t) /\ UNCHANGED erc721Vars
    BY <2>2 DEF Pays, erc721Vars, TokensNow, Makes, Pushes
  <2>3. CASE t.kind = "wrap" /\ Pays(t) /\ UNCHANGED erc721Vars
    BY <2>3 DEF Pays, erc721Vars, TokensNow, Makes, Wraps
  <2>4. CASE /\ t.kind = "nft"
             /\ SafeTransferNFT(t.collection, t.from, t.to, t.id)
             /\ UNCHANGED erc20Vars
    BY <2>4 DEF SafeTransferNFT, AcceptsERC721, ApprovalsStay, erc20Vars, TokensNow,
                Makes, MovesNFT
  <2> QED
    BY <2>1, <2>2, <2>3, <2>4 DEF Perform, Pays
<1> QED
  BY <1>1, <1>2 DEF ApprovalsStay

\* What an external call makes of ledgers depends on the stored state alone.
LEMMA MakesIsStored ==
    ASSUME UNCHANGED stored, NEW t, NEW s, NEW r, Makes(t, s, r)
    PROVE  Makes(t, s, r)'
BY DEF Makes, Pulls, Pushes, Wraps, MovesNFT

\* A further external call of a plan.
LEMMA UnderwayFurther ==
    ASSUME NEW plan, NEW todo, IsPlan(plan), Underway(plan, todo), todo # <<>>,
           Perform(todo[1]), ApprovalsStay, UNCHANGED stored
    PROVE  Underway(plan, Tail(todo))'
<1>1. PICK r : r = TokensNow' /\ Makes(todo[1], TokensNow, r)
  BY PerformMakes
<1>2. StoredTokens' = StoredTokens
  BY DEF StoredTokens
<1>3. CASE todo = plan /\ TokensNow = StoredTokens
  <2>0. Makes(todo[1], StoredTokens, TokensNow)'
    <3>1. PICK s : s = StoredTokens
      OBVIOUS
    <3>2. Makes(todo[1], s, r)'
      BY <1>1, <1>3, <3>1, MakesIsStored
    <3> QED
      BY <1>1, <1>2, <3>1, <3>2
  <2>1. CASE \E t : plan = <<t>>
    <3>1. PICK t : plan = <<t>>
      BY <2>1
    <3>2. todo[1] = t /\ Tail(todo) = <<>>
      BY <1>3, <3>1, PlanOfOne
    <3> QED
      BY <2>0, <3>1, <3>2 DEF Underway
  <2>2. CASE \E t, u : plan = <<t, u>>
    <3>1. PICK t, u : plan = <<t, u>>
      BY <2>2
    <3>2. todo[1] = t /\ Tail(todo) = <<u>>
      BY <1>3, <3>1, PlanOfTwo
    <3> QED
      BY <2>0, <3>1, <3>2 DEF Underway
  <2> QED
    BY <1>3, <2>1, <2>2 DEF IsPlan
<1>4. CASE \E t, u : plan = <<t, u>> /\ todo = <<u>> /\ Makes(t, StoredTokens, TokensNow)
  <2>1. PICK t, u : plan = <<t, u>> /\ todo = <<u>> /\ Makes(t, StoredTokens, TokensNow)
    BY <1>4
  <2>2. todo[1] = u /\ Tail(todo) = <<>>
    BY <2>1, PlanOfOne
  <2>3. PICK s, m : s = StoredTokens /\ m = TokensNow
    OBVIOUS
  <2>4. Makes(t, s, m)' /\ Makes(u, m, r)'
    BY <1>1, <2>1, <2>2, <2>3, MakesIsStored
  <2>5. Makes(t, StoredTokens, m)' /\ Makes(u, m, TokensNow)'
    BY <1>1, <1>2, <2>3, <2>4
  <2> QED
    BY <2>1, <2>2, <2>5 DEF Underway
<1> QED
  BY <1>3, <1>4 DEF Underway

\* Other steps of the transaction leave it as it is.
LEMMA UnderwayStays ==
    ASSUME NEW plan, NEW todo, Underway(plan, todo), UNCHANGED <<stored, erc20Vars, ownerOf>>
    PROVE  Underway(plan, todo)'
<1>1. StoredTokens' = StoredTokens /\ TokensNow' = TokensNow
  BY DEF StoredTokens, TokensNow, erc20Vars
<1>2. PICK s, r : s = StoredTokens /\ r = TokensNow
  OBVIOUS
<1>3. \A t, u, v : Makes(t, u, v) => Makes(t, u, v)'
  BY MakesIsStored
<1> QED
  BY <1>1, <1>2, <1>3 DEF Underway

\* When none is left all were made.
LEMMA UnderwayEnds ==
    ASSUME NEW plan, Underway(plan, <<>>)
    PROVE  MakesAll(plan, StoredTokens, TokensNow)
BY PlanOfOne DEF Underway, MakesAll

------------------------------------------------------------------------------
(* The beginning of a transaction.                                           *)

\* In terms of the state it starts in, the effects of a call are those of the
\* predicates above.
LEMMA MatchStarts ==
    ASSUME Published, UNCHANGED stored, NEW sender \in Takers, NEW order \in Orders,
           NEW value, value \in {0, TakerPrice(order)}, NEW call, NEW plan,
           call = [op |-> "matchOrder", sender |-> sender, order |-> order, value |-> value],
           MatchEffects(call), plan = MatchTransfers(call)
    PROVE  MatchRuns(call, plan)'
<1>1. /\ Atomic!BullFees(order)' = BullFees(order)
      /\ Atomic!BearFees(order)' = BearFees(order)
      /\ Atomic!BullPrice(order)' = BullPrice(order)
      /\ Atomic!BearPrice(order)' = BearPrice(order)
  BY DEF Published, Atomic!BullPrice, Atomic!BearPrice, Atomic!BullFees, Atomic!BearFees,
         BullPrice, BearPrice, BullFees, BearFees
<1>2. Atomic!TakerPrice(order)' = TakerPrice(order)
      /\ Atomic!MakerPrice(order)' = MakerPrice(order)
  BY <1>1 DEF Atomic!TakerPrice, Atomic!MakerPrice, TakerPrice, MakerPrice
<1>3. plan = UnlessNothing(TakerPays(sender, order, value)')
                \o UnlessNothing(MakerPays(order)')
  BY <1>2 DEF MatchTransfers, TakerPays, MakerPays
<1>4. MatchRequires(order, value) /\ RecordMatch(sender, order)
  BY DEF MatchEffects
<1>5. Atomic!MatchRequires(order, value)'
  BY <1>1, <1>2, <1>4
     DEF Published, MatchRequires, CheckIsValidOrder, PricesFit, SignedByMaker, FeeAgreed,
         Atomic!MatchRequires, Atomic!CheckIsValidOrder, Atomic!PricesFit,
         Atomic!SignedByMaker, Atomic!FeeAgreed
<1>6. /\ withdrawableFees' =
            [stored.withdrawableFees EXCEPT
                ![order.asset] = @ + Atomic!BullFees(order)' + Atomic!BearFees(order)']
      /\ bulls' = [stored.bulls EXCEPT ![order] = IF order.isBull THEN order.maker ELSE sender]
      /\ bears' = [stored.bears EXCEPT ![order] = IF order.isBull THEN sender ELSE order.maker]
      /\ matchedOrders' = stored.matchedOrders \cup {order}
  BY <1>1, <1>4 DEF Published, RecordMatch
<1>7. /\ settledContracts' = stored.settledContracts
      /\ reclaimedContracts' = stored.reclaimedContracts
      /\ claimableTokenId' = stored.claimableTokenId
      /\ boughtSellOrders' = stored.boughtSellOrders
      /\ OwnerVarsStay' /\ RevocationVarsStay'
  BY DEF MatchEffects, Published, OwnerVarsStay, RevocationVarsStay, ownerVars,
         revocationVars, Atomic!ownerVars, Atomic!revocationVars
<1>8. Matched(sender, order, value)'
  BY <1>5, <1>6, <1>7 DEF Matched
<1> QED
  BY <1>2, <1>3, <1>8 DEF MatchRuns

\* settleContract.
LEMMA SettleStarts ==
    ASSUME Published, UNCHANGED stored, NEW sender \in Users, NEW order \in Orders,
           NEW tokenId \in TokenIds, NEW call, NEW plan,
           call = [op |-> "settleContract", sender |-> sender, order |-> order,
                   tokenId |-> tokenId],
           SettleEffects(call), plan = SettleTransfers(call)
    PROVE  SettleRuns(call, plan)'
<1>1. Atomic!SettleRequires(sender, order)'
  BY DEF Published, SettleEffects, SettleRequires, Atomic!SettleRequires
<1>2. OwnerVarsStay' /\ PositionVarsStay' /\ RevocationVarsStay'
  BY DEF SettleEffects, Published, OwnerVarsStay, PositionVarsStay, RevocationVarsStay,
         ownerVars, positionVars, revocationVars, Atomic!ownerVars, Atomic!positionVars,
         Atomic!revocationVars
<1>3. Settled(sender, order, tokenId)'
  BY <1>1, <1>2 DEF Settled, SettleEffects, Published
<1> QED
  BY <1>3 DEF SettleRuns, SettleTransfers, Stake

\* reclaimContract.
LEMMA ReclaimStarts ==
    ASSUME Published, UNCHANGED stored, NEW order \in Orders, NEW call, NEW plan,
           call = [op |-> "reclaimContract", order |-> order],
           ReclaimEffects(call), plan = ReclaimTransfers(order)
    PROVE  ReclaimRuns(call, plan)'
<1>1. Atomic!ReclaimRequires(order)'
  BY DEF Published, ReclaimEffects, ReclaimRequires, Atomic!ReclaimRequires
<1>2. OwnerVarsStay' /\ PositionVarsStay' /\ RevocationVarsStay'
  BY DEF ReclaimEffects, Published, OwnerVarsStay, PositionVarsStay, RevocationVarsStay,
         ownerVars, positionVars, revocationVars, Atomic!ownerVars, Atomic!positionVars,
         Atomic!revocationVars
<1>3. Reclaimed(order)'
  BY <1>1, <1>2 DEF Reclaimed, ReclaimEffects, Published, Expired, Atomic!Expired
<1> QED
  BY <1>3 DEF ReclaimRuns, ReclaimTransfers, Published, Stake

\* buyPosition.
LEMMA BuyStarts ==
    ASSUME Published, UNCHANGED stored, NEW sender \in Takers, NEW sellOrder \in SellOrders,
           NEW tip \in Tips, NEW value, value \in {0, sellOrder.price + tip},
           NEW call, NEW plan,
           call = [op |-> "buyPosition", sender |-> sender, sellOrder |-> sellOrder,
                   tipAmount |-> tip, value |-> value],
           BuyEffects(call), plan = BuyTransfers(call)
    PROVE  BuyRuns(call, plan)'
<1>1. Atomic!BuyRequires(sender, sellOrder, tip)'
  BY DEF Published, BuyEffects, BuyRequires, CheckIsValidSellOrder, PositionForSale,
         NotBoughtYet, IsWhitelisted, Atomic!BuyRequires, Atomic!CheckIsValidSellOrder,
         Atomic!PositionForSale, Atomic!NotBoughtYet, Atomic!IsWhitelisted
<1>2. OwnerVarsStay' /\ ContractVarsStay' /\ RevocationVarsStay'
  BY DEF BuyEffects, Published, OwnerVarsStay, ContractVarsStay, RevocationVarsStay,
         ownerVars, contractVars, revocationVars, Atomic!ownerVars, Atomic!contractVars,
         Atomic!revocationVars
<1>3. Bought(sender, sellOrder, tip, value)'
  BY <1>1, <1>2 DEF Bought, BuyEffects, RecordSale, Published
<1> QED
  BY <1>3 DEF BuyRuns, BuyTransfers

\* transferPosition.
LEMMA TransferStarts ==
    ASSUME Published, UNCHANGED stored, NEW sender \in Users, NEW order \in Orders,
           NEW isBull \in BOOLEAN, NEW recipient \in Recipients, NEW call, NEW plan,
           call = [op |-> "transferPosition", sender |-> sender, order |-> order,
                   isBull |-> isBull, recipient |-> recipient],
           TransferPosition(sender, order, isBull, recipient), plan = <<>>
    PROVE  TransferRuns(call, plan)'
<1>1. OwnerVarsStay' /\ ContractVarsStay' /\ RevocationVarsStay'
  BY DEF TransferPosition, Published, OwnerVarsStay, ContractVarsStay,
         RevocationVarsStay, ownerVars, contractVars, revocationVars, Atomic!ownerVars,
         Atomic!contractVars, Atomic!revocationVars
<1>2. Given(sender, order, isBull, recipient)'
  BY <1>1 DEF Given, TransferPosition, HoldsPosition, Published
<1> QED
  BY <1>2 DEF TransferRuns

\* withdrawFees.
LEMMA WithdrawStarts ==
    ASSUME Published, UNCHANGED stored, NEW sender \in Users, NEW asset \in Assets,
           NEW recipient \in Recipients, NEW call, NEW plan,
           call = [op |-> "withdrawFees", sender |-> sender, asset |-> asset,
                   recipient |-> recipient],
           WithdrawEffects(call), plan = <<Push(asset, recipient, withdrawableFees[asset])>>
    PROVE  WithdrawRuns(call, plan)'
<1>1. OwnerVarsStay' /\ ContractVarsStay' /\ PositionVarsStay' /\ RevocationVarsStay'
  BY DEF WithdrawEffects, Published, OwnerVarsStay, ContractVarsStay, PositionVarsStay,
         RevocationVarsStay, ownerVars, contractVars, positionVars, revocationVars,
         Atomic!ownerVars, Atomic!contractVars, Atomic!positionVars,
         Atomic!revocationVars
<1>2. Cleared(sender, asset)'
  BY <1>1
     DEF Cleared, WithdrawEffects, Published, OnlyOwner, Atomic!OnlyOwner, FeesCleared,
         Atomic!FeesCleared
<1> QED
  BY <1>2 DEF WithdrawRuns, Published

\* A call that begins alone is in progress, with its external calls to come.
LEMMA CallStarts ==
    ASSUME Published, UNCHANGED stored, NEW call \in CallsOf(Users), Effects(call)
    PROVE  \E plan : plan = Transfers(call) /\ Runs(call, plan)'
<1>0. PICK plan : plan = Transfers(call)
  OBVIOUS
<1>1. CASE call \in MatchCalls(Users \cap Takers)
  <2>1. PICK sender, order, value :
           /\ sender \in Takers /\ order \in Orders
           /\ value \in {0, TakerPrice(order)}
           /\ call = [op |-> "matchOrder", sender |-> sender, order |-> order,
                      value |-> value]
    BY <1>1 DEF MatchCalls
  <2>2. call.op = "matchOrder"
    BY <2>1
  <2>3. MatchEffects(call) /\ plan = MatchTransfers(call)
    BY <1>0, <2>2 DEF Effects, Transfers
  <2> QED
    BY <1>0, <2>1, <2>3, MatchStarts DEF Runs
<1>2. CASE call \in SettleCalls(Users)
  <2>1. PICK sender \in Users, order \in Orders, tokenId \in TokenIds :
           call = [op |-> "settleContract", sender |-> sender, order |-> order,
                   tokenId |-> tokenId]
    BY <1>2 DEF SettleCalls
  <2>2. call.op = "settleContract"
    BY <2>1
  <2>3. SettleEffects(call) /\ plan = SettleTransfers(call)
    BY <1>0, <2>2 DEF Effects, Transfers
  <2> QED
    BY <1>0, <2>1, <2>3, SettleStarts DEF Runs
<1>3. CASE call \in ReclaimCalls
  <2>1. PICK order \in Orders : call = [op |-> "reclaimContract", order |-> order]
    BY <1>3 DEF ReclaimCalls
  <2>2. call.op = "reclaimContract" /\ call.order = order
    BY <2>1
  <2>3. ReclaimEffects(call) /\ plan = ReclaimTransfers(order)
    BY <1>0, <2>2 DEF Effects, Transfers
  <2> QED
    BY <1>0, <2>1, <2>3, ReclaimStarts DEF Runs
<1>4. CASE call \in BuyCalls(Users \cap Takers)
  <2>1. PICK sender, sellOrder, tip, value :
           /\ sender \in Takers /\ sellOrder \in SellOrders /\ tip \in Tips
           /\ value \in {0, sellOrder.price + tip}
           /\ call = [op |-> "buyPosition", sender |-> sender, sellOrder |-> sellOrder,
                      tipAmount |-> tip, value |-> value]
    BY <1>4 DEF BuyCalls
  <2>2. call.op = "buyPosition"
    BY <2>1
  <2>3. BuyEffects(call) /\ plan = BuyTransfers(call)
    BY <1>0, <2>2 DEF Effects, Transfers
  <2> QED
    BY <1>0, <2>1, <2>3, BuyStarts DEF Runs
<1>5. CASE call \in TransferCalls(Users)
  <2>1. PICK sender \in Users, order \in Orders, isBull \in BOOLEAN,
             recipient \in Recipients :
           call = [op |-> "transferPosition", sender |-> sender, order |-> order,
                   isBull |-> isBull, recipient |-> recipient]
    BY <1>5 DEF TransferCalls
  <2>2. /\ call.op = "transferPosition" /\ call.sender = sender /\ call.order = order
        /\ call.isBull = isBull /\ call.recipient = recipient
    BY <2>1
  <2>3. TransferPosition(sender, order, isBull, recipient) /\ plan = <<>>
    BY <1>0, <2>2 DEF Effects, Transfers
  <2> QED
    BY <1>0, <2>1, <2>3, TransferStarts DEF Runs
<1>6. CASE call \in WithdrawCalls(Users)
  <2>1. PICK sender \in Users, asset \in Assets, recipient \in Recipients :
           call = [op |-> "withdrawFees", sender |-> sender, asset |-> asset,
                   recipient |-> recipient]
    BY <1>6 DEF WithdrawCalls
  <2>2. call.op = "withdrawFees" /\ call.asset = asset /\ call.recipient = recipient
    BY <2>1
  <2>3. /\ WithdrawEffects(call)
        /\ plan = <<Push(asset, recipient, withdrawableFees[asset])>>
    BY <1>0, <2>2 DEF Effects, Transfers
  <2> QED
    BY <1>0, <2>1, <2>3, WithdrawStarts DEF Runs
<1> QED
  BY <1>1, <1>2, <1>3, <1>4, <1>5, <1>6 DEF CallsOf

------------------------------------------------------------------------------
(* The end of a transaction.                                                 *)

\* The external calls of a plan of two payments, where one of nothing is not made.
MakesUnlessNothing(t, s, r) == IF t.n > 0 THEN Makes(t, s, r) ELSE r = s

\* They were made one after the other.
LEMMA TwoMade ==
    ASSUME NEW t, NEW u, NEW s, NEW r,
           MakesAll(UnlessNothing(t) \o UnlessNothing(u), s, r)
    PROVE  \E m : MakesUnlessNothing(t, s, m) /\ MakesUnlessNothing(u, m, r)
<1>1. CASE t.n > 0 /\ u.n > 0
  <2>1. UnlessNothing(t) \o UnlessNothing(u) = <<t, u>>
    BY <1>1, PlansJoined DEF UnlessNothing
  <2>2. \E m : Makes(t, s, m) /\ Makes(u, m, r)
    BY <2>1, PlanOfTwo DEF MakesAll
  <2> QED
    BY <1>1, <2>2 DEF MakesUnlessNothing
<1>2. CASE t.n > 0 /\ ~(u.n > 0)
  <2>1. UnlessNothing(t) \o UnlessNothing(u) = <<t>>
    BY <1>2, PlansJoined DEF UnlessNothing
  <2>2. Makes(t, s, r)
    BY <2>1, PlanOfOne DEF MakesAll
  <2> QED
    BY <1>2, <2>2 DEF MakesUnlessNothing
<1>3. CASE ~(t.n > 0) /\ u.n > 0
  <2>1. UnlessNothing(t) \o UnlessNothing(u) = <<u>>
    BY <1>3, PlansJoined DEF UnlessNothing
  <2>2. Makes(u, s, r)
    BY <2>1, PlanOfOne DEF MakesAll
  <2> QED
    BY <1>3, <2>2 DEF MakesUnlessNothing
<1>4. CASE ~(t.n > 0) /\ ~(u.n > 0)
  <2>1. UnlessNothing(t) \o UnlessNothing(u) = <<>>
    BY <1>4, PlansJoined DEF UnlessNothing
  <2>2. r = s
    BY <2>1, PlanOfOne, PlanOfTwo DEF MakesAll
  <2> QED
    BY <1>4, <2>2 DEF MakesUnlessNothing
<1> QED
  BY <1>1, <1>2, <1>3, <1>4

\* One of them was.
LEMMA OneMade ==
    ASSUME NEW t, NEW s, NEW r, MakesAll(UnlessNothing(t), s, r)
    PROVE  MakesUnlessNothing(t, s, r)
BY PlanOfOne, PlanOfTwo DEF UnlessNothing, MakesAll, MakesUnlessNothing

\* A token and a payment.
LEMMA TokenAndPaymentMade ==
    ASSUME NEW t, NEW u, NEW s, NEW r, MakesAll(<<t>> \o UnlessNothing(u), s, r)
    PROVE  \E m : Makes(t, s, m) /\ MakesUnlessNothing(u, m, r)
<1>1. CASE u.n > 0
  <2>1. <<t>> \o UnlessNothing(u) = <<t, u>>
    BY <1>1, PlansJoined DEF UnlessNothing
  <2>2. \E m : Makes(t, s, m) /\ Makes(u, m, r)
    BY <2>1, PlanOfTwo DEF MakesAll
  <2> QED
    BY <1>1, <2>2 DEF MakesUnlessNothing
<1>2. CASE ~(u.n > 0)
  <2>1. <<t>> \o UnlessNothing(u) = <<t>>
    BY <1>2, PlansJoined DEF UnlessNothing
  <2>2. Makes(t, s, r)
    BY <2>1, PlanOfOne DEF MakesAll
  <2> QED
    BY <1>2, <2>2 DEF MakesUnlessNothing
<1> QED
  BY <1>1, <1>2

\* A payment that is not made moves what it should move: nothing.
LEMMA NothingMovesNothing ==
    ASSUME NEW bal \in [Assets -> [Accounts -> Nat]], NEW asset \in Assets,
           NEW from \in Accounts, NEW to \in Accounts
    PROVE  Moved(bal, asset, from, to, 0) = bal
BY DEF Moved

\* Nor does it use an allowance.
LEMMA NothingSpendsNothing ==
    ASSUME NEW allowed \in [Assets -> [Users -> 0 .. MaxUint]], NEW asset \in Assets,
           NEW from \in Users
    PROVE  Spent(allowed, asset, from, 0) = allowed
BY AssetsAssumption DEF Spent

\* So it may as well be made.
LEMMA PullOfAny ==
    ASSUME NEW asset \in Assets, NEW from \in Users, NEW to \in Accounts, NEW n \in Nat,
           NEW s, NEW r, TokensOK(s) \/ TokensOK(r),
           MakesUnlessNothing(Pull(asset, from, to, n), s, r)
    PROVE  /\ CanPull(s.balanceOf, s.allowance, asset, from, n)
           /\ r.balanceOf = Moved(s.balanceOf, asset, from, to, n)
           /\ r.allowance = Spent(s.allowance, asset, from, n)
           /\ r.ether = s.ether /\ r.ownerOf = s.ownerOf
<1>1. CASE n > 0
  BY <1>1 DEF MakesUnlessNothing, Pull, Makes, Pulls, Pushes, Wraps, MovesNFT
<1>2. CASE n = 0
  <2>1. r = s /\ TokensOK(s) /\ from \in Accounts
    BY <1>2 DEF MakesUnlessNothing, Pull, Accounts
  <2>2. CanPull(s.balanceOf, s.allowance, asset, from, 0)
    BY <2>1, AssetsAssumption DEF TokensOK, CanPull
  <2> QED
    BY <1>2, <2>1, <2>2, NothingMovesNothing, NothingSpendsNothing DEF TokensOK
<1> QED
  BY <1>1, <1>2

\* So may a payment to a winner.
LEMMA PushOfAny ==
    ASSUME NEW asset \in Assets, NEW to \in Accounts, NEW n \in Nat,
           NEW s, NEW r, TokensOK(s) \/ TokensOK(r),
           MakesUnlessNothing(Push(asset, to, n), s, r)
    PROVE  /\ n <= MaxUint
           /\ s.balanceOf[asset][Protocol] >= n
           /\ r.balanceOf = Moved(s.balanceOf, asset, Protocol, to, n)
           /\ r.allowance = s.allowance /\ r.ether = s.ether /\ r.ownerOf = s.ownerOf
<1>1. CASE n > 0
  BY <1>1 DEF MakesUnlessNothing, Push, Makes, Pulls, Pushes, Wraps, MovesNFT
<1>2. CASE n = 0
  <2>1. r = s /\ TokensOK(s) /\ Protocol \in Accounts
    BY <1>2 DEF MakesUnlessNothing, Push, Accounts
  <2>2. 0 <= MaxUint /\ s.balanceOf[asset][Protocol] >= 0
    BY <2>1, AssetsAssumption DEF TokensOK
  <2> QED
    BY <1>2, <2>1, <2>2, NothingMovesNothing DEF TokensOK
<1> QED
  BY <1>1, <1>2

\* A transaction ends: its state becomes the stored one.
Saved ==
    /\ stored'.now = now
    /\ stored'.owner = owner /\ stored'.fee = fee
    /\ stored'.allowedAsset = allowedAsset /\ stored'.allowedCollection = allowedCollection
    /\ stored'.withdrawableFees = withdrawableFees
    /\ stored'.matchedOrders = matchedOrders
    /\ stored'.bulls = bulls /\ stored'.bears = bears
    /\ stored'.settledContracts = settledContracts
    /\ stored'.reclaimedContracts = reclaimedContracts
    /\ stored'.claimableTokenId = claimableTokenId
    /\ stored'.canceledOrders = canceledOrders
    /\ stored'.canceledSellOrders = canceledSellOrders
    /\ stored'.boughtSellOrders = boughtSellOrders
    /\ stored'.minimumValidNonce = minimumValidNonce
    /\ stored'.minimumValidNonceSell = minimumValidNonceSell
    /\ stored'.balanceOf = balanceOf /\ stored'.allowance = allowance
    /\ stored'.ether = ether /\ stored'.ownerOf = ownerOf
    /\ stored'.isApprovedForAll = isApprovedForAll
    /\ stored'.shouldBlock = shouldBlock

\* What is known when it does.
Ends ==
    /\ TypeOK /\ Atomic!TypeOK /\ Atomic!OutcomesInOrder
    /\ stored.now = now /\ ApprovalsStay
    /\ stored' = Storage

\* The storage that it leaves.
LEMMA EndSaves == Ends => Saved
BY DEF Ends, Storage, Saved

\* What is there of the tokens before and after it is well-typed.
LEMMA EndTypes == Ends => TokensOK(StoredTokens) /\ TokensOK(TokensNow)
BY DEF Ends, TypeOK, TokenTypeOK, Atomic!TypeOK, Atomic!TokenTypeOK, Accounts,
       Atomic!Accounts, TokensOK, StoredTokens, TokensNow

\* What was left alone.
LEMMA EndKeeps ==
    ASSUME Ends
    PROVE  /\ UNCHANGED <<stored.now, stored.isApprovedForAll, stored.shouldBlock>>
           /\ OwnerVarsStay => UNCHANGED Atomic!ownerVars
           /\ ContractVarsStay => UNCHANGED Atomic!contractVars
           /\ PositionVarsStay => UNCHANGED Atomic!positionVars
           /\ RevocationVarsStay => UNCHANGED Atomic!revocationVars
BY EndSaves
   DEF Ends, Saved, ApprovalsStay, OwnerVarsStay, ContractVarsStay, PositionVarsStay,
       RevocationVarsStay, ownerVars, contractVars, positionVars, revocationVars,
       Atomic!ownerVars, Atomic!contractVars, Atomic!positionVars, Atomic!revocationVars

\* matchOrder was the one of BvbProtocol.
LEMMA MatchEnds ==
    ASSUME Ends, NEW call, NEW plan, MatchRuns(call, plan),
           MakesAll(plan, StoredTokens, TokensNow)
    PROVE  Atomic!Next
<1>1. PICK sender, order, value :
         /\ sender \in Takers /\ order \in Orders
         /\ value \in {0, Atomic!TakerPrice(order)}
         /\ plan = UnlessNothing(TakerPays(sender, order, value))
                     \o UnlessNothing(MakerPays(order))
         /\ Matched(sender, order, value)
  BY DEF MatchRuns
<1>2. Saved /\ TokensOK(StoredTokens) /\ TokensOK(TokensNow)
  BY EndSaves, EndTypes
<1>3. /\ order.asset \in Assets /\ order.maker \in Users /\ sender \in Users
      /\ order.maker \in Accounts /\ sender \in Accounts /\ Protocol \in Accounts
      /\ order.premium \in Nat /\ order.collateral \in Nat
  BY <1>1, OrdersAssumption, CallsAssumption, AssetsAssumption DEF OrderType, Accounts
<1>4. Atomic!TakerPrice(order) \in Nat /\ Atomic!MakerPrice(order) \in Nat
  <2>1. stored.fee \in 0 .. 50
    BY DEF Ends, Atomic!TypeOK, Atomic!ProtocolTypeOK
  <2> QED
    BY <1>3, <2>1 DEF Atomic!TakerPrice, Atomic!MakerPrice, Atomic!BullPrice,
       Atomic!BearPrice, Atomic!BullFees, Atomic!BearFees
<1>5. PICK m : /\ MakesUnlessNothing(TakerPays(sender, order, value), StoredTokens, m)
               /\ MakesUnlessNothing(MakerPays(order), m, TokensNow)
  BY <1>1, TwoMade
<1>6. /\ CanPull(m.balanceOf, m.allowance, order.asset, order.maker, Atomic!MakerPrice(order))
      /\ balanceOf = Moved(m.balanceOf, order.asset, order.maker, Protocol,
                           Atomic!MakerPrice(order))
      /\ allowance = Spent(m.allowance, order.asset, order.maker, Atomic!MakerPrice(order))
      /\ ether = m.ether /\ ownerOf = m.ownerOf
  <2>1. PICK r : r = TokensNow
    OBVIOUS
  <2>2. TokensOK(r)
    BY <1>2, <2>1
  <2>3. MakesUnlessNothing(Pull(order.asset, order.maker, Protocol, Atomic!MakerPrice(order)),
                           m, r)
    BY <1>5, <2>1 DEF MakerPays
  <2>4. PICK n \in Nat : n = Atomic!MakerPrice(order)
    BY <1>4
  <2>5. PICK a \in Assets, from \in Users : a = order.asset /\ from = order.maker
    BY <1>3
  <2>6. /\ CanPull(m.balanceOf, m.allowance, a, from, n)
        /\ r.balanceOf = Moved(m.balanceOf, a, from, Protocol, n)
        /\ r.allowance = Spent(m.allowance, a, from, n)
        /\ r.ether = m.ether /\ r.ownerOf = m.ownerOf
    BY <1>3, <2>2, <2>3, <2>4, <2>5, PullOfAny
  <2> QED
    BY <2>1, <2>4, <2>5, <2>6 DEF TokensNow
<1>7. ASSUME value > 0
      PROVE  Atomic!CollectPayments(sender, order, value) /\ ownerOf = stored.ownerOf
  <2>1. PICK t : t = TakerPays(sender, order, value)
    OBVIOUS
  <2>2. t = Wrap(sender, value)
    BY <1>7, <2>1 DEF TakerPays
  <2>3. Makes(t, StoredTokens, m)
    BY <1>5, <1>7, <2>1, <2>2 DEF MakesUnlessNothing, Wrap
  <2>4. /\ stored.ether[sender] >= value
        /\ m.ether = [stored.ether EXCEPT ![sender] = @ - value]
        /\ m.balanceOf = Minted(stored.balanceOf, WETH, Protocol, value)
        /\ m.allowance = stored.allowance /\ m.ownerOf = stored.ownerOf
    BY <2>2, <2>3 DEF Wrap, Makes, Pulls, Pushes, Wraps, MovesNFT, StoredTokens
  <2>5. Atomic!CollectPayments(sender, order, value)
    BY <1>2, <1>6, <1>7, <2>4
       DEF Saved, Atomic!CollectPayments, Atomic!PullFromMaker, Moved, Spent, Minted,
           CanPull, Atomic!Moved,
           Atomic!Spent, Atomic!Minted, Atomic!CanPull
  <2> QED
    BY <1>6, <2>4, <2>5
<1>8. ASSUME ~(value > 0)
      PROVE  Atomic!CollectPayments(sender, order, value) /\ ownerOf = stored.ownerOf
  <2>1. PICK s : s = StoredTokens
    OBVIOUS
  <2>2. TokensOK(s)
    BY <1>2, <2>1
  <2>3. PICK n \in Nat : n = Atomic!TakerPrice(order)
    BY <1>4
  <2>4. PICK a \in Assets : a = order.asset
    BY <1>3
  <2>5. MakesUnlessNothing(Pull(a, sender, Protocol, n), s, m)
    BY <1>5, <1>8, <2>1, <2>3, <2>4 DEF TakerPays
  <2>6. /\ CanPull(s.balanceOf, s.allowance, a, sender, n)
        /\ m.balanceOf = Moved(s.balanceOf, a, sender, Protocol, n)
        /\ m.allowance = Spent(s.allowance, a, sender, n)
        /\ m.ether = s.ether /\ m.ownerOf = s.ownerOf
    BY <1>3, <2>2, <2>5, PullOfAny
  <2>7. value = 0 /\ [stored.ether EXCEPT ![sender] = @ - value] = stored.ether
    <3>1. value = 0
      BY <1>1, <1>4, <1>8
    <3>2. stored.ether \in [Users -> Nat]
      BY <1>2 DEF TokensOK, StoredTokens
    <3> QED
      BY <1>3, <3>1, <3>2
  <2>8. Atomic!CollectPayments(sender, order, value)
    <3>1. /\ CanPull(stored.balanceOf, stored.allowance, order.asset, sender,
                     Atomic!TakerPrice(order))
          /\ m.balanceOf = Moved(stored.balanceOf, order.asset, sender, Protocol,
                                 Atomic!TakerPrice(order))
          /\ m.allowance = Spent(stored.allowance, order.asset, sender,
                                 Atomic!TakerPrice(order))
          /\ m.ether = stored.ether
      BY <2>1, <2>3, <2>4, <2>6 DEF StoredTokens
    <3>2. stored'.ether = [stored.ether EXCEPT ![sender] = @ - value]
      BY <1>2, <1>6, <2>7, <3>1 DEF Saved
    <3> QED
      BY <1>2, <1>6, <1>8, <3>1, <3>2
         DEF Saved, Atomic!CollectPayments, Atomic!PullFromMaker, Moved, Spent, CanPull,
             Atomic!Moved,
             Atomic!Spent, Atomic!CanPull
  <2> QED
    BY <1>6, <2>1, <2>6, <2>8 DEF StoredTokens
<1>9. Atomic!RecordMatch(sender, order)
  BY <1>1, <1>2 DEF Saved, Matched, Atomic!RecordMatch
<1>10. /\ UNCHANGED <<stored.now, Atomic!ownerVars, stored.settledContracts,
                      stored.reclaimedContracts, stored.claimableTokenId,
                      Atomic!revocationVars, stored.boughtSellOrders>>
       /\ stored'.isApprovedForAll = stored.isApprovedForAll
       /\ stored'.shouldBlock = stored.shouldBlock
  BY <1>1, <1>2, EndKeeps DEF Saved, Matched
<1>11. UNCHANGED Atomic!erc721Vars
  BY <1>2, <1>7, <1>8, <1>10 DEF Saved, Atomic!erc721Vars
<1>12. Atomic!MatchOrder(sender, order, value)
  BY <1>1, <1>7, <1>8, <1>9, <1>10, <1>11 DEF Matched, Atomic!MatchOrder
<1> QED
  BY <1>1, <1>12, CallsAssumption DEF Atomic!Next, Atomic!OrderNext, Atomic!OrderCallsBy

\* settleContract.
LEMMA SettleEnds ==
    ASSUME Ends, NEW call, NEW plan, SettleRuns(call, plan),
           MakesAll(plan, StoredTokens, TokensNow)
    PROVE  Atomic!Next
<1>1. PICK sender \in Users, order \in Orders, tokenId \in TokenIds :
         /\ plan = <<MoveNFT(order.collection, sender, Protocol, tokenId)>>
                     \o UnlessNothing(Push(order.asset, sender, Stake(order)))
         /\ Settled(sender, order, tokenId)
  BY DEF SettleRuns
<1>2. Saved /\ TokensOK(StoredTokens) /\ TokensOK(TokensNow)
  BY EndSaves, EndTypes
<1>3. PICK t, m : /\ t = MoveNFT(order.collection, sender, Protocol, tokenId)
                  /\ Makes(t, StoredTokens, m)
                  /\ MakesUnlessNothing(Push(order.asset, sender, Stake(order)), m, TokensNow)
  BY <1>1, TokenAndPaymentMade
<1>4. MovesNFT(t, StoredTokens, m)
  BY <1>3 DEF MoveNFT, Makes, Pulls, Pushes, Wraps
<1>5. /\ stored.ownerOf[order.collection][tokenId] = sender
      /\ sender = Protocol \/ sender \in stored.isApprovedForAll[order.collection]
      /\ Protocol \notin stored.shouldBlock
      /\ m.ownerOf = [stored.ownerOf EXCEPT ![order.collection][tokenId] = Protocol]
      /\ m.balanceOf = stored.balanceOf /\ m.allowance = stored.allowance
      /\ m.ether = stored.ether
  BY <1>3, <1>4 DEF MovesNFT, MoveNFT, StoredTokens
<1>6. /\ Stake(order) <= MaxUint
      /\ m.balanceOf[order.asset][Protocol] >= Stake(order)
      /\ balanceOf = Moved(m.balanceOf, order.asset, Protocol, sender, Stake(order))
      /\ allowance = m.allowance /\ ether = m.ether /\ ownerOf = m.ownerOf
  <2>1. PICK r : r = TokensNow
    OBVIOUS
  <2>2. PICK n \in Nat, a \in Assets, to \in Accounts :
           n = Stake(order) /\ a = order.asset /\ to = sender
    BY OrdersAssumption DEF OrderType, Stake, Accounts
  <2>3. TokensOK(r) /\ MakesUnlessNothing(Push(a, to, n), m, r)
    BY <1>2, <1>3, <2>1, <2>2
  <2>4. /\ n <= MaxUint /\ m.balanceOf[a][Protocol] >= n
        /\ r.balanceOf = Moved(m.balanceOf, a, Protocol, to, n)
        /\ r.allowance = m.allowance /\ r.ether = m.ether /\ r.ownerOf = m.ownerOf
    BY <2>3, PushOfAny
  <2> QED
    BY <2>1, <2>2, <2>4 DEF TokensNow
<1>7. Atomic!TakeNFT(order, sender, tokenId) /\ Atomic!PayStake(order, sender)
  BY <1>2, <1>5, <1>6
     DEF Saved, Atomic!TakeNFT, Atomic!SafeTransferNFT, Atomic!AcceptsERC721,
         Atomic!PayStake, Atomic!Stake, Stake, Moved, Atomic!Moved
<1>8. /\ UNCHANGED <<stored.now, Atomic!ownerVars, stored.withdrawableFees,
                     stored.matchedOrders, stored.reclaimedContracts, Atomic!positionVars,
                     Atomic!revocationVars, stored.boughtSellOrders>>
      /\ UNCHANGED <<stored.isApprovedForAll, stored.shouldBlock>>
      /\ UNCHANGED <<stored.allowance, stored.ether>>
  BY <1>1, <1>2, <1>5, <1>6, EndKeeps DEF Saved, Settled
<1>9. Atomic!SettleContract(sender, order, tokenId)
  BY <1>1, <1>2, <1>7, <1>8 DEF Saved, Settled, Atomic!SettleContract
<1> QED
  BY <1>9 DEF Atomic!Next, Atomic!OrderNext, Atomic!OrderCallsBy

\* reclaimContract.
LEMMA ReclaimEnds ==
    ASSUME Ends, NEW call, NEW plan, ReclaimRuns(call, plan),
           MakesAll(plan, StoredTokens, TokensNow)
    PROVE  Atomic!Next
<1>1. PICK order \in Orders :
         /\ plan = IF order \in stored.settledContracts
                   THEN <<MoveNFT(order.collection, Protocol, stored.bulls[order],
                                  stored.claimableTokenId[order])>>
                   ELSE UnlessNothing(Push(order.asset, stored.bulls[order], Stake(order)))
         /\ Reclaimed(order)
  BY DEF ReclaimRuns
<1>2. Saved /\ TokensOK(StoredTokens) /\ TokensOK(TokensNow)
  BY EndSaves, EndTypes
<1>3. ASSUME order \in stored.settledContracts
      PROVE  Atomic!ReclaimNFT(order) /\ UNCHANGED <<stored.allowance, stored.ether>>
  <2>1. PICK t : /\ t = MoveNFT(order.collection, Protocol, stored.bulls[order],
                                stored.claimableTokenId[order])
                 /\ Makes(t, StoredTokens, TokensNow)
    BY <1>1, <1>3, PlanOfOne DEF MakesAll
  <2>2. MovesNFT(t, StoredTokens, TokensNow)
    BY <2>1 DEF MoveNFT, Makes, Pulls, Pushes, Wraps
  <2>3. /\ stored.ownerOf[order.collection][stored.claimableTokenId[order]] = Protocol
        /\ stored.bulls[order] \notin stored.shouldBlock
        /\ ownerOf = [stored.ownerOf EXCEPT
                         ![order.collection][stored.claimableTokenId[order]] =
                             stored.bulls[order]]
        /\ balanceOf = stored.balanceOf /\ allowance = stored.allowance
        /\ ether = stored.ether
    BY <2>1, <2>2 DEF MovesNFT, MoveNFT, StoredTokens, TokensNow
  <2> QED
    BY <1>2, <1>3, <2>3
       DEF Saved, Atomic!ReclaimNFT, Atomic!SafeTransferNFT, Atomic!AcceptsERC721
<1>4. ASSUME order \notin stored.settledContracts
      PROVE  Atomic!ReclaimStake(order) /\ UNCHANGED <<stored.allowance, stored.ether>>
  <2>1. PICK s, r : s = StoredTokens /\ r = TokensNow
    OBVIOUS
  <2>2. stored.bulls[order] \in Accounts
    <3>1. stored.bulls \in [Orders -> Accounts \cup {NoOne}]
      BY DEF Ends, Atomic!TypeOK, Atomic!ProtocolTypeOK, Accounts, Atomic!Accounts
    <3>2. stored.bulls[order] # NoOne
      BY <1>1 DEF Reclaimed, Ends, Atomic!ReclaimRequires, Atomic!OutcomesInOrder
    <3> QED
      BY <3>1, <3>2
  <2>3. PICK n \in Nat, a \in Assets, to \in Accounts :
           n = Stake(order) /\ a = order.asset /\ to = stored.bulls[order]
    BY <2>2, OrdersAssumption DEF OrderType, Stake
  <2>4. TokensOK(r) /\ MakesUnlessNothing(Push(a, to, n), s, r)
    BY <1>1, <1>2, <1>4, <2>1, <2>3, OneMade
  <2>5. /\ n <= MaxUint /\ s.balanceOf[a][Protocol] >= n
        /\ r.balanceOf = Moved(s.balanceOf, a, Protocol, to, n)
        /\ r.allowance = s.allowance /\ r.ether = s.ether /\ r.ownerOf = s.ownerOf
    BY <2>4, PushOfAny
  <2>6. Atomic!PayStake(order, stored.bulls[order])
    BY <1>2, <2>1, <2>3, <2>5
       DEF StoredTokens, TokensNow, Saved, Atomic!PayStake, Atomic!Stake, Stake, Moved,
           Atomic!Moved
  <2> QED
    BY <1>1, <1>2, <1>4, <2>1, <2>5, <2>6
       DEF StoredTokens, TokensNow, Saved, Reclaimed, Atomic!ReclaimStake
<1>5. /\ UNCHANGED <<stored.now, Atomic!ownerVars, stored.withdrawableFees,
                     stored.matchedOrders, stored.settledContracts, stored.claimableTokenId,
                     Atomic!positionVars, Atomic!revocationVars, stored.boughtSellOrders>>
      /\ UNCHANGED <<stored.isApprovedForAll, stored.shouldBlock>>
  BY <1>1, <1>2, EndKeeps DEF Saved, Reclaimed
<1>6. Atomic!ReclaimContract(order)
  BY <1>1, <1>2, <1>3, <1>4, <1>5 DEF Saved, Reclaimed, Atomic!ReclaimContract
<1> QED
  BY <1>6, CallsAssumption DEF Atomic!Next, Atomic!OrderNext, Atomic!OrderCallsBy

\* buyPosition.
LEMMA BuyEnds ==
    ASSUME Ends, NEW call, NEW plan, BuyRuns(call, plan),
           MakesAll(plan, StoredTokens, TokensNow)
    PROVE  Atomic!Next
<1>1. PICK sender, offer, tip, value :
         /\ sender \in Takers /\ offer \in SellOrders /\ tip \in Tips
         /\ value \in {0, offer.price + tip}
         /\ plan = IF value > 0
                   THEN <<Wrap(sender, value), Push(WETH, offer.maker, value)>>
                   ELSE UnlessNothing(Pull(offer.asset, sender, offer.maker,
                                           offer.price + tip))
         /\ Bought(sender, offer, tip, value)
  BY DEF BuyRuns
<1>2. Saved /\ TokensOK(StoredTokens) /\ TokensOK(TokensNow)
  BY EndSaves, EndTypes
<1>3. /\ sender \in Users /\ offer.asset \in Assets /\ offer.maker \in Accounts
      /\ offer.price + tip \in Nat
  BY <1>1, CallsAssumption, OrdersAssumption, AssetsAssumption DEF SellOrderType, Accounts
<1>4. ASSUME value > 0
      PROVE  /\ Atomic!PaySeller(sender, offer, offer.price + tip, value)
             /\ ownerOf = stored.ownerOf
  <2>1. PICK t, u, m : /\ t = Wrap(sender, value) /\ u = Push(WETH, offer.maker, value)
                       /\ Makes(t, StoredTokens, m) /\ Makes(u, m, TokensNow)
    BY <1>1, <1>4, PlanOfTwo DEF MakesAll
  <2>2. /\ stored.ether[sender] >= value
        /\ m.ether = [stored.ether EXCEPT ![sender] = @ - value]
        /\ m.balanceOf = Minted(stored.balanceOf, WETH, Protocol, value)
        /\ m.allowance = stored.allowance /\ m.ownerOf = stored.ownerOf
    BY <2>1 DEF Wrap, Makes, Pulls, Pushes, Wraps, MovesNFT, StoredTokens
  <2>3. /\ balanceOf = Moved(m.balanceOf, WETH, Protocol, offer.maker, value)
        /\ allowance = m.allowance /\ ether = m.ether /\ ownerOf = m.ownerOf
    BY <2>1 DEF Push, Makes, Pulls, Pushes, Wraps, MovesNFT, TokensNow
  <2> QED
    BY <1>1, <1>2, <1>4, <2>2, <2>3
       DEF Saved, Bought, Atomic!PaySeller, Atomic!ForwardEther, Moved, Minted,
           Atomic!Moved, Atomic!Minted
<1>5. ASSUME ~(value > 0)
      PROVE  /\ Atomic!PaySeller(sender, offer, offer.price + tip, value)
             /\ ownerOf = stored.ownerOf
  <2>1. PICK s, r : s = StoredTokens /\ r = TokensNow
    OBVIOUS
  <2>2. PICK n \in Nat, a \in Assets : n = offer.price + tip /\ a = offer.asset
    BY <1>3
  <2>3. TokensOK(r) /\ MakesUnlessNothing(Pull(a, sender, offer.maker, n), s, r)
    BY <1>1, <1>2, <1>5, <2>1, <2>2, OneMade
  <2>4. /\ CanPull(s.balanceOf, s.allowance, a, sender, n)
        /\ r.balanceOf = Moved(s.balanceOf, a, sender, offer.maker, n)
        /\ r.allowance = Spent(s.allowance, a, sender, n)
        /\ r.ether = s.ether /\ r.ownerOf = s.ownerOf
    BY <1>3, <2>3, PullOfAny
  <2>5. value = 0
    BY <1>1, <1>3, <1>5
  <2> QED
    BY <1>2, <2>1, <2>2, <2>4, <2>5
       DEF StoredTokens, TokensNow, Saved, Atomic!PaySeller, Atomic!ForwardEther,
           CanPull, Moved, Spent,
           Atomic!CanPull, Atomic!Moved, Atomic!Spent
<1>6. Atomic!RecordSale(sender, offer)
  BY <1>1, <1>2 DEF Saved, Bought, Atomic!RecordSale
<1>7. UNCHANGED <<stored.now, Atomic!ownerVars, stored.withdrawableFees,
                  Atomic!contractVars, Atomic!revocationVars>>
  BY <1>1, <1>2, EndKeeps DEF Saved, Bought
<1>8. UNCHANGED Atomic!erc721Vars
  BY <1>2, <1>4, <1>5, EndKeeps DEF Saved, Atomic!erc721Vars
<1>9. Atomic!BuyPosition(sender, offer, tip, value)
  BY <1>1, <1>4, <1>5, <1>6, <1>7, <1>8 DEF Bought, Atomic!BuyPosition
<1> QED
  BY <1>1, <1>9, CallsAssumption
     DEF Atomic!Next, Atomic!SellOrderNext, Atomic!SellOrderCallsBy

\* transferPosition.
LEMMA TransferEnds ==
    ASSUME Ends, NEW call, NEW plan, TransferRuns(call, plan),
           MakesAll(plan, StoredTokens, TokensNow)
    PROVE  Atomic!Next
<1>1. PICK sender \in Users, order \in Orders, isBull \in BOOLEAN,
           recipient \in Recipients :
         plan = <<>> /\ Given(sender, order, isBull, recipient)
  BY DEF TransferRuns
<1>2. Saved
  BY EndSaves
<1>3. TokensNow = StoredTokens
  BY <1>1, PlanOfOne, PlanOfTwo DEF MakesAll
<1>4. UNCHANGED <<stored.balanceOf, stored.allowance, stored.ether, stored.ownerOf,
                  stored.isApprovedForAll, stored.shouldBlock>>
  BY <1>2, <1>3, EndKeeps DEF TokensNow, StoredTokens, Saved
<1>5. UNCHANGED Atomic!tokenVars
  BY <1>4 DEF Atomic!tokenVars
<1>6. UNCHANGED <<stored.now, Atomic!ownerVars, stored.withdrawableFees,
                  Atomic!contractVars, Atomic!revocationVars, stored.boughtSellOrders>>
  BY <1>1, <1>2, EndKeeps DEF Saved, Given
<1>7. Atomic!TransferPosition(sender, order, isBull, recipient)
  BY <1>1, <1>2, <1>5, <1>6 DEF Saved, Given, Atomic!TransferPosition,
                                Atomic!HoldsPosition
<1> QED
  BY <1>7 DEF Atomic!Next, Atomic!OrderNext, Atomic!OrderCallsBy

\* withdrawFees.
LEMMA WithdrawEnds ==
    ASSUME Ends, NEW call, NEW plan, WithdrawRuns(call, plan),
           MakesAll(plan, StoredTokens, TokensNow)
    PROVE  Atomic!Next
<1>1. PICK sender \in Users, asset \in Assets, recipient \in Recipients :
         /\ plan = <<Push(asset, recipient, stored.withdrawableFees[asset])>>
         /\ Cleared(sender, asset)
  BY DEF WithdrawRuns
<1>2. Saved
  BY EndSaves
<1>3. PICK t : /\ t = Push(asset, recipient, stored.withdrawableFees[asset])
               /\ Makes(t, StoredTokens, TokensNow)
  BY <1>1, PlanOfOne DEF MakesAll
<1>4. /\ stored.balanceOf[asset][Protocol] >= stored.withdrawableFees[asset]
      /\ balanceOf = Moved(stored.balanceOf, asset, Protocol, recipient,
                           stored.withdrawableFees[asset])
      /\ allowance = stored.allowance /\ ether = stored.ether /\ ownerOf = stored.ownerOf
  BY <1>3 DEF Push, Makes, Pulls, Pushes, Wraps, MovesNFT, StoredTokens, TokensNow
<1>5. /\ UNCHANGED <<stored.now, Atomic!ownerVars, Atomic!contractVars, Atomic!positionVars,
                     Atomic!revocationVars, stored.boughtSellOrders, stored.allowance,
                     stored.ether>>
      /\ UNCHANGED Atomic!erc721Vars
  BY <1>1, <1>2, <1>4, EndKeeps DEF Saved, Cleared, Atomic!erc721Vars
<1>6. Atomic!WithdrawFees(sender, asset, recipient)
  BY <1>1, <1>2, <1>4, <1>5 DEF Saved, Cleared, Atomic!WithdrawFees, Moved, Atomic!Moved
<1> QED
  BY <1>6 DEF Atomic!Next, Atomic!OwnerNext, Atomic!OwnerCallsBy

\* So whatever call has run, BvbProtocol makes it in one step.
LEMMA CallEnds ==
    ASSUME Ends, NEW call, NEW plan, Runs(call, plan),
           MakesAll(plan, StoredTokens, TokensNow)
    PROVE  Atomic!Next
BY MatchEnds, SettleEnds, ReclaimEnds, BuyEnds, TransferEnds, WithdrawEnds DEF Runs

------------------------------------------------------------------------------
(* The invariant of the machine.                                             *)

\* The only call of the running transaction: `plan' are its external calls, `todo' the
\* ones to come and `control' the wallet that runs.
OnlyCall(call, plan, todo, control) ==
    /\ request = <<call>> /\ position = 1
    /\ frames = <<[call |-> call, todo |-> todo, control |-> control]>>
    /\ NonReentrant(call) <=> entered
    /\ NonReentrant(call) \/ control = NoOne
    /\ Runs(call, plan)
    /\ Underway(plan, todo)

\* There is one.
OneRuns == \E call, plan, todo, control : OnlyCall(call, plan, todo, control)

\* Between transactions the stored state is the current one and the guard is open; in a
\* transaction one call runs alone, on the stored state.
AtomicInv ==
    /\ stored.owner \notin Wallets
    /\ Idle => frames = <<>> /\ ~entered /\ Published
    /\ ~Idle => ApprovalsStay /\ OneRuns

\* It holds when the protocol has been deployed.
LEMMA AtomicStart == LoneCalls /\ CallsInit => AtomicInv
<1> SUFFICES ASSUME LoneCalls, CallsInit PROVE AtomicInv
  OBVIOUS
<1>1. stored.owner \notin Wallets
  BY DEF LoneCalls, CallsInit, Init, Storage
<1> QED
  BY <1>1, StorageIsPublished DEF CallsInit, AtomicInv, Idle

\* A wallet can do nothing without an external call.
LEMMA WalletsHaveNoSay ==
    ASSUME LoneCalls, NEW wallet \in Wallets, owner \notin Wallets,
           CallsWithoutInteraction({wallet})
    PROVE  FALSE
<1>1. /\ wallet \notin Holders /\ wallet \notin Revokers /\ ~OnlyOwner(wallet)
      /\ \A order \in Orders : wallet # order.maker
      /\ \A sellOrder \in SellOrders : wallet # sellOrder.maker
  BY DEF LoneCalls, OnlyOwner
<1>2. CASE UnguardedCalls({wallet})
  BY <1>1, <1>2
     DEF UnguardedCalls, CancelOrder, MayCancel, CancelSellOrder, OwnSellOrder,
         SetAllowedCollection, SetAllowedAsset, SetFee, TransferOwnership,
         RenounceOwnership
<1>3. CASE TokenCallsBy({wallet} \cap Holders, {wallet} \cap Holders \cap Wallets)
  <2>1. {wallet} \cap Holders = {} /\ {wallet} \cap Holders \cap Wallets = {}
    BY <1>1
  <2> QED
    BY <1>3, <2>1 DEF TokenCallsBy
<1> QED
  BY <1>2, <1>3 DEF CallsWithoutInteraction

\* Nor can it withdraw the fees.
LEMMA WalletsWithdrawNothing ==
    ASSUME NEW wallet \in Wallets, owner \notin Wallets, NEW call \in CallsOf({wallet}),
           ~NonReentrant(call), Effects(call)
    PROVE  FALSE
<1>1. call.op = "withdrawFees"
  BY DEF NonReentrant
<1>2. call \in WithdrawCalls({wallet})
  BY <1>1 DEF CallsOf, MatchCalls, SettleCalls, ReclaimCalls, BuyCalls, TransferCalls
<1>3. call.sender = wallet
  BY <1>2 DEF WithdrawCalls
<1> QED
  BY <1>1, <1>3 DEF Effects, WithdrawEffects, OnlyOwner

\* The only call without a guard reaches no wallet.
LEMMA WithdrawalsReachNobody ==
    ASSUME LoneCalls, NEW call, NEW plan, NEW todo, ~NonReentrant(call),
           Runs(call, plan), Underway(plan, todo), todo # <<>>
    PROVE  Warned(todo[1]) = {} /\ Notified(todo[1]) = NoOne
<1>1. call.op = "withdrawFees"
  BY DEF NonReentrant
<1>2. WithdrawRuns(call, plan)
  <2>1. ~MatchRuns(call, plan)
    BY <1>1 DEF MatchRuns
  <2>2. ~SettleRuns(call, plan)
    <3>1. SUFFICES ASSUME SettleRuns(call, plan) PROVE FALSE
      OBVIOUS
    <3>2. PICK sender, order, tokenId :
             call = [op |-> "settleContract", sender |-> sender, order |-> order,
                     tokenId |-> tokenId]
      BY <3>1 DEF SettleRuns
    <3> QED
      BY <1>1, <3>2
  <2>3. ~ReclaimRuns(call, plan)
    BY <1>1 DEF ReclaimRuns
  <2>4. ~BuyRuns(call, plan)
    BY <1>1 DEF BuyRuns
  <2>5. ~TransferRuns(call, plan)
    BY <1>1 DEF TransferRuns
  <2> QED
    BY <2>1, <2>2, <2>3, <2>4, <2>5 DEF Runs
<1>3. PICK asset, recipient, n :
         /\ asset \in Assets /\ recipient \in Recipients
         /\ plan = <<Push(asset, recipient, n)>>
  BY <1>2 DEF WithdrawRuns
<1>4. todo = plan
  BY <1>3, PlanOfOne DEF Underway
<1>5. todo[1] = Push(asset, recipient, n)
  BY <1>3, <1>4, PlanOfOne
<1>6. recipient \notin Wallets
  BY <1>3 DEF LoneCalls
<1> QED
  BY <1>5, <1>6 DEF Push, Warned, Notified

\* The owner stays the owner in the middle of a call.
LEMMA OwnerStays == ASSUME NEW call, NEW plan, Runs(call, plan) PROVE owner = stored.owner
<1>1. OwnerVarsStay
  BY DEF Runs, MatchRuns, Matched, SettleRuns, Settled, ReclaimRuns, Reclaimed, BuyRuns,
         Bought, TransferRuns, Given, WithdrawRuns, Cleared
<1> QED
  BY <1>1 DEF OwnerVarsStay, ownerVars, Atomic!ownerVars

\* The innermost call is the only one.
LEMMA InnermostIsOnly ==
    ASSUME NEW call, NEW plan, NEW todo, NEW control, OnlyCall(call, plan, todo, control)
    PROVE  /\ frames # <<>> /\ Len(frames) = 1
           /\ Innermost = [call |-> call, todo |-> todo, control |-> control]
           /\ \A new : [frames EXCEPT ![1] = new] = <<new>>
           /\ SubSeq(frames, 1, 0) = <<>>
<1>1. PICK f : f = [call |-> call, todo |-> todo, control |-> control]
  OBVIOUS
<1>2. frames = <<f>>
  BY <1>1 DEF OnlyCall
<1>3. Len(frames) = 1
  BY <1>2, OneFrame
<1> QED
  BY <1>1, <1>2, <1>3, OneFrame DEF Innermost

\* A transaction consists of one call.
LEMMA RequestsAreAlone ==
    ASSUME LoneCalls, NEW calls \in Requests
    PROVE  \E call \in CallsOf(Users) : calls = <<call>>
<1>1. 2 .. MaxBatch = {}
  BY CallbacksAssumption DEF LoneCalls
<1> QED
  BY <1>1 DEF Requests

\* Between transactions.
LEMMA AtomicWaiting ==
    ASSUME LoneCalls, CallsInv, AtomicInv, BetweenCalls
    PROVE  AtomicInv' /\ Atomic!Next
<1>1. /\ frames = <<>> /\ ~entered /\ Published /\ stored.owner \notin Wallets
      /\ UNCHANGED <<request, frames, entered>> /\ Idle
  BY DEF AtomicInv, BetweenCalls
<1>2. Atomic!Next /\ Published'
  BY <1>1, StoredBetweenCalls
<1>3. stored'.owner \notin Wallets
  <2>1. stored'.owner = owner' /\ owner = stored.owner
    BY <1>1, <1>2 DEF Published
  <2>2. NoOne \notin Wallets /\ Successors \cap Wallets = {}
    BY CallsAssumption, AccountsAssumption DEF LoneCalls, Accounts
  <2>3. owner' = owner \/ owner' = NoOne \/ owner' \in Successors
    <3>1. CASE Tick
      BY <3>1 DEF Tick, ownerVars
    <3>2. CASE UnguardedCalls(Users)
      BY <3>2
         DEF UnguardedCalls, CancelOrder, CancelSellOrder, SetMinimumValidNonce,
             SetMinimumValidNonceSell, SetAllowedCollection, SetAllowedAsset, SetFee,
             TransferOwnership, RenounceOwnership, ownerVars
    <3>3. CASE UNCHANGED protocolVars
      BY <3>3 DEF protocolVars
    <3> QED
      BY <3>1, <3>2, <3>3 DEF BetweenCalls, CallsWithoutInteraction
  <2> QED
    BY <1>1, <2>1, <2>2, <2>3
<1>4. AtomicInv'
  BY <1>1, <1>2, <1>3 DEF AtomicInv, Idle
<1> QED
  BY <1>2, <1>4

\* A transaction begins.
LEMMA AtomicSubmission ==
    ASSUME LoneCalls, AtomicInv, NEW calls \in Requests, Submit(calls)
    PROVE  AtomicInv' /\ UNCHANGED stored
<1>1. /\ Idle /\ frames = <<>> /\ ~entered /\ Published
      /\ stored.owner \notin Wallets /\ UNCHANGED stored
  BY DEF AtomicInv, Submit
<1>2. PICK call \in CallsOf(Users) : calls = <<call>>
  BY RequestsAreAlone
<1>3. Begin(call) /\ request' = <<call>> /\ position' = 1
  BY <1>2, OneFrame DEF Submit
<1>4. Published
  BY <1>1
<1>5. PICK plan : plan = Transfers(call) /\ Runs(call, plan)'
  BY <1>1, <1>3, CallStarts DEF Begin
<1>6. UNCHANGED tokenVars
  BY <1>3
     DEF Begin, Effects, MatchEffects, SettleEffects, ReclaimEffects, BuyEffects,
         TransferPosition, WithdrawEffects
<1>7. Underway(plan, plan)'
  <2>1. (TokensNow = StoredTokens)'
    BY <1>1, <1>4, <1>6 DEF tokenVars, Published, TokensNow, StoredTokens
  <2> QED
    BY <2>1 DEF Underway
<1>8. ApprovalsStay'
  BY <1>1, <1>4, <1>6 DEF tokenVars, Published, ApprovalsStay
<1>9. frames' = <<[call |-> call, todo |-> plan, control |-> NoOne]>>
  <2>1. PICK f : f = [call |-> call, todo |-> plan, control |-> NoOne]
    OBVIOUS
  <2>2. frames' = Append(<<>>, f)
    BY <1>1, <1>3, <1>5, <2>1 DEF Begin
  <2> QED
    BY <2>1, <2>2, OneFrame
<1>10. NonReentrant(call) <=> entered'
  BY <1>1, <1>3 DEF Begin
<1>11. OnlyCall(call, plan, plan, NoOne)'
  BY <1>3, <1>5, <1>7, <1>9, <1>10 DEF OnlyCall, NonReentrant
<1>12. ~Idle' /\ stored'.owner \notin Wallets
  BY <1>1, <1>3, OneFrame DEF Idle
<1> QED
  BY <1>1, <1>8, <1>11, <1>12 DEF AtomicInv, OneRuns

\* Wallets are called in the middle and can do nothing.
LEMMA AtomicCallback ==
    ASSUME LoneCalls, CallsInv, AtomicInv, Callback
    PROVE  FALSE
<1>1. frames # <<>> /\ ~Idle
  <2>1. frames # <<>>
    BY DEF Callback, Running
  <2> QED
    BY <2>1 DEF CallsInv, RequestInv
<1>2. PICK call, plan, todo, control : OnlyCall(call, plan, todo, control)
  BY <1>1 DEF AtomicInv, OneRuns
<1>3. Innermost.call = call /\ Innermost.todo = todo /\ Innermost.control = control
  BY <1>2, InnermostIsOnly
<1>4. owner \notin Wallets
  BY <1>2, OwnerStays DEF OnlyCall, AtomicInv
<1>5. PICK wallet \in Running :
         \/ CallsWithoutInteraction({wallet})
         \/ \E reentry \in CallsOf({wallet}) : Begin(reentry)
  BY DEF Callback
<1>6. wallet \in Wallets
  BY WalletsRun DEF CallsInv, StateInv
<1>7. NonReentrant(call)
  <2>1. SUFFICES ASSUME ~NonReentrant(call) PROVE Running = {}
    OBVIOUS
  <2>2. control = NoOne
    BY <1>2, <2>1 DEF OnlyCall
  <2>3. CASE todo = <<>>
    BY <1>1, <1>3, <2>2, <2>3 DEF Running
  <2>4. CASE todo # <<>>
    <3>1. Warned(todo[1]) = {}
      BY <1>2, <2>1, <2>4, WithdrawalsReachNobody DEF OnlyCall
    <3> QED
      BY <1>1, <1>3, <2>2, <2>4, <3>1 DEF Running
  <2> QED
    BY <2>3, <2>4
<1>8. entered
  BY <1>2, <1>7 DEF OnlyCall
<1>9. CASE CallsWithoutInteraction({wallet})
  BY <1>4, <1>6, <1>9, WalletsHaveNoSay
<1>10. CASE \E reentry \in CallsOf({wallet}) : Begin(reentry)
  <2>1. PICK reentry \in CallsOf({wallet}) : Begin(reentry)
    BY <1>10
  <2>2. ~NonReentrant(reentry) /\ Effects(reentry)
    BY <1>8, <2>1 DEF Begin, GuardOpen
  <2> QED
    BY <1>4, <1>6, <2>2, WalletsWithdrawNothing
<1> QED
  BY <1>5, <1>9, <1>10

\* There is no next call.
LEMMA AtomicNoBatch ==
    ASSUME CallsInv, AtomicInv, BeginNext
    PROVE  FALSE
<1>1. CASE Idle
  BY <1>1 DEF Idle, BeginNext, CallsInv, RequestInv
<1>2. CASE ~Idle
  <2>1. PICK call, plan, todo, control : OnlyCall(call, plan, todo, control)
    BY <1>2 DEF AtomicInv, OneRuns
  <2>2. frames # <<>>
    BY <2>1, InnermostIsOnly
  <2> QED
    BY <2>2 DEF BeginNext
<1> QED
  BY <1>1, <1>2

\* An external call.
LEMMA AtomicInteraction ==
    ASSUME LoneCalls, CallsInv, AtomicInv, Interact
    PROVE  AtomicInv'
<1>1. /\ frames # <<>> /\ ~Idle /\ stored.owner \notin Wallets
      /\ UNCHANGED <<entered, request, position, stored>>
  BY DEF Interact, CallsInv, RequestInv, AtomicInv
<1>2. /\ ApprovalsStay
      /\ \E call, plan, todo, control : OnlyCall(call, plan, todo, control)
  BY <1>1 DEF AtomicInv, OneRuns
<1>3. PICK call, plan, todo, control : OnlyCall(call, plan, todo, control)
  BY <1>2
<1>4. PICK t, rest : t = todo[1] /\ rest = Tail(todo)
  OBVIOUS
<1>5. PICK last : last = [call |-> call, todo |-> todo, control |-> control]
  OBVIOUS
<1>6. Innermost = last /\ Len(frames) = 1 /\ \A new : [frames EXCEPT ![1] = new] = <<new>>
  BY <1>3, <1>5, InnermostIsOnly
<1>7. todo # <<>> /\ Perform(t)
  BY <1>4, <1>5, <1>6 DEF Interact
<1>8. UNCHANGED protocolVars /\ ApprovalsStay'
  BY <1>1, <1>2, <1>7, PerformMakes
<1>9. Runs(call, plan)'
  BY <1>1, <1>3, <1>8, RunsOn DEF OnlyCall
<1>10. Underway(plan, rest)'
  BY <1>1, <1>2, <1>3, <1>4, <1>7, RunsByPlan, UnderwayFurther DEF OnlyCall
<1>11. frames' = <<[call |-> call, todo |-> rest, control |-> Notified(t)]>>
  <2>1. PICK new : new = [call |-> last.call, todo |-> Tail(last.todo),
                          control |-> Notified(last.todo[1])]
    OBVIOUS
  <2>2. frames[1] = last
    BY <1>6 DEF Innermost
  <2>3. frames' = [frames EXCEPT ![1] = new]
    BY <1>6, <2>1, <2>2 DEF Interact
  <2>4. new = [call |-> call, todo |-> rest, control |-> Notified(t)]
    BY <1>4, <1>5, <2>1
  <2> QED
    BY <1>6, <2>3, <2>4
<1>12. NonReentrant(call) \/ Notified(t) = NoOne
  BY <1>3, <1>4, <1>7, WithdrawalsReachNobody DEF OnlyCall
<1>13. OnlyCall(call, plan, rest, Notified(t))'
  <2>1. PICK next : next = Notified(t)
    OBVIOUS
  <2>2. OnlyCall(call, plan, rest, next)'
    BY <1>1, <1>3, <1>9, <1>10, <1>11, <1>12, <2>1 DEF OnlyCall, NonReentrant
  <2> QED
    BY <2>1, <2>2 DEF Notified
<1> QED
  BY <1>1, <1>8, <1>13 DEF AtomicInv, OneRuns, Idle

\* Control comes back from a wallet.
LEMMA AtomicReturn ==
    ASSUME CallsInv, AtomicInv, Return
    PROVE  AtomicInv'
<1>1. /\ frames # <<>> /\ ~Idle /\ stored.owner \notin Wallets
      /\ UNCHANGED <<vars, entered, request, position, stored>>
  BY DEF Return, CallsInv, RequestInv, AtomicInv
<1>2. /\ ApprovalsStay
      /\ \E call, plan, todo, control : OnlyCall(call, plan, todo, control)
  BY <1>1 DEF AtomicInv, OneRuns
<1>3. PICK call, plan, todo, control : OnlyCall(call, plan, todo, control)
  BY <1>2
<1>4. UNCHANGED <<protocolVars, erc20Vars, ownerOf, isApprovedForAll, shouldBlock>>
  BY <1>1 DEF vars, tokenVars, erc20Vars
<1>5. Runs(call, plan)' /\ Underway(plan, todo)' /\ ApprovalsStay'
  BY <1>1, <1>2, <1>3, <1>4, RunsOn, UnderwayStays DEF OnlyCall, ApprovalsStay
<1>6. PICK last, new : /\ last = [call |-> call, todo |-> todo, control |-> control]
                       /\ new = [call |-> call, todo |-> todo, control |-> NoOne]
  OBVIOUS
<1>7. Innermost = last /\ Len(frames) = 1 /\ [frames EXCEPT ![1] = new] = <<new>>
  BY <1>3, <1>6, InnermostIsOnly
<1>8. frames' = <<new>>
  <2>1. frames[1] = last /\ [last EXCEPT !.control = NoOne] = new
    BY <1>6, <1>7 DEF Innermost
  <2>2. frames' = [frames EXCEPT ![1].control = NoOne]
    BY <1>7 DEF Return
  <2>3. frames' = [frames EXCEPT ![1] = new]
    BY <2>1, <2>2
  <2> QED
    BY <1>7, <2>3
<1>9. OnlyCall(call, plan, todo, NoOne)'
  BY <1>1, <1>3, <1>5, <1>6, <1>8 DEF OnlyCall, NonReentrant
<1> QED
  BY <1>1, <1>5, <1>9 DEF AtomicInv, OneRuns, Idle

\* The call and its transaction end.
LEMMA AtomicEnd ==
    ASSUME CallsInv, AtomicInv, Leave
    PROVE  AtomicInv' /\ Atomic!Next
<1>1. frames # <<>> /\ ~Idle /\ stored.owner \notin Wallets /\ UNCHANGED vars
  BY DEF Leave, CallsInv, RequestInv, AtomicInv
<1>2. /\ ApprovalsStay
      /\ \E call, plan, todo, control : OnlyCall(call, plan, todo, control)
  BY <1>1 DEF AtomicInv, OneRuns
<1>3. PICK call, plan, todo, control : OnlyCall(call, plan, todo, control)
  BY <1>2
<1>4. /\ Innermost = [call |-> call, todo |-> todo, control |-> control]
      /\ Len(frames) = 1 /\ SubSeq(frames, 1, 0) = <<>>
  BY <1>3, InnermostIsOnly
<1>5. todo = <<>> /\ Innermost.call = call
  BY <1>4 DEF Leave
<1>6. Len(request) = 1 /\ position = 1
  BY <1>3, OneFrame DEF OnlyCall
<1>7. /\ frames' = <<>> /\ request' = <<>> /\ stored' = Storage
      /\ entered' = Released(call)
  BY <1>4, <1>5, <1>6 DEF Leave
<1>8. ~entered'
  BY <1>3, <1>7 DEF OnlyCall, Released
<1>9. Atomic!Next
  <2>1. Ends
    BY <1>2, <1>7 DEF Ends, CallsInv, StateInv, StorageInv
  <2>2. Runs(call, plan) /\ MakesAll(plan, StoredTokens, TokensNow)
    BY <1>3, <1>5, UnderwayEnds DEF OnlyCall
  <2> QED
    BY <2>1, <2>2, CallEnds
<1>10. stored'.owner \notin Wallets
  BY <1>1, <1>3, <1>7, OwnerStays DEF OnlyCall, Storage
<1>11. Idle' /\ Published'
  <2>1. (stored = Storage)'
    BY <1>1, <1>7 DEF Storage, vars, protocolVars, tokenVars
  <2>2. Published'
    BY <2>1, StorageIsPublished, PTL
  <2> QED
    BY <1>7, <2>2 DEF Idle
<1> QED
  BY <1>7, <1>8, <1>9, <1>10, <1>11 DEF AtomicInv

\* Or everything is undone.
LEMMA AtomicRevert ==
    ASSUME CallsInv, AtomicInv, Revert
    PROVE  AtomicInv' /\ UNCHANGED stored
<1>1. Published'
  BY DEF CallsInv, StorageInv, Revert, Published
<1> QED
  BY <1>1 DEF Revert, AtomicInv, Idle

\* Every step keeps the invariant, and does what a step of BvbProtocol does, or nothing.
LEMMA AtomicStep ==
    LoneCalls /\ CallsInv /\ AtomicInv /\ [CallsNext]_<<vars, callVars>>
        => AtomicInv' /\ [Atomic!Next]_(Atomic!vars)
<1> SUFFICES ASSUME LoneCalls, CallsInv, AtomicInv, [CallsNext]_<<vars, callVars>>
             PROVE  AtomicInv' /\ [Atomic!Next]_(Atomic!vars)
  OBVIOUS
<1>1. UNCHANGED stored => UNCHANGED Atomic!vars
  BY DEF Atomic!vars, Atomic!protocolVars, Atomic!tokenVars
<1>2. CASE BetweenCalls
  BY <1>2, AtomicWaiting
<1>3. ASSUME NEW calls \in Requests, Submit(calls)
      PROVE  AtomicInv' /\ UNCHANGED stored
  BY <1>3, AtomicSubmission
<1>4. CASE Callback \/ BeginNext
  BY <1>4, AtomicCallback, AtomicNoBatch
<1>5. CASE Interact \/ Return
  BY <1>1, <1>5, AtomicInteraction, AtomicReturn DEF Interact, Return
<1>6. CASE Leave
  BY <1>6, AtomicEnd
<1>7. CASE Revert
  BY <1>1, <1>7, AtomicRevert
<1>8. CASE UNCHANGED <<vars, callVars>>
  <2>1. UNCHANGED <<stored, frames, request, position, entered, protocolVars, erc20Vars,
                    ownerOf, isApprovedForAll, shouldBlock>>
    BY <1>8 DEF callVars, vars, tokenVars, erc20Vars
  <2>2. CASE Idle
    <3>1. Published'
      BY <2>1, <2>2 DEF AtomicInv, Published, protocolVars, erc20Vars
    <3> QED
      BY <1>1, <2>1, <2>2, <3>1 DEF AtomicInv, Idle
  <2>3. CASE ~Idle
    <3>1. PICK call, plan, todo, control : OnlyCall(call, plan, todo, control)
      BY <2>3 DEF AtomicInv, OneRuns
    <3>2. Runs(call, plan)' /\ Underway(plan, todo)'
      BY <2>1, <3>1, RunsOn, UnderwayStays DEF OnlyCall
    <3>3. OnlyCall(call, plan, todo, control)'
      BY <2>1, <3>1, <3>2 DEF OnlyCall, NonReentrant
    <3> QED
      BY <1>1, <2>1, <2>3, <3>3 DEF AtomicInv, OneRuns, ApprovalsStay, Idle
  <2> QED
    BY <2>2, <2>3
<1> QED
  BY <1>1, <1>2, <1>3, <1>4, <1>5, <1>6, <1>7, <1>8 DEF CallsNext, Proceed

\* A transaction of one call is the single step of BvbProtocol, or nothing: although its
\* checks, its bookings and its external calls are steps of their own, any of which may
\* fail, although assets and NFTs call wallets in between, and although these try to
\* enter the protocol again.
THEOREM CallsImplementProtocol == LoneCalls => (CallsSpec => CallsAreAtomic)
<1> SUFFICES ASSUME LoneCalls PROVE CallsSpec => CallsAreAtomic
  OBVIOUS
<1>1. CallsInit => Atomic!Init /\ CallsInv /\ AtomicInv
  BY StoredStart, CallsInvHoldsFirst, AtomicStart
<1>2. CallsInv /\ [CallsNext]_<<vars, callVars>> => CallsInv'
  BY CallsInvIsInductive
<1>3. CallsInv /\ AtomicInv /\ [CallsNext]_<<vars, callVars>>
          => AtomicInv' /\ [Atomic!Next]_(Atomic!vars)
  BY AtomicStep
<1> QED
  BY <1>1, <1>2, <1>3, PTL DEF CallsSpec, CallsAreAtomic, Atomic!Spec
==============================================================================
