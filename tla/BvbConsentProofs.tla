--------------------------- MODULE BvbConsentProofs ---------------------------
(****************************************************************************)
(* What a signature commits its maker to: nothing that was revoked, no fee  *)
(* above the signed one, and no position given up without a sale the holder *)
(* agreed to.                                                               *)
(****************************************************************************)
EXTENDS BvbCallers, BvbSolvencyProofs

------------------------------------------------------------------------------
(* Revocations.                                                              *)

\* Time, cancellations, minimum nonces and used orders only grow.
LEMMA RevocationsOnlyGrow ==
    ASSUME TypeOK, [Next]_vars
    PROVE  /\ now' >= now
           /\ canceledOrders \subseteq canceledOrders'
           /\ canceledSellOrders \subseteq canceledSellOrders'
           /\ \A user \in Users : minimumValidNonce'[user] >= minimumValidNonce[user]
           /\ \A user \in Users : minimumValidNonceSell'[user] >= minimumValidNonceSell[user]
<1>1. /\ now \in Nat
      /\ minimumValidNonce \in [Users -> Nat] /\ minimumValidNonceSell \in [Users -> Nat]
  BY DEF TypeOK, ProtocolTypeOK
<1>2. CASE Tick
  BY <1>1, <1>2 DEF Tick, revocationVars
<1>3. ASSUME UNCHANGED <<now, revocationVars>>
      PROVE  /\ now' >= now
             /\ canceledOrders \subseteq canceledOrders'
             /\ canceledSellOrders \subseteq canceledSellOrders'
             /\ \A user \in Users : minimumValidNonce'[user] >= minimumValidNonce[user]
             /\ \A user \in Users : minimumValidNonceSell'[user] >= minimumValidNonceSell[user]
  BY <1>1, <1>3 DEF revocationVars
<1>4. CASE \/ \E order \in Orders, sender \in Users, value \in Nat :
                 MatchOrder(sender, order, value)
           \/ \E order \in Orders, sender \in Users, tokenId \in TokenIds :
                 SettleContract(sender, order, tokenId)
           \/ \E order \in Orders : ReclaimContract(order)
           \/ \E order \in Orders, sender \in Users, isBull \in BOOLEAN, recipient \in Accounts :
                 TransferPosition(sender, order, isBull, recipient)
           \/ \E sellOrder \in SellOrders, sender \in Users, tip \in Nat, value \in Nat :
                 BuyPosition(sender, sellOrder, tip, value)
           \/ OwnerNext
           \/ TokenCalls
           \/ UNCHANGED vars
  BY <1>3, <1>4 DEF MatchOrder, SettleContract, ReclaimContract, TransferPosition, BuyPosition,
       OwnerNext, OwnerCallsBy, SetAllowedCollection, SetAllowedAsset, SetFee,
       WithdrawFees,
       TransferOwnership, RenounceOwnership, TokenCalls, vars, protocolVars, revocationVars
<1>5. CASE \/ \E order \in Orders, sender \in Users : CancelOrder(sender, order)
           \/ \E sellOrder \in SellOrders, sender \in Users : CancelSellOrder(sender, sellOrder)
  BY <1>1, <1>5 DEF CancelOrder, CancelSellOrder
<1>6. CASE NonceNext
  <2>1. Revokers \subseteq Users /\ Nonces \subseteq Nat
    BY CallsAssumption
  <2>2. PICK sender \in Revokers, nonce \in Nonces :
           SetMinimumValidNonce(sender, nonce) \/ SetMinimumValidNonceSell(sender, nonce)
    BY <1>6 DEF NonceNext, NonceCallsBy
  <2>3. CASE SetMinimumValidNonce(sender, nonce)
    BY <1>1, <2>1, <2>3 DEF SetMinimumValidNonce, NonceRises
  <2>4. CASE SetMinimumValidNonceSell(sender, nonce)
    BY <1>1, <2>1, <2>4 DEF SetMinimumValidNonceSell, NonceRises
  <2> QED
    BY <2>2, <2>3, <2>4
<1> QED
  BY <1>2, <1>4, <1>5, <1>6, StepCases DEF QuietNext

\* An order or sell order is used only while it is valid, by the time, cancellation and
\* nonce of that moment.
LEMMA OnlyValidOrdersAreUsed ==
    ASSUME TypeOK, [Next]_vars
    PROVE  /\ \A order \in matchedOrders' \ matchedOrders :
                 /\ order \in Orders
                 /\ order.validity > now
                 /\ order \notin canceledOrders
                 /\ order.nonce >= minimumValidNonce[order.maker]
           /\ \A sellOrder \in boughtSellOrders' \ boughtSellOrders :
                 /\ sellOrder \in SellOrders
                 /\ now <= sellOrder.end
                 /\ sellOrder \notin canceledSellOrders
                 /\ sellOrder.nonce >= minimumValidNonceSell[sellOrder.maker]
<1>1. ASSUME NEW order \in Orders, NEW sender \in Users, NEW value \in Nat,
             MatchOrder(sender, order, value)
      PROVE  /\ matchedOrders' = matchedOrders \cup {order} /\ UNCHANGED boughtSellOrders
             /\ order.validity > now
             /\ order \notin canceledOrders
             /\ order.nonce >= minimumValidNonce[order.maker]
  BY <1>1 DEF MatchOrder, MatchRequires, RecordMatch, CheckIsValidOrder
<1>2. ASSUME NEW sellOrder \in SellOrders, NEW sender \in Users, NEW tip \in Nat,
             NEW value \in Nat, BuyPosition(sender, sellOrder, tip, value)
      PROVE  /\ boughtSellOrders' = boughtSellOrders \cup {sellOrder} /\ UNCHANGED matchedOrders
             /\ now <= sellOrder.end
             /\ sellOrder \notin canceledSellOrders
             /\ sellOrder.nonce >= minimumValidNonceSell[sellOrder.maker]
  BY <1>2 DEF BuyPosition, BuyRequires, RecordSale, CheckIsValidSellOrder, contractVars
<1>3. CASE UNCHANGED <<matchedOrders, boughtSellOrders>>
  BY <1>3
<1>4. \/ UNCHANGED <<matchedOrders, boughtSellOrders>>
      \/ \E order \in Orders, sender \in Users, value \in Nat : MatchOrder(sender, order, value)
      \/ \E sellOrder \in SellOrders, sender \in Users, tip \in Nat, value \in Nat :
            BuyPosition(sender, sellOrder, tip, value)
  BY StepCases, QuietSteps
     DEF Tick, SettleContract, ReclaimContract, TransferPosition, contractVars
<1> QED
  BY <1>1, <1>2, <1>3, <1>4

\* A revocation is final: an order or sell order canceled, outdated by its maker's
\* minimum nonce or left to pass its validity is never used, whatever comes later.
THEOREM RevocationsAreFinal == Spec => RevokedStaysRevoked
<1> DEFINE Step == DeadOrders \subseteq DeadOrders' /\ DeadSellOrders \subseteq DeadSellOrders'
<1>1. TypeOK /\ TypeOK' /\ [Next]_vars => [Step]_vars
  <2> SUFFICES ASSUME TypeOK, TypeOK', [Next]_vars PROVE Step
    OBVIOUS
  <2>1. /\ now \in Nat /\ now' \in Nat
        /\ minimumValidNonce \in [Users -> Nat] /\ minimumValidNonce' \in [Users -> Nat]
        /\ minimumValidNonceSell \in [Users -> Nat] /\ minimumValidNonceSell' \in [Users -> Nat]
    BY DEF TypeOK, ProtocolTypeOK
  <2>2. ASSUME NEW order \in DeadOrders PROVE order \in DeadOrders'
    <3>1. /\ order \in Orders /\ order.maker \in Users
          /\ order.validity \in Nat /\ order.nonce \in Nat
      BY OrdersAssumption DEF DeadOrders, OrderType
    <3>2. \/ order \in canceledOrders'
          \/ order.nonce < minimumValidNonce'[order.maker]
          \/ order.validity <= now'
      BY <2>1, <3>1, RevocationsOnlyGrow DEF DeadOrders
    <3>3. order \notin matchedOrders'
      BY <2>1, <3>1, OnlyValidOrdersAreUsed DEF DeadOrders
    <3> QED
      BY <3>1, <3>2, <3>3 DEF DeadOrders
  <2>3. ASSUME NEW sellOrder \in DeadSellOrders PROVE sellOrder \in DeadSellOrders'
    <3>1. /\ sellOrder \in SellOrders /\ sellOrder.maker \in Users
          /\ sellOrder.end \in Nat /\ sellOrder.nonce \in Nat
      BY OrdersAssumption DEF DeadSellOrders, SellOrderType
    <3>2. \/ sellOrder \in canceledSellOrders'
          \/ sellOrder.nonce < minimumValidNonceSell'[sellOrder.maker]
          \/ sellOrder.end < now'
      BY <2>1, <3>1, RevocationsOnlyGrow DEF DeadSellOrders
    <3>3. sellOrder \notin boughtSellOrders'
      BY <2>1, <3>1, OnlyValidOrdersAreUsed DEF DeadSellOrders
    <3> QED
      BY <3>1, <3>2, <3>3 DEF DeadSellOrders
  <2> QED
    BY <2>2, <2>3
<1>2. RevokedStaysRevoked <=> [][Step]_vars
  BY DEF RevokedStaysRevoked
<1> QED
  BY <1>1, <1>2, TypeCorrect, PTL DEF Spec

------------------------------------------------------------------------------
(* What matching charges the maker.                                          *)

\* What somebody else pays the protocol is not taken from an account, and who pays it
\* is debited what is paid.
LEMMA OthersAreNotDebited ==
    ASSUME NEW bal \in Balances, NEW asset \in Assets, NEW from \in Users, NEW n \in Nat,
           NEW user \in Users
    PROVE  Moved(bal, asset, from, Protocol, n)[asset][user]
               = IF user = from THEN bal[asset][user] - n ELSE bal[asset][user]
BY AccountsAssumption DEF Balances, Accounts, Moved

\* matchOrder debits a maker who is not the taker the maker's price.
LEMMA MakerPaysItsPrice ==
    ASSUME TypeOK, NEW taker \in Users, NEW order \in Orders, NEW value \in Nat,
           value > 0 => order.asset = WETH,
           CollectPayments(taker, order, value), taker # order.maker
    PROVE  balanceOf'[order.asset][order.maker]
               = balanceOf[order.asset][order.maker] - MakerPrice(order)
<1> DEFINE price == TakerPrice(order)
           afterTaker == IF value > 0 THEN Minted(balanceOf, WETH, Protocol, value)
                         ELSE Moved(balanceOf, order.asset, taker, Protocol, price)
<1>1. /\ order.maker \in Users /\ order.asset \in Assets
      /\ price \in Nat /\ MakerPrice(order) \in Nat
  BY PriceTypes
<1>2. /\ taker \in Accounts /\ Protocol \in Accounts /\ WETH \in Assets
      /\ balanceOf \in Balances
  BY AssetsAssumption DEF Accounts, TypeOK, TokenTypeOK, Balances
<1>3. afterTaker \in Balances
  BY <1>1, <1>2, MovedType, MintedType DEF CollectPayments, PullFromMaker, CanPull
<1>4. afterTaker[order.asset][order.maker] = balanceOf[order.asset][order.maker]
  <2>1. CASE value > 0
    BY <1>1, <1>2, <2>1, AccountsAssumption DEF Minted, Balances, Accounts
  <2>2. CASE ~(value > 0)
    <3> HIDE DEF price
    <3> QED
      BY <1>1, <1>2, <2>2, OthersAreNotDebited
  <2> QED
    BY <2>1, <2>2
<1>5. balanceOf' = Moved(afterTaker, order.asset, order.maker, Protocol, MakerPrice(order))
  BY DEF CollectPayments, PullFromMaker
<1> HIDE DEF afterTaker
<1> QED
  BY <1>1, <1>3, <1>4, <1>5, OthersAreNotDebited

\* The price of the maker is within what the maker signed for.
LEMMA PriceWithinSignedFee ==
    ASSUME TypeOK, NEW order \in Orders, FeeAgreed(order)
    PROVE  LET principal == IF order.isBull THEN order.collateral ELSE order.premium
           IN  MakerPrice(order) <= principal + (principal * order.fee) \div 1000
<1> DEFINE principal == IF order.isBull THEN order.collateral ELSE order.premium
<1>1. /\ principal \in Nat /\ order.fee \in Nat /\ fee \in Nat /\ fee <= order.fee
      /\ order.premium \in Nat /\ order.collateral \in Nat
  BY PriceTypes, AssetsAssumption DEF OrderType, FeeAgreed, TypeOK, ProtocolTypeOK
<1>2. MakerPrice(order) = principal + (principal * fee) \div 1000
  BY DEF MakerPrice, BullPrice, BearPrice, BullFees, BearFees
<1> HIDE DEF principal
<1>3. (principal * fee) \div 1000 <= (principal * order.fee) \div 1000
  BY <1>1, FeesGrowWithTheRate
<1>4. (principal * fee) \div 1000 \in Nat /\ (principal * order.fee) \div 1000 \in Nat
  BY <1>1, FeeType
<1>5. MakerPrice(order) <= principal + (principal * order.fee) \div 1000
  BY <1>1, <1>2, <1>3, <1>4
<1> QED
  BY <1>5 DEF principal

\* Whatever the owner did to the fee since the maker signed, matching takes no more from
\* the maker than the premium or collateral and the fee at the signed rate.
THEOREM MakersAreChargedWithinTheirFee == Spec => MakerChargeWithinSignedFee
<1> DEFINE Step ==
              \A order \in matchedOrders' \ matchedOrders :
                  LET principal == IF order.isBull THEN order.collateral ELSE order.premium
                      taker == IF order.isBull THEN bears'[order] ELSE bulls'[order]
                  IN  taker # order.maker =>
                        balanceOf[order.asset][order.maker] - balanceOf'[order.asset][order.maker]
                            <= principal + (principal * order.fee) \div 1000
<1>1. TypeOK /\ [Next]_vars => [Step]_vars
  <2> SUFFICES ASSUME TypeOK, [Next]_vars, NEW order \in matchedOrders' \ matchedOrders
               PROVE  LET principal == IF order.isBull THEN order.collateral ELSE order.premium
                          taker == IF order.isBull THEN bears'[order] ELSE bulls'[order]
                      IN  taker # order.maker =>
                            balanceOf[order.asset][order.maker]
                                    - balanceOf'[order.asset][order.maker]
                                <= principal + (principal * order.fee) \div 1000
    BY Zenon
  <2>1. PICK sender \in Users, value \in Nat : order \in Orders /\ MatchOrder(sender, order, value)
    BY StepCases, QuietSteps
       DEF MatchOrder, RecordMatch, Tick, SettleContract, ReclaimContract, TransferPosition,
           BuyPosition, contractVars
  <2>2. /\ FeeAgreed(order) /\ CollectPayments(sender, order, value)
        /\ value > 0 => order.asset = WETH
        /\ bulls' = [bulls EXCEPT ![order] = IF order.isBull THEN order.maker ELSE sender]
        /\ bears' = [bears EXCEPT ![order] = IF order.isBull THEN sender ELSE order.maker]
    BY <2>1 DEF MatchOrder, MatchRequires, CheckIsValidOrder, RecordMatch
  <2>3. sender = IF order.isBull THEN bears'[order] ELSE bulls'[order]
    BY <2>1, <2>2 DEF TypeOK, ProtocolTypeOK
  <2>4. /\ balanceOf[order.asset][order.maker] \in Nat /\ MakerPrice(order) \in Nat
    BY <2>1, PriceTypes DEF TypeOK, TokenTypeOK
  <2>5. ASSUME sender # order.maker
        PROVE  balanceOf[order.asset][order.maker] - balanceOf'[order.asset][order.maker]
                   = MakerPrice(order)
    <3>1. balanceOf'[order.asset][order.maker]
              = balanceOf[order.asset][order.maker] - MakerPrice(order)
      BY <2>1, <2>2, <2>5, MakerPaysItsPrice
    <3> QED
      BY <2>4, <3>1
  <2> QED
    BY <2>1, <2>2, <2>3, <2>5, PriceWithinSignedFee
<1>2. MakerChargeWithinSignedFee <=> [][Step]_vars
  BY DEF MakerChargeWithinSignedFee
<1> QED
  BY <1>1, <1>2, TypeCorrect, PTL DEF Spec

------------------------------------------------------------------------------
(* The calls of one account.                                                 *)

\* What a call is a call of: the sender is the account that calls.
CallOf(sender) ==
    \/ \E order \in Orders, value \in Nat : MatchOrder(sender, order, value)
    \/ \E order \in Orders, tokenId \in TokenIds : SettleContract(sender, order, tokenId)
    \/ \E order \in Orders : ReclaimContract(order)
    \/ \E order \in Orders, isBull \in BOOLEAN, recipient \in Accounts :
          TransferPosition(sender, order, isBull, recipient)
    \/ \E order \in Orders : CancelOrder(sender, order)
    \/ \E sellOrder \in SellOrders, tip \in Nat, value \in Nat :
          BuyPosition(sender, sellOrder, tip, value)
    \/ \E sellOrder \in SellOrders : CancelSellOrder(sender, sellOrder)
    \/ NonceCallsBy({sender})
    \/ OwnerCallsBy({sender})
    \/ TokenCallsBy({sender} \cap Holders, {sender} \cap Wallets) /\ UNCHANGED protocolVars

\* Somebody calls, or time passes, or nothing happens.
LEMMA CallerCases ==
    ASSUME TypeOK, [CallersNext]_callersVars
    PROVE  \/ Tick
           \/ \E sender \in Users : CallOf(sender) /\ caller' = sender
           \/ UNCHANGED callersVars
<1>1. ASSUME NEW sender \in Users, CallsBy(sender) PROVE CallOf(sender)
  <2>1. Recipients \subseteq Accounts
    BY CallsAssumption
  <2>2. CASE OrderCallsBy({sender})
    BY <2>1, <2>2, ValueTypes DEF OrderCallsBy, CallOf
  <2>3. CASE SellOrderCallsBy({sender})
    BY <2>3, ValueTypes DEF SellOrderCallsBy, CallOf
  <2> QED
    BY <1>1, <2>2, <2>3 DEF CallsBy, CallOf
<1> QED
  BY <1>1 DEF CallersNext

\* The history variable only watches: with it, the protocol makes the steps it makes
\* without.
LEMMA CallersOnlyWatch == [CallersNext]_callersVars => [Next]_vars
<1>1. ASSUME NEW sender \in Users, CallsBy(sender) PROVE Next
  <2>1. TokenCallsBy({sender} \cap Holders, {sender} \cap Wallets) => TokenNext
    BY DEF TokenCallsBy, TokenNext
  <2>2. OrderCallsBy({sender}) => OrderNext
    BY DEF OrderCallsBy, OrderNext
  <2>3. SellOrderCallsBy({sender}) => SellOrderNext
    BY DEF SellOrderCallsBy, SellOrderNext
  <2>4. NonceCallsBy({sender}) => NonceNext
    BY DEF NonceCallsBy, NonceNext
  <2>5. OwnerCallsBy({sender}) => OwnerNext
    BY DEF OwnerCallsBy, OwnerNext
  <2> QED
    BY <1>1, <2>1, <2>2, <2>3, <2>4, <2>5 DEF CallsBy, Next, TokenCalls
<1>2. CASE UNCHANGED callersVars
  BY <1>2 DEF callersVars
<1> QED
  BY <1>1, <1>2 DEF CallersNext, Next

\* So all that is proved of the protocol holds of the protocol with its callers.
LEMMA ProtocolWithCallers == CallersSpec => Spec
<1>1. CallersInit => Init
  BY DEF CallersInit
<1> QED
  BY <1>1, CallersOnlyWatch, PTL DEF CallersSpec, Spec

------------------------------------------------------------------------------
(* How a position changes hands.                                             *)

\* An account that gets `n' from somebody else ends with that much more.
LEMMA PaymentReceived ==
    ASSUME NEW bal \in Balances, NEW asset \in Assets, NEW from \in Accounts,
           NEW to \in Accounts, NEW n \in Nat, from # to
    PROVE  Moved(bal, asset, from, to, n)[asset][to] = bal[asset][to] + n
BY DEF Balances, Moved

\* buyPosition pays a seller who is not the buyer the price asked, and the tip.
LEMMA SellerIsPaid ==
    ASSUME TypeOK, NEW buyer \in Users, NEW sellOrder \in SellOrders, NEW price \in Nat,
           NEW value \in Nat, PaySeller(buyer, sellOrder, price, value),
           buyer # sellOrder.maker
    PROVE  balanceOf'[sellOrder.asset][sellOrder.maker]
               = balanceOf[sellOrder.asset][sellOrder.maker] + price
<1>1. /\ buyer \in Accounts /\ sellOrder.maker \in Accounts /\ Protocol \in Accounts
      /\ sellOrder.maker # Protocol
      /\ sellOrder.asset \in Assets /\ WETH \in Assets /\ balanceOf \in Balances
  BY OrdersAssumption, AssetsAssumption, AccountsAssumption
     DEF Accounts, SellOrderType, TypeOK, TokenTypeOK, Balances
<1>2. CASE value > 0
  <2> DEFINE wrapped == Minted(balanceOf, WETH, Protocol, value)
  <2>1. /\ value = price /\ sellOrder.asset = WETH
        /\ balanceOf' = Moved(wrapped, WETH, Protocol, sellOrder.maker, value)
    BY <1>2 DEF PaySeller, ForwardEther
  <2>2. /\ wrapped \in Balances
        /\ wrapped[WETH][sellOrder.maker] = balanceOf[WETH][sellOrder.maker]
    BY <1>1, MintedType DEF Minted, Balances
  <2> HIDE DEF wrapped
  <2> QED
    BY <1>1, <2>1, <2>2, PaymentReceived
<1>3. CASE ~(value > 0)
  <2>1. balanceOf' = Moved(balanceOf, sellOrder.asset, buyer, sellOrder.maker, price)
    BY <1>3 DEF PaySeller
  <2> QED
    BY <1>1, <2>1, PaymentReceived
<1> QED
  BY <1>2, <1>3

\* buyPosition uses up a sell order that the holder of that position signed, and gives the
\* position to who calls.
LEMMA BuyingNeedsTheHolder ==
    ASSUME TypeOK, NEW sellOrder \in SellOrders, NEW sender \in Users, NEW tip \in Nat,
           NEW value \in Nat, BuyPosition(sender, sellOrder, tip, value), caller' = sender
    PROVE  /\ \A order \in Orders : order # sellOrder.orderHash =>
                 bulls'[order] = bulls[order] /\ bears'[order] = bears[order]
           /\ sellOrder.isBull =>
                 /\ bears' = bears
                 /\ bulls'[sellOrder.orderHash] = sender
                 /\ SoldBy(bulls[sellOrder.orderHash], sellOrder.orderHash, TRUE)
           /\ ~sellOrder.isBull =>
                 /\ bulls' = bulls
                 /\ bears'[sellOrder.orderHash] = sender
                 /\ SoldBy(bears[sellOrder.orderHash], sellOrder.orderHash, FALSE)
<1> DEFINE order == sellOrder.orderHash
           holder == IF sellOrder.isBull THEN bulls[order] ELSE bears[order]
<1>1. /\ order \in Orders /\ sellOrder.isBull \in BOOLEAN
      /\ sellOrder.price \in Nat /\ sellOrder.asset \in Assets /\ sellOrder.maker \in Accounts
  BY OrdersAssumption, AssetsAssumption DEF SellOrderType, Accounts
<1>2. /\ bulls \in [Orders -> Accounts \cup {NoOne}]
      /\ bears \in [Orders -> Accounts \cup {NoOne}]
      /\ balanceOf \in Balances
  BY DEF TypeOK, ProtocolTypeOK, TokenTypeOK, Balances
<1>3. /\ sellOrder \in SignedSellOrders /\ sellOrder.maker = holder
      /\ sellOrder \in boughtSellOrders' \ boughtSellOrders
      /\ PaySeller(sender, sellOrder, sellOrder.price + tip, value)
  BY DEF BuyPosition, BuyRequires, CheckIsValidSellOrder, PositionForSale, NotBoughtYet,
         RecordSale
<1>4. /\ sellOrder.isBull => bulls' = [bulls EXCEPT ![order] = sender] /\ bears' = bears
      /\ ~sellOrder.isBull => bears' = [bears EXCEPT ![order] = sender] /\ bulls' = bulls
  BY DEF BuyPosition, RecordSale
<1>5. caller' # holder => balanceOf'[sellOrder.asset][holder]
                              >= balanceOf[sellOrder.asset][holder] + sellOrder.price
  <2>1. PICK price \in Nat : price = sellOrder.price + tip
    BY <1>1
  <2>2. PaySeller(sender, sellOrder, price, value)
    BY <1>3, <2>1
  <2>3. ASSUME sender # sellOrder.maker
        PROVE  balanceOf'[sellOrder.asset][sellOrder.maker]
                   = balanceOf[sellOrder.asset][sellOrder.maker] + price
    BY <2>2, <2>3, SellerIsPaid
  <2>4. balanceOf[sellOrder.asset][sellOrder.maker] \in Nat
    BY <1>1, <1>2 DEF Balances
  <2> HIDE DEF holder
  <2> QED
    BY <1>1, <1>3, <2>1, <2>3, <2>4
<1>6. \A o \in Orders : o # order => bulls'[o] = bulls[o] /\ bears'[o] = bears[o]
  BY <1>1, <1>2, <1>4
<1>7. CASE sellOrder.isBull
  <2>1. SoldBy(bulls[order], order, TRUE)
    BY <1>1, <1>3, <1>5, <1>7 DEF SoldBy
  <2> QED
    BY <1>1, <1>2, <1>4, <1>6, <1>7, <2>1
<1>8. CASE ~sellOrder.isBull
  <2>1. SoldBy(bears[order], order, FALSE)
    BY <1>1, <1>3, <1>5, <1>8 DEF SoldBy
  <2> QED
    BY <1>1, <1>2, <1>4, <1>6, <1>8, <2>1
<1> QED
  BY <1>7, <1>8

\* Both sides of a contract stay, or move as their holders agreed.
BothConsent(order) ==
    /\ MovedWithConsent(order, TRUE, bulls[order], bulls'[order])
    /\ MovedWithConsent(order, FALSE, bears[order], bears'[order])

\* A match creates both sides, of an order its maker signed.
LEMMA MatchingConsents ==
    ASSUME TypeOK, NEW o \in Orders, NEW sender \in Users, NEW value \in Nat,
           MatchOrder(sender, o, value), caller' = sender, NEW order \in Orders
    PROVE  BothConsent(order)
<1>1. /\ o \in (matchedOrders' \ matchedOrders) \cap SignedOrders /\ o.isBull \in BOOLEAN
      /\ bulls' = [bulls EXCEPT ![o] = IF o.isBull THEN o.maker ELSE sender]
      /\ bears' = [bears EXCEPT ![o] = IF o.isBull THEN sender ELSE o.maker]
      /\ bulls \in [Orders -> Accounts \cup {NoOne}]
      /\ bears \in [Orders -> Accounts \cup {NoOne}]
  BY OrdersAssumption
     DEF MatchOrder, MatchRequires, CheckIsValidOrder, SignedByMaker, RecordMatch, TypeOK,
         ProtocolTypeOK, OrderType
<1> QED
  BY <1>1 DEF BothConsent, MovedWithConsent

\* transferPosition gives away a position of who calls.
LEMMA GivingConsents ==
    ASSUME TypeOK, NEW o \in Orders, NEW sender \in Users, NEW isBull \in BOOLEAN,
           NEW to \in Accounts, TransferPosition(sender, o, isBull, to), caller' = sender,
           NEW order \in Orders
    PROVE  BothConsent(order)
<1>1. /\ bulls \in [Orders -> Accounts \cup {NoOne}]
      /\ bears \in [Orders -> Accounts \cup {NoOne}]
  BY DEF TypeOK, ProtocolTypeOK
<1>2. CASE isBull = TRUE
  <2>1. /\ sender = bulls[o] /\ bears' = bears /\ bulls'[o] = to
        /\ \A other \in Orders : other # o => bulls'[other] = bulls[other]
    BY <1>1, <1>2 DEF TransferPosition, HoldsPosition
  <2>2. TransferPosition(bulls[o], o, TRUE, bulls'[o])
    BY <1>2, <2>1
  <2> QED
    BY <2>1, <2>2 DEF BothConsent, MovedWithConsent
<1>3. CASE isBull = FALSE
  <2>1. /\ sender = bears[o] /\ bulls' = bulls /\ bears'[o] = to
        /\ \A other \in Orders : other # o => bears'[other] = bears[other]
    BY <1>1, <1>3 DEF TransferPosition, HoldsPosition
  <2>2. TransferPosition(bears[o], o, FALSE, bears'[o])
    BY <1>3, <2>1
  <2> QED
    BY <2>1, <2>2 DEF BothConsent, MovedWithConsent
<1> QED
  BY <1>2, <1>3

\* buyPosition moves a position its holder signed a sell order for.
LEMMA BuyingConsents ==
    ASSUME TypeOK, NEW sellOrder \in SellOrders, NEW sender \in Users, NEW tip \in Nat,
           NEW value \in Nat, BuyPosition(sender, sellOrder, tip, value), caller' = sender,
           NEW order \in Orders
    PROVE  BothConsent(order)
<1>1. CASE order # sellOrder.orderHash
  <2>1. bulls'[order] = bulls[order] /\ bears'[order] = bears[order]
    BY <1>1, BuyingNeedsTheHolder
  <2> QED
    BY <2>1 DEF BothConsent, MovedWithConsent
<1>2. CASE order = sellOrder.orderHash
  <2>1. /\ sellOrder.isBull => /\ bears' = bears /\ bulls'[order] = sender
                               /\ SoldBy(bulls[order], order, TRUE)
        /\ ~sellOrder.isBull => /\ bulls' = bulls /\ bears'[order] = sender
                                /\ SoldBy(bears[order], order, FALSE)
    BY <1>2, BuyingNeedsTheHolder
  <2> QED
    BY <2>1 DEF BothConsent, MovedWithConsent
<1> QED
  BY <1>1, <1>2

\* A position changes hands only when its holder calls transferPosition or when a sell
\* order the holder signed is used up, which pays the holder at least the price; it goes
\* to whom the holder names, or to the buyer who calls.
THEOREM PositionsMoveWithConsent == CallersSpec => PositionMovesOnlyWithConsent
<1> DEFINE Step == \A order \in Orders :
                      /\ MovedWithConsent(order, TRUE, bulls[order], bulls'[order])
                      /\ MovedWithConsent(order, FALSE, bears[order], bears'[order])
<1>1. TypeOK /\ [CallersNext]_callersVars => [Step]_callersVars
  <2> SUFFICES ASSUME TypeOK, [CallersNext]_callersVars, NEW order \in Orders
               PROVE  BothConsent(order)
    BY DEF BothConsent
  <2>1. CASE UNCHANGED <<bulls, bears>>
    BY <2>1 DEF BothConsent, MovedWithConsent
  <2>2. CASE Tick \/ UNCHANGED callersVars
    BY <2>1, <2>2 DEF Tick, positionVars, callersVars, vars, protocolVars
  <2>3. ASSUME NEW sender \in Users, CallOf(sender), caller' = sender
        PROVE  BothConsent(order)
    <3>1. \/ \E o \in Orders, value \in Nat : MatchOrder(sender, o, value)
          \/ \E o \in Orders, isBull \in BOOLEAN, to \in Accounts :
                TransferPosition(sender, o, isBull, to)
          \/ \E sellOrder \in SellOrders, tip \in Nat, value \in Nat :
                BuyPosition(sender, sellOrder, tip, value)
          \/ UNCHANGED <<bulls, bears>>
      BY <2>3 DEF CallOf, SettleContract, ReclaimContract, CancelOrder, CancelSellOrder,
                  NonceCallsBy, SetMinimumValidNonce, SetMinimumValidNonceSell,
                  OwnerCallsBy,
                  SetAllowedCollection, SetAllowedAsset, SetFee, WithdrawFees,
                  TransferOwnership, RenounceOwnership, positionVars, protocolVars
    <3> QED
      BY <2>1, <2>3, <3>1, MatchingConsents, GivingConsents, BuyingConsents
  <2> QED
    BY <2>2, <2>3, CallerCases
<1>2. PositionMovesOnlyWithConsent <=> [][Step]_callersVars
  BY DEF PositionMovesOnlyWithConsent
<1> QED
  BY <1>1, <1>2, ProtocolWithCallers, TypeCorrect, PTL DEF CallersSpec

------------------------------------------------------------------------------
(* Whose money and tokens a call takes.                                      *)

\* What an account may pay of an asset does not shrink.
Keeps(user, asset) ==
    /\ balanceOf'[asset][user] >= balanceOf[asset][user]
    /\ allowance'[asset][user] = allowance[asset][user]
    /\ ether'[user] = ether[user]

\* A transfer leaves everybody but its sender at least what they had.
LEMMA OthersKeepTheirs ==
    ASSUME NEW bal \in Balances, NEW asset \in Assets, NEW from \in Accounts,
           NEW to \in Accounts, NEW n \in Nat, NEW user \in Accounts, user # from
    PROVE  \A b \in Assets : Moved(bal, asset, from, to, n)[b][user] >= bal[b][user]
<1>1. \A b \in Assets :
         Moved(bal, asset, from, to, n)[b][user]
             = bal[b][user] - Part(b, user, asset, from, n) + Part(b, user, asset, to, n)
  BY MovedEffect
<1>2. \A b \in Assets : bal[b][user] \in Nat
  BY DEF Balances
<1> QED
  BY <1>1, <1>2 DEF Part

\* matchOrder takes money from its two parties only.
LEMMA MatchSparesOthers ==
    ASSUME TypeOK, TypeOK', NEW order \in Orders, NEW sender \in Users, NEW value \in Nat,
           MatchOrder(sender, order, value), NEW user \in Users, user # sender,
           user # order.maker, NEW asset \in Assets
    PROVE  Keeps(user, asset)
<1> DEFINE takes == TakerPrice(order)
           makes == MakerPrice(order)
           a == order.asset
           afterTaker == IF value > 0 THEN Minted(balanceOf, WETH, Protocol, value)
                         ELSE Moved(balanceOf, order.asset, sender, Protocol, takes)
           allowedAfterTaker == IF value > 0 THEN allowance
                                ELSE Spent(allowance, order.asset, sender, takes)
<1>1. /\ a \in Assets /\ takes \in Nat /\ makes \in Nat /\ WETH \in Assets
      /\ order.maker \in Accounts /\ sender \in Accounts /\ Protocol \in Accounts
      /\ user \in Accounts /\ user # Protocol
      /\ balanceOf \in Balances /\ allowance \in [Assets -> [Users -> 0 .. MaxUint]]
  BY PriceTypes, AssetsAssumption, AccountsAssumption
     DEF Accounts, TypeOK, TokenTypeOK, Balances
<1>2. /\ balanceOf' = Moved(afterTaker, a, order.maker, Protocol, makes)
      /\ allowance' = Spent(allowedAfterTaker, a, order.maker, makes)
      /\ ~(value > 0) => balanceOf[a][sender] >= takes
  BY DEF MatchOrder, CollectPayments, PullFromMaker, CanPull
<1>3. afterTaker \in Balances /\ \A b \in Assets : afterTaker[b][user] >= balanceOf[b][user]
  <2>1. CASE value > 0
    <3>1. Minted(balanceOf, WETH, Protocol, value) \in Balances
      BY <1>1, MintedType
    <3>2. \A b \in Assets : Minted(balanceOf, WETH, Protocol, value)[b][user]
                                = balanceOf[b][user] + Part(b, user, WETH, Protocol, value)
      BY <1>1, MintedEffect
    <3>3. \A b \in Assets : balanceOf[b][user] \in Nat
      BY <1>1 DEF Balances
    <3> QED
      BY <1>1, <2>1, <3>1, <3>2, <3>3 DEF Part
  <2>2. CASE ~(value > 0)
    <3> HIDE DEF a, takes
    <3>1. Moved(balanceOf, a, sender, Protocol, takes) \in Balances
      BY <1>1, <1>2, <2>2, MovedType
    <3>2. \A b \in Assets : Moved(balanceOf, a, sender, Protocol, takes)[b][user]
                                >= balanceOf[b][user]
      BY <1>1, OthersKeepTheirs
    <3> QED
      BY <2>2, <3>1, <3>2 DEF a
  <2> QED
    BY <2>1, <2>2
<1>4. allowedAfterTaker[asset][user] = allowance[asset][user]
  BY <1>1 DEF Spent
<1>5. allowance'[asset][user] = allowedAfterTaker[asset][user]
  BY <1>1, <1>2 DEF Spent
<1> HIDE DEF takes, makes, a, afterTaker, allowedAfterTaker
<1>6. balanceOf'[asset][user] >= afterTaker[asset][user]
  BY <1>1, <1>2, <1>3, OthersKeepTheirs
<1>7. /\ afterTaker[asset][user] \in Nat /\ balanceOf[asset][user] \in Nat
      /\ afterTaker[asset][user] >= balanceOf[asset][user]
      /\ balanceOf'[asset][user] \in Int
  BY <1>1, <1>3 DEF Balances, TypeOK, TokenTypeOK
<1>8. ether'[user] = ether[user]
  BY DEF MatchOrder, CollectPayments, TypeOK, TokenTypeOK
<1> QED
  BY <1>4, <1>5, <1>6, <1>7, <1>8 DEF Keeps

\* buyPosition takes money from the buyer only.
LEMMA SaleSparesOthers ==
    ASSUME TypeOK, NEW sellOrder \in SellOrders, NEW buyer \in Users, NEW tip \in Nat,
           NEW value \in Nat, BuyPosition(buyer, sellOrder, tip, value),
           NEW user \in Users, user # buyer, NEW asset \in Assets
    PROVE  Keeps(user, asset)
<1> DEFINE price == sellOrder.price + tip
           a == sellOrder.asset
           seller == sellOrder.maker
<1>1. /\ a \in Assets /\ price \in Nat /\ WETH \in Assets
      /\ seller \in Accounts /\ buyer \in Accounts /\ Protocol \in Accounts
      /\ user \in Accounts /\ user # Protocol
      /\ balanceOf \in Balances /\ allowance \in [Assets -> [Users -> 0 .. MaxUint]]
  <2>1. a \in Assets /\ price \in Nat /\ seller \in Accounts
    BY SellOrderTypes
  <2> QED
    BY <2>1, AssetsAssumption, AccountsAssumption DEF Accounts, TypeOK, TokenTypeOK,
                                                      Balances
<1>pay. PaySeller(buyer, sellOrder, price, value)
  BY DEF BuyPosition
<1>2. balanceOf[asset][user] \in Nat /\ ether \in [Users -> Nat]
  BY <1>1 DEF Balances, TypeOK, TokenTypeOK
<1>3. CASE value > 0
  <2> DEFINE wrapped == Minted(balanceOf, WETH, Protocol, value)
  <2>1. balanceOf' = Moved(wrapped, WETH, Protocol, seller, value) /\ UNCHANGED allowance
    BY <1>pay, <1>3 DEF PaySeller, ForwardEther
  <2>2. wrapped \in Balances
    BY <1>1, MintedType
  <2>3. wrapped[asset][user] = balanceOf[asset][user]
    <3>1. wrapped[asset][user] = balanceOf[asset][user] + Part(asset, user, WETH, Protocol, value)
      BY <1>1, MintedEffect
    <3> QED
      BY <1>1, <1>2, <3>1 DEF Part
  <2> HIDE DEF wrapped, seller
  <2>4. balanceOf'[asset][user] >= wrapped[asset][user]
    BY <1>1, <2>1, <2>2, OthersKeepTheirs
  <2>5. ether'[user] = ether[user]
    BY <1>pay, <1>2, <1>3 DEF PaySeller, ForwardEther
  <2> QED
    BY <2>1, <2>3, <2>4, <2>5 DEF Keeps
<1>4. CASE ~(value > 0)
  <2>1. /\ balanceOf' = Moved(balanceOf, a, buyer, seller, price)
        /\ allowance' = Spent(allowance, a, buyer, price)
        /\ UNCHANGED ether
    BY <1>pay, <1>4 DEF PaySeller
  <2>2. allowance'[asset][user] = allowance[asset][user]
    BY <1>1, <2>1 DEF Spent
  <2> HIDE DEF a, seller, price
  <2>3. balanceOf'[asset][user] >= balanceOf[asset][user]
    BY <1>1, <2>1, OthersKeepTheirs
  <2> QED
    BY <2>1, <2>2, <2>3 DEF Keeps
<1> QED
  BY <1>3, <1>4

\* What the protocol pays out takes nothing from a user.
LEMMA PaymentsOutSpareUsers ==
    ASSUME TypeOK, NEW asset \in Assets, NEW a \in Assets, NEW to \in Accounts, NEW n \in Nat,
           balanceOf' = Moved(balanceOf, a, Protocol, to, n), UNCHANGED <<allowance, ether>>,
           NEW user \in Users
    PROVE  Keeps(user, asset)
<1>1. /\ Protocol \in Accounts /\ user \in Accounts /\ user # Protocol /\ balanceOf \in Balances
  BY AccountsAssumption DEF Accounts, TypeOK, TokenTypeOK, Balances
<1>2. balanceOf'[asset][user] >= balanceOf[asset][user]
  BY <1>1, OthersKeepTheirs
<1> QED
  BY <1>2 DEF Keeps

\* An account whose ledgers do not move keeps what it has.
LEMMA UnchangedKeeps ==
    ASSUME TypeOK, NEW user \in Users, NEW asset \in Assets,
           UNCHANGED <<balanceOf, allowance, ether>>
    PROVE  Keeps(user, asset)
<1>1. balanceOf[asset][user] \in Nat
  BY DEF TypeOK, TokenTypeOK, Accounts
<1> QED
  BY <1>1 DEF Keeps

\* The token calls of others take nothing from a user.
LEMMA HoldersSpareOthers ==
    ASSUME TypeOK, NEW holders \in SUBSET Holders, NEW wallets \in SUBSET Wallets,
           TokenCallsBy(holders, wallets), NEW user \in Users, user \notin holders,
           NEW asset \in Assets
    PROVE  Keeps(user, asset)
<1>1. /\ balanceOf \in Balances /\ allowance \in [Assets -> [Users -> 0 .. MaxUint]]
      /\ ether \in [Users -> Nat]
      /\ WETH \in Assets /\ user \in Accounts /\ holders \subseteq Users
      /\ Users \subseteq Accounts /\ Amounts \subseteq Nat
  BY AssetsAssumption, HoldersAssumption DEF Accounts, TypeOK, TokenTypeOK, Balances
<1>2. balanceOf[asset][user] \in Nat
  BY <1>1 DEF Balances
<1>3. ASSUME NEW holder \in holders, NEW a \in Assets, NEW n \in Approvals,
             Approve(holder, a, n)
      PROVE  Keeps(user, asset)
  BY <1>1, <1>2, <1>3 DEF Approve, Keeps
<1>4. ASSUME NEW holder \in holders, NEW a \in Assets, NEW to \in Accounts, NEW n \in Amounts,
             Transfer(holder, a, to, n)
      PROVE  Keeps(user, asset)
  <2>1. holder # user /\ holder \in Accounts /\ n \in Nat
    BY <1>1
  <2>2. balanceOf' = Moved(balanceOf, a, holder, to, n) /\ UNCHANGED <<allowance, ether>>
    BY <1>4 DEF Transfer
  <2>3. balanceOf'[asset][user] >= balanceOf[asset][user]
    BY <1>1, <2>1, <2>2, OthersKeepTheirs
  <2> QED
    BY <2>2, <2>3 DEF Keeps
<1>5. ASSUME NEW holder \in holders, NEW n \in Amounts, Deposit(holder, n) \/ Withdraw(holder, n)
      PROVE  Keeps(user, asset)
  <2>1. holder # user /\ holder \in Accounts /\ n \in Nat
    BY <1>1
  <2>2. UNCHANGED allowance /\ ether'[user] = ether[user]
    BY <1>1, <1>5, <2>1 DEF Deposit, Withdraw
  <2>3. \/ balanceOf' = [balanceOf EXCEPT ![WETH][holder] = @ + n]
        \/ balanceOf' = [balanceOf EXCEPT ![WETH][holder] = @ - n]
    BY <1>5 DEF Deposit, Withdraw, Minted
  <2>4. balanceOf'[asset][user] = balanceOf[asset][user]
    BY <1>1, <2>1, <2>3 DEF Balances
  <2> QED
    BY <1>2, <2>2, <2>4 DEF Keeps
<1>6. ASSUME \/ \E holder \in holders, c \in Collections, approved \in BOOLEAN :
                   SetApprovalForAll(holder, c, approved)
             \/ \E holder \in holders, c \in Collections, to \in Accounts, id \in TokenIds :
                   TransferNFT(holder, c, to, id)
             \/ \E wallet \in wallets, block \in BOOLEAN : SetShouldBlockTransfer(wallet, block)
      PROVE  Keeps(user, asset)
  BY <1>6, UnchangedKeeps DEF SetApprovalForAll, TransferNFT, SetShouldBlockTransfer,
                              erc20Vars
<1> QED
  BY <1>3, <1>4, <1>5, <1>6 DEF TokenCallsBy

\* A call takes nothing from anybody else, but for the match of an order that account
\* signed.
LEMMA CallsSpareOthers ==
    ASSUME TypeOK, TypeOK', OutcomesInOrder, NEW sender \in Users, CallOf(sender),
           NEW user \in Users, user # sender, NEW asset \in Assets,
           \A order \in Orders, value \in Nat :
               MatchOrder(sender, order, value) => order.maker # user
    PROVE  Keeps(user, asset)
<1>1. ASSUME NEW order \in Orders, NEW value \in Nat, MatchOrder(sender, order, value)
      PROVE  Keeps(user, asset)
  BY <1>1, MatchSparesOthers
<1>2. ASSUME NEW order \in Orders, NEW tokenId \in TokenIds,
             SettleContract(sender, order, tokenId)
      PROVE  Keeps(user, asset)
  <2>1. /\ order.asset \in Assets /\ sender \in Accounts /\ Stake(order) \in Nat
        /\ balanceOf' = Moved(balanceOf, order.asset, Protocol, sender, Stake(order))
        /\ UNCHANGED <<allowance, ether>>
    BY <1>2, StakeType, OrdersAssumption DEF SettleContract, PayStake, OrderType, Accounts
  <2> QED
    BY <2>1, PaymentsOutSpareUsers
<1>3. ASSUME NEW order \in Orders, ReclaimContract(order)
      PROVE  Keeps(user, asset)
  <2>1. UNCHANGED <<allowance, ether>>
    BY <1>3 DEF ReclaimContract
  <2>2. CASE ReclaimNFT(order)
    BY <2>1, <2>2, UnchangedKeeps DEF ReclaimNFT
  <2>3. CASE ReclaimStake(order)
    <3>1. PICK winner \in Accounts : winner = bulls[order]
      BY <1>3 DEF ReclaimContract, ReclaimRequires, OutcomesInOrder, TypeOK,
                  ProtocolTypeOK
    <3>2. /\ order.asset \in Assets /\ Stake(order) \in Nat
          /\ balanceOf' = Moved(balanceOf, order.asset, Protocol, winner, Stake(order))
      BY <2>3, <3>1, StakeType, OrdersAssumption DEF ReclaimStake, PayStake, OrderType
    <3> QED
      BY <2>1, <3>2, PaymentsOutSpareUsers
  <2> QED
    BY <1>3, <2>2, <2>3 DEF ReclaimContract
<1>4. ASSUME NEW sellOrder \in SellOrders, NEW tip \in Nat, NEW value \in Nat,
             BuyPosition(sender, sellOrder, tip, value)
      PROVE  Keeps(user, asset)
  BY <1>4, SaleSparesOthers
<1>5. CASE OwnerCallsBy({sender})
  <2>1. ASSUME NEW a \in Assets, NEW recipient \in Recipients,
               WithdrawFees(sender, a, recipient)
        PROVE  Keeps(user, asset)
    <3>1. PICK n \in Nat : n = withdrawableFees[a]
      BY DEF TypeOK, ProtocolTypeOK
    <3>2. /\ recipient \in Accounts /\ UNCHANGED <<allowance, ether>>
          /\ balanceOf' = Moved(balanceOf, a, Protocol, recipient, n)
      BY <2>1, <3>1, CallsAssumption DEF WithdrawFees
    <3> QED
      BY <3>2, PaymentsOutSpareUsers
  <2>2. \/ UNCHANGED <<balanceOf, allowance, ether>>
        \/ \E a \in Assets, recipient \in Recipients : WithdrawFees(sender, a, recipient)
    BY <1>5 DEF OwnerCallsBy, SetAllowedCollection, SetAllowedAsset, SetFee,
                TransferOwnership, RenounceOwnership, tokenVars
  <2> QED
    BY <2>1, <2>2, UnchangedKeeps
<1>6. CASE TokenCallsBy({sender} \cap Holders, {sender} \cap Wallets)
  <2>1. /\ {sender} \cap Holders \in SUBSET Holders /\ {sender} \cap Wallets \in SUBSET Wallets
        /\ user \notin {sender} \cap Holders
    OBVIOUS
  <2> QED
    BY <1>6, <2>1, HoldersSpareOthers
<1>7. CASE \/ \E order \in Orders, isBull \in BOOLEAN, recipient \in Accounts :
                 TransferPosition(sender, order, isBull, recipient)
           \/ \E order \in Orders : CancelOrder(sender, order)
           \/ \E sellOrder \in SellOrders : CancelSellOrder(sender, sellOrder)
           \/ NonceCallsBy({sender})
  <2>1. UNCHANGED <<balanceOf, allowance, ether>>
    BY <1>7 DEF TransferPosition, CancelOrder, CancelSellOrder, NonceCallsBy,
                SetMinimumValidNonce, SetMinimumValidNonceSell, tokenVars
  <2> QED
    BY <2>1, UnchangedKeeps
<1> QED
  BY <1>1, <1>2, <1>3, <1>4, <1>5, <1>6, <1>7 DEF CallOf

\* An NFT leaves the account it belongs to only by a call of that account.
LEMMA CallsTakeNoTokens ==
    ASSUME TypeOK, NEW sender \in Users, CallOf(sender), NEW user \in Users, user # sender,
           NEW collection \in Collections, NEW id \in TokenIds,
           ownerOf[collection][id] = user
    PROVE  ownerOf'[collection][id] = user
<1>1. ownerOf \in [Collections -> [TokenIds -> Accounts]] /\ user # Protocol
  BY AccountsAssumption DEF TypeOK, TokenTypeOK
<1>2. ASSUME NEW c \in Collections, NEW from \in {sender, Protocol}, NEW to, NEW t,
             ownerOf[c][t] = from, ownerOf' = [ownerOf EXCEPT ![c][t] = to]
      PROVE  ownerOf'[collection][id] = user
  BY <1>1, <1>2
<1>3. ASSUME NEW order \in Orders, NEW tokenId \in TokenIds,
             SettleContract(sender, order, tokenId)
      PROVE  ownerOf'[collection][id] = user
  <2>1. /\ order.collection \in Collections /\ ownerOf[order.collection][tokenId] = sender
        /\ ownerOf' = [ownerOf EXCEPT ![order.collection][tokenId] = Protocol]
    BY <1>3, OrdersAssumption DEF SettleContract, TakeNFT, SafeTransferNFT, OrderType
  <2> QED
    BY <1>2, <2>1
<1>4. ASSUME NEW order \in Orders, ReclaimNFT(order)
      PROVE  ownerOf'[collection][id] = user
  <2>1. /\ order.collection \in Collections
        /\ ownerOf[order.collection][claimableTokenId[order]] = Protocol
        /\ ownerOf' = [ownerOf EXCEPT ![order.collection][claimableTokenId[order]] = bulls[order]]
    BY <1>4, OrdersAssumption DEF ReclaimNFT, SafeTransferNFT, OrderType
  <2> QED
    BY <1>2, <2>1
<1>5. CASE TokenCallsBy({sender} \cap Holders, {sender} \cap Wallets)
  <2>1. \/ \E c \in Collections, to \in Accounts, t \in TokenIds : TransferNFT(sender, c, to, t)
        \/ UNCHANGED ownerOf
    BY <1>5 DEF TokenCallsBy, Approve, Transfer, Deposit, Withdraw, SetApprovalForAll,
                SetShouldBlockTransfer, erc721Vars
  <2> QED
    BY <1>2, <2>1 DEF TransferNFT
<1>6. \/ \E order \in Orders, tokenId \in TokenIds : SettleContract(sender, order, tokenId)
      \/ \E order \in Orders : ReclaimNFT(order)
      \/ TokenCallsBy({sender} \cap Holders, {sender} \cap Wallets)
      \/ UNCHANGED ownerOf
  BY DEF CallOf, MatchOrder, ReclaimContract, ReclaimStake, TransferPosition, CancelOrder,
         BuyPosition, CancelSellOrder, NonceCallsBy, SetMinimumValidNonce,
         SetMinimumValidNonceSell, OwnerCallsBy, SetAllowedCollection, SetAllowedAsset,
         SetFee,
         WithdrawFees, TransferOwnership, RenounceOwnership, tokenVars, erc721Vars
<1> QED
  BY <1>3, <1>4, <1>5, <1>6

\* The match of an order costs a maker who does not take it what was signed, or nothing.
LEMMA MatchingChargesTheMaker ==
    ASSUME TypeOK, NEW order \in Orders, NEW sender \in Users, NEW value \in Nat,
           MatchOrder(sender, order, value), order.maker # sender, NEW asset \in Assets,
           Purse(asset, order.maker)' < Purse(asset, order.maker)
    PROVE  PaysForSignedOrder(order.maker, asset)
<1>1. /\ order \in (matchedOrders' \ matchedOrders) \cap SignedOrders
      /\ FeeAgreed(order) /\ CollectPayments(sender, order, value)
      /\ value > 0 => value = TakerPrice(order) /\ order.asset = WETH
  BY DEF MatchOrder, MatchRequires, CheckIsValidOrder, SignedByMaker, RecordMatch
<1>2. /\ order.maker \in Users /\ order.maker \in Accounts /\ order.asset \in Assets
      /\ MakerPrice(order) \in Nat /\ TakerPrice(order) \in Nat
  BY PriceTypes
<1>3. Purse(asset, order.maker)'
          = Purse(asset, order.maker)
              - Part(asset, order.maker, order.asset, sender, TakerPrice(order))
              - Part(asset, order.maker, order.asset, order.maker, MakerPrice(order))
  BY <1>1, <1>2, MatchDebits
<1>4. Purse(asset, order.maker) \in Nat
  BY <1>2, AmountTypes DEF Purse
<1>5. Purse(asset, order.maker)'
          = Purse(asset, order.maker) - (IF asset = order.asset THEN MakerPrice(order) ELSE 0)
  BY <1>2, <1>3, <1>4 DEF Part
<1>6. asset = order.asset
  BY <1>4, <1>5
<1>7. Purse(asset, order.maker) - Purse(asset, order.maker)' = MakerPrice(order)
  BY <1>2, <1>4, <1>5, <1>6
<1> QED
  BY <1>1, <1>6, <1>7, PriceWithinSignedFee DEF PaysForSignedOrder

\* Nobody pays for what somebody else does, but for the orders that account signed and at
\* the price signed, and nobody loses an NFT: all approvals given to the protocol can be
\* unlimited.
THEOREM NobodyEverPaysUnasked == CallersSpec => NobodyPaysUnasked
<1> DEFINE Step == \A user \in Users \ {caller'} :
              /\ \A asset \in Assets :
                    Purse(asset, user)' < Purse(asset, user) => PaysForSignedOrder(user, asset)
              /\ \A collection \in Collections, id \in TokenIds :
                    ownerOf[collection][id] = user => ownerOf'[collection][id] = user
<1>1. TypeOK /\ TypeOK' /\ OutcomesInOrder /\ [CallersNext]_callersVars => [Step]_callersVars
  <2> SUFFICES ASSUME TypeOK, TypeOK', OutcomesInOrder, [CallersNext]_callersVars,
                      NEW user \in Users \ {caller'}
               PROVE  /\ \A asset \in Assets :
                            Purse(asset, user)' < Purse(asset, user)
                                => PaysForSignedOrder(user, asset)
                      /\ \A collection \in Collections, id \in TokenIds :
                            ownerOf[collection][id] = user => ownerOf'[collection][id] = user
    OBVIOUS
  <2>1. user \in Accounts /\ \A asset \in Assets : Purse(asset, user) \in Nat
    BY AmountTypes DEF Purse, Accounts
  <2>2. CASE UNCHANGED tokenVars
    BY <2>1, <2>2 DEF tokenVars, Purse
  <2>3. CASE Tick \/ UNCHANGED callersVars
    BY <2>2, <2>3 DEF Tick, callersVars, vars
  <2>4. ASSUME NEW sender \in Users, CallOf(sender), caller' = sender, NEW asset \in Assets,
               Purse(asset, user)' < Purse(asset, user)
        PROVE  PaysForSignedOrder(user, asset)
    <3>1. ~Keeps(user, asset)
      <4>1. /\ balanceOf[asset][user] \in Nat /\ balanceOf'[asset][user] \in Nat
            /\ ether[user] \in Nat
        BY <2>1 DEF TypeOK, TokenTypeOK
      <4> QED
        BY <2>4, <4>1 DEF Keeps, Purse
    <3>2. PICK order \in Orders, value \in Nat :
             MatchOrder(sender, order, value) /\ order.maker = user
      BY <2>4, <3>1, CallsSpareOthers
    <3> QED
      BY <2>4, <3>2, MatchingChargesTheMaker
  <2>5. ASSUME NEW sender \in Users, CallOf(sender), caller' = sender,
               NEW collection \in Collections, NEW id \in TokenIds,
               ownerOf[collection][id] = user
        PROVE  ownerOf'[collection][id] = user
    BY <2>5, CallsTakeNoTokens
  <2> QED
    BY <2>3, <2>4, <2>5, CallerCases
<1>2. NobodyPaysUnasked <=> [][Step]_callersVars
  BY DEF NobodyPaysUnasked
<1> QED
  BY <1>1, <1>2, ProtocolWithCallers, TypesAndOutcomes, PTL DEF CallersSpec
==============================================================================
