-------------------------- MODULE BvbProtocolProofs --------------------------
(****************************************************************************)
(* What holds of BvbProtocol for every set of users, orders and tokens, and  *)
(* for amounts, rates and times of any size.                                 *)
(****************************************************************************)
EXTENDS BvbProtocol, TLAPS

------------------------------------------------------------------------------
(* The ledgers.                                                              *)

Balances == [Assets -> [Accounts -> Nat]]
Allowances == [Assets -> [Users -> 0 .. MaxUint]]

\* A transfer that the sender's balance covers leaves every balance a number.
LEMMA MovedType ==
    ASSUME NEW bal \in Balances, NEW asset \in Assets,
           NEW from \in Accounts, NEW to \in Accounts, NEW n \in Nat,
           bal[asset][from] >= n
    PROVE  Moved(bal, asset, from, to, n) \in Balances
<1> DEFINE paid == [bal[asset] EXCEPT ![from] = @ - n]
           debited == [bal EXCEPT ![asset] = paid]
<1>1. paid \in [Accounts -> Nat]
  <2>1. bal[asset][from] - n \in Nat
    BY DEF Balances
  <2> QED
    BY <2>1 DEF Balances
<1>2. debited \in Balances
  BY <1>1 DEF Balances
<1>3. [debited[asset] EXCEPT ![to] = @ + n] \in [Accounts -> Nat]
  BY <1>2 DEF Balances
<1> QED
  BY <1>2, <1>3 DEF Balances, Moved

\* Minting leaves every balance a number.
LEMMA MintedType ==
    ASSUME NEW bal \in Balances, NEW asset \in Assets, NEW to \in Accounts, NEW n \in Nat
    PROVE  Minted(bal, asset, to, n) \in Balances
BY DEF Balances, Minted

\* Using an allowance that suffices leaves every allowance within uint256.
LEMMA SpentType ==
    ASSUME NEW allowed \in Allowances, NEW asset \in Assets, NEW from \in Users, NEW n \in Nat,
           allowed[asset][from] >= n
    PROVE  Spent(allowed, asset, from, n) \in Allowances
BY AssetsAssumption DEF Allowances, Spent

\* A fee is a number, at any rate of 0% to 5% of any amount.
LEMMA FeeType ==
    ASSUME NEW amount \in Nat, NEW rate \in Nat
    PROVE  (amount * rate) \div 1000 \in Nat
<1>1. amount * rate \in Nat
  OBVIOUS
<1> QED
  BY <1>1

\* A lower rate never gives a higher fee.
LEMMA FeesGrowWithTheRate ==
    ASSUME NEW amount \in Nat, NEW low \in Nat, NEW high \in Nat, low <= high
    PROVE  (amount * low) \div 1000 <= (amount * high) \div 1000
<1>1. PICK more \in Nat : high = low + more
  <2>1. high - low \in Nat /\ high = low + (high - low)
    OBVIOUS
  <2> QED
    BY <2>1
<1>2. amount * high = amount * low + amount * more
  BY <1>1
<1>3. amount * low \in Nat /\ amount * more \in Nat
  BY <1>1
<1> DEFINE a == amount * low
           b == amount * more
<1>4. a \in Nat /\ b \in Nat
  BY <1>3
<1> HIDE DEF a, b
<1>5. a \div 1000 <= (a + b) \div 1000
  BY <1>4
<1> QED
  BY <1>2, <1>5 DEF a, b

\* The prices matchOrder computes are numbers.
LEMMA PriceTypes ==
    ASSUME TypeOK, NEW order \in Orders
    PROVE  /\ order \in OrderType
           /\ order.maker \in Accounts /\ order.maker \in Users
           /\ order.asset \in Assets
           /\ BullFees(order) \in Nat /\ BearFees(order) \in Nat
           /\ TakerPrice(order) \in Nat /\ MakerPrice(order) \in Nat
<1>1. /\ order \in OrderType
      /\ order.premium \in Nat /\ order.collateral \in Nat /\ order.asset \in Assets
      /\ order.maker \in Users
  BY OrdersAssumption, AssetsAssumption DEF OrderType
<1>2. fee \in Nat
  BY DEF TypeOK, ProtocolTypeOK
<1>3. BullFees(order) \in Nat /\ BearFees(order) \in Nat
  BY <1>1, <1>2, FeeType DEF BullFees, BearFees
<1> QED
  BY <1>1, <1>3 DEF TakerPrice, MakerPrice, BullPrice, BearPrice, Accounts

------------------------------------------------------------------------------
(* Type correctness.                                                         *)

\* The deployed protocol and its tokens start well-typed.
LEMMA InitType == Init => TypeOK
<1> SUFFICES ASSUME Init PROVE TypeOK
  OBVIOUS
<1>1. TokenTypeOK
  BY AccountsAssumption, EndowmentAssumption DEF Init, TokenInit, TokenTypeOK, Accounts
<1>2. ProtocolTypeOK
  BY CallsAssumption, AssetsAssumption DEF Init, ProtocolTypeOK, FeeRateAllowed
<1> QED
  BY <1>1, <1>2 DEF TypeOK

\* What the token holders do on their own keeps the ledgers well-typed.
LEMMA TokenCallsType == TypeOK /\ TokenCalls => TypeOK'
<1> SUFFICES ASSUME TypeOK, TokenNext, UNCHANGED protocolVars PROVE TypeOK'
  BY DEF TokenCalls
<1> USE DEF TypeOK, TokenTypeOK
<1>1. ProtocolTypeOK'
  BY DEF ProtocolTypeOK, protocolVars
<1>2. /\ Holders \subseteq Users /\ Holders \subseteq Accounts
      /\ Amounts \subseteq Nat /\ WETH \in Assets /\ balanceOf \in Balances
  BY HoldersAssumption, AssetsAssumption DEF Accounts, Balances
<1>3. ASSUME NEW user \in Holders, NEW asset \in Assets, NEW n \in Approvals,
             Approve(user, asset, n)
      PROVE  TypeOK'
  BY <1>1, <1>2, <1>3, HoldersAssumption DEF Approve, erc721Vars
<1>4. ASSUME NEW user \in Holders, NEW asset \in Assets, NEW to \in Accounts,
             NEW n \in Amounts, Transfer(user, asset, to, n)
      PROVE  TypeOK'
  <2>1. balanceOf' \in Balances
    BY <1>2, <1>4, MovedType DEF Transfer
  <2> QED
    BY <1>1, <1>4, <2>1 DEF Transfer, erc721Vars, Balances
<1>5. ASSUME NEW user \in Holders, NEW n \in Amounts, Deposit(user, n)
      PROVE  TypeOK'
  <2>1. balanceOf' \in Balances
    BY <1>2, <1>5, MintedType DEF Deposit
  <2>2. ether' \in [Users -> Nat]
    BY <1>2, <1>5 DEF Deposit
  <2> QED
    BY <1>1, <1>5, <2>1, <2>2 DEF Deposit, erc721Vars, Balances
<1>6. ASSUME NEW user \in Holders, NEW n \in Amounts, Withdraw(user, n)
      PROVE  TypeOK'
  <2>1. balanceOf' \in Balances
    BY <1>2, <1>6 DEF Withdraw, Balances
  <2>2. ether' \in [Users -> Nat]
    BY <1>2, <1>6 DEF Withdraw
  <2> QED
    BY <1>1, <1>6, <2>1, <2>2 DEF Withdraw, erc721Vars, Balances
<1>7. ASSUME NEW user \in Holders, NEW collection \in Collections, NEW approved \in BOOLEAN,
             SetApprovalForAll(user, collection, approved)
      PROVE  TypeOK'
  BY <1>1, <1>2, <1>7 DEF SetApprovalForAll, erc20Vars
<1>8. ASSUME NEW user \in Holders, NEW collection \in Collections, NEW to \in Accounts,
             NEW id \in TokenIds, TransferNFT(user, collection, to, id)
      PROVE  TypeOK'
  BY <1>1, <1>8 DEF TransferNFT, erc20Vars
<1>9. ASSUME NEW wallet \in Wallets, NEW block \in BOOLEAN,
             SetShouldBlockTransfer(wallet, block)
      PROVE  TypeOK'
  BY <1>1, <1>9 DEF SetShouldBlockTransfer, erc20Vars
<1> QED
  BY <1>3, <1>4, <1>5, <1>6, <1>7, <1>8, <1>9 DEF TokenNext, TokenCallsBy

\* The payments of matchOrder, taker first and then maker, keep the ledgers
\* well-typed, also when both are the same account.
LEMMA CollectPaymentsType ==
    ASSUME TypeOK, NEW taker \in Users, NEW order \in Orders, NEW value \in Nat,
           CollectPayments(taker, order, value)
    PROVE  balanceOf' \in Balances /\ allowance' \in Allowances /\ ether' \in [Users -> Nat]
<1> DEFINE price == TakerPrice(order)
           afterTaker == IF value > 0 THEN Minted(balanceOf, WETH, Protocol, value)
                         ELSE Moved(balanceOf, order.asset, taker, Protocol, price)
           allowedAfterTaker == IF value > 0 THEN allowance
                                ELSE Spent(allowance, order.asset, taker, price)
<1>1. /\ order.maker \in Accounts /\ order.maker \in Users /\ order.asset \in Assets
      /\ price \in Nat /\ MakerPrice(order) \in Nat
  BY PriceTypes
<1>2. /\ taker \in Accounts /\ Protocol \in Accounts /\ WETH \in Assets
      /\ balanceOf \in Balances /\ allowance \in Allowances /\ ether \in [Users -> Nat]
  BY AssetsAssumption DEF Accounts, TypeOK, TokenTypeOK, Balances, Allowances
<1>3. afterTaker \in Balances /\ allowedAfterTaker \in Allowances
  <2>1. CASE value > 0
    BY <1>2, <2>1, MintedType
  <2>2. CASE ~(value > 0)
    <3>1. CanPull(balanceOf, allowance, order.asset, taker, price)
      BY <2>2 DEF CollectPayments, PullFromMaker
    <3>2. /\ Moved(balanceOf, order.asset, taker, Protocol, price) \in Balances
          /\ Spent(allowance, order.asset, taker, price) \in Allowances
      BY <1>1, <1>2, <3>1, MovedType, SpentType DEF CanPull
    <3> QED
      BY <2>2, <3>2
  <2> QED
    BY <2>1, <2>2
<1>4. /\ CanPull(afterTaker, allowedAfterTaker, order.asset, order.maker, MakerPrice(order))
      /\ balanceOf' = Moved(afterTaker, order.asset, order.maker, Protocol, MakerPrice(order))
      /\ allowance' = Spent(allowedAfterTaker, order.asset, order.maker, MakerPrice(order))
  BY DEF CollectPayments, PullFromMaker
<1>5. balanceOf' \in Balances /\ allowance' \in Allowances
  <2> HIDE DEF afterTaker, allowedAfterTaker
  <2> QED
    BY <1>1, <1>2, <1>3, <1>4, MovedType, SpentType DEF CanPull
<1>6. ether' \in [Users -> Nat]
  <2>1. ether' = [ether EXCEPT ![taker] = @ - value] /\ (value > 0 => ether[taker] >= value)
    BY DEF CollectPayments, PullFromMaker
  <2> QED
    BY <1>2, <2>1
<1> QED
  BY <1>5, <1>6

\* matchOrder keeps every variable well-typed.
LEMMA MatchOrderType ==
    ASSUME TypeOK, NEW sender \in Users, NEW order \in Orders, NEW value \in Nat,
           MatchOrder(sender, order, value)
    PROVE  TypeOK'
<1>1. /\ balanceOf' \in Balances /\ allowance' \in Allowances /\ ether' \in [Users -> Nat]
  BY CollectPaymentsType DEF MatchOrder, MatchRequires, RecordMatch
<1>2. TokenTypeOK'
  BY <1>1 DEF MatchOrder, MatchRequires, RecordMatch, TypeOK, TokenTypeOK, erc721Vars,
              Balances, Allowances
<1>3. withdrawableFees' \in [Assets -> 0 .. MaxUint]
  <2>1. /\ order.asset \in Assets /\ BullFees(order) \in Nat /\ BearFees(order) \in Nat
    BY PriceTypes
  <2>2. withdrawableFees[order.asset] \in Nat
    BY <2>1, AssetsAssumption DEF TypeOK, ProtocolTypeOK
  <2>3. withdrawableFees[order.asset] + BullFees(order) + BearFees(order) \in 0 .. MaxUint
    BY <2>1, <2>2, AssetsAssumption DEF MatchOrder, MatchRequires, RecordMatch, PricesFit
  <2> QED
    BY <2>1, <2>3 DEF MatchOrder, MatchRequires, RecordMatch, TypeOK, ProtocolTypeOK
<1>4. /\ bulls' \in [Orders -> Accounts \cup {NoOne}]
      /\ bears' \in [Orders -> Accounts \cup {NoOne}]
  <2>1. order.maker \in Accounts /\ sender \in Accounts
    BY PriceTypes DEF Accounts
  <2> QED
    BY <2>1 DEF MatchOrder, MatchRequires, RecordMatch, TypeOK, ProtocolTypeOK
<1>5. ProtocolTypeOK'
  BY <1>3, <1>4 DEF MatchOrder, MatchRequires, RecordMatch, TypeOK, ProtocolTypeOK,
                    ownerVars, revocationVars
<1> QED
  BY <1>2, <1>5 DEF TypeOK

\* Paying the premium and the collateral out keeps the balances well-typed.
LEMMA PayStakeType ==
    ASSUME TypeOK, NEW order \in Orders, NEW winner \in Accounts, PayStake(order, winner)
    PROVE  balanceOf' \in Balances
<1>1. order.asset \in Assets /\ Stake(order) \in Nat
  BY OrdersAssumption, AssetsAssumption DEF OrderType, Stake
<1>2. balanceOf \in Balances /\ Protocol \in Accounts
  BY DEF TypeOK, TokenTypeOK, Balances, Accounts
<1> QED
  BY <1>1, <1>2, MovedType DEF PayStake

\* settleContract keeps every variable well-typed.
LEMMA SettleContractType ==
    ASSUME TypeOK, NEW sender \in Users, NEW order \in Orders, NEW tokenId \in TokenIds,
           SettleContract(sender, order, tokenId)
    PROVE  TypeOK'
<1>1. balanceOf' \in Balances
  BY PayStakeType DEF SettleContract, Accounts
<1>2. ownerOf' \in [Collections -> [TokenIds -> Accounts]]
  <2>1. ownerOf' = [ownerOf EXCEPT ![order.collection][tokenId] = Protocol]
    BY DEF SettleContract, TakeNFT, SafeTransferNFT
  <2> QED
    BY <2>1 DEF TypeOK, TokenTypeOK, Accounts
<1>3. TokenTypeOK'
  BY <1>1, <1>2 DEF SettleContract, TypeOK, TokenTypeOK, Balances
<1>4. ProtocolTypeOK'
  BY DEF SettleContract, TypeOK, ProtocolTypeOK, ownerVars, positionVars, revocationVars
<1> QED
  BY <1>3, <1>4 DEF TypeOK

\* reclaimContract keeps every variable well-typed, as long as somebody is the bull.
LEMMA ReclaimContractType ==
    ASSUME TypeOK, NEW order \in Orders, bulls[order] \in Accounts, ReclaimContract(order)
    PROVE  TypeOK'
<1>1. balanceOf' \in Balances /\ ownerOf' \in [Collections -> [TokenIds -> Accounts]]
  <2>1. CASE ReclaimNFT(order)
    BY <2>1 DEF ReclaimNFT, SafeTransferNFT, TypeOK, TokenTypeOK, Balances
  <2>2. CASE ReclaimStake(order)
    BY <2>2, PayStakeType DEF ReclaimStake, TypeOK, TokenTypeOK
  <2> QED
    BY <2>1, <2>2 DEF ReclaimContract
<1>2. TokenTypeOK'
  BY <1>1 DEF ReclaimContract, TypeOK, TokenTypeOK, Balances
<1>3. ProtocolTypeOK'
  BY DEF ReclaimContract, TypeOK, ProtocolTypeOK, ownerVars, positionVars, revocationVars
<1> QED
  BY <1>2, <1>3 DEF TypeOK

\* The price of a sell order is a number, its maker an account.
LEMMA SellOrderTypes ==
    ASSUME NEW sellOrder \in SellOrders
    PROVE  /\ sellOrder.orderHash \in Orders /\ sellOrder.price \in Nat
           /\ sellOrder.maker \in Users /\ sellOrder.maker \in Accounts
           /\ sellOrder.asset \in Assets /\ sellOrder.isBull \in BOOLEAN
BY OrdersAssumption, AssetsAssumption DEF SellOrderType, Accounts

\* buyPosition keeps every variable well-typed, whichever way the buyer pays.
LEMMA BuyPositionType ==
    ASSUME TypeOK, NEW sender \in Users, NEW sellOrder \in SellOrders, NEW tip \in Nat,
           NEW value \in Nat, BuyPosition(sender, sellOrder, tip, value)
    PROVE  TypeOK'
<1> DEFINE price == sellOrder.price + tip
<1>1. /\ sellOrder.orderHash \in Orders /\ price \in Nat
      /\ sellOrder.maker \in Accounts /\ sellOrder.asset \in Assets
  BY SellOrderTypes
<1>2. /\ sender \in Accounts /\ Protocol \in Accounts /\ WETH \in Assets
      /\ balanceOf \in Balances /\ allowance \in Allowances /\ ether \in [Users -> Nat]
  BY AssetsAssumption DEF Accounts, TypeOK, TokenTypeOK, Balances, Allowances
<1>3. PaySeller(sender, sellOrder, price, value)
  BY DEF BuyPosition, BuyRequires, RecordSale
<1>4. balanceOf' \in Balances /\ allowance' \in Allowances /\ ether' \in [Users -> Nat]
  <2>1. CASE value > 0
    <3> DEFINE wrapped == Minted(balanceOf, WETH, Protocol, value)
    <3>1. wrapped \in Balances /\ wrapped[WETH][Protocol] >= value
      BY <1>2, MintedType DEF Minted, Balances
    <3>2. /\ ether[sender] >= value /\ ether' = [ether EXCEPT ![sender] = @ - value]
          /\ balanceOf' = Moved(wrapped, WETH, Protocol, sellOrder.maker, value)
          /\ UNCHANGED allowance
      BY <1>3, <2>1 DEF PaySeller, ForwardEther
    <3>3. balanceOf' \in Balances
      <4> HIDE DEF wrapped
      <4> QED
        BY <1>1, <1>2, <3>1, <3>2, MovedType
    <3> QED
      BY <1>2, <3>2, <3>3
  <2>2. CASE value = 0
    <3> HIDE DEF price
    <3>1. /\ CanPull(balanceOf, allowance, sellOrder.asset, sender, price)
          /\ balanceOf' = Moved(balanceOf, sellOrder.asset, sender, sellOrder.maker, price)
          /\ allowance' = Spent(allowance, sellOrder.asset, sender, price)
          /\ UNCHANGED ether
      BY <1>3, <2>2 DEF PaySeller, ForwardEther
    <3> QED
      BY <1>1, <1>2, <3>1, MovedType, SpentType DEF CanPull
  <2> QED
    BY <2>1, <2>2
<1>5. TokenTypeOK'
  BY <1>4 DEF BuyPosition, BuyRequires, RecordSale, TypeOK, TokenTypeOK, erc721Vars,
              Balances, Allowances
<1>6. /\ bulls' \in [Orders -> Accounts \cup {NoOne}]
      /\ bears' \in [Orders -> Accounts \cup {NoOne}]
  BY <1>1, <1>2 DEF BuyPosition, BuyRequires, RecordSale, TypeOK, ProtocolTypeOK
<1>7. ProtocolTypeOK'
  BY <1>6 DEF BuyPosition, BuyRequires, RecordSale, TypeOK, ProtocolTypeOK, ownerVars,
              contractVars, revocationVars
<1> QED
  BY <1>5, <1>7 DEF TypeOK

\* transferPosition keeps every variable well-typed.
LEMMA TransferPositionType ==
    ASSUME TypeOK, NEW sender \in Users, NEW order \in Orders, NEW isBull \in BOOLEAN,
           NEW recipient \in Accounts, TransferPosition(sender, order, isBull, recipient)
    PROVE  TypeOK'
<1>1. TokenTypeOK'
  BY DEF TransferPosition, tokenVars, TypeOK, TokenTypeOK
<1>2. ProtocolTypeOK'
  BY DEF TransferPosition, TypeOK, ProtocolTypeOK, ownerVars, contractVars, revocationVars
<1> QED
  BY <1>1, <1>2 DEF TypeOK

\* The makers' revocations keep every variable well-typed.
LEMMA RevocationType ==
    ASSUME TypeOK, NEW sender \in Users,
           \/ \E order \in Orders : CancelOrder(sender, order)
           \/ \E sellOrder \in SellOrders : CancelSellOrder(sender, sellOrder)
           \/ \E nonce \in Nonces : SetMinimumValidNonce(sender, nonce)
           \/ \E nonce \in Nonces : SetMinimumValidNonceSell(sender, nonce)
    PROVE  TypeOK'
<1>1. TokenTypeOK'
  BY DEF CancelOrder, CancelSellOrder, SetMinimumValidNonce, SetMinimumValidNonceSell,
         tokenVars, TypeOK, TokenTypeOK
<1>2. ProtocolTypeOK'
  BY CallsAssumption
     DEF CancelOrder, CancelSellOrder, SetMinimumValidNonce, SetMinimumValidNonceSell,
         TypeOK, ProtocolTypeOK, ownerVars, contractVars, positionVars
<1> QED
  BY <1>1, <1>2 DEF TypeOK

\* The owner's methods keep every variable well-typed.
LEMMA OwnerType == TypeOK /\ OwnerNext => TypeOK'
<1> SUFFICES ASSUME TypeOK, NEW sender \in Users,
                    \/ \E collection \in Collections, allowed \in BOOLEAN :
                          SetAllowedCollection(sender, collection, allowed)
                    \/ \E asset \in Assets, allowed \in BOOLEAN :
                          SetAllowedAsset(sender, asset, allowed)
                    \/ \E rate \in FeeRates : SetFee(sender, rate)
                    \/ \E asset \in Assets, recipient \in Recipients :
                          WithdrawFees(sender, asset, recipient)
                    \/ \E successor \in Successors : TransferOwnership(sender, successor)
                    \/ RenounceOwnership(sender)
             PROVE  TypeOK'
  BY DEF OwnerNext, OwnerCallsBy
<1>1. ASSUME NEW collection \in Collections, NEW allowed \in BOOLEAN,
             SetAllowedCollection(sender, collection, allowed)
      PROVE  TypeOK'
  BY <1>1 DEF SetAllowedCollection, TypeOK, TokenTypeOK, ProtocolTypeOK, contractVars,
              positionVars, revocationVars, tokenVars
<1>2. ASSUME NEW asset \in Assets, NEW allowed \in BOOLEAN,
             SetAllowedAsset(sender, asset, allowed)
      PROVE  TypeOK'
  BY <1>2 DEF SetAllowedAsset, TypeOK, TokenTypeOK, ProtocolTypeOK, contractVars,
              positionVars, revocationVars, tokenVars
<1>3. ASSUME NEW rate \in FeeRates, SetFee(sender, rate)
      PROVE  TypeOK'
  <2>1. rate \in 0 .. 50
    BY <1>3, CallsAssumption DEF SetFee, FeeRateAllowed
  <2> QED
    BY <1>3, <2>1 DEF SetFee, TypeOK, TokenTypeOK, ProtocolTypeOK, contractVars,
                      positionVars, revocationVars, tokenVars
<1>4. ASSUME NEW asset \in Assets, NEW recipient \in Recipients,
             WithdrawFees(sender, asset, recipient)
      PROVE  TypeOK'
  <2>0. withdrawableFees[asset] \in Nat
    BY AssetsAssumption DEF TypeOK, ProtocolTypeOK
  <2>1. /\ recipient \in Accounts /\ Protocol \in Accounts /\ balanceOf \in Balances
        /\ withdrawableFees[asset] \in Nat
    BY <2>0, CallsAssumption DEF Accounts, TypeOK, TokenTypeOK, Balances
  <2>2. balanceOf' \in Balances
    BY <1>4, <2>1, MovedType DEF WithdrawFees
  <2>3. TokenTypeOK'
    BY <1>4, <2>2 DEF WithdrawFees, TypeOK, TokenTypeOK, erc721Vars, Balances
  <2>4. ProtocolTypeOK'
    BY <1>4, AssetsAssumption
       DEF WithdrawFees, FeesCleared, TypeOK, ProtocolTypeOK, ownerVars, contractVars,
           positionVars, revocationVars
  <2> QED
    BY <2>3, <2>4 DEF TypeOK
<1>5. ASSUME NEW successor \in Successors, TransferOwnership(sender, successor)
      PROVE  TypeOK'
  BY <1>5, CallsAssumption
     DEF TransferOwnership, TypeOK, TokenTypeOK, ProtocolTypeOK, contractVars,
         positionVars, revocationVars, tokenVars
<1>6. ASSUME RenounceOwnership(sender)
      PROVE  TypeOK'
  BY <1>6 DEF RenounceOwnership, TypeOK, TokenTypeOK, ProtocolTypeOK, contractVars,
              positionVars, revocationVars, tokenVars
<1> QED
  BY <1>1, <1>2, <1>3, <1>4, <1>5, <1>6

\* The values the next-state relation gives to msg.value are amounts.
LEMMA ValueTypes ==
    /\ \A order \in Orders : TypeOK => TakerPrice(order) \in Nat
    /\ \A sellOrder \in SellOrders, tip \in Tips : sellOrder.price + tip \in Nat /\ tip \in Nat
<1>1. ASSUME TypeOK, NEW order \in Orders PROVE TakerPrice(order) \in Nat
  BY <1>1, PriceTypes
<1>2. ASSUME NEW sellOrder \in SellOrders, NEW tip \in Tips
      PROVE  sellOrder.price + tip \in Nat /\ tip \in Nat
  BY SellOrderTypes, CallsAssumption
<1> QED
  BY <1>1, <1>2

\* Every step keeps every variable well-typed.  reclaimContract needs that a
\* matched order has a bull: otherwise it would pay address(0).
LEMMA TypeStep == TypeOK /\ OutcomesInOrder /\ [Next]_vars => TypeOK'
<1> SUFFICES ASSUME TypeOK, OutcomesInOrder, [Next]_vars PROVE TypeOK'
  OBVIOUS
<1>1. CASE Tick
  BY <1>1, CallsAssumption
     DEF Tick, TypeOK, TokenTypeOK, ProtocolTypeOK, ownerVars, contractVars,
         positionVars, revocationVars, tokenVars
<1>2. ASSUME NEW order \in Orders, NEW sender \in Takers, NEW value \in {0, TakerPrice(order)},
             MatchOrder(sender, order, value)
      PROVE  TypeOK'
  BY <1>2, ValueTypes, MatchOrderType, CallsAssumption
<1>3. ASSUME NEW order \in Orders, NEW sender \in Users, NEW tokenId \in TokenIds,
             SettleContract(sender, order, tokenId)
      PROVE  TypeOK'
  BY <1>3, SettleContractType
<1>4. ASSUME NEW order \in Orders, ReclaimContract(order)
      PROVE  TypeOK'
  <2>1. bulls[order] \in Accounts
    BY <1>4 DEF ReclaimContract, ReclaimRequires, OutcomesInOrder, TypeOK, ProtocolTypeOK
  <2> QED
    BY <1>4, <2>1, ReclaimContractType
<1>5. ASSUME NEW order \in Orders, NEW sender \in Users, NEW isBull \in BOOLEAN,
             NEW recipient \in Recipients, TransferPosition(sender, order, isBull, recipient)
      PROVE  TypeOK'
  BY <1>5, TransferPositionType, CallsAssumption
<1>6. ASSUME NEW order \in Orders, NEW sender \in Users, CancelOrder(sender, order)
      PROVE  TypeOK'
  BY <1>6, RevocationType
<1>7. ASSUME NEW sellOrder \in SellOrders, NEW sender \in Takers, NEW tip \in Tips,
             NEW value \in {0, sellOrder.price + tip}, BuyPosition(sender, sellOrder, tip, value)
      PROVE  TypeOK'
  BY <1>7, ValueTypes, BuyPositionType, CallsAssumption
<1>8. ASSUME NEW sellOrder \in SellOrders, NEW sender \in Users,
             CancelSellOrder(sender, sellOrder)
      PROVE  TypeOK'
  BY <1>8, RevocationType
<1>9. CASE NonceNext
  BY <1>9, RevocationType, CallsAssumption DEF NonceNext, NonceCallsBy
<1>10. CASE OwnerNext
  BY <1>10, OwnerType
<1>11. CASE TokenCalls
  BY <1>11, TokenCallsType
<1>12. CASE UNCHANGED vars
  BY <1>12 DEF vars, protocolVars, tokenVars, TypeOK, TokenTypeOK, ProtocolTypeOK
<1> QED
  BY <1>1, <1>2, <1>3, <1>4, <1>5, <1>6, <1>7, <1>8, <1>9, <1>10, <1>11, <1>12
     DEF Next, OrderNext, OrderCallsBy, SellOrderNext, SellOrderCallsBy

------------------------------------------------------------------------------
(* One outcome per contract.                                                 *)

\* The calls that touch neither a contract nor a position.
QuietNext ==
    \/ \E order \in Orders, sender \in Users : CancelOrder(sender, order)
    \/ \E sellOrder \in SellOrders, sender \in Users : CancelSellOrder(sender, sellOrder)
    \/ NonceNext
    \/ OwnerNext
    \/ TokenCalls
    \/ UNCHANGED vars

\* They really leave contracts, positions and time alone.
LEMMA QuietSteps ==
    QuietNext => UNCHANGED <<now, matchedOrders, settledContracts, reclaimedContracts,
                             claimableTokenId, bulls, bears, boughtSellOrders>>
BY DEF QuietNext, CancelOrder, CancelSellOrder, NonceNext, NonceCallsBy,
       SetMinimumValidNonce,
       SetMinimumValidNonceSell, OwnerNext, OwnerCallsBy, SetAllowedCollection,
       SetAllowedAsset, SetFee,
       WithdrawFees, TransferOwnership, RenounceOwnership, TokenCalls, vars, protocolVars,
       contractVars, positionVars

\* A step is one of six calls or a quiet one.
LEMMA StepCases ==
    ASSUME TypeOK, [Next]_vars
    PROVE  \/ Tick
           \/ \E order \in Orders, sender \in Users, value \in Nat :
                 MatchOrder(sender, order, value)
           \/ \E order \in Orders, sender \in Users, tokenId \in TokenIds :
                 SettleContract(sender, order, tokenId)
           \/ \E order \in Orders : ReclaimContract(order)
           \/ \E order \in Orders, sender \in Users, isBull \in BOOLEAN, recipient \in Accounts :
                 TransferPosition(sender, order, isBull, recipient)
           \/ \E sellOrder \in SellOrders, sender \in Users, tip \in Nat, value \in Nat :
                 BuyPosition(sender, sellOrder, tip, value)
           \/ QuietNext
<1>1. Takers \subseteq Users /\ Recipients \subseteq Accounts
  BY CallsAssumption
<1>2. CASE OrderNext
  BY <1>1, <1>2, ValueTypes DEF OrderNext, OrderCallsBy, QuietNext
<1>3. CASE SellOrderNext
  BY <1>1, <1>3, ValueTypes DEF SellOrderNext, SellOrderCallsBy, QuietNext
<1> QED
  BY <1>2, <1>3 DEF Next, QuietNext

\* The lifecycle of the contracts survives every step.
LEMMA OutcomesStep == TypeOK /\ OutcomesInOrder /\ [Next]_vars => OutcomesInOrder'
<1> SUFFICES ASSUME TypeOK, OutcomesInOrder, [Next]_vars PROVE OutcomesInOrder'
  OBVIOUS
<1> USE DEF OutcomesInOrder, Expired
<1>1. /\ now \in Nat /\ \A order \in Orders : order.expiry \in Nat
      /\ bulls \in [Orders -> Accounts \cup {NoOne}]
      /\ bears \in [Orders -> Accounts \cup {NoOne}]
      /\ NoOne \notin Accounts
      /\ \A order \in Orders : order.maker \in Accounts
      /\ matchedOrders \subseteq Orders /\ reclaimedContracts \subseteq Orders
  BY CallsAssumption, OrdersAssumption DEF TypeOK, ProtocolTypeOK, OrderType, Accounts
<1>2. CASE Tick
  BY <1>1, <1>2 DEF Tick, contractVars, positionVars
<1>3. ASSUME NEW order \in Orders, NEW sender \in Users, NEW value \in Nat,
             MatchOrder(sender, order, value)
      PROVE  OutcomesInOrder'
  <2>1. bulls'[order] \in Accounts /\ bears'[order] \in Accounts
    BY <1>1, <1>3 DEF MatchOrder, MatchRequires, RecordMatch, Accounts
  <2> QED
    BY <1>1, <1>3, <2>1 DEF MatchOrder, MatchRequires, RecordMatch
<1>4. ASSUME NEW order \in Orders, NEW sender \in Users, NEW tokenId \in TokenIds,
             SettleContract(sender, order, tokenId)
      PROVE  OutcomesInOrder'
  <2>1. order \in matchedOrders
    BY <1>1, <1>4 DEF SettleContract, SettleRequires, Accounts
  <2> QED
    BY <1>4, <2>1 DEF SettleContract, positionVars
<1>5. ASSUME NEW order \in Orders, ReclaimContract(order)
      PROVE  OutcomesInOrder'
  BY <1>1, <1>5 DEF ReclaimContract, ReclaimRequires, ReclaimNFT, ReclaimStake, positionVars
<1>6. ASSUME NEW order \in Orders, NEW sender \in Users, NEW isBull \in BOOLEAN,
             NEW recipient \in Accounts, TransferPosition(sender, order, isBull, recipient)
      PROVE  OutcomesInOrder'
  BY <1>1, <1>6 DEF TransferPosition, HoldsPosition, contractVars, Accounts
<1>7. ASSUME NEW sellOrder \in SellOrders, NEW sender \in Users, NEW tip \in Nat,
             NEW value \in Nat, BuyPosition(sender, sellOrder, tip, value)
      PROVE  OutcomesInOrder'
  <2>1. /\ sellOrder.orderHash \in Orders /\ sellOrder.maker \in Accounts
        /\ sellOrder.isBull \in BOOLEAN /\ sender \in Accounts
    BY SellOrderTypes DEF Accounts
  <2>2. sellOrder.orderHash \in matchedOrders
    BY <1>1, <1>7, <2>1 DEF BuyPosition, BuyRequires, RecordSale, CheckIsValidSellOrder,
                            PositionForSale
  <2> QED
    BY <1>1, <1>7, <2>1, <2>2 DEF BuyPosition, BuyRequires, RecordSale, contractVars
<1>8. CASE QuietNext
  BY <1>8, QuietSteps
<1> QED
  BY <1>2, <1>3, <1>4, <1>5, <1>6, <1>7, <1>8, StepCases

\* Types and lifecycle are inductive together: reclaimContract pays the bull, and that
\* a matched order has one is part of the lifecycle.
LEMMA TypesAndOutcomes == Spec => [](TypeOK /\ OutcomesInOrder)
<1>1. Init => TypeOK /\ OutcomesInOrder
  <2>1. Init => OutcomesInOrder
    BY DEF Init, OutcomesInOrder
  <2> QED
    BY <2>1, InitType
<1>2. (TypeOK /\ OutcomesInOrder) /\ [Next]_vars => (TypeOK /\ OutcomesInOrder)'
  BY TypeStep, OutcomesStep
<1> QED
  BY <1>1, <1>2, PTL DEF Spec

\* No variable ever leaves its Solidity type: no balance, allowance or fee account
\* goes below zero and the fee rate stays within 5%.
THEOREM TypeCorrect == Spec => []TypeOK
BY TypesAndOutcomes, PTL

\* Only matched orders have holders and an outcome, and a contract reclaimed without
\* having been settled has expired.
THEOREM OutcomesAlwaysInOrder == Spec => []OutcomesInOrder
BY TypesAndOutcomes, PTL

\* A contract whose money went to the bull is never settled by the bear: the step that
\* would do so happens at or before the expiry, and the contract has expired.
THEOREM ContractsHaveOneOutcome == Spec => OneOutcome
<1> DEFINE OneOutcomeStep ==
        \A order \in settledContracts' \ settledContracts : order \notin reclaimedContracts
<1>1. TypeOK /\ OutcomesInOrder /\ [Next]_vars => [OneOutcomeStep]_vars
  <2> SUFFICES ASSUME TypeOK, OutcomesInOrder, [Next]_vars,
                      NEW order \in settledContracts', order \notin settledContracts,
                      order \in reclaimedContracts
               PROVE  FALSE
    OBVIOUS
  <2>1. ~Tick /\ ~QuietNext
    BY QuietSteps DEF Tick, contractVars
  <2>2. /\ ~\E o \in Orders, sender \in Users, value \in Nat : MatchOrder(sender, o, value)
        /\ ~\E o \in Orders : ReclaimContract(o)
        /\ ~\E o \in Orders, sender \in Users, isBull \in BOOLEAN, to \in Accounts :
               TransferPosition(sender, o, isBull, to)
        /\ ~\E s \in SellOrders, sender \in Users, tip \in Nat, value \in Nat :
               BuyPosition(sender, s, tip, value)
    BY DEF MatchOrder, MatchRequires, RecordMatch, ReclaimContract, TransferPosition,
           BuyPosition, BuyRequires, RecordSale, contractVars
  <2>3. PICK sender \in Users, tokenId \in TokenIds : SettleContract(sender, order, tokenId)
    <3>1. PICK o \in Orders, sender \in Users, tokenId \in TokenIds :
               SettleContract(sender, o, tokenId)
      BY <2>1, <2>2, StepCases
    <3>2. o = order
      BY <3>1 DEF SettleContract
    <3> QED
      BY <3>1, <3>2
  <2>4. now <= order.expiry /\ now > order.expiry
    BY <2>3 DEF SettleContract, SettleRequires, OutcomesInOrder, Expired
  <2>5. now \in Nat /\ order.expiry \in Nat
    BY OrdersAssumption DEF TypeOK, ProtocolTypeOK, OrderType
  <2> QED
    BY <2>4, <2>5
<1> QED
  BY <1>1, TypesAndOutcomes, PTL DEF Spec, OneOutcome

\* The buyer of a position never gets a contract that is over.  On the bear side only
\* the expiry is looked at: that the bull did not reclaim follows from the lifecycle.
THEOREM SalesAreOfLiveContracts == Spec => BuyersGetLiveContracts
<1> DEFINE SalesStep == \A sellOrder \in boughtSellOrders' \ boughtSellOrders :
                            sellOrder.orderHash \in LiveContracts
<1>1. TypeOK /\ OutcomesInOrder /\ [Next]_vars => [SalesStep]_vars
  <2> SUFFICES ASSUME TypeOK, OutcomesInOrder, [Next]_vars,
                      NEW sold \in boughtSellOrders', sold \notin boughtSellOrders
               PROVE  sold.orderHash \in LiveContracts
    OBVIOUS
  <2> DEFINE order == sold.orderHash
  <2>1. ~Tick /\ ~QuietNext
    BY QuietSteps DEF Tick
  <2>2. /\ ~\E o \in Orders, sender \in Users, value \in Nat : MatchOrder(sender, o, value)
        /\ ~\E o \in Orders, sender \in Users, tokenId \in TokenIds :
               SettleContract(sender, o, tokenId)
        /\ ~\E o \in Orders : ReclaimContract(o)
        /\ ~\E o \in Orders, sender \in Users, isBull \in BOOLEAN, to \in Accounts :
               TransferPosition(sender, o, isBull, to)
    BY DEF MatchOrder, MatchRequires, RecordMatch, SettleContract, ReclaimContract,
           TransferPosition
  <2>3. PICK sender \in Users, tip \in Nat, value \in Nat : BuyPosition(sender, sold, tip, value)
    <3>1. PICK s \in SellOrders, sender \in Users, tip \in Nat, value \in Nat :
               BuyPosition(sender, s, tip, value)
      BY <2>1, <2>2, StepCases
    <3>2. s = sold
      BY <3>1 DEF BuyPosition, BuyRequires, RecordSale
    <3> QED
      BY <3>1, <3>2
  <2>4. PositionForSale(sold, sold.orderHash) /\ order \notin settledContracts
    BY <2>3 DEF BuyPosition, BuyRequires, RecordSale, CheckIsValidSellOrder
  <2>5. sold \in SellOrders
    BY <2>3, SignaturesAssumption DEF BuyPosition, BuyRequires, RecordSale,
                                      CheckIsValidSellOrder
  <2>6. /\ order \in Orders /\ sold.maker \in Accounts /\ NoOne \notin Accounts
        /\ now \in Nat /\ order.expiry \in Nat
    BY <2>5, SellOrderTypes, OrdersAssumption, CallsAssumption
       DEF TypeOK, ProtocolTypeOK, OrderType
  <2>7. order \in matchedOrders
    BY <2>4, <2>6 DEF PositionForSale, OutcomesInOrder
  <2>8. order \notin reclaimedContracts
    <3>1. ASSUME order \in reclaimedContracts PROVE FALSE
      <4>1. now > order.expiry
        BY <2>4, <3>1 DEF OutcomesInOrder, Expired
      <4>2. now < order.expiry
        BY <2>4, <3>1 DEF PositionForSale
      <4> QED
        BY <2>6, <4>1, <4>2
    <3> QED
      BY <3>1
  <2> QED
    BY <2>4, <2>7, <2>8 DEF LiveContracts
<1> QED
  BY <1>1, TypesAndOutcomes, PTL DEF Spec, BuyersGetLiveContracts

------------------------------------------------------------------------------
(* Revocation.                                                               *)

\* An order is used or canceled, never both, in whatever order the transactions of its
\* maker and of its takers are executed.
THEOREM UseExcludesCancellation == Spec => []NeverUsedAndCanceled
<1>1. Init => NeverUsedAndCanceled
  BY DEF Init, NeverUsedAndCanceled
<1>2. TypeOK /\ NeverUsedAndCanceled /\ [Next]_vars => NeverUsedAndCanceled'
  <2> SUFFICES ASSUME TypeOK, NeverUsedAndCanceled, [Next]_vars PROVE NeverUsedAndCanceled'
    OBVIOUS
  <2> USE DEF NeverUsedAndCanceled
  <2>1. ASSUME NEW order \in Orders, NEW sender \in Users, NEW value \in Nat,
               MatchOrder(sender, order, value)
        PROVE  NeverUsedAndCanceled'
    BY <2>1 DEF MatchOrder, MatchRequires, RecordMatch, CheckIsValidOrder, revocationVars
  <2>2. ASSUME NEW sellOrder \in SellOrders, NEW sender \in Users, NEW tip \in Nat,
               NEW value \in Nat, BuyPosition(sender, sellOrder, tip, value)
        PROVE  NeverUsedAndCanceled'
    BY <2>2 DEF BuyPosition, BuyRequires, RecordSale, CheckIsValidSellOrder,
                revocationVars, contractVars
  <2>3. ASSUME NEW order \in Orders, NEW sender \in Users, CancelOrder(sender, order)
        PROVE  NeverUsedAndCanceled'
    BY <2>3 DEF CancelOrder, MayCancel, contractVars
  <2>4. ASSUME NEW sellOrder \in SellOrders, NEW sender \in Users,
               CancelSellOrder(sender, sellOrder)
        PROVE  NeverUsedAndCanceled'
    BY <2>4 DEF CancelSellOrder, contractVars
  <2>5. CASE \/ Tick
             \/ \E order \in Orders, sender \in Users, tokenId \in TokenIds :
                   SettleContract(sender, order, tokenId)
             \/ \E order \in Orders : ReclaimContract(order)
             \/ \E order \in Orders, sender \in Users, isBull \in BOOLEAN, to \in Accounts :
                   TransferPosition(sender, order, isBull, to)
    BY <2>5 DEF Tick, SettleContract, ReclaimContract, TransferPosition, contractVars,
                revocationVars
  <2>6. CASE NonceNext \/ OwnerNext \/ TokenCalls \/ UNCHANGED vars
    BY <2>6 DEF NonceNext, NonceCallsBy, SetMinimumValidNonce, SetMinimumValidNonceSell,
                OwnerNext, OwnerCallsBy,
                SetAllowedCollection, SetAllowedAsset, SetFee, WithdrawFees, TransferOwnership,
                RenounceOwnership, TokenCalls, vars, protocolVars, contractVars, revocationVars
  <2> QED
    BY <2>1, <2>2, <2>3, <2>4, <2>5, <2>6, StepCases DEF QuietNext
<1> QED
  BY <1>1, <1>2, TypeCorrect, PTL DEF Spec

------------------------------------------------------------------------------
(* Custody of the NFTs.                                                      *)

\* No token leaves the protocol but through reclaimContract.
LEMMA ProtocolKeepsTokens ==
    ASSUME TypeOK,
           \/ Tick
           \/ \E order \in Orders, sender \in Users, value \in Nat :
                 MatchOrder(sender, order, value)
           \/ \E order \in Orders, sender \in Users, tokenId \in TokenIds :
                 SettleContract(sender, order, tokenId)
           \/ \E order \in Orders, sender \in Users, isBull \in BOOLEAN, to \in Accounts :
                 TransferPosition(sender, order, isBull, to)
           \/ \E sellOrder \in SellOrders, sender \in Users, tip \in Nat, value \in Nat :
                 BuyPosition(sender, sellOrder, tip, value)
           \/ QuietNext,
           NEW collection \in Collections, NEW id \in TokenIds,
           ownerOf[collection][id] = Protocol
    PROVE  ownerOf'[collection][id] = Protocol
<1>1. ownerOf \in [Collections -> [TokenIds -> Accounts]]
  BY DEF TypeOK, TokenTypeOK
<1>2. ASSUME NEW order \in Orders, NEW sender \in Users, NEW tokenId \in TokenIds,
             SettleContract(sender, order, tokenId)
      PROVE  ownerOf'[collection][id] = Protocol
  BY <1>1, <1>2 DEF SettleContract, TakeNFT, SafeTransferNFT
<1>3. CASE TokenCalls
  <2>1. ASSUME NEW user \in Holders, NEW c \in Collections, NEW to \in Accounts,
               NEW t \in TokenIds, TransferNFT(user, c, to, t)
        PROVE  ownerOf'[collection][id] = Protocol
    <3>1. user # Protocol
      BY AccountsAssumption, HoldersAssumption
    <3>2. ownerOf[c][t] = user /\ ownerOf' = [ownerOf EXCEPT ![c][t] = to]
      BY <2>1 DEF TransferNFT
    <3> QED
      BY <1>1, <3>1, <3>2
  <2>2. (\A user \in Holders, c \in Collections, to \in Accounts, t \in TokenIds :
             ~TransferNFT(user, c, to, t)) => UNCHANGED ownerOf
    BY <1>3 DEF TokenCalls, TokenNext, TokenCallsBy, Approve, Transfer, Deposit, Withdraw,
                SetApprovalForAll,
                SetShouldBlockTransfer, erc721Vars
  <2> QED
    BY <2>1, <2>2
<1>4. \/ UNCHANGED ownerOf
      \/ \E order \in Orders, sender \in Users, tokenId \in TokenIds :
            SettleContract(sender, order, tokenId)
      \/ TokenCalls
  BY DEF Tick, MatchOrder, MatchRequires, RecordMatch, TransferPosition, BuyPosition,
         BuyRequires, RecordSale, QuietNext, CancelOrder,
         CancelSellOrder, NonceNext, NonceCallsBy, SetMinimumValidNonce,
         SetMinimumValidNonceSell, OwnerNext, OwnerCallsBy,
         SetAllowedCollection, SetAllowedAsset, SetFee, WithdrawFees, TransferOwnership,
         RenounceOwnership, vars, tokenVars, erc721Vars
<1> QED
  BY <1>2, <1>3, <1>4

\* Every step keeps the tokens of settled contracts in custody and apart.
LEMMA CustodyStep == TypeOK /\ Custody /\ [Next]_vars => Custody'
<1> SUFFICES ASSUME TypeOK, Custody, [Next]_vars PROVE Custody'
  OBVIOUS
<1>1. /\ Undelivered \subseteq Orders
      /\ \A order \in Orders : order.collection \in Collections
      /\ ownerOf \in [Collections -> [TokenIds -> Accounts]]
      /\ claimableTokenId \in [Orders -> TokenIds \cup {0}]
  BY OrdersAssumption DEF Undelivered, TypeOK, TokenTypeOK, ProtocolTypeOK, OrderType
<1>2. ASSUME NEW order \in Orders, NEW sender \in Users, NEW tokenId \in TokenIds,
             SettleContract(sender, order, tokenId)
      PROVE  Custody'
  <2>1. /\ ownerOf[order.collection][tokenId] = sender
        /\ ownerOf' = [ownerOf EXCEPT ![order.collection][tokenId] = Protocol]
        /\ sender # Protocol
    BY <1>2, AccountsAssumption DEF SettleContract, TakeNFT, SafeTransferNFT
  <2>2. /\ claimableTokenId' = [claimableTokenId EXCEPT ![order] = tokenId]
        /\ Undelivered' \subseteq Undelivered \cup {order}
        /\ order \notin Undelivered
    BY <1>2 DEF SettleContract, SettleRequires, Undelivered
  <2>3. \A o \in Undelivered :
           o.collection = order.collection => claimableTokenId[o] # tokenId
    BY <2>1 DEF Custody
  <2>4. \A o \in Undelivered : claimableTokenId'[o] = claimableTokenId[o]
    BY <1>1, <2>2
  <2>5. claimableTokenId'[order] = tokenId
    BY <1>1, <2>2
  <2>6. \A o \in Undelivered' :
           /\ claimableTokenId'[o] \in TokenIds
           /\ ownerOf'[o.collection][claimableTokenId'[o]] = Protocol
    BY <1>1, <2>1, <2>2, <2>4, <2>5 DEF Custody
  <2>7. \A o1, o2 \in Undelivered' :
           o1.collection = o2.collection /\ claimableTokenId'[o1] = claimableTokenId'[o2]
               => o1 = o2
    BY <2>2, <2>3, <2>4, <2>5 DEF Custody
  <2> QED
    BY <2>6, <2>7 DEF Custody
<1>3. ASSUME NEW order \in Orders, ReclaimContract(order)
      PROVE  Custody'
  <2>1. /\ Undelivered' = Undelivered \ {order}
        /\ claimableTokenId' = claimableTokenId
    BY <1>3 DEF ReclaimContract, Undelivered
  <2>2. CASE ReclaimStake(order)
    BY <2>1, <2>2 DEF ReclaimStake, Custody
  <2>3. CASE ReclaimNFT(order)
    <3>1. order \in Undelivered
      BY <1>3, <2>3 DEF ReclaimContract, ReclaimRequires, ReclaimNFT, Undelivered
    <3>2. ownerOf' = [ownerOf EXCEPT ![order.collection][claimableTokenId[order]]
                                        = bulls[order]]
      BY <2>3 DEF ReclaimNFT, SafeTransferNFT
    <3>3. \A o \in Undelivered' : ~(/\ o.collection = order.collection
                                    /\ claimableTokenId[o] = claimableTokenId[order])
      BY <2>1, <3>1 DEF Custody
    <3>4. \A o \in Undelivered' :
             ownerOf'[o.collection][claimableTokenId[o]]
                 = ownerOf[o.collection][claimableTokenId[o]]
      BY <1>1, <2>1, <3>1, <3>2, <3>3 DEF Custody
    <3> QED
      BY <2>1, <3>4 DEF Custody
  <2> QED
    BY <1>3, <2>2, <2>3 DEF ReclaimContract
<1>4. CASE \/ Tick
           \/ \E order \in Orders, sender \in Users, value \in Nat :
                 MatchOrder(sender, order, value)
           \/ \E order \in Orders, sender \in Users, isBull \in BOOLEAN, to \in Accounts :
                 TransferPosition(sender, order, isBull, to)
           \/ \E sellOrder \in SellOrders, sender \in Users, tip \in Nat, value \in Nat :
                 BuyPosition(sender, sellOrder, tip, value)
           \/ QuietNext
  <2>1. UNCHANGED <<Undelivered, claimableTokenId>>
    BY <1>4, QuietSteps
       DEF Undelivered, Tick, MatchOrder, MatchRequires, RecordMatch, TransferPosition,
           BuyPosition, BuyRequires, RecordSale, contractVars
  <2>2. \A o \in Undelivered : ownerOf'[o.collection][claimableTokenId[o]] = Protocol
    BY <1>1, <1>4, ProtocolKeepsTokens DEF Custody
  <2> QED
    BY <2>1, <2>2 DEF Custody
<1> QED
  BY <1>2, <1>3, <1>4, StepCases

\* The token a bear settled with is there for the bull of that very contract until
\* reclaimContract hands it out.
THEOREM TokensStayInCustody == Spec => []Custody
<1>1. Init => Custody
  BY DEF Init, Custody, Undelivered
<1> QED
  BY <1>1, CustodyStep, TypeCorrect, PTL DEF Spec
==============================================================================
