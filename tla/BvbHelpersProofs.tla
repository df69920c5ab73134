--------------------------- MODULE BvbHelpersProofs ---------------------------
(****************************************************************************)
(* What the answers of BvbProtocolHelpers are worth: the prices it quotes   *)
(* are charged, what it finds valid is accepted, and its answers hold until *)
(* the maker, the seller or the owner acts, for every set of orders and     *)
(* users.                                                                   *)
(****************************************************************************)
EXTENDS BvbProtocolHelpers, BvbConsentProofs

\* The helper only reads: with it, accounts make the calls they make without, or move
\* nothing.
LEMMA HelpersOnlyRead ==
    [HelpersNext]_<<callersVars, helpersVars>> => [CallersNext]_callersVars \/ UNCHANGED vars
BY DEF HelpersNext, callersVars

\* So does the protocol.
LEMMA HelpersStep == [HelpersNext]_<<callersVars, helpersVars>> => [Next]_vars
BY HelpersOnlyRead, CallersOnlyWatch

\* So all that is proved of the protocol holds of the protocol with its helper.
LEMMA ProtocolWithHelper == HelpersSpec => Spec
<1>1. HelpersInit => Init
  BY DEF HelpersInit, CallersInit
<1> QED
  BY <1>1, HelpersStep, PTL DEF HelpersSpec, Spec

------------------------------------------------------------------------------
(* Quotes.                                                                   *)

\* The helper's formulas and those of matchOrder agree.
LEMMA QuotesArePrices ==
    ASSUME NEW order \in Orders
    PROVE  GetMakerPrice(order) = MakerPrice(order) /\ GetTakerPrice(order) = TakerPrice(order)
BY DEF GetMakerPrice, GetTakerPrice, WithFee, MakerPrincipal, TakerPrincipal, MakerPrice,
       TakerPrice, BullPrice, BearPrice, BullFees, BearFees

\* Matching costs maker and taker exactly what the helper quoted before, in the asset
\* or in ether.
THEOREM QuotesAreAlwaysCharged == HelpersSpec => QuotesAreCharged
<1> DEFINE Charged(order, taker) ==
              /\ Purse(order.asset, order.maker) - Purse(order.asset, order.maker)'
                     = GetMakerPrice(order)
              /\ Purse(order.asset, taker) - Purse(order.asset, taker)' = GetTakerPrice(order)
           TakerOf(order) == IF order.isBull THEN bears'[order] ELSE bulls'[order]
           Step == \A order \in Orders, taker \in Users :
                      /\ order \in matchedOrders' \ matchedOrders
                      /\ taker = IF order.isBull THEN bears'[order] ELSE bulls'[order]
                      /\ taker # order.maker
                      => Charged(order, taker)
<1>1. TypeOK /\ OutcomesInOrder /\ [Next]_vars => Step
  <2> SUFFICES ASSUME TypeOK, [Next]_vars, NEW order \in Orders, NEW taker \in Users,
                      order \in matchedOrders', order \notin matchedOrders,
                      taker = (IF order.isBull THEN bears'[order] ELSE bulls'[order]),
                      taker # order.maker
               PROVE  Charged(order, taker)
    OBVIOUS
  <2>1. PICK o \in Orders, sender \in Users, value \in Nat : MatchOrder(sender, o, value)
    <3>1. CASE \E o \in Orders, sender \in Users, tokenId \in TokenIds :
                  SettleContract(sender, o, tokenId)
      BY <3>1 DEF SettleContract
    <3>2. CASE \E o \in Orders : ReclaimContract(o)
      BY <3>2 DEF ReclaimContract
    <3>3. CASE \E o \in Orders, sender \in Users, isBull \in BOOLEAN, to \in Accounts :
                  TransferPosition(sender, o, isBull, to)
      BY <3>3 DEF TransferPosition, contractVars
    <3>4. CASE \E sellOrder \in SellOrders, sender \in Users, tip \in Nat, value \in Nat :
                  BuyPosition(sender, sellOrder, tip, value)
      BY <3>4 DEF BuyPosition, contractVars
    <3>5. CASE Tick \/ QuietNext
      BY <3>5, QuietSteps DEF Tick, contractVars
    <3> QED
      BY <3>1, <3>2, <3>3, <3>4, <3>5, StepCases
  <2>2. /\ o = order /\ sender = taker
        /\ value > 0 => value = TakerPrice(order) /\ order.asset = WETH
        /\ CollectPayments(taker, order, value)
    <3>1. matchedOrders' = matchedOrders \cup {o}
      BY <2>1 DEF MatchOrder, RecordMatch
    <3>2. o = order
      BY <3>1
    <3>3. IF order.isBull THEN bears'[order] = sender ELSE bulls'[order] = sender
      BY <2>1, <3>2 DEF MatchOrder, RecordMatch, TypeOK, ProtocolTypeOK
    <3> QED
      BY <2>1, <3>2, <3>3 DEF MatchOrder, MatchRequires
  <2>3. /\ order.maker \in Users /\ order.asset \in Assets
        /\ MakerPrice(order) \in Nat /\ TakerPrice(order) \in Nat
    BY PriceTypes
  <2>4. \A user \in Users :
           Purse(order.asset, user)' =
               Purse(order.asset, user)
                   - Part(order.asset, user, order.asset, taker, TakerPrice(order))
                   - Part(order.asset, user, order.asset, order.maker, MakerPrice(order))
    BY <2>2, <2>3, MatchDebits
  <2>5. \A user \in Users : Purse(order.asset, user) \in Nat
    BY <2>3, AmountTypes DEF Purse, Accounts
  <2>6. Purse(order.asset, order.maker)' = Purse(order.asset, order.maker) - MakerPrice(order)
    BY <2>3, <2>4, <2>5 DEF Part
  <2>7. Purse(order.asset, taker)' = Purse(order.asset, taker) - TakerPrice(order)
    BY <2>3, <2>4, <2>5 DEF Part
  <2> QED
    BY <2>3, <2>5, <2>6, <2>7, QuotesArePrices
<1>2. TypeOK /\ OutcomesInOrder /\ [HelpersNext]_<<callersVars, helpersVars>>
          => [Step]_<<callersVars, helpersVars>>
  BY <1>1, HelpersStep
<1>3. QuotesAreCharged <=> [][Step]_<<callersVars, helpersVars>>
  BY DEF QuotesAreCharged
<1> QED
  BY <1>2, <1>3, ProtocolWithHelper, TypesAndOutcomes, PTL DEF HelpersSpec

------------------------------------------------------------------------------
(* Valid orders are accepted.                                                *)

\* No require and no token call of matchOrder, paid for in the asset, fails.
Accepted(taker, order) ==
    /\ MatchRequires(order, 0)
    /\ CanPull(balanceOf, allowance, order.asset, taker, TakerPrice(order))
    /\ CanPull(Moved(balanceOf, order.asset, taker, Protocol, TakerPrice(order)),
               Spent(allowance, order.asset, taker, TakerPrice(order)),
               order.asset, order.maker, MakerPrice(order))

\* These conditions are sufficient: with them and the effects of the call there is a step.
LEMMA SufficientToMatch ==
    ASSUME TypeOK, NEW taker \in Users, NEW order \in Orders, Accepted(taker, order),
           RecordMatch(taker, order),
           balanceOf' = Moved(Moved(balanceOf, order.asset, taker, Protocol, TakerPrice(order)),
                              order.asset, order.maker, Protocol, MakerPrice(order)),
           allowance' = Spent(Spent(allowance, order.asset, taker, TakerPrice(order)),
                              order.asset, order.maker, MakerPrice(order)),
           UNCHANGED <<ether, now, ownerVars, settledContracts, reclaimedContracts,
                       claimableTokenId, revocationVars, boughtSellOrders, erc721Vars>>
    PROVE  MatchOrder(taker, order, 0)
<1>1. ether \in [Users -> Nat]
  BY DEF TypeOK, TokenTypeOK
<1>2. ether' = [ether EXCEPT ![taker] = @ - 0]
  BY <1>1
<1>3. CollectPayments(taker, order, 0)
  <2>1. ~(0 > 0)
    OBVIOUS
  <2> QED
    BY <1>2, <2>1, Zenon DEF CollectPayments, PullFromMaker, Accepted
<1> QED
  BY <1>3 DEF MatchOrder, Accepted

\* When the helper says an order is valid and quotes the taker a price the taker can
\* pay, matchOrder does not revert: it needs no more of maker and taker than the two
\* quotes, and no sum it computes is larger than what exists of the asset.
ValidOrdersAreAccepted ==
    \A order \in Orders, taker \in Users :
        /\ Answers(IsValidOrder(order))
        /\ taker # order.maker
        /\ QuoteFits(TakerPrincipal(order))
        /\ CanPay(taker, order.asset, GetTakerPrice(order))
        => Accepted(taker, order)

\* The fees booked by matchOrder fit a uint256 with those that wait to be withdrawn:
\* they are part of what maker, taker and protocol own.
LEMMA BookedFeesFit ==
    ASSUME TypeOK, Solvent, SupplyFits, NEW order \in Orders, NEW taker \in Users,
           taker # order.maker,
           balanceOf[order.asset][taker] >= TakerPrice(order),
           balanceOf[order.asset][order.maker] >= MakerPrice(order)
    PROVE  withdrawableFees[order.asset] + BullFees(order) + BearFees(order) <= MaxUint
<1> DEFINE a == order.asset
           maker == order.maker
<1>1. /\ a \in Assets /\ maker \in Accounts /\ taker \in Accounts /\ Protocol \in Accounts
      /\ maker # Protocol /\ taker # Protocol
      /\ BullFees(order) \in Nat /\ BearFees(order) \in Nat
      /\ TakerPrice(order) \in Nat /\ MakerPrice(order) \in Nat /\ Stake(order) \in Nat
  BY PriceTypes, StakeType, AccountsAssumption DEF Accounts
<1>2. balanceOf[a][maker] + balanceOf[a][taker] + balanceOf[a][Protocol] <= MaxUint
  BY <1>1, ThreeBalancesWithinSupply
<1>3. BullFees(order) + BearFees(order) <= TakerPrice(order) + MakerPrice(order)
  BY <1>1, PricesAreStakeAndFees
<1>4. withdrawableFees[a] <= balanceOf[a][Protocol]
  <2>1. Locked(a) \in Nat
    <3>1. LiveOn(a) \in SUBSET Orders
      BY DEF LiveOn, LiveContracts, TypeOK, ProtocolTypeOK
    <3> QED
      BY <3>1, EscrowType DEF Locked, LiveOn
  <2> QED
    BY <1>1, <2>1, AmountTypes DEF Solvent
<1>5. /\ balanceOf[a][maker] \in Nat /\ balanceOf[a][taker] \in Nat
      /\ balanceOf[a][Protocol] \in Nat /\ withdrawableFees[a] \in Nat /\ MaxUint \in Nat
  BY <1>1, AmountTypes, AssetsAssumption
<1> QED
  BY <1>1, <1>2, <1>3, <1>4, <1>5

\* What the helper finds valid is accepted, in every reachable state.
THEOREM ValidOrdersAreAlwaysAccepted == HelpersSpec => []ValidOrdersAreAccepted
<1>1. TypeOK /\ Solvent /\ SupplyFits => ValidOrdersAreAccepted
  <2> SUFFICES ASSUME TypeOK, Solvent, SupplyFits, NEW order \in Orders, NEW taker \in Users,
                      Answers(IsValidOrder(order)), taker # order.maker,
                      QuoteFits(TakerPrincipal(order)),
                      CanPay(taker, order.asset, GetTakerPrice(order))
               PROVE  Accepted(taker, order)
    BY DEF ValidOrdersAreAccepted
  <2> DEFINE a == order.asset
             maker == order.maker
             takes == TakerPrice(order)
             makes == MakerPrice(order)
  <2>1. /\ a \in Assets /\ maker \in Users /\ takes \in Nat /\ makes \in Nat
        /\ maker \in Accounts /\ taker \in Accounts /\ Protocol \in Accounts
        /\ maker # Protocol
        /\ order.isBull \in BOOLEAN
    BY PriceTypes, AccountsAssumption DEF Accounts, OrderType
  <2>2. /\ CheckIsValidOrder(order)
        /\ QuoteFits(MakerPrincipal(order)) /\ QuoteFits(TakerPrincipal(order))
        /\ balanceOf[a][maker] >= makes /\ allowance[a][maker] >= makes
        /\ balanceOf[a][taker] >= takes /\ allowance[a][taker] >= takes
    BY QuotesArePrices
       DEF Answers, IsValidOrder, RequireIsValidOrder, HasAllowanceOrder, CanPay, CanPull
  <2>3. /\ order.collateral * fee <= MaxUint /\ order.premium * fee <= MaxUint
        /\ BullPrice(order) <= MaxUint /\ BearPrice(order) <= MaxUint
    <3>1. /\ QuoteFits(order.collateral) /\ QuoteFits(order.premium)
      BY <2>1, <2>2 DEF MakerPrincipal, TakerPrincipal
    <3> QED
      BY <3>1 DEF QuoteFits, WithFee, BullPrice, BearPrice, BullFees, BearFees
  <2>4. withdrawableFees[a] + BullFees(order) + BearFees(order) <= MaxUint
    BY <2>2, BookedFeesFit
  <2>5. MatchRequires(order, 0)
    BY <2>2, <2>3, <2>4 DEF MatchRequires, PricesFit
  <2> HIDE DEF a, maker, takes, makes
  <2>6. Moved(balanceOf, a, taker, Protocol, takes)[a][maker] = balanceOf[a][maker]
    <3>1. balanceOf \in Balances /\ balanceOf[a][maker] \in Nat
      BY <2>1 DEF TypeOK, TokenTypeOK, Balances
    <3>2. \A b \in Assets, x \in Accounts :
             Moved(balanceOf, a, taker, Protocol, takes)[b][x]
                 = balanceOf[b][x] - Part(b, x, a, taker, takes)
                                   + Part(b, x, a, Protocol, takes)
      BY <2>1, <3>1, MovedEffect
    <3>3. Part(a, maker, a, taker, takes) = 0 /\ Part(a, maker, a, Protocol, takes) = 0
      BY <2>1 DEF Part, maker
    <3> QED
      BY <2>1, <3>1, <3>2, <3>3
  <2>7. Spent(allowance, a, taker, takes)[a][maker] = allowance[a][maker]
    BY <2>1 DEF Spent, TypeOK, TokenTypeOK, maker
  <2>8. /\ CanPull(balanceOf, allowance, a, taker, takes)
        /\ CanPull(Moved(balanceOf, a, taker, Protocol, takes),
                   Spent(allowance, a, taker, takes), a, maker, makes)
    BY <2>2, <2>6, <2>7 DEF CanPull
  <2> QED
    BY <2>5, <2>8 DEF Accepted, a, maker, takes, makes
<1>2. Spec => [](TypeOK /\ Solvent /\ SupplyFits)
  BY TypeCorrect, AlwaysSolvent, SupplyAlwaysFits, PTL
<1> QED
  BY <1>1, <1>2, ProtocolWithHelper, PTL

------------------------------------------------------------------------------
(* Answers hold until the maker, the seller or the owner acts.               *)

\* What an order found valid needs in order to be found valid again.
LEMMA ValidStays ==
    ASSUME TypeOK, TypeOK', NEW order \in Orders, IsValidOrder(order),
           UNCHANGED <<now, fee, allowedAsset, allowedCollection>>,
           order \notin matchedOrders', order \notin canceledOrders',
           minimumValidNonce'[order.maker] = minimumValidNonce[order.maker],
           Keeps(order.maker, order.asset)
    PROVE  IsValidOrder(order)'
<1> DEFINE p == GetMakerPrice(order)
<1>1. CheckIsValidOrder(order)'
  BY DEF IsValidOrder, RequireIsValidOrder, CheckIsValidOrder, SignedByMaker, FeeAgreed
<1>2. QuoteFits(MakerPrincipal(order))' /\ GetMakerPrice(order)' = p
  BY DEF IsValidOrder, HasAllowanceOrder, QuoteFits, WithFee, GetMakerPrice, MakerPrincipal
<1>3. /\ order.maker \in Accounts /\ order.maker \in Users /\ order.asset \in Assets
      /\ p \in Int
  BY PriceTypes, QuotesArePrices, OrdersAssumption DEF OrderType, Accounts
<1>4. /\ balanceOf[order.asset][order.maker] \in Nat
      /\ balanceOf'[order.asset][order.maker] \in Nat
  BY <1>3 DEF TypeOK, TokenTypeOK
<1>5. /\ balanceOf[order.asset][order.maker] >= p /\ allowance[order.asset][order.maker] >= p
  BY DEF IsValidOrder, HasAllowanceOrder
<1> HIDE DEF p
<1>6. /\ balanceOf'[order.asset][order.maker] >= p /\ allowance'[order.asset][order.maker] >= p
  BY <1>3, <1>4, <1>5 DEF Keeps
<1> QED
  BY <1>1, <1>2, <1>6 DEF IsValidOrder, RequireIsValidOrder, HasAllowanceOrder

\* A call revokes nothing of another account and uses no order it did not sign.
LEMMA CallsLeaveOrders ==
    ASSUME TypeOK, NEW sender \in Users, CallOf(sender), NEW order \in Orders,
           order.maker # sender, order \notin canceledOrders
    PROVE  /\ order \notin canceledOrders'
           /\ minimumValidNonce'[order.maker] = minimumValidNonce[order.maker]
           /\ order \in matchedOrders' \ matchedOrders => order \in SignedOrders
<1>1. minimumValidNonce \in [Users -> Nat] /\ order.maker \in Users
  BY PriceTypes DEF TypeOK, ProtocolTypeOK
<1>2. ASSUME NEW o \in Orders, NEW value \in Nat, MatchOrder(sender, o, value)
      PROVE  /\ UNCHANGED revocationVars
             /\ matchedOrders' = matchedOrders \cup {o} /\ o \in SignedOrders
  BY <1>2 DEF MatchOrder, MatchRequires, CheckIsValidOrder, SignedByMaker, RecordMatch
<1>3. ASSUME NEW o \in Orders, CancelOrder(sender, o)
      PROVE  /\ canceledOrders' = canceledOrders \cup {o} /\ o # order
             /\ UNCHANGED <<matchedOrders, minimumValidNonce>>
  BY <1>3 DEF CancelOrder, MayCancel, contractVars
<1>4. CASE NonceCallsBy({sender})
  <2>1. /\ UNCHANGED <<matchedOrders, canceledOrders>>
        /\ minimumValidNonce'[order.maker] = minimumValidNonce[order.maker]
    BY <1>1, <1>4 DEF NonceCallsBy, SetMinimumValidNonce, SetMinimumValidNonceSell,
                      contractVars
  <2> QED
    BY <2>1
<1>5. CASE UNCHANGED <<matchedOrders, canceledOrders, minimumValidNonce>>
  BY <1>5
<1>6. \/ \E o \in Orders, value \in Nat : MatchOrder(sender, o, value)
      \/ \E o \in Orders : CancelOrder(sender, o)
      \/ NonceCallsBy({sender})
      \/ UNCHANGED <<matchedOrders, canceledOrders, minimumValidNonce>>
  BY DEF CallOf, SettleContract, ReclaimContract, TransferPosition, BuyPosition,
         CancelSellOrder, OwnerCallsBy, SetAllowedCollection, SetAllowedAsset, SetFee,
         WithdrawFees, TransferOwnership, RenounceOwnership, contractVars, revocationVars,
         protocolVars
<1> QED
  BY <1>2, <1>3, <1>4, <1>5, <1>6 DEF revocationVars

\* Only the owner and the maker take an order off the market without using it, and
\* only who is charged by a call pays.
LEMMA OthersLeaveOrdersValid ==
    ASSUME TypeOK, TypeOK', OutcomesInOrder, [CallersNext]_callersVars, NEW order \in Orders,
           IsValidOrder(order), UNCHANGED <<now, fee, allowedAsset, allowedCollection>>,
           ~MakerActs(order.maker)
    PROVE  IsValidOrder(order)'
<1>1. /\ order.maker \in Users /\ order.asset \in Assets /\ now \in Int
      /\ order \notin matchedOrders /\ order \notin canceledOrders
  BY PriceTypes DEF IsValidOrder, RequireIsValidOrder, CheckIsValidOrder, TypeOK,
                    ProtocolTypeOK
<1>2. CASE UNCHANGED callersVars
  <2>1. /\ UNCHANGED <<matchedOrders, canceledOrders, minimumValidNonce>>
        /\ UNCHANGED <<balanceOf, allowance, ether>>
    BY <1>2 DEF callersVars, vars, protocolVars, tokenVars
  <2>2. Keeps(order.maker, order.asset)
    BY <1>1, <2>1, UnchangedKeeps
  <2> QED
    BY <1>1, <2>1, <2>2, ValidStays
<1>3. ASSUME NEW sender \in Users, CallOf(sender), caller' = sender
      PROVE  IsValidOrder(order)'
  <2>1. sender # order.maker
    BY <1>3 DEF MakerActs
  <2>2. /\ order \notin canceledOrders'
        /\ minimumValidNonce'[order.maker] = minimumValidNonce[order.maker]
        /\ order \in matchedOrders' \ matchedOrders => order \in SignedOrders
    BY <1>1, <1>3, <2>1, CallsLeaveOrders
  <2>3. order \notin matchedOrders'
    BY <1>1, <2>2 DEF MakerActs
  <2>4. ASSUME NEW o \in Orders, NEW value \in Nat, MatchOrder(sender, o, value)
        PROVE  o.maker # order.maker
    <3>1. o \in (matchedOrders' \ matchedOrders) \cap SignedOrders
      BY <2>4 DEF MatchOrder, MatchRequires, CheckIsValidOrder, SignedByMaker, RecordMatch
    <3> QED
      BY <3>1 DEF MakerActs
  <2>5. Keeps(order.maker, order.asset)
    BY <1>1, <1>3, <2>1, <2>4, CallsSpareOthers
  <2> QED
    BY <2>2, <2>3, <2>5, ValidStays
<1>4. ~Tick
  BY <1>1 DEF Tick
<1> QED
  BY <1>2, <1>3, <1>4, CallerCases

\* An order found valid stays valid until time passes, the owner changes fee or
\* lists, or its maker acts.
THEOREM AnswersAreStable == HelpersSpec => AnswersHoldUnlessMakerOrOwnerActs
<1> DEFINE Holds == \A order \in Orders :
              IsValidOrder(order) /\ ~IsValidOrder(order)' =>
                  \/ now' # now
                  \/ <<fee, allowedAsset, allowedCollection>>'
                         # <<fee, allowedAsset, allowedCollection>>
                  \/ MakerActs(order.maker)
<1>1. TypeOK /\ TypeOK' /\ OutcomesInOrder /\ [HelpersNext]_<<callersVars, helpersVars>>
          => [Holds]_<<callersVars, helpersVars>>
  <2>1. TypeOK /\ TypeOK' /\ OutcomesInOrder /\ [CallersNext]_callersVars => Holds
    BY OthersLeaveOrdersValid
  <2>2. UNCHANGED vars => Holds
    BY DEF vars, protocolVars, tokenVars, IsValidOrder, RequireIsValidOrder,
           HasAllowanceOrder,
           CheckIsValidOrder, SignedByMaker, FeeAgreed, QuoteFits, WithFee, GetMakerPrice,
           MakerPrincipal
  <2> HIDE DEF Holds
  <2> QED
    BY <2>1, <2>2, HelpersOnlyRead
<1>2. AnswersHoldUnlessMakerOrOwnerActs <=> [][Holds]_<<callersVars, helpersVars>>
  BY DEF AnswersHoldUnlessMakerOrOwnerActs
<1> HIDE DEF Holds
<1> QED
  BY <1>1, <1>2, ProtocolWithHelper, TypesAndOutcomes, PTL DEF HelpersSpec

\* What a sell order found valid needs in order to be found valid again.
LEMMA SaleStaysValid ==
    ASSUME NEW sellOrder, NEW order, IsValidSellOrder(sellOrder, order), UNCHANGED now,
           bulls'[order] = bulls[order], bears'[order] = bears[order],
           order \notin settledContracts', order \notin reclaimedContracts',
           sellOrder \notin boughtSellOrders', sellOrder \notin canceledSellOrders',
           minimumValidNonceSell'[sellOrder.maker] = minimumValidNonceSell[sellOrder.maker],
           sellOrder.asset \in allowedAsset'
    PROVE  IsValidSellOrder(sellOrder, order)'
BY DEF IsValidSellOrder, CheckIsValidSellOrder, PositionForSale, NotBoughtYet

\* A call cancels no sell order of another account, and uses only signed ones.
LEMMA CallsLeaveSellOrders ==
    ASSUME TypeOK, NEW sender \in Users, CallOf(sender), NEW sellOrder \in SellOrders,
           sellOrder.maker # sender, sellOrder \notin canceledSellOrders
    PROVE  /\ sellOrder \notin canceledSellOrders'
           /\ minimumValidNonceSell'[sellOrder.maker] = minimumValidNonceSell[sellOrder.maker]
           /\ sellOrder \in boughtSellOrders' \ boughtSellOrders => sellOrder \in SignedSellOrders
<1>1. minimumValidNonceSell \in [Users -> Nat] /\ sellOrder.maker \in Users
  BY SellOrderTypes DEF TypeOK, ProtocolTypeOK
<1>2. ASSUME NEW s \in SellOrders, NEW tip \in Nat, NEW value \in Nat,
             BuyPosition(sender, s, tip, value)
      PROVE  /\ UNCHANGED revocationVars
             /\ boughtSellOrders' = boughtSellOrders \cup {s} /\ s \in SignedSellOrders
  BY <1>2 DEF BuyPosition, BuyRequires, CheckIsValidSellOrder, RecordSale
<1>3. ASSUME NEW s \in SellOrders, CancelSellOrder(sender, s)
      PROVE  /\ canceledSellOrders' = canceledSellOrders \cup {s} /\ s # sellOrder
             /\ UNCHANGED <<boughtSellOrders, minimumValidNonceSell>>
  BY <1>3 DEF CancelSellOrder, OwnSellOrder
<1>4. CASE NonceCallsBy({sender})
  <2>1. /\ UNCHANGED <<boughtSellOrders, canceledSellOrders>>
        /\ minimumValidNonceSell'[sellOrder.maker] = minimumValidNonceSell[sellOrder.maker]
    BY <1>1, <1>4 DEF NonceCallsBy, SetMinimumValidNonce, SetMinimumValidNonceSell
  <2> QED
    BY <2>1
<1>5. CASE UNCHANGED <<boughtSellOrders, canceledSellOrders, minimumValidNonceSell>>
  BY <1>5
<1>6. \/ \E s \in SellOrders, tip \in Nat, value \in Nat : BuyPosition(sender, s, tip, value)
      \/ \E s \in SellOrders : CancelSellOrder(sender, s)
      \/ NonceCallsBy({sender})
      \/ UNCHANGED <<boughtSellOrders, canceledSellOrders, minimumValidNonceSell>>
  BY DEF CallOf, MatchOrder, SettleContract, ReclaimContract, TransferPosition,
         CancelOrder,
         OwnerCallsBy, SetAllowedCollection, SetAllowedAsset, SetFee, WithdrawFees,
         TransferOwnership, RenounceOwnership, revocationVars, protocolVars
<1> QED
  BY <1>2, <1>3, <1>4, <1>5, <1>6 DEF revocationVars

\* A call takes no position from an account that neither calls nor signed the sale.
LEMMA CallsLeavePositions ==
    ASSUME TypeOK, OutcomesInOrder, NEW sender \in Users, CallOf(sender), caller' = sender,
           NEW order \in Orders, NEW holder \in Users, holder # sender, ~SellerActs(holder)
    PROVE  /\ bulls[order] = holder => bulls'[order] = holder
           /\ bears[order] = holder => bears'[order] = holder
<1>1. /\ bulls \in [Orders -> Accounts \cup {NoOne}]
      /\ bears \in [Orders -> Accounts \cup {NoOne}] /\ holder # NoOne
  BY CallsAssumption DEF TypeOK, ProtocolTypeOK, Accounts
<1>2. ASSUME NEW o \in Orders, NEW value \in Nat, MatchOrder(sender, o, value)
      PROVE  /\ bulls[order] = holder => bulls'[order] = holder
             /\ bears[order] = holder => bears'[order] = holder
  <2>1. /\ bulls[o] = NoOne /\ bears[o] = NoOne
        /\ \A other \in Orders : other # o => bulls'[other] = bulls[other]
                                               /\ bears'[other] = bears[other]
    BY <1>1, <1>2 DEF MatchOrder, MatchRequires, CheckIsValidOrder, RecordMatch,
                      OutcomesInOrder
  <2> QED
    BY <1>1, <2>1
<1>3. ASSUME NEW o \in Orders, NEW isBull \in BOOLEAN, NEW to \in Accounts,
             TransferPosition(sender, o, isBull, to)
      PROVE  /\ bulls[order] = holder => bulls'[order] = holder
             /\ bears[order] = holder => bears'[order] = holder
  BY <1>1, <1>3 DEF TransferPosition, HoldsPosition
<1>4. ASSUME NEW s \in SellOrders, NEW tip \in Nat, NEW value \in Nat,
             BuyPosition(sender, s, tip, value)
      PROVE  /\ bulls[order] = holder => bulls'[order] = holder
             /\ bears[order] = holder => bears'[order] = holder
  <2>1. /\ s \in (boughtSellOrders' \ boughtSellOrders) \cap SignedSellOrders
        /\ IF s.isBull THEN /\ s.maker = bulls[s.orderHash] /\ bears' = bears
                            /\ bulls' = [bulls EXCEPT ![s.orderHash] = sender]
                       ELSE /\ s.maker = bears[s.orderHash] /\ bulls' = bulls
                            /\ bears' = [bears EXCEPT ![s.orderHash] = sender]
    BY <1>4 DEF BuyPosition, BuyRequires, CheckIsValidSellOrder, NotBoughtYet,
                PositionForSale,
                RecordSale
  <2>2. s.maker # holder
    BY <2>1 DEF SellerActs
  <2> QED
    BY <1>1, <2>1, <2>2
<1>5. \/ \E o \in Orders, value \in Nat : MatchOrder(sender, o, value)
      \/ \E o \in Orders, isBull \in BOOLEAN, to \in Accounts :
            TransferPosition(sender, o, isBull, to)
      \/ \E s \in SellOrders, tip \in Nat, value \in Nat : BuyPosition(sender, s, tip, value)
      \/ UNCHANGED <<bulls, bears>>
  BY DEF CallOf, SettleContract, ReclaimContract, CancelOrder, CancelSellOrder,
         NonceCallsBy,
         SetMinimumValidNonce, SetMinimumValidNonceSell, OwnerCallsBy,
         SetAllowedCollection,
         SetAllowedAsset, SetFee, WithdrawFees, TransferOwnership, RenounceOwnership,
         positionVars, protocolVars
<1> QED
  BY <1>2, <1>3, <1>4, <1>5

\* Nobody but the seller, the owner or the end of the contract takes an offer away.
LEMMA OthersLeaveSalesValid ==
    ASSUME TypeOK, OutcomesInOrder, [CallersNext]_callersVars, NEW sellOrder \in SellOrders,
           NEW order \in Orders, IsValidSellOrder(sellOrder, order), UNCHANGED now,
           sellOrder.asset \notin allowedAsset \ allowedAsset',
           order \notin settledContracts' \cup reclaimedContracts',
           ~SellerActs(sellOrder.maker)
    PROVE  IsValidSellOrder(sellOrder, order)'
<1>1. /\ sellOrder.maker \in Users /\ now \in Int /\ sellOrder.isBull \in BOOLEAN
      /\ sellOrder \notin boughtSellOrders /\ sellOrder \notin canceledSellOrders
      /\ sellOrder.asset \in allowedAsset
      /\ sellOrder.maker = IF sellOrder.isBull THEN bulls[order] ELSE bears[order]
  BY SellOrderTypes
     DEF IsValidSellOrder, CheckIsValidSellOrder, PositionForSale, NotBoughtYet, TypeOK,
         ProtocolTypeOK
<1>2. CASE UNCHANGED callersVars
  BY <1>1, <1>2, SaleStaysValid DEF callersVars, vars, protocolVars
<1>3. ASSUME NEW sender \in Users, CallOf(sender), caller' = sender
      PROVE  IsValidSellOrder(sellOrder, order)'
  <2>1. sender # sellOrder.maker
    BY <1>3 DEF SellerActs
  <2>2. /\ sellOrder \notin canceledSellOrders'
        /\ minimumValidNonceSell'[sellOrder.maker] = minimumValidNonceSell[sellOrder.maker]
        /\ sellOrder \in boughtSellOrders' \ boughtSellOrders => sellOrder \in SignedSellOrders
    BY <1>1, <1>3, <2>1, CallsLeaveSellOrders
  <2>3. sellOrder \notin boughtSellOrders'
    BY <1>1, <2>2 DEF SellerActs
  <2>4. /\ bulls[order] = sellOrder.maker => bulls'[order] = sellOrder.maker
        /\ bears[order] = sellOrder.maker => bears'[order] = sellOrder.maker
    BY <1>1, <1>3, <2>1, CallsLeavePositions
  <2> QED
    BY <1>1, <2>2, <2>3, <2>4
       DEF IsValidSellOrder, CheckIsValidSellOrder, PositionForSale, NotBoughtYet
<1>4. ~Tick
  BY <1>1 DEF Tick
<1> QED
  BY <1>2, <1>3, <1>4, CallerCases

\* A sell order found valid stays valid until time passes, the asset is delisted, the
\* contract ends or the seller acts.
THEOREM SaleAnswersAreStable == HelpersSpec => SaleAnswersHoldUnlessSellerActs
<1> DEFINE Holds == \A sellOrder \in SellOrders, order \in Orders :
              IsValidSellOrder(sellOrder, order) /\ ~IsValidSellOrder(sellOrder, order)' =>
                  \/ now' # now
                  \/ sellOrder.asset \in allowedAsset \ allowedAsset'
                  \/ order \in settledContracts' \cup reclaimedContracts'
                  \/ SellerActs(sellOrder.maker)
<1>1. TypeOK /\ OutcomesInOrder /\ [HelpersNext]_<<callersVars, helpersVars>>
          => [Holds]_<<callersVars, helpersVars>>
  <2>1. TypeOK /\ OutcomesInOrder /\ [CallersNext]_callersVars => Holds
    BY OthersLeaveSalesValid
  <2>2. UNCHANGED vars => Holds
    BY DEF vars, protocolVars, IsValidSellOrder, CheckIsValidSellOrder, PositionForSale,
           NotBoughtYet
  <2> HIDE DEF Holds
  <2> QED
    BY <2>1, <2>2, HelpersOnlyRead
<1>2. SaleAnswersHoldUnlessSellerActs <=> [][Holds]_<<callersVars, helpersVars>>
  BY DEF SaleAnswersHoldUnlessSellerActs
<1> HIDE DEF Holds
<1> QED
  BY <1>1, <1>2, ProtocolWithHelper, TypesAndOutcomes, PTL DEF HelpersSpec
==============================================================================
