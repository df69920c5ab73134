-------------------------- MODULE BvbSolvencyProofs --------------------------
(****************************************************************************)
(* BvbProtocol is solvent: whatever the orders, users and amounts, its       *)
(* balance of every asset covers the fees and all that is in escrow.         *)
(****************************************************************************)
EXTENDS BvbProtocolProofs, FiniteSetTheorems

------------------------------------------------------------------------------
(* Sums of amounts over finite sets (SumFunctionOnSet of the community module   *)
(* Functions): they do not depend on the sequence in which the set is gone      *)
(* through, so that an element can be added, taken out or given another amount. *)

\* g has the sums of f over all subsets of T.
Sums(g, f, T) ==
    /\ g \in [SUBSET T -> Nat]
    /\ g[{}] = 0
    /\ \A S \in SUBSET T : \A x \in S : g[S] = f[x] + g[S \ {x}]

\* Among some subsets of a finite set there is a least one.
LEMMA LeastSet ==
    ASSUME NEW T, IsFiniteSet(T), NEW Sets \in SUBSET (SUBSET T), Sets # {}
    PROVE  \E S \in Sets : \A R \in Sets : R \subseteq S => R = S
<1>1. IsWellFoundedOn(StrictSubsetOrdering(T), SUBSET T)
  BY FS_StrictSubsetOrderingWellFounded, FS_FiniteSubsetsOfFinite
<1>2. PICK S \in Sets : \A R \in Sets : ~ (<<R, S>> \in StrictSubsetOrdering(T))
  BY <1>1, WFMin
<1>3. ASSUME NEW R \in Sets, R \subseteq S, R # S PROVE FALSE
  BY <1>2, <1>3 DEF StrictSubsetOrdering
<1> QED
  BY <1>3

\* Amounts can be summed over the subsets of a finite set, in any sequence.
LEMMA SumsExist ==
    ASSUME NEW T, IsFiniteSet(T), NEW f, \A x \in T : f[x] \in Nat
    PROVE  \E g : Sums(g, f, T)
<1> DEFINE Bad == {R \in SUBSET T : ~\E g : Sums(g, f, R)}
<1>1. ASSUME Bad # {} PROVE FALSE
  <2>1. PICK R \in Bad : \A Q \in Bad : Q \subseteq R => Q = R
    <3>1. Bad \in SUBSET (SUBSET T)
      OBVIOUS
    <3> HIDE DEF Bad
    <3> QED
      BY <1>1, <3>1, LeastSet
  <2>2. R \in SUBSET T /\ ~\E g : Sums(g, f, R)
    BY <2>1
  <2>3. R # {}
    <3>1. ASSUME R = {} PROVE FALSE
      <4> DEFINE g == [S \in SUBSET {} |-> 0]
      <4>1. Sums(g, f, {})
        BY DEF Sums
      <4> QED
        BY <2>2, <3>1, <4>1
    <3> QED
      BY <3>1
  <2>4. PICK new \in R : TRUE
    BY <2>3
  <2> DEFINE Rest == R \ {new}
  <2>5. PICK g : Sums(g, f, Rest)
    <3>1. Rest \in SUBSET T /\ Rest # R /\ Rest \subseteq R
      BY <2>2, <2>4
    <3>2. Rest \notin Bad
      BY <2>1, <3>1
    <3> QED
      BY <3>1, <3>2
  <2> DEFINE h == [S \in SUBSET R |-> IF new \in S THEN f[new] + g[S \ {new}] ELSE g[S]]
  <2>6. \A S \in SUBSET R : S \ {new} \in SUBSET Rest /\ (new \notin S => S \in SUBSET Rest)
    OBVIOUS
  <2>7. h \in [SUBSET R -> Nat]
    BY <2>2, <2>4, <2>5, <2>6 DEF Sums
  <2>8. h[{}] = 0
    BY <2>5 DEF Sums
  <2>9. ASSUME NEW S \in SUBSET R, NEW x \in S
        PROVE  h[S] = f[x] + h[S \ {x}]
    <3> DEFINE less == S \ {x}
    <3>1. less \in SUBSET R /\ f[x] \in Nat /\ f[new] \in Nat
      BY <2>2, <2>4, <2>9
    <3>2. CASE new = x
      <4>1. h[S] = f[new] + g[S \ {new}]
        BY <3>2
      <4>2. h[less] = g[S \ {new}]
        BY <3>1, <3>2
      <4> QED
        BY <3>2, <4>1, <4>2
    <3>3. CASE new \notin S
      <4>1. h[S] = g[S] /\ h[less] = g[less]
        BY <3>1, <3>3
      <4>2. g[S] = f[x] + g[less]
        BY <2>5, <2>6, <3>3 DEF Sums
      <4> QED
        BY <4>1, <4>2
    <3>4. CASE new \in S /\ new # x
      <4> DEFINE both == (S \ {new}) \ {x}
      <4>1. h[S] = f[new] + g[S \ {new}]
        BY <3>4
      <4>2. h[less] = f[new] + g[both]
        <5>1. less \ {new} = both /\ new \in less
          BY <3>4
        <5> QED
          BY <3>1, <5>1
      <4>3. g[S \ {new}] = f[x] + g[both]
        BY <2>5, <2>6, <3>4 DEF Sums
      <4>4. g[both] \in Nat
        BY <2>5, <2>6 DEF Sums
      <4> QED
        BY <3>1, <4>1, <4>2, <4>3, <4>4
    <3> QED
      BY <3>2, <3>3, <3>4
  <2>10. Sums(h, f, R)
    <3> HIDE DEF h
    <3> QED
      BY <2>7, <2>8, <2>9 DEF Sums
  <2> QED
    BY <2>2, <2>10
<1>2. T \notin Bad
  BY <1>1
<1> QED
  BY <1>2

\* The equation that defines a sum.
SumEquation(g, f, T) ==
    [S \in SUBSET T |->
        IF S = {} THEN 0
        ELSE f[CHOOSE x \in S : TRUE] + g[S \ {CHOOSE x \in S : TRUE}]]

\* SumFunctionOnSet is the value of some function that satisfies this equation.
LEMMA SumIsChosen ==
    ASSUME NEW f, NEW T
    PROVE  SumFunctionOnSet(f, T) = (CHOOSE g : g = SumEquation(g, f, T))[T]
BY DEF SumFunctionOnSet, FoldFunctionOnSet, MapThenFoldSet, SumEquation

\* A function that has the sums satisfies the equation, and one that satisfies it for T
\* agrees with the sums of a larger set.
LEMMA SumsSatisfyEquation ==
    ASSUME NEW T, NEW f, NEW g, Sums(g, f, T)
    PROVE  g = SumEquation(g, f, T)
<1>1. ASSUME NEW S \in SUBSET T PROVE g[S] = SumEquation(g, f, T)[S]
  <2>1. CASE S = {}
    BY <2>1 DEF Sums, SumEquation
  <2>2. CASE S # {}
    <3> DEFINE x == CHOOSE x \in S : TRUE
    <3>1. x \in S
      BY <2>2
    <3>2. g[S] = f[x] + g[S \ {x}]
      BY <3>1 DEF Sums
    <3> QED
      BY <2>2, <3>2 DEF SumEquation
  <2> QED
    BY <2>1, <2>2
<1>2. g \in [SUBSET T -> Nat]
  BY DEF Sums
<1> QED
  BY <1>1, <1>2 DEF SumEquation

\* A solution of the equation for a part of a finite set has the sums.
LEMMA EquationHasOneSolution ==
    ASSUME NEW T, IsFiniteSet(T), NEW R \in SUBSET T, NEW f, NEW g, Sums(g, f, T),
           NEW h, h = SumEquation(h, f, R)
    PROVE  \A S \in SUBSET R : h[S] = g[S]
<1> DEFINE Bad == {S \in SUBSET R : h[S] # g[S]}
<1>1. ASSUME Bad # {} PROVE FALSE
  <2>1. PICK S \in Bad : \A Q \in Bad : Q \subseteq S => Q = S
    <3>1. Bad \in SUBSET (SUBSET T)
      OBVIOUS
    <3> HIDE DEF Bad
    <3> QED
      BY <1>1, <3>1, LeastSet
  <2>2. S \in SUBSET R /\ S \in SUBSET T /\ h[S] # g[S]
    BY <2>1
  <2>3. h[S] = SumEquation(h, f, R)[S]
    OBVIOUS
  <2>4. S # {}
    BY <2>2, <2>3 DEF SumEquation, Sums
  <2> DEFINE x == CHOOSE x \in S : TRUE
             rest == S \ {x}
  <2>5. x \in S
    BY <2>4
  <2>6. h[S] = f[x] + h[rest]
    BY <2>2, <2>3, <2>4 DEF SumEquation
  <2>7. g[S] = f[x] + g[rest]
    BY <2>2, <2>5 DEF Sums
  <2>8. rest \in SUBSET R /\ rest \subseteq S /\ rest # S
    BY <2>2, <2>5
  <2>9. h[rest] = g[rest]
    <3> HIDE DEF rest
    <3>1. rest \notin Bad
      BY <2>1, <2>8
    <3> QED
      BY <2>8, <3>1
  <2> QED
    BY <2>2, <2>6, <2>7, <2>9
<1> QED
  BY <1>1

\* The sum over any part of T is what a function that has the sums says.
LEMMA SumOfPart ==
    ASSUME NEW T, IsFiniteSet(T), NEW R \in SUBSET T, NEW f, NEW g, Sums(g, f, T)
    PROVE  SumFunctionOnSet(f, R) = g[R]
<1> DEFINE h == CHOOSE h : h = SumEquation(h, f, R)
           part == [S \in SUBSET R |-> g[S]]
<1>1. Sums(part, f, R)
  <2>1. \A S \in SUBSET R : S \in SUBSET T /\ part[S] = g[S]
    OBVIOUS
  <2>2. part \in [SUBSET R -> Nat] /\ part[{}] = 0
    BY <2>1 DEF Sums
  <2>3. ASSUME NEW S \in SUBSET R, NEW x \in S PROVE part[S] = f[x] + part[S \ {x}]
    BY <2>1, <2>3 DEF Sums
  <2> HIDE DEF part
  <2> QED
    BY <2>2, <2>3 DEF Sums
<1>2. h = SumEquation(h, f, R)
  <2>1. part = SumEquation(part, f, R)
    <3> HIDE DEF part
    <3> QED
      BY <1>1, SumsSatisfyEquation
  <2> HIDE DEF part
  <2> QED
    BY <2>1
<1>3. h[R] = g[R]
  <2> HIDE DEF h
  <2> QED
    BY <1>2, EquationHasOneSolution
<1> QED
  BY <1>3, SumIsChosen

------------------------------------------------------------------------------
(* What the other modules use.                                               *)

\* A sum of amounts is an amount.
LEMMA SumType ==
    ASSUME NEW T, IsFiniteSet(T), NEW f, \A x \in T : f[x] \in Nat
    PROVE  SumFunctionOnSet(f, T) \in Nat
<1>1. PICK g : Sums(g, f, T)
  BY SumsExist
<1>2. SumFunctionOnSet(f, T) = g[T]
  BY <1>1, SumOfPart
<1> QED
  BY <1>1, <1>2 DEF Sums

\* Nothing sums to 0.
LEMMA SumOfNothing ==
    ASSUME NEW f
    PROVE  SumFunctionOnSet(f, {}) = 0
<1>1. IsFiniteSet({})
  BY FS_EmptySet
<1>2. PICK g : Sums(g, f, {})
  BY <1>1, SumsExist
<1>3. SumFunctionOnSet(f, {}) = g[{}]
  BY <1>1, <1>2, SumOfPart
<1> QED
  BY <1>2, <1>3 DEF Sums

\* One element contributes its amount.
LEMMA SumWithout ==
    ASSUME NEW T, IsFiniteSet(T), NEW f, \A x \in T : f[x] \in Nat, NEW x \in T
    PROVE  SumFunctionOnSet(f, T) = f[x] + SumFunctionOnSet(f, T \ {x})
<1>1. PICK g : Sums(g, f, T)
  BY SumsExist
<1>2. T \ {x} \in SUBSET T /\ T \in SUBSET T
  OBVIOUS
<1>3. SumFunctionOnSet(f, T \ {x}) = g[T \ {x}] /\ SumFunctionOnSet(f, T) = g[T]
  BY <1>1, <1>2, SumOfPart
<1> QED
  BY <1>1, <1>2, <1>3 DEF Sums

\* Only the amounts of the set matter.
LEMMA SumOfSame ==
    ASSUME NEW T, IsFiniteSet(T), NEW f, NEW g, \A x \in T : f[x] \in Nat,
           \A x \in T : g[x] = f[x]
    PROVE  SumFunctionOnSet(g, T) = SumFunctionOnSet(f, T)
<1>1. PICK s : Sums(s, f, T)
  BY SumsExist
<1>2. Sums(s, g, T)
  BY <1>1 DEF Sums
<1> QED
  BY <1>1, <1>2, SumOfPart

\* When one amount changes the sum changes by as much.
LEMMA SumUpdate ==
    ASSUME NEW T, IsFiniteSet(T), NEW f, NEW g, \A x \in T : f[x] \in Nat, NEW x \in T,
           g[x] \in Nat, \A y \in T : y # x => g[y] = f[y]
    PROVE  SumFunctionOnSet(g, T) + f[x] = SumFunctionOnSet(f, T) + g[x]
<1> DEFINE Rest == T \ {x}
<1>1. IsFiniteSet(Rest) /\ \A y \in T : g[y] \in Nat
  BY FS_RemoveElement
<1>2. SumFunctionOnSet(g, Rest) = SumFunctionOnSet(f, Rest)
  BY <1>1, SumOfSame
<1>3. SumFunctionOnSet(f, Rest) \in Nat
  BY <1>1, SumType
<1>4. /\ SumFunctionOnSet(f, T) = f[x] + SumFunctionOnSet(f, Rest)
      /\ SumFunctionOnSet(g, T) = g[x] + SumFunctionOnSet(g, Rest)
  BY <1>1, SumWithout
<1> QED
  BY <1>2, <1>3, <1>4

------------------------------------------------------------------------------
(* Escrow, the sum of the stakes of a set of orders.                         *)

\* The stake of an order is a number.
LEMMA StakeType == \A order \in Orders : Stake(order) \in Nat
BY OrdersAssumption, AssetsAssumption DEF OrderType, Stake

\* The amounts that Escrow sums up, over a finite set.
LEMMA StakesAreSummable ==
    ASSUME NEW S \in SUBSET Orders
    PROVE  /\ IsFiniteSet(S)
           /\ \A order \in S : /\ [o \in Orders |-> Stake(o)][order] \in Nat
                              /\ [o \in Orders |-> Stake(o)][order] = Stake(order)
<1>1. IsFiniteSet(S)
  BY OrdersAssumption, FS_Subset
<1> QED
  BY <1>1, StakeType

\* Escrow of a set of orders is a number.
LEMMA EscrowType == ASSUME NEW S \in SUBSET Orders PROVE Escrow(S) \in Nat
<1> DEFINE stakes == [o \in Orders |-> Stake(o)]
<1>1. IsFiniteSet(S) /\ \A order \in S : stakes[order] \in Nat
  BY StakesAreSummable
<1>2. SumFunctionOnSet(stakes, S) \in Nat
  <2> HIDE DEF stakes
  <2> QED
    BY <1>1, SumType
<1> QED
  BY <1>2 DEF Escrow

\* Taking an order out of a set takes its stake off the sum.
LEMMA EscrowRemove ==
    ASSUME NEW S \in SUBSET Orders, NEW order \in S
    PROVE  Escrow(S) = Escrow(S \ {order}) + Stake(order)
<1> DEFINE stakes == [o \in Orders |-> Stake(o)]
<1>1. /\ IsFiniteSet(S) /\ \A o \in S : stakes[o] \in Nat
      /\ stakes[order] = Stake(order)
  BY StakesAreSummable
<1>2. SumFunctionOnSet(stakes, S) = stakes[order] + SumFunctionOnSet(stakes, S \ {order})
  <2> HIDE DEF stakes
  <2> QED
    BY <1>1, SumWithout
<1>3. Escrow(S \ {order}) \in Nat /\ Stake(order) \in Nat
  BY EscrowType, StakeType
<1> QED
  BY <1>1, <1>2, <1>3 DEF Escrow

\* Adding an order adds its stake.
LEMMA EscrowAdd ==
    ASSUME NEW S \in SUBSET Orders, NEW order \in Orders, order \notin S
    PROVE  Escrow(S \cup {order}) = Escrow(S) + Stake(order)
<1>1. S \cup {order} \in SUBSET Orders /\ (S \cup {order}) \ {order} = S
  OBVIOUS
<1> QED
  BY <1>1, EscrowRemove

\* Nothing is held for no contracts.
LEMMA EscrowOfNothing == Escrow({}) = 0
BY SumOfNothing DEF Escrow

------------------------------------------------------------------------------
(* What a transfer does to the protocol's own balance.                       *)

\* A payment by a user adds to it what was paid.
LEMMA PaidIn ==
    ASSUME NEW bal \in Balances, NEW asset \in Assets, NEW from \in Users, NEW n \in Nat,
           NEW a \in Assets
    PROVE  Moved(bal, asset, from, Protocol, n)[a][Protocol]
               = IF a = asset THEN bal[a][Protocol] + n ELSE bal[a][Protocol]
BY AccountsAssumption DEF Balances, Accounts, Moved

\* A payment to somebody else takes from it what was paid, one to itself nothing.
LEMMA PaidOut ==
    ASSUME NEW bal \in Balances, NEW asset \in Assets, NEW to \in Accounts, NEW n \in Nat,
           NEW a \in Assets
    PROVE  Moved(bal, asset, Protocol, to, n)[a][Protocol]
               = IF a = asset /\ to # Protocol THEN bal[a][Protocol] - n ELSE bal[a][Protocol]
BY AccountsAssumption DEF Balances, Accounts, Moved

\* A payment between users does not concern it, and one a user makes to it adds to it.
LEMMA PaidByUser ==
    ASSUME NEW bal \in Balances, NEW asset \in Assets, NEW from \in Users,
           NEW to \in Accounts, NEW n \in Nat, NEW a \in Assets
    PROVE  Moved(bal, asset, from, to, n)[a][Protocol]
               = IF a = asset /\ to = Protocol THEN bal[a][Protocol] + n ELSE bal[a][Protocol]
BY AccountsAssumption DEF Balances, Accounts, Moved

\* Minting to an account concerns that account only.
LEMMA MintedTo ==
    ASSUME NEW bal \in Balances, NEW asset \in Assets, NEW to \in Accounts, NEW n \in Nat,
           NEW a \in Assets
    PROVE  Minted(bal, asset, to, n)[a][Protocol]
               = IF a = asset /\ to = Protocol THEN bal[a][Protocol] + n ELSE bal[a][Protocol]
BY AccountsAssumption DEF Balances, Accounts, Minted

\* matchOrder collects both prices: the stake and the fees, in the order's asset.
LEMMA CollectedPayments ==
    ASSUME TypeOK, NEW taker \in Users, NEW order \in Orders, NEW value \in Nat,
           value > 0 => value = TakerPrice(order) /\ order.asset = WETH,
           CollectPayments(taker, order, value), NEW a \in Assets
    PROVE  balanceOf'[a][Protocol]
               = IF a = order.asset
                 THEN balanceOf[a][Protocol] + TakerPrice(order) + MakerPrice(order)
                 ELSE balanceOf[a][Protocol]
<1> DEFINE price == TakerPrice(order)
           afterTaker == IF value > 0 THEN Minted(balanceOf, WETH, Protocol, value)
                         ELSE Moved(balanceOf, order.asset, taker, Protocol, price)
<1>1. /\ order.maker \in Users /\ order.asset \in Assets
      /\ price \in Nat /\ MakerPrice(order) \in Nat
  BY PriceTypes
<1>2. /\ taker \in Accounts /\ Protocol \in Accounts /\ WETH \in Assets
      /\ balanceOf \in Balances
  BY AssetsAssumption DEF Accounts, TypeOK, TokenTypeOK, Balances
<1>3. /\ afterTaker \in Balances
      /\ afterTaker[a][Protocol] = IF a = order.asset THEN balanceOf[a][Protocol] + price
                                   ELSE balanceOf[a][Protocol]
  <2>1. CASE value > 0
    <3>1. order.asset = WETH /\ value = price
      BY <2>1
    <3>2. Minted(balanceOf, WETH, Protocol, value) \in Balances
      BY <1>2, MintedType
    <3>3. Minted(balanceOf, WETH, Protocol, value)[a][Protocol]
              = IF a = WETH THEN balanceOf[a][Protocol] + value ELSE balanceOf[a][Protocol]
      BY <1>2, MintedTo
    <3> HIDE DEF price
    <3> QED
      BY <2>1, <3>1, <3>2, <3>3
  <2>2. CASE ~(value > 0)
    <3>1. CanPull(balanceOf, allowance, order.asset, taker, price)
      BY <2>2 DEF CollectPayments, PullFromMaker
    <3> QED
      BY <1>1, <1>2, <2>2, <3>1, MovedType, PaidIn DEF CanPull
  <2> QED
    BY <2>1, <2>2
<1>4. balanceOf' = Moved(afterTaker, order.asset, order.maker, Protocol, MakerPrice(order))
  BY DEF CollectPayments, PullFromMaker
<1>5. balanceOf[a][Protocol] \in Nat
  BY <1>2 DEF Balances
<1> QED
  <2> HIDE DEF afterTaker, price
  <2>1. balanceOf'[a][Protocol] = IF a = order.asset
                                  THEN afterTaker[a][Protocol] + MakerPrice(order)
                                  ELSE afterTaker[a][Protocol]
    BY <1>1, <1>3, <1>4, PaidIn
  <2>2. CASE a = order.asset
    BY <1>3, <2>1, <2>2 DEF price
  <2>3. CASE a # order.asset
    BY <1>3, <2>1, <2>3
  <2> QED
    BY <2>2, <2>3

------------------------------------------------------------------------------
(* What the protocol holds for nobody, and solvency.                         *)

\* The live contracts on an asset.
LiveOn(asset) == {order \in LiveContracts : order.asset = asset}

\* The surplus of an asset does not change, or it grows by a gift to the protocol.
RaisedByGift(asset) ==
    \/ Surplus(asset)' = Surplus(asset)
    \/ Surplus(asset)' > Surplus(asset) /\ GivenToProtocol(asset)

\* The two prices of an order are its stake and the fees on it.
LEMMA PricesAreStakeAndFees ==
    ASSUME TypeOK, NEW order \in Orders
    PROVE  TakerPrice(order) + MakerPrice(order)
               = Stake(order) + BullFees(order) + BearFees(order)
<1>1. order.premium \in Nat /\ order.collateral \in Nat /\ order.isBull \in BOOLEAN
  BY OrdersAssumption, AssetsAssumption DEF OrderType
<1>2. BullFees(order) \in Nat /\ BearFees(order) \in Nat
  BY PriceTypes
<1> QED
  BY <1>1, <1>2 DEF TakerPrice, MakerPrice, BullPrice, BearPrice, Stake

\* The surplus is what is left of a balance when the fees and the stakes are taken off.
LEMMA SurplusParts ==
    ASSUME TypeOK, NEW a \in Assets
    PROVE  /\ balanceOf[a][Protocol] \in Nat /\ withdrawableFees[a] \in Nat
           /\ LiveOn(a) \in SUBSET Orders /\ Escrow(LiveOn(a)) \in Nat
           /\ Surplus(a) = balanceOf[a][Protocol] - withdrawableFees[a] - Escrow(LiveOn(a))
           /\ Surplus(a) \in Int
<1>1. balanceOf[a][Protocol] \in Nat /\ withdrawableFees[a] \in Nat
  BY AssetsAssumption DEF TypeOK, TokenTypeOK, ProtocolTypeOK, Accounts
<1>2. LiveOn(a) \in SUBSET Orders
  BY DEF LiveOn, LiveContracts, TypeOK, ProtocolTypeOK
<1>3. Escrow(LiveOn(a)) \in Nat
  BY <1>2, EscrowType
<1>4. Surplus(a) = balanceOf[a][Protocol] - withdrawableFees[a] - Escrow(LiveOn(a))
  BY DEF Surplus, Locked, LiveOn
<1> QED
  BY <1>1, <1>2, <1>3, <1>4

\* The same of the state after a step.
LEMMA SurplusPartsAfter ==
    ASSUME TypeOK', NEW a \in Assets
    PROVE  /\ balanceOf'[a][Protocol] \in Nat /\ withdrawableFees'[a] \in Nat
           /\ Surplus(a)' = balanceOf'[a][Protocol] - withdrawableFees'[a] - Escrow(LiveOn(a)')
           /\ Surplus(a)' \in Int
<1>1. balanceOf'[a][Protocol] \in Nat /\ withdrawableFees'[a] \in Nat
  BY AssetsAssumption DEF TypeOK, TokenTypeOK, ProtocolTypeOK, Accounts
<1>2. LiveOn(a)' \in SUBSET Orders
  BY DEF LiveOn, LiveContracts, TypeOK, ProtocolTypeOK
<1>3. Escrow(LiveOn(a)') \in Nat
  BY <1>2, EscrowType
<1>4. Surplus(a)' = balanceOf'[a][Protocol] - withdrawableFees'[a] - Escrow(LiveOn(a)')
  BY DEF Surplus, Locked, LiveOn, Escrow
<1> QED
  BY <1>1, <1>2, <1>3, <1>4

\* A protocol is solvent when no asset has a negative surplus.
LEMMA SolventMeansNoDeficit ==
    ASSUME TypeOK PROVE Solvent <=> \A a \in Assets : Surplus(a) >= 0
<1>1. ASSUME NEW a \in Assets
      PROVE  balanceOf[a][Protocol] >= withdrawableFees[a] + Locked(a) <=> Surplus(a) >= 0
  <2>1. /\ balanceOf[a][Protocol] \in Nat /\ withdrawableFees[a] \in Nat
        /\ Escrow(LiveOn(a)) \in Nat
        /\ Surplus(a) = balanceOf[a][Protocol] - withdrawableFees[a] - Escrow(LiveOn(a))
    BY SurplusParts
  <2>2. Locked(a) = Escrow(LiveOn(a))
    BY DEF Locked, LiveOn
  <2> QED
    BY <2>1, <2>2
<1> QED
  BY <1>1 DEF Solvent

\* When a contract ends its stake leaves the balance and the books alike, unless the
\* protocol pays itself.
LEMMA PayingOneStake ==
    ASSUME TypeOK, TypeOK', NEW order \in LiveContracts, NEW winner \in Accounts,
           PayStake(order, winner),
           LiveContracts' = LiveContracts \ {order}, UNCHANGED withdrawableFees,
           NEW a \in Assets
    PROVE  Surplus(a)' = IF a = order.asset /\ winner = Protocol
                         THEN Surplus(a) + Stake(order) ELSE Surplus(a)
<1>1. /\ order \in Orders /\ balanceOf \in Balances /\ Stake(order) \in Nat
      /\ order.asset \in Assets
  BY StakeType, PriceTypes DEF LiveContracts, TypeOK, TokenTypeOK, ProtocolTypeOK, Balances
<1>2. balanceOf'[a][Protocol] = IF a = order.asset /\ winner # Protocol
                                THEN balanceOf[a][Protocol] - Stake(order)
                                ELSE balanceOf[a][Protocol]
  BY <1>1, PaidOut DEF PayStake
<1>3. CASE a = order.asset
  <2>1. LiveOn(a)' = LiveOn(a) \ {order} /\ order \in LiveOn(a)
    BY <1>3 DEF LiveOn
  <2>2. Escrow(LiveOn(a)) = Escrow(LiveOn(a)') + Stake(order)
    BY <2>1, SurplusParts, EscrowRemove
  <2>3. LiveOn(a)' \in SUBSET Orders
    BY <2>1, SurplusParts
  <2>4. Escrow(LiveOn(a)') \in Nat
    BY <2>3, EscrowType
  <2> QED
    BY <1>1, <1>2, <1>3, <2>2, <2>4, SurplusParts, SurplusPartsAfter
<1>4. CASE a # order.asset
  <2>1. LiveOn(a)' = LiveOn(a)
    BY <1>4 DEF LiveOn
  <2> QED
    BY <1>2, <1>4, <2>1, SurplusParts, SurplusPartsAfter
<1> QED
  BY <1>3, <1>4

\* A step that neither starts nor ends a contract nor touches the fees moves the surplus
\* as it moves the balance.
LEMMA OnlyTheBalanceMoves ==
    ASSUME TypeOK, TypeOK', UNCHANGED <<LiveContracts, withdrawableFees>>, NEW a \in Assets
    PROVE  Surplus(a)' - Surplus(a) = balanceOf'[a][Protocol] - balanceOf[a][Protocol]
<1>1. LiveOn(a)' = LiveOn(a)
  BY DEF LiveOn
<1> QED
  BY <1>1, SurplusParts, SurplusPartsAfter

\* So a balance that stays keeps the surplus, and one that grows raises it.
LEMMA BalanceDecides ==
    ASSUME TypeOK, TypeOK', UNCHANGED <<LiveContracts, withdrawableFees>>, NEW a \in Assets
    PROVE  /\ balanceOf'[a][Protocol] = balanceOf[a][Protocol] => Surplus(a)' = Surplus(a)
           /\ balanceOf'[a][Protocol] > balanceOf[a][Protocol] => Surplus(a)' > Surplus(a)
BY OnlyTheBalanceMoves, SurplusParts, SurplusPartsAfter

\* matchOrder takes in the stake of the new contract and the fees on it, no more, no less.
LEMMA MatchingPaysForItself ==
    ASSUME TypeOK, TypeOK', OutcomesInOrder, NEW order \in Orders, NEW sender \in Users,
           NEW value \in Nat, MatchOrder(sender, order, value), NEW a \in Assets
    PROVE  Surplus(a)' = Surplus(a)
<1>1. /\ LiveContracts' = LiveContracts \cup {order} /\ order \notin LiveContracts
      /\ LiveContracts \subseteq Orders
  BY DEF MatchOrder, MatchRequires, RecordMatch, CheckIsValidOrder, OutcomesInOrder,
         LiveContracts, TypeOK, ProtocolTypeOK
<1>2. /\ order.asset \in Assets /\ BullFees(order) \in Nat /\ BearFees(order) \in Nat
      /\ TakerPrice(order) \in Nat /\ MakerPrice(order) \in Nat /\ Stake(order) \in Nat
  BY PriceTypes, StakeType
<1>3. balanceOf'[a][Protocol]
          = IF a = order.asset
            THEN balanceOf[a][Protocol] + TakerPrice(order) + MakerPrice(order)
            ELSE balanceOf[a][Protocol]
  BY CollectedPayments DEF MatchOrder, MatchRequires
<1>4. withdrawableFees'[a] = IF a = order.asset
                             THEN withdrawableFees[a] + BullFees(order) + BearFees(order)
                             ELSE withdrawableFees[a]
  BY DEF MatchOrder, RecordMatch, TypeOK, ProtocolTypeOK
<1>5. CASE a = order.asset
  <2>1. LiveOn(a)' = LiveOn(a) \cup {order} /\ order \notin LiveOn(a)
    BY <1>1, <1>5 DEF LiveOn
  <2>2. Escrow(LiveOn(a)') = Escrow(LiveOn(a)) + Stake(order)
    BY <2>1, SurplusParts, EscrowAdd
  <2>3. TakerPrice(order) + MakerPrice(order)
            = Stake(order) + BullFees(order) + BearFees(order)
    BY PricesAreStakeAndFees
  <2> QED
    <3>1. /\ balanceOf'[a][Protocol]
                 = balanceOf[a][Protocol] + (Stake(order) + BullFees(order) + BearFees(order))
          /\ withdrawableFees'[a] = withdrawableFees[a] + BullFees(order) + BearFees(order)
      <4>1. balanceOf[a][Protocol] + TakerPrice(order) + MakerPrice(order)
                = balanceOf[a][Protocol] + (TakerPrice(order) + MakerPrice(order))
        BY <1>2, SurplusParts
      <4> QED
        BY <1>3, <1>4, <1>5, <2>3, <4>1
    <3> QED
      BY <1>2, <2>2, <3>1, SurplusParts, SurplusPartsAfter
<1>6. CASE a # order.asset
  <2>1. LiveOn(a)' = LiveOn(a)
    BY <1>1, <1>6 DEF LiveOn
  <2> QED
    BY <1>3, <1>4, <1>6, <2>1, SurplusParts, SurplusPartsAfter
<1> QED
  BY <1>5, <1>6

\* settleContract is the outcome of a live contract: the bear is nobody before the
\* match, and a contract reclaimed unsettled has expired.
LEMMA SettlingPaysOneStake ==
    ASSUME TypeOK, TypeOK', OutcomesInOrder, NEW order \in Orders, NEW sender \in Users,
           NEW tokenId \in TokenIds, SettleContract(sender, order, tokenId), NEW a \in Assets
    PROVE  Surplus(a)' = Surplus(a)
<1>1. /\ now \in Nat /\ order.expiry \in Nat
      /\ sender \in Accounts /\ sender # Protocol
      /\ order \in matchedOrders /\ order \notin settledContracts
  BY CallsAssumption, OrdersAssumption, AccountsAssumption
     DEF SettleContract, SettleRequires, OutcomesInOrder, TypeOK, ProtocolTypeOK, OrderType,
         Accounts
<1>2. order \notin reclaimedContracts
  <2>1. ASSUME order \in reclaimedContracts PROVE FALSE
    BY <1>1, <2>1 DEF SettleContract, SettleRequires, OutcomesInOrder
  <2> QED
    BY <2>1
<1>3. order \in LiveContracts /\ LiveContracts' = LiveContracts \ {order}
  BY <1>1, <1>2 DEF LiveContracts, SettleContract
<1>4. PayStake(order, sender) /\ UNCHANGED withdrawableFees
  BY DEF SettleContract
<1> QED
  BY <1>1, <1>3, <1>4, PayingOneStake

\* reclaimContract pays the stake of a live contract, or hands out an NFT.  A bull that
\* is the protocol itself leaves the stake with it.
LEMMA ReclaimingPaysOneStake ==
    ASSUME TypeOK, TypeOK', OutcomesInOrder, NEW order \in Orders, ReclaimContract(order),
           NEW a \in Assets
    PROVE  RaisedByGift(a)
<1>1. bulls[order] \in Accounts /\ UNCHANGED withdrawableFees
  BY DEF ReclaimContract, ReclaimRequires, OutcomesInOrder, TypeOK, ProtocolTypeOK
<1>2. CASE ReclaimNFT(order)
  <2>1. UNCHANGED <<LiveContracts, withdrawableFees, balanceOf>>
    BY <1>2 DEF ReclaimContract, ReclaimNFT, LiveContracts
  <2> QED
    BY <2>1, BalanceDecides DEF RaisedByGift
<1>3. CASE ReclaimStake(order)
  <2>1. order \in LiveContracts /\ LiveContracts' = LiveContracts \ {order}
    BY <1>3 DEF ReclaimContract, ReclaimRequires, ReclaimStake, LiveContracts
  <2>2. PayStake(order, bulls[order])
    BY <1>3 DEF ReclaimStake
  <2>3. Surplus(a)' = IF a = order.asset /\ bulls[order] = Protocol
                      THEN Surplus(a) + Stake(order) ELSE Surplus(a)
    BY <1>1, <2>1, <2>2, PayingOneStake
  <2>4. a = order.asset /\ bulls[order] = Protocol => GivenToProtocol(a)
    BY <2>1 DEF GivenToProtocol
  <2>5. Stake(order) \in Nat /\ Surplus(a) \in Int
    BY StakeType, SurplusParts
  <2> QED
    BY <2>3, <2>4, <2>5 DEF RaisedByGift
<1> QED
  BY <1>2, <1>3 DEF ReclaimContract

\* The sale of a position passes through the protocol without leaving it anything.
LEMMA SellingPaysTheSeller ==
    ASSUME TypeOK, TypeOK', NEW sellOrder \in SellOrders, NEW sender \in Users,
           NEW tip \in Nat, NEW value \in Nat, BuyPosition(sender, sellOrder, tip, value),
           NEW a \in Assets
    PROVE  Surplus(a)' = Surplus(a)
<1> DEFINE price == sellOrder.price + tip
<1>1. /\ price \in Nat /\ sellOrder.maker \in Accounts /\ sellOrder.asset \in Assets
      /\ sellOrder.maker # Protocol
  BY SellOrderTypes, AccountsAssumption
<1>2. /\ WETH \in Assets /\ Protocol \in Accounts /\ balanceOf \in Balances
      /\ PaySeller(sender, sellOrder, price, value)
  BY AssetsAssumption DEF Accounts, TypeOK, TokenTypeOK, Balances, BuyPosition
<1>3. balanceOf'[a][Protocol] = balanceOf[a][Protocol]
  <2>0. balanceOf[a][Protocol] \in Nat
    BY <1>2 DEF Balances
  <2>1. CASE value > 0
    <3> DEFINE wrapped == Minted(balanceOf, WETH, Protocol, value)
    <3>1. /\ wrapped \in Balances
          /\ wrapped[a][Protocol] = IF a = WETH THEN balanceOf[a][Protocol] + value
                                    ELSE balanceOf[a][Protocol]
      BY <1>2, MintedType, MintedTo
    <3>2. balanceOf' = Moved(wrapped, WETH, Protocol, sellOrder.maker, value)
      BY <1>2, <2>1 DEF PaySeller, ForwardEther
    <3>3. balanceOf'[a][Protocol] = IF a = WETH THEN wrapped[a][Protocol] - value
                                    ELSE wrapped[a][Protocol]
      <4> HIDE DEF wrapped
      <4> QED
        BY <1>1, <1>2, <3>1, <3>2, PaidOut
    <3> QED
      <4> HIDE DEF wrapped
      <4>1. CASE a = WETH
        BY <2>0, <3>1, <3>3, <4>1
      <4>2. CASE a # WETH
        BY <3>1, <3>3, <4>2
      <4> QED
        BY <4>1, <4>2
  <2>2. CASE value = 0
    <3>1. balanceOf' = Moved(balanceOf, sellOrder.asset, sender, sellOrder.maker, price)
      BY <1>2, <2>2 DEF PaySeller
    <3> HIDE DEF price
    <3> QED
      BY <1>1, <1>2, <3>1, PaidByUser
  <2> QED
    BY <2>1, <2>2
<1>4. UNCHANGED <<LiveContracts, withdrawableFees>>
  BY DEF BuyPosition, LiveContracts, contractVars
<1> QED
  BY <1>3, <1>4, BalanceDecides

\* withdrawFees takes what its own account holds and no more.
LEMMA WithdrawingOnlyFees ==
    ASSUME TypeOK, TypeOK', NEW sender \in Users, NEW asset \in Assets,
           NEW recipient \in Accounts, WithdrawFees(sender, asset, recipient),
           NEW a \in Assets
    PROVE  RaisedByGift(a)
<1>1. balanceOf \in Balances /\ withdrawableFees[asset] \in Nat
  BY SurplusParts DEF TypeOK, TokenTypeOK, Balances
<1>2. LiveOn(a)' = LiveOn(a)
  BY DEF WithdrawFees, LiveOn, LiveContracts, contractVars
<1>3. balanceOf'[a][Protocol] = IF a = asset /\ recipient # Protocol
                                THEN balanceOf[a][Protocol] - withdrawableFees[asset]
                                ELSE balanceOf[a][Protocol]
  BY <1>1, PaidOut DEF WithdrawFees
<1>4. withdrawableFees'[a] = IF a = asset THEN 0 ELSE withdrawableFees[a]
  BY DEF WithdrawFees, FeesCleared, TypeOK, ProtocolTypeOK
<1>5. a = asset /\ recipient = Protocol => GivenToProtocol(a)
  BY DEF GivenToProtocol
<1>6. Surplus(a)' = IF a = asset /\ recipient = Protocol
                    THEN Surplus(a) + withdrawableFees[asset] ELSE Surplus(a)
  BY <1>1, <1>2, <1>3, <1>4, SurplusParts, SurplusPartsAfter
<1> QED
  BY <1>1, <1>5, <1>6, SurplusParts DEF RaisedByGift

\* A token holder can give to the protocol and take nothing from it.
LEMMA HoldersOnlyGive ==
    ASSUME TypeOK, TokenCalls, NEW a \in Assets
    PROVE  \/ balanceOf'[a][Protocol] = balanceOf[a][Protocol]
           \/ balanceOf'[a][Protocol] > balanceOf[a][Protocol] /\ GivenToProtocol(a)
<1>1. /\ Holders \subseteq Users /\ Users \subseteq Accounts /\ Amounts \subseteq Nat
      /\ WETH \in Assets /\ balanceOf \in Balances /\ Protocol \notin Users
      /\ Protocol \in Accounts
  BY HoldersAssumption, AssetsAssumption, AccountsAssumption
     DEF Accounts, TypeOK, TokenTypeOK, Balances
<1>2. balanceOf[a][Protocol] \in Nat
  BY <1>1 DEF Balances
<1>3. ASSUME NEW user \in Holders, NEW asset \in Assets, NEW to \in Accounts,
             NEW n \in Amounts, Transfer(user, asset, to, n)
      PROVE  \/ balanceOf'[a][Protocol] = balanceOf[a][Protocol]
             \/ balanceOf'[a][Protocol] > balanceOf[a][Protocol] /\ GivenToProtocol(a)
  <2>1. balanceOf'[a][Protocol] = IF a = asset /\ to = Protocol
                                  THEN balanceOf[a][Protocol] + n ELSE balanceOf[a][Protocol]
    BY <1>1, <1>3, PaidByUser DEF Transfer
  <2>2. a = asset /\ to = Protocol => GivenToProtocol(a)
    BY <1>3 DEF GivenToProtocol, TokenCalls
  <2> QED
    BY <1>1, <1>2, <2>1, <2>2
<1>4. ASSUME NEW user \in Holders, NEW n \in Amounts, Deposit(user, n)
      PROVE  balanceOf'[a][Protocol] = balanceOf[a][Protocol]
  BY <1>1, <1>4, MintedTo DEF Deposit
<1>5. ASSUME NEW user \in Holders, NEW n \in Amounts, Withdraw(user, n)
      PROVE  balanceOf'[a][Protocol] = balanceOf[a][Protocol]
  BY <1>1, <1>5 DEF Withdraw, Balances
<1>6. \/ \E user \in Holders, asset \in Assets, to \in Accounts, n \in Amounts :
            Transfer(user, asset, to, n)
      \/ \E user \in Holders, n \in Amounts : Deposit(user, n) \/ Withdraw(user, n)
      \/ UNCHANGED balanceOf
  BY DEF TokenCalls, TokenNext, TokenCallsBy, Approve, SetApprovalForAll, TransferNFT,
         SetShouldBlockTransfer, erc20Vars
<1> QED
  BY <1>3, <1>4, <1>5, <1>6

\* No token holder can debit the protocol.
LEMMA HoldersSpendTheirOwn ==
    ASSUME TypeOK, TokenCalls, NEW a \in Assets
    PROVE  balanceOf'[a][Protocol] >= balanceOf[a][Protocol]
<1>1. balanceOf[a][Protocol] \in Nat /\ balanceOf'[a][Protocol] \in Nat
  BY TokenCallsType DEF TypeOK, TokenTypeOK, Accounts
<1> QED
  BY <1>1, HoldersOnlyGive

\* Every step leaves the surplus of every asset alone, or raises it by a gift.
LEMMA SurplusStep ==
    ASSUME TypeOK, OutcomesInOrder, [Next]_vars, NEW a \in Assets
    PROVE  RaisedByGift(a)
<1>1. TypeOK'
  BY TypeStep
<1>2. CASE Surplus(a)' = Surplus(a)
  BY <1>2 DEF RaisedByGift
<1>3. ASSUME NEW order \in Orders, NEW sender \in Users, NEW value \in Nat,
             MatchOrder(sender, order, value)
      PROVE  RaisedByGift(a)
  BY <1>1, <1>2, <1>3, MatchingPaysForItself
<1>4. ASSUME NEW order \in Orders, NEW sender \in Users, NEW tokenId \in TokenIds,
             SettleContract(sender, order, tokenId)
      PROVE  RaisedByGift(a)
  BY <1>1, <1>2, <1>4, SettlingPaysOneStake
<1>5. ASSUME NEW order \in Orders, ReclaimContract(order)
      PROVE  RaisedByGift(a)
  BY <1>1, <1>5, ReclaimingPaysOneStake
<1>6. ASSUME NEW sellOrder \in SellOrders, NEW sender \in Users, NEW tip \in Nat,
             NEW value \in Nat, BuyPosition(sender, sellOrder, tip, value)
      PROVE  RaisedByGift(a)
  BY <1>1, <1>2, <1>6, SellingPaysTheSeller
<1>7. ASSUME NEW sender \in Users, NEW asset \in Assets, NEW recipient \in Recipients,
             WithdrawFees(sender, asset, recipient)
      PROVE  RaisedByGift(a)
  BY <1>1, <1>7, WithdrawingOnlyFees, CallsAssumption
<1>8. CASE TokenCalls
  <2>1. UNCHANGED <<LiveContracts, withdrawableFees>>
    BY <1>8 DEF TokenCalls, protocolVars, LiveContracts
  <2> QED
    BY <1>1, <1>8, <2>1, BalanceDecides, HoldersOnlyGive DEF RaisedByGift
<1>9. CASE UNCHANGED <<LiveContracts, withdrawableFees, balanceOf>>
  BY <1>1, <1>2, <1>9, BalanceDecides
<1>10. CASE \/ Tick
            \/ \E order \in Orders, sender \in Users, isBull \in BOOLEAN, to \in Accounts :
                  TransferPosition(sender, order, isBull, to)
  BY <1>9, <1>10 DEF Tick, TransferPosition, LiveContracts, contractVars, tokenVars
<1>11. CASE QuietNext
  <2>1. \/ \E sender \in Users, asset \in Assets, recipient \in Recipients :
              WithdrawFees(sender, asset, recipient)
        \/ TokenCalls
        \/ UNCHANGED <<LiveContracts, withdrawableFees, balanceOf>>
    BY <1>11 DEF QuietNext, CancelOrder, CancelSellOrder, NonceNext, NonceCallsBy,
                 SetMinimumValidNonce, SetMinimumValidNonceSell, OwnerNext, OwnerCallsBy,
                 SetAllowedCollection, SetAllowedAsset, SetFee, TransferOwnership,
                 RenounceOwnership, vars, protocolVars, contractVars, tokenVars,
                 LiveContracts
  <2> QED
    BY <1>7, <1>8, <1>9, <2>1
<1> QED
  BY <1>3, <1>4, <1>5, <1>6, <1>10, <1>11, StepCases

\* Nothing sticks to the protocol that is not a fee, a stake or a gift, and nothing but
\* fees and stakes leaves it: matchOrder collects both sides in full whoever they are,
\* buyPosition forwards all it takes in, and an outcome pays one stake.
THEOREM SurplusComesFromGifts == Spec => SurplusOnlyFromGifts
<1> DEFINE Step == \A asset \in Assets :
                      \/ Surplus(asset)' = Surplus(asset)
                      \/ Surplus(asset)' > Surplus(asset) /\ GivenToProtocol(asset)
<1>1. TypeOK /\ OutcomesInOrder /\ [Next]_vars => [Step]_vars
  BY SurplusStep DEF RaisedByGift
<1>2. SurplusOnlyFromGifts <=> [][Step]_vars
  BY DEF SurplusOnlyFromGifts
<1> QED
  BY <1>1, <1>2, TypesAndOutcomes, PTL DEF Spec

\* So a covered asset stays covered.
LEMMA SolventStep == TypeOK /\ OutcomesInOrder /\ Solvent /\ [Next]_vars => Solvent'
<1> SUFFICES ASSUME TypeOK, OutcomesInOrder, Solvent, [Next]_vars PROVE Solvent'
  OBVIOUS
<1>1. TypeOK'
  BY TypeStep
<1>2. ASSUME NEW a \in Assets
      PROVE  balanceOf'[a][Protocol] >= withdrawableFees'[a] + Escrow(LiveOn(a)')
  <2>1. Surplus(a) >= 0 /\ Surplus(a) \in Int
    BY SolventMeansNoDeficit, SurplusParts
  <2>2. Surplus(a)' >= 0
    BY <1>1, <2>1, SurplusStep, SurplusPartsAfter DEF RaisedByGift
  <2>3. Escrow(LiveOn(a)') \in Nat
    <3>1. LiveOn(a)' \in SUBSET Orders
      BY <1>1 DEF LiveOn, LiveContracts, TypeOK, ProtocolTypeOK
    <3> QED
      BY <3>1, EscrowType
  <2> QED
    BY <1>1, <2>2, <2>3, SurplusPartsAfter
<1> QED
  BY <1>2 DEF Solvent, Locked, LiveOn, Escrow

\* A protocol without contracts and fees covers them.
LEMMA InitialSolvency == Init => Solvent
<1> SUFFICES ASSUME Init, NEW a \in Assets
             PROVE  balanceOf[a][Protocol] >= withdrawableFees[a] + Locked(a)
  BY DEF Solvent
<1>1. Locked(a) = 0
  <2>1. {order \in LiveContracts : order.asset = a} = {}
    BY DEF Init, LiveContracts
  <2> QED
    BY <2>1, EscrowOfNothing DEF Locked
<1>2. balanceOf[a][Protocol] = 0 /\ withdrawableFees[a] = 0
  BY DEF Init, TokenInit, Accounts
<1> QED
  BY <1>1, <1>2

\* Whatever is matched, settled, reclaimed, sold, given away or withdrawn, and whoever
\* the owner is: the protocol always holds the premium and the collateral of every live
\* contract, on top of the fees, in every asset.
THEOREM AlwaysSolvent == Spec => []Solvent
BY InitialSolvency, SolventStep, TypesAndOutcomes, PTL DEF Spec

------------------------------------------------------------------------------
(* Conservation of money.                                                    *)

\* The amount of an asset there is when the balances are `bal' and the ether is `eth'.
SupplyIn(bal, eth, a) == SupplyOf(a, bal[a], Accounts, eth)

Ethers == [Users -> Nat]

\* There are finitely many accounts to sum over.
LEMMA FiniteAccounts == IsFiniteSet(Accounts) /\ IsFiniteSet(Users)
BY AccountsAssumption, FS_AddElement DEF Accounts

\* A transfer that is covered takes from one balance what it adds to another, also
\* when both are the same.
LEMMA MovedKeepsSupply ==
    ASSUME NEW bal \in Balances, NEW asset \in Assets, NEW from \in Accounts,
           NEW to \in Accounts, NEW n \in Nat, NEW eth, NEW a \in Assets,
           bal[asset][from] >= n
    PROVE  SupplyIn(Moved(bal, asset, from, to, n), eth, a) = SupplyIn(bal, eth, a)
<1> DEFINE before == bal[asset]
           debited == [before EXCEPT ![from] = @ - n]
           after == [debited EXCEPT ![to] = @ + n]
<1>1. before \in [Accounts -> Nat] /\ debited \in [Accounts -> Nat]
  BY DEF Balances
<1>2. after \in [Accounts -> Nat]
  BY <1>1
<1>3. SumFunctionOnSet(debited, Accounts) + before[from]
          = SumFunctionOnSet(before, Accounts) + debited[from]
  <2>1. \A x \in Accounts : x # from => debited[x] = before[x]
    BY <1>1
  <2> HIDE DEF before, debited
  <2> QED
    BY <1>1, <2>1, FiniteAccounts, SumUpdate
<1>4. SumFunctionOnSet(after, Accounts) + debited[to]
          = SumFunctionOnSet(debited, Accounts) + after[to]
  <2>1. \A x \in Accounts : x # to => after[x] = debited[x]
    BY <1>1
  <2> HIDE DEF before, debited, after
  <2> QED
    BY <1>1, <1>2, <2>1, FiniteAccounts, SumUpdate
<1>5. debited[from] = before[from] - n /\ after[to] = debited[to] + n
  BY <1>1
<1>6. /\ SumFunctionOnSet(before, Accounts) \in Nat
      /\ SumFunctionOnSet(debited, Accounts) \in Nat
      /\ SumFunctionOnSet(after, Accounts) \in Nat
  <2> HIDE DEF before, debited, after
  <2> QED
    BY <1>1, <1>2, FiniteAccounts, SumType
<1>7. SumFunctionOnSet(after, Accounts) = SumFunctionOnSet(before, Accounts)
  <2>1. /\ before[from] \in Nat /\ debited[to] \in Nat /\ debited[from] \in Nat
        /\ after[to] \in Nat
    BY <1>1, <1>2
  <2> HIDE DEF before, debited, after
  <2>2. PICK s0 \in Nat, s1 \in Nat, s2 \in Nat :
            /\ s0 = SumFunctionOnSet(before, Accounts)
            /\ s1 = SumFunctionOnSet(debited, Accounts)
            /\ s2 = SumFunctionOnSet(after, Accounts)
    BY <1>6, Zenon
  <2>3. PICK x0 \in Nat, x1 \in Nat, y1 \in Nat, y2 \in Nat :
            /\ x0 = before[from] /\ x1 = debited[from]
            /\ y1 = debited[to] /\ y2 = after[to]
    BY <2>1, Zenon
  <2>4. /\ s1 + x0 = s0 + x1 /\ x1 = x0 - n
        /\ s2 + y1 = s1 + y2 /\ y2 = y1 + n
    BY <1>3, <1>4, <1>5, <2>2, <2>3, Zenon
  <2>5. s2 = s0
    BY <2>4
  <2> QED
    BY <2>2, <2>5, Zenon
<1>8. Moved(bal, asset, from, to, n)[a] = IF a = asset THEN after ELSE bal[a]
  <2> DEFINE first == [bal EXCEPT ![asset][from] = @ - n]
  <2>0. Moved(bal, asset, from, to, n) = [first EXCEPT ![asset][to] = @ + n]
    BY DEF Moved
  <2>3. first[asset] = debited /\ (a # asset => first[a] = bal[a]) /\ first \in Balances
    BY <1>1 DEF Balances
  <2>1. \A x \in Accounts : Moved(bal, asset, from, to, n)[a][x]
                                 = IF a = asset THEN after[x] ELSE bal[a][x]
    <3> HIDE DEF first, debited
    <3> QED
      BY <1>1, <2>0, <2>3 DEF Balances
  <2>2. Moved(bal, asset, from, to, n)[a] \in [Accounts -> Nat] /\ bal[a] \in [Accounts -> Nat]
    BY MovedType DEF Balances
  <2> HIDE DEF after
  <2> QED
    BY <1>2, <2>1, <2>2
<1> QED
  BY <1>7, <1>8 DEF SupplyIn, SupplyOf

\* What is minted to an account adds to the sum of the balances.
LEMMA MintedAddsToSum ==
    ASSUME NEW bal \in Balances, NEW asset \in Assets, NEW to \in Accounts, NEW n \in Nat,
           NEW a \in Assets
    PROVE  SumFunctionOnSet(Minted(bal, asset, to, n)[a], Accounts)
               = SumFunctionOnSet(bal[a], Accounts) + (IF a = asset THEN n ELSE 0)
<1> DEFINE before == bal[asset]
           after == [before EXCEPT ![to] = @ + n]
<1>1. /\ before \in [Accounts -> Nat] /\ after \in [Accounts -> Nat]
      /\ bal[a] \in [Accounts -> Nat]
  BY DEF Balances
<1>2. /\ \A x \in Accounts : x # to => after[x] = before[x]
      /\ after[to] = before[to] + n
  BY <1>1
<1>3. SumFunctionOnSet(bal[a], Accounts) \in Nat
  BY <1>1, FiniteAccounts, SumType
<1>4. /\ SumFunctionOnSet(before, Accounts) \in Nat
      /\ SumFunctionOnSet(after, Accounts) \in Nat
      /\ SumFunctionOnSet(after, Accounts) + before[to]
             = SumFunctionOnSet(before, Accounts) + after[to]
  <2> HIDE DEF before, after
  <2> QED
    BY <1>1, <1>2, FiniteAccounts, SumType, SumUpdate
<1>5. SumFunctionOnSet(after, Accounts) = SumFunctionOnSet(before, Accounts) + n
  <2>1. before[to] \in Nat
    BY <1>1
  <2> HIDE DEF before, after
  <2> QED
    BY <1>2, <1>4, <2>1
<1>6. Minted(bal, asset, to, n)[a] = IF a = asset THEN after ELSE bal[a]
  BY DEF Minted, Balances
<1> QED
  BY <1>3, <1>5, <1>6

\* Ether an account spends or gets leaves or joins the sum of the ether.
LEMMA EtherChanges ==
    ASSUME NEW eth \in [Users -> Nat], NEW user \in Users, NEW left \in Nat
    PROVE  /\ SumFunctionOnSet(eth, Users) \in Nat
           /\ SumFunctionOnSet([eth EXCEPT ![user] = left], Users) \in Nat
           /\ SumFunctionOnSet([eth EXCEPT ![user] = left], Users) + eth[user]
                  = SumFunctionOnSet(eth, Users) + left
<1> DEFINE after == [eth EXCEPT ![user] = left]
<1>1. /\ after \in [Users -> Nat] /\ after[user] = left
      /\ \A x \in Users : x # user => after[x] = eth[x]
  OBVIOUS
<1> HIDE DEF after
<1>2. /\ SumFunctionOnSet(eth, Users) \in Nat /\ SumFunctionOnSet(after, Users) \in Nat
      /\ SumFunctionOnSet(after, Users) + eth[user] = SumFunctionOnSet(eth, Users) + after[user]
  BY <1>1, FiniteAccounts, SumType, SumUpdate
<1> QED
  BY <1>1, <1>2 DEF after

\* Wrapping turns ether into as much WETH, whoever gets it.
LEMMA WrappingKeepsSupply ==
    ASSUME NEW bal \in Balances, NEW to \in Accounts, NEW eth \in Ethers,
           NEW user \in Users, NEW n \in Nat, NEW a \in Assets, NEW newEth \in Ethers,
           newEth[user] + n = eth[user],
           \A x \in Users : x # user => newEth[x] = eth[x]
    PROVE  SupplyIn(Minted(bal, WETH, to, n), newEth, a) = SupplyIn(bal, eth, a)
<1> DEFINE spent == SumFunctionOnSet(newEth, Users)
           had == SumFunctionOnSet(eth, Users)
           wrapped == SumFunctionOnSet(Minted(bal, WETH, to, n)[a], Accounts)
           sum == SumFunctionOnSet(bal[a], Accounts)
<1>1. eth[user] \in Nat /\ newEth[user] \in Nat
  BY DEF Ethers
<1>2. had \in Nat /\ spent \in Nat /\ spent + eth[user] = had + newEth[user]
  BY FiniteAccounts, SumType, SumUpdate DEF Ethers
<1>3. wrapped = sum + (IF a = WETH THEN n ELSE 0)
  BY AssetsAssumption, MintedAddsToSum
<1>4. sum \in Nat
  <2>1. bal[a] \in [Accounts -> Nat]
    BY DEF Balances
  <2> QED
    BY <2>1, FiniteAccounts, SumType
<1>5. wrapped + (IF a = WETH THEN spent ELSE 0) = sum + (IF a = WETH THEN had ELSE 0)
  <2> HIDE DEF spent, had, wrapped, sum
  <2> QED
    BY <1>1, <1>2, <1>3, <1>4
<1> QED
  BY <1>5 DEF SupplyIn, SupplyOf

\* Unwrapping turns WETH into as much ether: it undoes a wrapping.
LEMMA UnwrappingKeepsSupply ==
    ASSUME NEW bal \in Balances, NEW eth \in Ethers, NEW user \in Users,
           NEW n \in Nat, NEW a \in Assets, bal[WETH][user] >= n
    PROVE  SupplyIn([bal EXCEPT ![WETH][user] = @ - n], [eth EXCEPT ![user] = @ + n], a)
               = SupplyIn(bal, eth, a)
<1> DEFINE left == [bal EXCEPT ![WETH][user] = @ - n]
           gained == [eth EXCEPT ![user] = @ + n]
<1>1. user \in Accounts /\ WETH \in Assets
  BY AssetsAssumption DEF Accounts
<1>2. bal[WETH] \in [Accounts -> Nat] /\ bal[WETH][user] - n \in Nat
  BY <1>1 DEF Balances
<1>3. left \in Balances
  BY <1>1, <1>2 DEF Balances
<1>4. /\ gained \in Ethers /\ eth[user] + n = gained[user]
      /\ \A x \in Users : x # user => eth[x] = gained[x]
  BY DEF Ethers
<1>5. Minted(left, WETH, user, n) = bal
  <2> DEFINE restored == [[bal[WETH] EXCEPT ![user] = @ - n] EXCEPT ![user] = @ + n]
  <2>1. restored = bal[WETH]
    BY <1>1, <1>2
  <2>2. Minted(left, WETH, user, n) = [bal EXCEPT ![WETH] = restored]
    BY <1>1, <1>2 DEF Minted, Balances
  <2> QED
    BY <1>1, <2>1, <2>2 DEF Balances
<1> HIDE DEF left, gained
<1>6. SupplyIn(Minted(left, WETH, user, n), eth, a) = SupplyIn(left, gained, a)
  BY <1>1, <1>3, <1>4, WrappingKeepsSupply
<1>7. SupplyIn(left, gained, a) = SupplyIn(bal, eth, a)
  BY <1>5, <1>6
<1> QED
  BY <1>7 DEF left, gained

\* The money matchOrder collects: the taker's, in ether or in the asset, then the
\* maker's.
LEMMA CollectingKeepsSupply ==
    ASSUME TypeOK, NEW taker \in Users, NEW order \in Orders, NEW value \in Nat,
           CollectPayments(taker, order, value), NEW a \in Assets
    PROVE  Supply(a)' = Supply(a)
<1> DEFINE price == TakerPrice(order)
           afterTaker == IF value > 0 THEN Minted(balanceOf, WETH, Protocol, value)
                         ELSE Moved(balanceOf, order.asset, taker, Protocol, price)
           allowedAfterTaker == IF value > 0 THEN allowance
                                ELSE Spent(allowance, order.asset, taker, price)
           etherAfter == [ether EXCEPT ![taker] = @ - value]
<1>1. /\ order.maker \in Accounts /\ order.asset \in Assets
      /\ price \in Nat /\ MakerPrice(order) \in Nat
  BY PriceTypes
<1>2. /\ taker \in Accounts /\ Protocol \in Accounts /\ WETH \in Assets
      /\ balanceOf \in Balances /\ ether \in Ethers
  BY AssetsAssumption DEF Accounts, TypeOK, TokenTypeOK, Balances, Ethers
<1>3. afterTaker \in Balances
  BY <1>1, <1>2, MovedType, MintedType DEF CollectPayments, PullFromMaker, CanPull
<1>4. SupplyIn(afterTaker, etherAfter, a) = SupplyIn(balanceOf, ether, a)
  <2>1. CASE value > 0
    <3>1. ether[taker] >= value
      BY <2>1 DEF CollectPayments, PullFromMaker
    <3>2. /\ etherAfter \in Ethers /\ etherAfter[taker] + value = ether[taker]
          /\ \A x \in Users : x # taker => etherAfter[x] = ether[x]
      BY <1>2, <3>1 DEF Ethers
    <3> HIDE DEF etherAfter
    <3>3. SupplyIn(Minted(balanceOf, WETH, Protocol, value), etherAfter, a)
              = SupplyIn(balanceOf, ether, a)
      BY <1>2, <3>2, WrappingKeepsSupply
    <3> QED
      BY <2>1, <3>3
  <2>2. CASE ~(value > 0)
    <3>1. balanceOf[order.asset][taker] >= price
      BY <2>2 DEF CollectPayments, PullFromMaker, CanPull
    <3>2. etherAfter = ether
      BY <1>2, <2>2 DEF Ethers
    <3> HIDE DEF price
    <3>3. SupplyIn(Moved(balanceOf, order.asset, taker, Protocol, price), ether, a)
              = SupplyIn(balanceOf, ether, a)
      BY <1>1, <1>2, <3>1, MovedKeepsSupply
    <3> QED
      BY <2>2, <3>2, <3>3
  <2> QED
    BY <2>1, <2>2
<1>5. /\ CanPull(afterTaker, allowedAfterTaker, order.asset, order.maker, MakerPrice(order))
      /\ balanceOf' = Moved(afterTaker, order.asset, order.maker, Protocol, MakerPrice(order))
      /\ ether' = etherAfter
  BY DEF CollectPayments, PullFromMaker
<1> HIDE DEF afterTaker, allowedAfterTaker, etherAfter
<1>6. afterTaker[order.asset][order.maker] >= MakerPrice(order)
  BY <1>5 DEF CanPull
<1>7. SupplyIn(Moved(afterTaker, order.asset, order.maker, Protocol, MakerPrice(order)),
               etherAfter, a)
          = SupplyIn(afterTaker, etherAfter, a)
  BY <1>1, <1>2, <1>3, <1>6, MovedKeepsSupply
<1> QED
  BY <1>4, <1>5, <1>7 DEF Supply, SupplyIn

\* An amount moved between two accounts, the ether left alone.
LEMMA MovingKeepsSupply ==
    ASSUME TypeOK, NEW asset \in Assets, NEW from \in Accounts, NEW to \in Accounts,
           NEW n \in Nat, balanceOf[asset][from] >= n,
           balanceOf' = Moved(balanceOf, asset, from, to, n), UNCHANGED ether,
           NEW a \in Assets
    PROVE  Supply(a)' = Supply(a)
<1>1. balanceOf \in Balances
  BY DEF TypeOK, TokenTypeOK, Balances
<1>2. SupplyIn(Moved(balanceOf, asset, from, to, n), ether, a) = SupplyIn(balanceOf, ether, a)
  BY <1>1, MovedKeepsSupply
<1> QED
  BY <1>2 DEF Supply, SupplyIn

\* buyPosition: wrapped ether reaches the seller through the protocol's own balance.
LEMMA PayingTheSellerKeepsSupply ==
    ASSUME TypeOK, NEW buyer \in Users, NEW sellOrder \in SellOrders, NEW price \in Nat,
           NEW value \in Nat, PaySeller(buyer, sellOrder, price, value), NEW a \in Assets
    PROVE  Supply(a)' = Supply(a)
<1>1. /\ buyer \in Accounts /\ sellOrder.maker \in Accounts /\ Protocol \in Accounts
      /\ sellOrder.asset \in Assets /\ WETH \in Assets
      /\ balanceOf \in Balances /\ ether \in Ethers
  BY OrdersAssumption, AssetsAssumption
     DEF Accounts, SellOrderType, TypeOK, TokenTypeOK, Balances, Ethers
<1>2. CASE value > 0
  <2> DEFINE wrapped == Minted(balanceOf, WETH, Protocol, value)
             etherAfter == [ether EXCEPT ![buyer] = @ - value]
  <2>1. /\ ether[buyer] >= value /\ ether' = etherAfter
        /\ balanceOf' = Moved(wrapped, WETH, Protocol, sellOrder.maker, value)
    BY <1>2 DEF PaySeller, ForwardEther
  <2>2. /\ etherAfter \in Ethers /\ etherAfter[buyer] + value = ether[buyer]
        /\ \A x \in Users : x # buyer => etherAfter[x] = ether[x]
    BY <1>1, <2>1 DEF Ethers
  <2>3. wrapped \in Balances /\ wrapped[WETH][Protocol] >= value
    BY <1>1, MintedType DEF Minted, Balances
  <2> HIDE DEF wrapped, etherAfter
  <2>4. SupplyIn(Moved(wrapped, WETH, Protocol, sellOrder.maker, value), etherAfter, a)
            = SupplyIn(wrapped, etherAfter, a)
    BY <1>1, <2>3, MovedKeepsSupply
  <2>5. SupplyIn(Minted(balanceOf, WETH, Protocol, value), etherAfter, a)
            = SupplyIn(balanceOf, ether, a)
    BY <1>1, <2>2, WrappingKeepsSupply
  <2>6. SupplyIn(wrapped, etherAfter, a) = SupplyIn(balanceOf, ether, a)
    BY <2>5 DEF wrapped
  <2> QED
    BY <2>1, <2>4, <2>6 DEF Supply, SupplyIn
<1>3. CASE ~(value > 0)
  <2>1. /\ balanceOf[sellOrder.asset][buyer] >= price /\ UNCHANGED ether
        /\ balanceOf' = Moved(balanceOf, sellOrder.asset, buyer, sellOrder.maker, price)
    BY <1>3 DEF PaySeller, ForwardEther, CanPull
  <2> QED
    BY <1>1, <2>1, MovingKeepsSupply
<1> QED
  BY <1>2, <1>3

\* What the holders of the tokens do with them.
LEMMA HoldersKeepSupply ==
    ASSUME TypeOK, TokenCalls, NEW a \in Assets
    PROVE  Supply(a)' = Supply(a)
<1>1. Holders \subseteq Users /\ Holders \subseteq Accounts /\ Amounts \subseteq Nat
  BY HoldersAssumption DEF Accounts
<1>2. WETH \in Assets /\ balanceOf \in Balances /\ ether \in Ethers
  BY AssetsAssumption DEF TypeOK, TokenTypeOK, Balances, Ethers
<1>3. ASSUME NEW user \in Holders, NEW asset \in Assets, NEW to \in Accounts,
             NEW n \in Amounts, Transfer(user, asset, to, n)
      PROVE  Supply(a)' = Supply(a)
  BY <1>1, <1>3, MovingKeepsSupply DEF Transfer
<1>4. ASSUME NEW user \in Holders, NEW n \in Amounts, Deposit(user, n)
      PROVE  Supply(a)' = Supply(a)
  <2> DEFINE etherAfter == [ether EXCEPT ![user] = @ - n]
  <2>1. /\ ether[user] >= n /\ ether' = etherAfter
        /\ balanceOf' = Minted(balanceOf, WETH, user, n)
    BY <1>4 DEF Deposit
  <2>2. /\ etherAfter \in Ethers /\ etherAfter[user] + n = ether[user]
        /\ \A x \in Users : x # user => etherAfter[x] = ether[x]
    BY <1>1, <1>2, <2>1 DEF Ethers
  <2> HIDE DEF etherAfter
  <2>3. SupplyIn(Minted(balanceOf, WETH, user, n), etherAfter, a) = SupplyIn(balanceOf, ether, a)
    <3>1. user \in Users /\ user \in Accounts /\ n \in Nat
      BY <1>1
    <3> QED
      BY <1>2, <2>2, <3>1, WrappingKeepsSupply
  <2> QED
    BY <2>1, <2>3 DEF Supply, SupplyIn
<1>5. ASSUME NEW user \in Holders, NEW n \in Amounts, Withdraw(user, n)
      PROVE  Supply(a)' = Supply(a)
  <2>1. SupplyIn([balanceOf EXCEPT ![WETH][user] = @ - n], [ether EXCEPT ![user] = @ + n], a)
            = SupplyIn(balanceOf, ether, a)
    BY <1>1, <1>2, <1>5, UnwrappingKeepsSupply DEF Withdraw
  <2> QED
    BY <1>5, <2>1 DEF Withdraw, Supply, SupplyIn
<1>6. CASE UNCHANGED <<balanceOf, ether>>
  BY <1>6 DEF Supply
<1>7. \/ \E user \in Holders, asset \in Assets, to \in Accounts, n \in Amounts :
            Transfer(user, asset, to, n)
      \/ \E user \in Holders, n \in Amounts : Deposit(user, n) \/ Withdraw(user, n)
      \/ UNCHANGED <<balanceOf, ether>>
  BY DEF TokenCalls, TokenNext, TokenCallsBy, Approve, SetApprovalForAll, TransferNFT,
         SetShouldBlockTransfer, erc20Vars
<1> QED
  BY <1>3, <1>4, <1>5, <1>6, <1>7

\* Every step keeps the amount of every asset.
LEMMA SupplyStep ==
    ASSUME TypeOK, OutcomesInOrder, [Next]_vars, NEW a \in Assets
    PROVE  Supply(a)' = Supply(a)
<1>1. TypeOK'
  BY TypeStep
<1>2. ASSUME NEW order \in Orders, NEW sender \in Users, NEW value \in Nat,
             MatchOrder(sender, order, value)
      PROVE  Supply(a)' = Supply(a)
  BY <1>2, CollectingKeepsSupply DEF MatchOrder
<1>3. ASSUME NEW order \in Orders, NEW winner \in Accounts, PayStake(order, winner),
             UNCHANGED ether
      PROVE  Supply(a)' = Supply(a)
  <2>1. order.asset \in Assets /\ Stake(order) \in Nat /\ Protocol \in Accounts
    BY PriceTypes, StakeType DEF Accounts
  <2> QED
    BY <1>3, <2>1, MovingKeepsSupply DEF PayStake
<1>4. ASSUME NEW order \in Orders, NEW sender \in Users, NEW tokenId \in TokenIds,
             SettleContract(sender, order, tokenId)
      PROVE  Supply(a)' = Supply(a)
  BY <1>3, <1>4 DEF SettleContract, Accounts
<1>5. ASSUME NEW order \in Orders, ReclaimContract(order)
      PROVE  Supply(a)' = Supply(a)
  <2>1. CASE ReclaimNFT(order)
    BY <1>5, <2>1 DEF ReclaimContract, ReclaimNFT, Supply
  <2>2. CASE ReclaimStake(order)
    <3>1. bulls[order] \in Accounts
      BY <1>5 DEF ReclaimContract, ReclaimRequires, TypeOK, ProtocolTypeOK, OutcomesInOrder
    <3> QED
      BY <1>3, <1>5, <2>2, <3>1 DEF ReclaimContract, ReclaimStake
  <2> QED
    BY <1>5, <2>1, <2>2 DEF ReclaimContract
<1>6. ASSUME NEW sellOrder \in SellOrders, NEW sender \in Users, NEW tip \in Nat,
             NEW value \in Nat, BuyPosition(sender, sellOrder, tip, value)
      PROVE  Supply(a)' = Supply(a)
  <2>1. sellOrder.price + tip \in Nat
    BY OrdersAssumption, AssetsAssumption DEF SellOrderType
  <2> QED
    BY <1>6, <2>1, PayingTheSellerKeepsSupply DEF BuyPosition
<1>7. ASSUME NEW sender \in Users, NEW asset \in Assets, NEW recipient \in Recipients,
             WithdrawFees(sender, asset, recipient)
      PROVE  Supply(a)' = Supply(a)
  <2>1. recipient \in Accounts /\ Protocol \in Accounts /\ withdrawableFees[asset] \in Nat
    BY CallsAssumption, AssetsAssumption DEF Accounts, TypeOK, ProtocolTypeOK
  <2> QED
    BY <1>7, <2>1, MovingKeepsSupply DEF WithdrawFees
<1>8. CASE TokenCalls
  BY <1>8, HoldersKeepSupply
<1>9. CASE UNCHANGED <<balanceOf, ether>>
  BY <1>9 DEF Supply
<1>10. \/ \E sender \in Users, asset \in Assets, recipient \in Recipients :
             WithdrawFees(sender, asset, recipient)
       \/ TokenCalls
       \/ UNCHANGED <<balanceOf, ether>>
       \/ \E order \in Orders, sender \in Users, value \in Nat : MatchOrder(sender, order, value)
       \/ \E order \in Orders, sender \in Users, tokenId \in TokenIds :
             SettleContract(sender, order, tokenId)
       \/ \E order \in Orders : ReclaimContract(order)
       \/ \E sellOrder \in SellOrders, sender \in Users, tip \in Nat, value \in Nat :
             BuyPosition(sender, sellOrder, tip, value)
  <2>1. CASE QuietNext
    BY <2>1 DEF QuietNext, CancelOrder, CancelSellOrder, NonceNext, NonceCallsBy,
                SetMinimumValidNonce,
                 SetMinimumValidNonceSell, OwnerNext, OwnerCallsBy, SetAllowedCollection,
                 SetAllowedAsset,
                 SetFee, TransferOwnership, RenounceOwnership, vars, tokenVars
  <2>2. CASE \/ Tick
             \/ \E order \in Orders, sender \in Users, isBull \in BOOLEAN, to \in Accounts :
                   TransferPosition(sender, order, isBull, to)
    BY <2>2 DEF Tick, TransferPosition, tokenVars
  <2> QED
    BY <2>1, <2>2, StepCases
<1> QED
  BY <1>2, <1>4, <1>5, <1>6, <1>7, <1>8, <1>9, <1>10

\* No payment path creates or destroys money: whatever is matched, settled, reclaimed,
\* sold or withdrawn, and in whichever currency, the sum of all balances of an asset
\* (with the ether still to be wrapped) stays what it was.
THEOREM MoneyIsAlwaysConserved == Spec => MoneyIsConserved
<1> DEFINE Step == \A asset \in Assets : Supply(asset)' = Supply(asset)
<1>1. TypeOK /\ OutcomesInOrder /\ [Next]_vars => [Step]_vars
  BY SupplyStep
<1>2. MoneyIsConserved <=> [][Step]_vars
  BY DEF MoneyIsConserved
<1> QED
  BY <1>1, <1>2, TypesAndOutcomes, PTL DEF Spec

------------------------------------------------------------------------------
(* What each account pays.                                                   *)

\* What an account of an asset loses, or gains, when `n' of `asset' concerns `account'.
Part(b, x, asset, account, n) == IF b = asset /\ x = account THEN n ELSE 0

\* A transfer, also one to its sender.
LEMMA MovedEffect ==
    ASSUME NEW bal \in Balances, NEW asset \in Assets, NEW from \in Accounts,
           NEW to \in Accounts, NEW n \in Nat
    PROVE  \A b \in Assets, x \in Accounts :
              Moved(bal, asset, from, to, n)[b][x]
                  = bal[b][x] - Part(b, x, asset, from, n) + Part(b, x, asset, to, n)
<1> DEFINE debited == [bal EXCEPT ![asset][from] = @ - n]
<1>1. /\ debited \in [Assets -> [Accounts -> Int]]
      /\ \A b \in Assets, x \in Accounts :
            debited[b][x] = bal[b][x] - Part(b, x, asset, from, n)
  BY DEF Balances, Part
<1>2. Moved(bal, asset, from, to, n) = [debited EXCEPT ![asset][to] = @ + n]
  BY DEF Moved
<1> HIDE DEF debited
<1>3. \A b \in Assets, x \in Accounts :
         [debited EXCEPT ![asset][to] = @ + n][b][x] = debited[b][x] + Part(b, x, asset, to, n)
  BY <1>1 DEF Part
<1> QED
  BY <1>1, <1>2, <1>3

\* Minting.
LEMMA MintedEffect ==
    ASSUME NEW bal \in Balances, NEW asset \in Assets, NEW to \in Accounts, NEW n \in Nat
    PROVE  \A b \in Assets, x \in Accounts :
              Minted(bal, asset, to, n)[b][x] = bal[b][x] + Part(b, x, asset, to, n)
BY DEF Minted, Balances, Part

\* The amounts of an asset are natural numbers.
LEMMA AmountTypes ==
    ASSUME TypeOK, NEW b \in Assets
    PROVE  /\ \A x \in Accounts : balanceOf[b][x] \in Nat
           /\ \A user \in Users : ether[user] \in Nat
           /\ withdrawableFees[b] \in Nat
BY AssetsAssumption DEF TypeOK, TokenTypeOK, ProtocolTypeOK

\* What matchOrder takes from taker and maker, which may be one account, is what the
\* users lose.
LEMMA MatchDebits ==
    ASSUME TypeOK, NEW taker \in Users, NEW order \in Orders, NEW value \in Nat,
           value > 0 => value = TakerPrice(order) /\ order.asset = WETH,
           CollectPayments(taker, order, value), NEW b \in Assets, NEW user \in Users
    PROVE  Purse(b, user)' = Purse(b, user)
                                    - Part(b, user, order.asset, taker, TakerPrice(order))
                                    - Part(b, user, order.asset, order.maker, MakerPrice(order))
<1> DEFINE takes == TakerPrice(order)
           makes == MakerPrice(order)
           asset == order.asset
           maker == order.maker
           afterTaker == IF value > 0 THEN Minted(balanceOf, WETH, Protocol, value)
                         ELSE Moved(balanceOf, order.asset, taker, Protocol, takes)
<1>1. /\ maker \in Users /\ asset \in Assets /\ takes \in Nat /\ makes \in Nat
      /\ value > 0 => value = takes /\ asset = WETH
  BY PriceTypes
<1>2. /\ WETH \in Assets /\ balanceOf \in Balances /\ ether \in [Users -> Nat]
      /\ Protocol \in Accounts /\ user # Protocol
      /\ taker \in Accounts /\ user \in Accounts /\ maker \in Accounts
  BY <1>1, AssetsAssumption, AccountsAssumption DEF Accounts, TypeOK, TokenTypeOK, Balances
<1>3. /\ balanceOf[b][user] \in Nat /\ ether[user] \in Nat
  BY <1>2, AmountTypes
<1>4. /\ balanceOf' = Moved(afterTaker, asset, maker, Protocol, makes)
      /\ ether' = [ether EXCEPT ![taker] = @ - value]
  BY DEF CollectPayments, PullFromMaker
<1>5. afterTaker \in Balances
  BY <1>1, <1>2, MovedType, MintedType DEF CollectPayments, PullFromMaker, CanPull
<1>6. afterTaker[b][user] = IF value > 0 THEN balanceOf[b][user]
                            ELSE balanceOf[b][user] - Part(b, user, asset, taker, takes)
  <2>1. CASE value > 0
    <3>1. Minted(balanceOf, WETH, Protocol, value)[b][user]
              = balanceOf[b][user] + Part(b, user, WETH, Protocol, value)
      BY <1>2, MintedEffect
    <3> QED
      BY <1>2, <1>3, <2>1, <3>1 DEF Part
  <2>2. CASE ~(value > 0)
    <3> HIDE DEF takes, asset
    <3>1. Moved(balanceOf, asset, taker, Protocol, takes)[b][user]
              = balanceOf[b][user] - Part(b, user, asset, taker, takes)
                                   + Part(b, user, asset, Protocol, takes)
      BY <1>1, <1>2, MovedEffect
    <3>2. afterTaker = Moved(balanceOf, asset, taker, Protocol, takes)
      BY <2>2 DEF asset
    <3> HIDE DEF afterTaker
    <3> QED
      BY <1>1, <1>2, <1>3, <2>2, <3>1, <3>2 DEF Part
  <2> QED
    BY <2>1, <2>2
<1> HIDE DEF takes, makes, asset, maker, afterTaker
<1>7. balanceOf'[b][user] = afterTaker[b][user] - Part(b, user, asset, maker, makes)
  <2>1. Moved(afterTaker, asset, maker, Protocol, makes)[b][user]
            = afterTaker[b][user] - Part(b, user, asset, maker, makes)
                                  + Part(b, user, asset, Protocol, makes)
    BY <1>1, <1>2, <1>5, MovedEffect
  <2>2. afterTaker[b][user] \in Nat
    BY <1>2, <1>5 DEF Balances
  <2> QED
    BY <1>1, <1>2, <1>4, <2>1, <2>2 DEF Part
<1>8. ether'[user] = IF user = taker THEN ether[user] - value ELSE ether[user]
  BY <1>2, <1>4
<1>9. Purse(b, user)' = Purse(b, user) - Part(b, user, asset, taker, takes)
                                             - Part(b, user, asset, maker, makes)
  <2>1. CASE value > 0
    BY <1>1, <1>3, <1>6, <1>7, <1>8, <2>1 DEF Purse, Part
  <2>2. CASE ~(value > 0)
    <3>1. ether'[user] = ether[user]
      BY <1>3, <1>8, <2>2
    <3> QED
      BY <1>1, <1>3, <1>6, <1>7, <2>2, <3>1 DEF Purse, Part
  <2> QED
    BY <2>1, <2>2
<1> QED
  BY <1>9 DEF takes, makes, asset, maker

------------------------------------------------------------------------------
(* What conservation of money and solvency give every contract.              *)

SupplyFits == \A a \in Assets : Supply(a) <= MaxUint

\* At the beginning the protocol owns nothing and the supply is what the users have.
LEMMA InitialSupply == Init => SupplyFits
<1> SUFFICES ASSUME Init, NEW a \in Assets PROVE Supply(a) <= MaxUint
  BY DEF SupplyFits
<1>1. /\ \A x \in Users : balanceOf[a][x] = InitialBalance[a][x]
      /\ \A x \in Accounts : balanceOf[a][x] \in Nat
      /\ \A x \in Users : InitialBalance[a][x] \in Nat
      /\ balanceOf[a][Protocol] = 0 /\ ether = InitialEther
  BY AccountsAssumption, EndowmentAssumption DEF Init, TokenInit, Accounts
<1>2. Protocol \in Accounts /\ Accounts \ {Protocol} = Users
  BY AccountsAssumption DEF Accounts
<1> DEFINE bal == balanceOf[a]
<1> HIDE DEF bal
<1>3. SumFunctionOnSet(bal, Accounts) = bal[Protocol] + SumFunctionOnSet(bal, Users)
  BY <1>1, <1>2, FiniteAccounts, SumWithout DEF bal
<1>4. SumFunctionOnSet(bal, Users) = SumFunctionOnSet(InitialBalance[a], Users)
  BY <1>1, FiniteAccounts, SumOfSame DEF bal
<1>5. SumFunctionOnSet(bal, Users) \in Nat
  BY <1>1, <1>2, FiniteAccounts, SumType DEF bal
<1>6. SumFunctionOnSet(bal, Accounts) = SumFunctionOnSet(InitialBalance[a], Users)
  BY <1>1, <1>3, <1>4, <1>5 DEF bal
<1> QED
  BY <1>1, <1>6, SupplyAssumption DEF Supply, SupplyOf, bal

\* A balance is part of the supply.
LEMMA BalancesWithinSupply == TypeOK /\ SupplyFits => BalancesFit
<1> SUFFICES ASSUME TypeOK, SupplyFits, NEW a \in Assets, NEW account \in Accounts
             PROVE  balanceOf[a][account] <= MaxUint
  BY DEF BalancesFit
<1> DEFINE bal == balanceOf[a]
           rest == SumFunctionOnSet(bal, Accounts \ {account})
           toWrap == SumFunctionOnSet(ether, Users)
<1>1. /\ \A x \in Accounts : bal[x] \in Nat
      /\ \A x \in Users : ether[x] \in Nat
  BY DEF TypeOK, TokenTypeOK
<1> HIDE DEF bal
<1>2. SumFunctionOnSet(bal, Accounts) = bal[account] + rest
  BY <1>1, FiniteAccounts, SumWithout
<1>3. rest \in Nat /\ toWrap \in Nat
  <2>1. IsFiniteSet(Accounts \ {account})
    BY FiniteAccounts, FS_RemoveElement
  <2> QED
    BY <1>1, <2>1, FiniteAccounts, SumType
<1>4. (bal[account] + rest) + (IF a = WETH THEN toWrap ELSE 0) <= MaxUint
  BY <1>2 DEF SupplyFits, Supply, SupplyOf, bal
<1> HIDE DEF rest, toWrap
<1>5. bal[account] \in Nat /\ MaxUint \in Nat
  BY <1>1, AssetsAssumption
<1> QED
  BY <1>3, <1>4, <1>5 DEF bal

\* So are three balances together.
LEMMA ThreeBalancesWithinSupply ==
    ASSUME TypeOK, SupplyFits, NEW a \in Assets, NEW x \in Accounts, NEW y \in Accounts,
           NEW z \in Accounts, x # y, x # z, y # z
    PROVE  balanceOf[a][x] + balanceOf[a][y] + balanceOf[a][z] <= MaxUint
<1> DEFINE bal == balanceOf[a]
           notX == Accounts \ {x}
           notXY == notX \ {y}
           rest == SumFunctionOnSet(bal, notXY \ {z})
           toWrap == SumFunctionOnSet(ether, Users)
<1>1. /\ \A w \in Accounts : bal[w] \in Nat
      /\ \A w \in Users : ether[w] \in Nat
  BY DEF TypeOK, TokenTypeOK
<1>2. /\ IsFiniteSet(Accounts) /\ IsFiniteSet(Users)
      /\ IsFiniteSet(notX) /\ IsFiniteSet(notXY) /\ IsFiniteSet(notXY \ {z})
  BY FiniteAccounts, FS_RemoveElement
<1>3. y \in notX /\ z \in notXY /\ notX \subseteq Accounts /\ notXY \subseteq Accounts
  OBVIOUS
<1>4. rest \in Nat /\ toWrap \in Nat
  BY <1>1, <1>2, <1>3, SumType
<1> HIDE DEF bal, notX, notXY
<1>5. SumFunctionOnSet(bal, Accounts) = bal[x] + SumFunctionOnSet(bal, notX)
  BY <1>1, <1>2, SumWithout DEF notX
<1>6. SumFunctionOnSet(bal, notX) = bal[y] + SumFunctionOnSet(bal, notXY)
  BY <1>1, <1>2, <1>3, SumWithout DEF notXY
<1>7. SumFunctionOnSet(bal, notXY) = bal[z] + rest
  BY <1>1, <1>2, <1>3, SumWithout
<1> HIDE DEF rest, toWrap
<1>8. bal[x] + (bal[y] + (bal[z] + rest)) + (IF a = WETH THEN toWrap ELSE 0) <= MaxUint
  BY <1>5, <1>6, <1>7 DEF SupplyFits, Supply, SupplyOf, bal, toWrap
<1>9. bal[x] \in Nat /\ bal[y] \in Nat /\ bal[z] \in Nat /\ MaxUint \in Nat
  BY <1>1, AssetsAssumption
<1> QED
  BY <1>4, <1>8, <1>9 DEF bal

\* Minting is where the supply is bounded: no payment adds to it.
LEMMA SupplyAlwaysFits == Spec => []SupplyFits
<1>1. TypeOK /\ OutcomesInOrder /\ SupplyFits /\ [Next]_vars => SupplyFits'
  BY SupplyStep DEF SupplyFits
<1> QED
  BY <1>1, InitialSupply, TypesAndOutcomes, PTL DEF Spec

\* The supply of an asset, and with it every balance, stays within a uint256.
THEOREM BalancesAlwaysFit == Spec => []BalancesFit
BY SupplyAlwaysFits, BalancesWithinSupply, TypesAndOutcomes, PTL

\* The stake of a contract can be sent: the checked sum of premium and collateral does
\* not revert and the transfer is covered.
StakePayable(order) ==
    Stake(order) <= MaxUint /\ balanceOf[order.asset][Protocol] >= Stake(order)

\* All that settleContract requires of the bear of a live contract.
MaySettle(order, tokenId) ==
    /\ now <= order.expiry
    /\ ownerOf[order.collection][tokenId] = bears[order]
    /\ bears[order] \in isApprovedForAll[order.collection]

\* The conditions under which settleContract, called by the bear, does not revert.
SettlingSucceeds(order, tokenId) ==
    /\ SettleRequires(bears[order], order)
    /\ MaySettle(order, tokenId)
    /\ AcceptsERC721(Protocol)
    /\ StakePayable(order)

\* The conditions under which reclaimContract of an unsettled contract does not revert.
ReclaimingSucceeds(order) ==
    /\ ReclaimRequires(order)
    /\ order \notin settledContracts
    /\ Expired(order)
    /\ StakePayable(order)

\* They are sufficient: with these and the effects of the call there is a step.
LEMMA SufficientToSettle ==
    ASSUME NEW order, NEW tokenId, SettlingSucceeds(order, tokenId),
           settledContracts' = settledContracts \cup {order},
           claimableTokenId' = [claimableTokenId EXCEPT ![order] = tokenId],
           ownerOf' = [ownerOf EXCEPT ![order.collection][tokenId] = Protocol],
           balanceOf' = Moved(balanceOf, order.asset, Protocol, bears[order], Stake(order)),
           UNCHANGED <<now, ownerVars, withdrawableFees, matchedOrders, reclaimedContracts,
                       positionVars, revocationVars, boughtSellOrders, allowance, ether,
                       isApprovedForAll, shouldBlock>>
    PROVE  SettleContract(bears[order], order, tokenId)
BY DEF SettlingSucceeds, MaySettle, StakePayable, SettleContract, TakeNFT, SafeTransferNFT,
       PayStake

\* The same for reclaimContract.
LEMMA SufficientToReclaim ==
    ASSUME NEW order, ReclaimingSucceeds(order),
           reclaimedContracts' = reclaimedContracts \cup {order},
           balanceOf' = Moved(balanceOf, order.asset, Protocol, bulls[order], Stake(order)),
           UNCHANGED <<now, ownerVars, withdrawableFees, matchedOrders, settledContracts,
                       claimableTokenId, positionVars, revocationVars, boughtSellOrders,
                       allowance, ether, ownerOf, isApprovedForAll, shouldBlock>>
    PROVE  ReclaimContract(order)
BY DEF ReclaimingSucceeds, StakePayable, ReclaimContract, ReclaimStake, PayStake

\* The stake of a live contract is within what the protocol holds, which fits a uint256.
LEMMA LiveStakesArePayable ==
    ASSUME TypeOK, Solvent, BalancesFit, NEW order \in LiveContracts
    PROVE  StakePayable(order)
<1> DEFINE asset == order.asset
           onAsset == {o \in LiveContracts : o.asset = asset}
<1>1. order \in Orders /\ asset \in Assets /\ Stake(order) \in Nat /\ Protocol \in Accounts
  BY StakeType, PriceTypes DEF LiveContracts, TypeOK, ProtocolTypeOK, Accounts
<1>2. onAsset \subseteq Orders /\ order \in onAsset
  BY DEF LiveContracts, TypeOK, ProtocolTypeOK
<1>3. onAsset \in SUBSET Orders /\ onAsset \ {order} \in SUBSET Orders
  BY <1>2
<1>4. Escrow(onAsset) = Escrow(onAsset \ {order}) + Stake(order)
  <2> HIDE DEF onAsset
  <2> QED
    BY <1>2, <1>3, EscrowRemove
<1>5. Escrow(onAsset \ {order}) \in Nat
  BY <1>3, EscrowType
<1>6. balanceOf[asset][Protocol] >= withdrawableFees[asset] + Escrow(onAsset)
  BY <1>1 DEF Solvent, Locked
<1>7. /\ balanceOf[asset][Protocol] \in Nat /\ withdrawableFees[asset] \in Nat
      /\ MaxUint \in Nat /\ balanceOf[asset][Protocol] <= MaxUint
  BY <1>1, AssetsAssumption DEF TypeOK, TokenTypeOK, ProtocolTypeOK, BalancesFit
<1> HIDE DEF onAsset, asset
<1>8. balanceOf[asset][Protocol] >= Stake(order) /\ Stake(order) <= MaxUint
  BY <1>1, <1>4, <1>5, <1>6, <1>7
<1> QED
  BY <1>8 DEF StakePayable, asset

\* Nobody stands in the way of the winner of a contract.  Until it expires the bear can
\* settle with any token owned and approved, and after it expired unsettled the bull
\* can be paid: no owner method, no refusal of a token, no transaction on another
\* contract and no bound of uint256 makes settleContract or reclaimContract revert.
WinnersAreNotBlocked ==
    \A order \in LiveContracts :
        /\ \A tokenId \in TokenIds : MaySettle(order, tokenId) => SettlingSucceeds(order, tokenId)
        /\ Expired(order) => ReclaimingSucceeds(order)

\* In every reachable state neither settleContract nor reclaimContract reverts for who is
\* entitled to the stake of a live contract.
THEOREM WinnersAreNeverBlocked == Spec => []WinnersAreNotBlocked
<1>1. TypeOK /\ Solvent /\ BalancesFit => WinnersAreNotBlocked
  <2> SUFFICES ASSUME TypeOK, Solvent, BalancesFit, NEW order \in LiveContracts
               PROVE  /\ \A tokenId \in TokenIds :
                            MaySettle(order, tokenId) => SettlingSucceeds(order, tokenId)
                      /\ Expired(order) => ReclaimingSucceeds(order)
    BY DEF WinnersAreNotBlocked
  <2>1. StakePayable(order)
    BY LiveStakesArePayable
  <2>2. AcceptsERC721(Protocol)
    BY AccountsAssumption DEF AcceptsERC721, TypeOK, TokenTypeOK
  <2> QED
    BY <2>1, <2>2 DEF MaySettle, SettlingSucceeds, SettleRequires, ReclaimingSucceeds,
                      ReclaimRequires, LiveContracts
<1> QED
  BY <1>1, AlwaysSolvent, BalancesAlwaysFit, TypeCorrect, PTL
==============================================================================
