------------------------- MODULE BvbRefinementProofs -------------------------
(****************************************************************************)
(* BvbProtocol implements BvbVaults for every set of users and orders: each *)
(* transaction is, in the vaults, one of theirs or no step at all.          *)
(****************************************************************************)
EXTENDS BvbSolvencyProofs, BvbRefinement

MoneyAccounts == Accounts \cup Orders \cup {Fees}
Ledgers == [Assets -> [MoneyAccounts -> Int]]
TokenOwners == Accounts \cup Orders

\* The state of the vaults, as BvbRefinement reads it off the contract.
PhaseBar == [order \in Orders |-> PhaseOf(order)]
MoneyBar == [asset \in Assets |-> [account \in Accounts \cup Orders \cup {Fees} |->
                                      MoneyOf(asset, account)]]
TokensBar == [collection \in Collections |-> [id \in TokenIds |-> TokenOf(collection, id)]]

------------------------------------------------------------------------------
(* Payments between the accounts of the vaults.                              *)

\* A payment takes from one account what it gives to the other.
LEMMA PaidEffect ==
    ASSUME NEW m \in Ledgers, NEW asset \in Assets, NEW from \in MoneyAccounts,
           NEW to \in MoneyAccounts, NEW n \in Int
    PROVE  /\ Vaults!Paid(m, asset, from, to, n) \in Ledgers
           /\ \A b \in Assets, x \in MoneyAccounts :
                 Vaults!Paid(m, asset, from, to, n)[b][x]
                     = m[b][x] - Part(b, x, asset, from, n) + Part(b, x, asset, to, n)
<1> DEFINE debited == [m EXCEPT ![asset][from] = @ - n]
<1>1. /\ debited \in Ledgers
      /\ \A b \in Assets, x \in MoneyAccounts :
            debited[b][x] = m[b][x] - Part(b, x, asset, from, n)
  BY DEF Ledgers, Part
<1>2. Vaults!Paid(m, asset, from, to, n) = [debited EXCEPT ![asset][to] = @ + n]
  BY DEF Vaults!Paid
<1> HIDE DEF debited
<1>3. /\ [debited EXCEPT ![asset][to] = @ + n] \in Ledgers
      /\ \A b \in Assets, x \in MoneyAccounts :
            [debited EXCEPT ![asset][to] = @ + n][b][x] = debited[b][x] + Part(b, x, asset, to, n)
  BY <1>1 DEF Ledgers, Part
<1> QED
  BY <1>1, <1>2, <1>3

\* Ledgers that agree on every account of every asset are the same.
LEMMA SameLedger ==
    ASSUME NEW m1 \in Ledgers, NEW m2 \in Ledgers,
           \A b \in Assets, x \in MoneyAccounts : m1[b][x] = m2[b][x]
    PROVE  m1 = m2
<1>1. \A b \in Assets : m1[b] = m2[b]
  BY DEF Ledgers
<1> QED
  BY <1>1 DEF Ledgers

\* The accounts of the vaults are of four kinds.
LEMMA MoneyBarIs ==
    ASSUME TypeOK
    PROVE  /\ MoneyBar \in Ledgers
           /\ \A a \in Assets :
                 /\ \A user \in Users : MoneyBar[a][user] = Purse(a, user)
                 /\ \A order \in Orders : MoneyBar[a][order] = InVault(a, order)
                 /\ MoneyBar[a][Fees] = withdrawableFees[a]
                 /\ MoneyBar[a][Protocol] = Unclaimed(a)
<1>1. ASSUME NEW a \in Assets
      PROVE  /\ \A user \in Users : Purse(a, user) \in Int
             /\ \A order \in Orders : InVault(a, order) \in Int
             /\ withdrawableFees[a] \in Int
             /\ Unclaimed(a) \in Int
  <2>1. Locked(a) \in Nat
    <3>1. LiveOn(a) \in SUBSET Orders
      BY DEF LiveOn, LiveContracts, TypeOK, ProtocolTypeOK
    <3> QED
      BY <3>1, EscrowType DEF Locked, LiveOn
  <2>2. balanceOf[a] \in [Accounts -> Nat] /\ ether \in [Users -> Nat]
    BY DEF TypeOK, TokenTypeOK
  <2>3. withdrawableFees[a] \in Nat /\ Protocol \in Accounts /\ Users \subseteq Accounts
    BY AssetsAssumption DEF TypeOK, ProtocolTypeOK, Accounts
  <2> QED
    BY <2>1, <2>2, <2>3, StakeType DEF Purse, InVault, Unclaimed
<1>2. ASSUME NEW a \in Assets
      PROVE  /\ \A user \in Users : MoneyOf(a, user) = Purse(a, user)
             /\ \A order \in Orders : MoneyOf(a, order) = InVault(a, order)
             /\ MoneyOf(a, Fees) = withdrawableFees[a]
             /\ MoneyOf(a, Protocol) = Unclaimed(a)
  BY VaultsAssumption, AccountsAssumption DEF MoneyOf, Accounts
<1>3. ASSUME NEW a \in Assets, NEW x \in MoneyAccounts PROVE MoneyOf(a, x) \in Int
  BY <1>1, <1>2 DEF MoneyAccounts, Accounts
<1>4. MoneyBar \in Ledgers
  BY <1>3 DEF MoneyBar, Ledgers, MoneyAccounts
<1>5. ASSUME NEW a \in Assets, NEW x \in MoneyAccounts PROVE MoneyBar[a][x] = MoneyOf(a, x)
  BY DEF MoneyBar, MoneyAccounts
<1>6. /\ Users \subseteq MoneyAccounts /\ Orders \subseteq MoneyAccounts
      /\ Fees \in MoneyAccounts /\ Protocol \in MoneyAccounts
  BY DEF MoneyAccounts, Accounts
<1> QED
  BY <1>2, <1>4, <1>5, <1>6

\* The same of the next state.
LEMMA MoneyBarWillBe ==
    TypeOK' =>
        /\ MoneyBar' \in Ledgers
        /\ \A a \in Assets :
              /\ \A user \in Users : MoneyBar'[a][user] = Purse(a, user)'
              /\ \A order \in Orders : MoneyBar'[a][order] = InVault(a, order)'
              /\ MoneyBar'[a][Fees] = withdrawableFees'[a]
              /\ MoneyBar'[a][Protocol] = Unclaimed(a)'
<1> DEFINE Reading ==
              /\ MoneyBar \in Ledgers
              /\ \A a \in Assets :
                    /\ \A user \in Users : MoneyBar[a][user] = Purse(a, user)
                    /\ \A order \in Orders : MoneyBar[a][order] = InVault(a, order)
                    /\ MoneyBar[a][Fees] = withdrawableFees[a]
                    /\ MoneyBar[a][Protocol] = Unclaimed(a)
<1>1. TypeOK => Reading
  BY MoneyBarIs
<1>2. TypeOK' => Reading'
  BY <1>1, PTL
<1> QED
  BY <1>2

\* How much money moved, for each kind of account.
MoneyMoves(asset, from, to, n) ==
    \A b \in Assets :
        /\ \A user \in Users :
              Purse(b, user)' = Purse(b, user) - Part(b, user, asset, from, n)
                                                     + Part(b, user, asset, to, n)
        /\ \A order \in Orders :
              InVault(b, order)' = InVault(b, order) - Part(b, order, asset, from, n)
                                                     + Part(b, order, asset, to, n)
        /\ withdrawableFees'[b] = withdrawableFees[b] - Part(b, Fees, asset, from, n)
                                                      + Part(b, Fees, asset, to, n)
        /\ Unclaimed(b)' = Unclaimed(b) - Part(b, Protocol, asset, from, n)
                                        + Part(b, Protocol, asset, to, n)

\* Such a movement is one payment between vaults, users and fees.
LEMMA MovesArePayments ==
    ASSUME TypeOK, TypeOK', NEW asset \in Assets, NEW from \in MoneyAccounts,
           NEW to \in MoneyAccounts, NEW n \in Int, MoneyMoves(asset, from, to, n)
    PROVE  MoneyBar' = Vaults!Paid(MoneyBar, asset, from, to, n)
<1> DEFINE paid == Vaults!Paid(MoneyBar, asset, from, to, n)
<1>1. MoneyBar \in Ledgers /\ MoneyBar' \in Ledgers
  BY MoneyBarIs, MoneyBarWillBe
<1>2. /\ paid \in Ledgers
      /\ \A b \in Assets, x \in MoneyAccounts :
            paid[b][x] = MoneyBar[b][x] - Part(b, x, asset, from, n) + Part(b, x, asset, to, n)
  BY <1>1, PaidEffect
<1> HIDE DEF paid
<1>3. ASSUME NEW b \in Assets, NEW x \in MoneyAccounts PROVE MoneyBar'[b][x] = paid[b][x]
  <2>1. CASE x \in Users
    BY <1>2, <2>1, MoneyBarIs, MoneyBarWillBe DEF MoneyMoves
  <2>2. CASE x \in Orders
    BY <1>2, <2>2, MoneyBarIs, MoneyBarWillBe DEF MoneyMoves
  <2>3. CASE x = Fees
    BY <1>2, <2>3, MoneyBarIs, MoneyBarWillBe DEF MoneyMoves
  <2>4. CASE x = Protocol
    BY <1>2, <2>4, MoneyBarIs, MoneyBarWillBe DEF MoneyMoves
  <2> QED
    BY <2>1, <2>2, <2>3, <2>4 DEF MoneyAccounts, Accounts
<1> QED
  BY <1>1, <1>2, <1>3, SameLedger DEF paid

\* When no kind of account changed, no money moved.
LEMMA NothingMoved ==
    ASSUME TypeOK, TypeOK',
           \A b \in Assets :
               /\ \A user \in Users : Purse(b, user)' = Purse(b, user)
               /\ \A order \in Orders : InVault(b, order)' = InVault(b, order)
               /\ withdrawableFees'[b] = withdrawableFees[b]
               /\ Unclaimed(b)' = Unclaimed(b)
    PROVE  MoneyBar' = MoneyBar
<1>1. MoneyBar \in Ledgers /\ MoneyBar' \in Ledgers
  BY MoneyBarIs, MoneyBarWillBe
<1>2. ASSUME NEW b \in Assets, NEW x \in MoneyAccounts PROVE MoneyBar'[b][x] = MoneyBar[b][x]
  BY MoneyBarIs, MoneyBarWillBe DEF MoneyAccounts, Accounts
<1> QED
  BY <1>1, <1>2, SameLedger

------------------------------------------------------------------------------
(* What is in the vaults.                                                    *)

\* What is in the vaults when a contract ends.
LEMMA LockedWithout ==
    ASSUME TypeOK, NEW order \in LiveContracts, LiveContracts' = LiveContracts \ {order},
           NEW b \in Assets
    PROVE  /\ Locked(b) \in Nat /\ Locked(b)' \in Nat
           /\ Locked(b)' = Locked(b) - Part(b, order, order.asset, order, Stake(order))
<1>1. /\ LiveOn(b) \in SUBSET Orders /\ LiveOn(b)' \in SUBSET Orders
      /\ Stake(order) \in Nat
  BY StakeType DEF LiveOn, LiveContracts, TypeOK, ProtocolTypeOK
<1>2. Escrow(LiveOn(b)) \in Nat /\ Escrow(LiveOn(b)') \in Nat
  BY <1>1, EscrowType
<1>3. Locked(b) = Escrow(LiveOn(b)) /\ Locked(b)' = Escrow(LiveOn(b)')
  BY DEF Locked, LiveOn
<1>4. CASE b = order.asset
  <2>1. LiveOn(b)' = LiveOn(b) \ {order} /\ order \in LiveOn(b)
    BY <1>4 DEF LiveOn
  <2>2. Escrow(LiveOn(b)) = Escrow(LiveOn(b)') + Stake(order)
    BY <1>1, <2>1, EscrowRemove
  <2> QED
    BY <1>1, <1>2, <1>3, <1>4, <2>2 DEF Part
<1>5. CASE b # order.asset
  <2>1. LiveOn(b)' = LiveOn(b)
    BY <1>5 DEF LiveOn
  <2> QED
    BY <1>2, <1>3, <1>5, <2>1 DEF Part
<1> QED
  BY <1>4, <1>5

\* What is in the vaults when a contract is added.
LEMMA LockedWith ==
    ASSUME TypeOK, NEW order \in Orders, order \notin LiveContracts,
           LiveContracts' = LiveContracts \cup {order}, NEW b \in Assets
    PROVE  /\ Locked(b) \in Nat /\ Locked(b)' \in Nat
           /\ Locked(b)' = Locked(b) + Part(b, order, order.asset, order, Stake(order))
<1>1. /\ LiveOn(b) \in SUBSET Orders /\ LiveOn(b)' \in SUBSET Orders
      /\ Stake(order) \in Nat
  BY StakeType DEF LiveOn, LiveContracts, TypeOK, ProtocolTypeOK
<1>2. Escrow(LiveOn(b)) \in Nat /\ Escrow(LiveOn(b)') \in Nat
  BY <1>1, EscrowType
<1>3. Locked(b) = Escrow(LiveOn(b)) /\ Locked(b)' = Escrow(LiveOn(b)')
  BY DEF Locked, LiveOn
<1>4. CASE b = order.asset
  <2>1. LiveOn(b)' = LiveOn(b) \cup {order} /\ order \notin LiveOn(b)
    BY <1>4 DEF LiveOn
  <2>2. Escrow(LiveOn(b)') = Escrow(LiveOn(b)) + Stake(order)
    BY <1>1, <2>1, EscrowAdd
  <2> QED
    BY <1>1, <1>2, <1>3, <1>4, <2>2 DEF Part
<1>5. CASE b # order.asset
  <2>1. LiveOn(b)' = LiveOn(b)
    BY <1>5 DEF LiveOn
  <2> QED
    BY <1>2, <1>3, <1>5, <2>1 DEF Part
<1> QED
  BY <1>4, <1>5

\* What is in the vaults when no contract starts or ends.
LEMMA LockedSame ==
    ASSUME TypeOK, UNCHANGED LiveContracts, NEW b \in Assets
    PROVE  Locked(b) \in Nat /\ Locked(b)' = Locked(b)
<1>1. LiveOn(b) \in SUBSET Orders
  BY DEF LiveOn, LiveContracts, TypeOK, ProtocolTypeOK
<1> QED
  BY <1>1, EscrowType DEF Locked, LiveOn

------------------------------------------------------------------------------
(* The money each transaction moves.                                         *)

\* The kinds of accounts do not overlap.
LEMMA KindsOfAccounts ==
    /\ Protocol \in Accounts /\ Protocol \in MoneyAccounts /\ Fees \in MoneyAccounts
    /\ Fees # Protocol
    /\ Accounts \subseteq MoneyAccounts /\ Orders \subseteq MoneyAccounts
    /\ \A user \in Users : user \in Accounts /\ user # Protocol
    /\ \A account \in Accounts : account # Fees
    /\ \A order \in Orders : order # Fees /\ order # Protocol
    /\ \A order \in Orders, account \in Accounts : order # account
BY VaultsAssumption, AccountsAssumption DEF Accounts, MoneyAccounts

\* A transfer between addresses, the vaults and fees left alone.
LEMMA TransferMoves ==
    ASSUME TypeOK, NEW asset \in Assets, NEW from \in Accounts, NEW to \in Accounts,
           NEW n \in Nat, balanceOf' = Moved(balanceOf, asset, from, to, n),
           UNCHANGED <<ether, LiveContracts, withdrawableFees>>
    PROVE  MoneyMoves(asset, from, to, n)
<1> SUFFICES ASSUME NEW b \in Assets
    PROVE  /\ \A user \in Users :
                 Purse(b, user)' = Purse(b, user) - Part(b, user, asset, from, n)
                                                        + Part(b, user, asset, to, n)
           /\ \A order \in Orders :
                 InVault(b, order)' = InVault(b, order) - Part(b, order, asset, from, n)
                                                        + Part(b, order, asset, to, n)
           /\ withdrawableFees'[b] = withdrawableFees[b] - Part(b, Fees, asset, from, n)
                                                         + Part(b, Fees, asset, to, n)
           /\ Unclaimed(b)' = Unclaimed(b) - Part(b, Protocol, asset, from, n)
                                           + Part(b, Protocol, asset, to, n)
  BY DEF MoneyMoves
<1>1. \A x \in Accounts :
         balanceOf'[b][x] = balanceOf[b][x] - Part(b, x, asset, from, n)
                                            + Part(b, x, asset, to, n)
  <2>1. balanceOf \in Balances
    BY DEF TypeOK, TokenTypeOK, Balances
  <2> QED
    BY <2>1, MovedEffect
<1>2. /\ \A x \in Accounts : balanceOf[b][x] \in Nat
      /\ \A user \in Users : ether[user] \in Nat
      /\ withdrawableFees[b] \in Nat
  BY AmountTypes
<1>3. ASSUME NEW user \in Users
      PROVE  Purse(b, user)' = Purse(b, user) - Part(b, user, asset, from, n)
                                                    + Part(b, user, asset, to, n)
  BY <1>1, <1>2, KindsOfAccounts DEF Purse, Part
<1>4. ASSUME NEW order \in Orders
      PROVE  InVault(b, order)' = InVault(b, order) - Part(b, order, asset, from, n)
                                                    + Part(b, order, asset, to, n)
  <2>1. InVault(b, order)' = InVault(b, order) /\ InVault(b, order) \in Nat
    BY StakeType DEF InVault
  <2> QED
    BY <2>1, KindsOfAccounts DEF Part
<1>5. withdrawableFees'[b] = withdrawableFees[b] - Part(b, Fees, asset, from, n)
                                                 + Part(b, Fees, asset, to, n)
  BY <1>2, KindsOfAccounts DEF Part
<1>6. Unclaimed(b)' = Unclaimed(b) - Part(b, Protocol, asset, from, n)
                                   + Part(b, Protocol, asset, to, n)
  BY <1>1, <1>2, LockedSame, KindsOfAccounts DEF Unclaimed, Part
<1> QED
  BY <1>3, <1>4, <1>5, <1>6

\* The stake of a contract that ends leaves its vault.
LEMMA StakeMoves ==
    ASSUME TypeOK, NEW order \in LiveContracts, NEW winner \in Accounts,
           PayStake(order, winner), LiveContracts' = LiveContracts \ {order},
           UNCHANGED <<ether, withdrawableFees>>
    PROVE  MoneyMoves(order.asset, order, winner, Stake(order))
<1> DEFINE n == Stake(order)
           asset == order.asset
<1>0. order \in Orders /\ asset \in Assets /\ n \in Nat
  BY StakeType, PriceTypes DEF LiveContracts, TypeOK, ProtocolTypeOK
<1>00. balanceOf' = Moved(balanceOf, asset, Protocol, winner, n)
  BY DEF PayStake
<1> SUFFICES ASSUME NEW b \in Assets
    PROVE  /\ \A user \in Users :
                 Purse(b, user)' = Purse(b, user) - Part(b, user, asset, order, n)
                                                        + Part(b, user, asset, winner, n)
           /\ \A o \in Orders :
                 InVault(b, o)' = InVault(b, o) - Part(b, o, asset, order, n)
                                                + Part(b, o, asset, winner, n)
           /\ withdrawableFees'[b] = withdrawableFees[b] - Part(b, Fees, asset, order, n)
                                                         + Part(b, Fees, asset, winner, n)
           /\ Unclaimed(b)' = Unclaimed(b) - Part(b, Protocol, asset, order, n)
                                           + Part(b, Protocol, asset, winner, n)
  BY DEF MoneyMoves
<1> HIDE DEF n, asset
<1>1. \A x \in Accounts :
         balanceOf'[b][x] = balanceOf[b][x] - Part(b, x, asset, Protocol, n)
                                            + Part(b, x, asset, winner, n)
  <2>1. balanceOf \in Balances
    BY DEF TypeOK, TokenTypeOK, Balances
  <2> QED
    BY <1>0, <1>00, <2>1, KindsOfAccounts, MovedEffect
<1>2. /\ \A x \in Accounts : balanceOf[b][x] \in Nat
      /\ \A user \in Users : ether[user] \in Nat
      /\ withdrawableFees[b] \in Nat
  BY AmountTypes
<1>3. ASSUME NEW user \in Users
      PROVE  Purse(b, user)' = Purse(b, user) - Part(b, user, asset, order, n)
                                                    + Part(b, user, asset, winner, n)
  BY <1>0, <1>1, <1>2, KindsOfAccounts DEF Purse, Part
<1>4. ASSUME NEW o \in Orders
      PROVE  InVault(b, o)' = InVault(b, o) - Part(b, o, asset, order, n)
                                            + Part(b, o, asset, winner, n)
  <2>1. Part(b, o, asset, winner, n) = 0
    BY KindsOfAccounts DEF Part
  <2>2. CASE o = order
    BY <1>0, <2>1, <2>2 DEF InVault, Part, asset, n
  <2>3. CASE o # order
    <3>1. InVault(b, o)' = InVault(b, o) /\ InVault(b, o) \in Nat
      BY <2>3, StakeType DEF InVault
    <3>2. Part(b, o, asset, order, n) = 0
      BY <2>3 DEF Part
    <3> QED
      BY <2>1, <3>1, <3>2
  <2> QED
    BY <2>2, <2>3
<1>5. withdrawableFees'[b] = withdrawableFees[b] - Part(b, Fees, asset, order, n)
                                                 + Part(b, Fees, asset, winner, n)
  BY <1>0, <1>2, KindsOfAccounts DEF Part
<1>6. Unclaimed(b)' = Unclaimed(b) - Part(b, Protocol, asset, order, n)
                                   + Part(b, Protocol, asset, winner, n)
  <2>1. /\ Locked(b) \in Nat /\ Locked(b)' \in Nat
        /\ Locked(b)' = Locked(b) - Part(b, order, asset, order, n)
    BY LockedWithout DEF asset, n
  <2>2. balanceOf'[b][Protocol] = balanceOf[b][Protocol] - Part(b, Protocol, asset, Protocol, n)
                                                         + Part(b, Protocol, asset, winner, n)
    BY <1>1, KindsOfAccounts
  <2> QED
    BY <1>0, <1>2, <2>1, <2>2, KindsOfAccounts DEF Unclaimed, Part
<1> QED
  BY <1>3, <1>4, <1>5, <1>6

\* The owner's fees leave the account of the fees.
LEMMA FeesMove ==
    ASSUME TypeOK, NEW asset \in Assets, NEW recipient \in Accounts, NEW sender \in Users,
           WithdrawFees(sender, asset, recipient)
    PROVE  MoneyMoves(asset, Fees, recipient, withdrawableFees[asset])
<1> DEFINE n == withdrawableFees[asset]
<1>0. /\ balanceOf' = Moved(balanceOf, asset, Protocol, recipient, n)
      /\ withdrawableFees' = [withdrawableFees EXCEPT ![asset] = 0]
      /\ UNCHANGED <<ether, LiveContracts>>
  BY DEF WithdrawFees, FeesCleared, LiveContracts, contractVars
<1>00. n \in Nat /\ withdrawableFees \in [Assets -> Nat]
  BY AssetsAssumption DEF TypeOK, ProtocolTypeOK
<1> SUFFICES ASSUME NEW b \in Assets
    PROVE  /\ \A user \in Users :
                 Purse(b, user)' = Purse(b, user) - Part(b, user, asset, Fees, n)
                                                        + Part(b, user, asset, recipient, n)
           /\ \A order \in Orders :
                 InVault(b, order)' = InVault(b, order) - Part(b, order, asset, Fees, n)
                                                        + Part(b, order, asset, recipient, n)
           /\ withdrawableFees'[b] = withdrawableFees[b] - Part(b, Fees, asset, Fees, n)
                                                         + Part(b, Fees, asset, recipient, n)
           /\ Unclaimed(b)' = Unclaimed(b) - Part(b, Protocol, asset, Fees, n)
                                           + Part(b, Protocol, asset, recipient, n)
  BY DEF MoneyMoves
<1>5. /\ withdrawableFees'[b] = withdrawableFees[b] - Part(b, Fees, asset, Fees, n)
                                                    + Part(b, Fees, asset, recipient, n)
      /\ withdrawableFees'[b] = withdrawableFees[b] - Part(b, asset, asset, asset, n)
  BY <1>0, <1>00, KindsOfAccounts DEF Part
<1> HIDE DEF n
<1>1. \A x \in Accounts :
         balanceOf'[b][x] = balanceOf[b][x] - Part(b, x, asset, Protocol, n)
                                            + Part(b, x, asset, recipient, n)
  <2>1. balanceOf \in Balances
    BY DEF TypeOK, TokenTypeOK, Balances
  <2> QED
    BY <1>0, <1>00, <2>1, KindsOfAccounts, MovedEffect
<1>2. /\ \A x \in Accounts : balanceOf[b][x] \in Nat
      /\ \A user \in Users : ether[user] \in Nat
      /\ withdrawableFees[b] \in Nat
  BY AmountTypes
<1>3. ASSUME NEW user \in Users
      PROVE  Purse(b, user)' = Purse(b, user) - Part(b, user, asset, Fees, n)
                                                    + Part(b, user, asset, recipient, n)
  BY <1>0, <1>00, <1>1, <1>2, KindsOfAccounts DEF Purse, Part
<1>4. ASSUME NEW order \in Orders
      PROVE  InVault(b, order)' = InVault(b, order) - Part(b, order, asset, Fees, n)
                                                    + Part(b, order, asset, recipient, n)
  <2>1. InVault(b, order)' = InVault(b, order) /\ InVault(b, order) \in Nat
    BY <1>0, StakeType DEF InVault
  <2> QED
    BY <2>1, KindsOfAccounts DEF Part
<1>6. Unclaimed(b)' = Unclaimed(b) - Part(b, Protocol, asset, Fees, n)
                                   + Part(b, Protocol, asset, recipient, n)
  <2>1. Locked(b) \in Nat /\ Locked(b)' = Locked(b)
    BY <1>0, LockedSame
  <2> QED
    BY <1>00, <1>1, <1>2, <1>5, <2>1, KindsOfAccounts DEF Unclaimed, Part
<1> QED
  BY <1>3, <1>4, <1>5, <1>6

\* The price of a position goes from buyer to seller, also when it is ether that is
\* wrapped by the protocol and passed on.
LEMMA SaleMoves ==
    ASSUME TypeOK, NEW sellOrder \in SellOrders, NEW buyer \in Users, NEW price \in Nat,
           NEW value \in Nat, PaySeller(buyer, sellOrder, price, value),
           UNCHANGED <<LiveContracts, withdrawableFees>>
    PROVE  MoneyMoves(sellOrder.asset, buyer, sellOrder.maker, price)
<1>0. /\ sellOrder.asset \in Assets /\ sellOrder.maker \in Users /\ WETH \in Assets
      /\ sellOrder.maker \in Accounts /\ buyer \in Accounts
      /\ balanceOf \in Balances /\ ether \in [Users -> Nat]
  BY SellOrderTypes, OrdersAssumption, AssetsAssumption
     DEF SellOrderType, Accounts, TypeOK, TokenTypeOK, Balances
<1>1. CASE ~(value > 0)
  <2>1. /\ balanceOf' = Moved(balanceOf, sellOrder.asset, buyer, sellOrder.maker, price)
        /\ UNCHANGED ether
    BY <1>1 DEF PaySeller, ForwardEther
  <2> QED
    BY <1>0, <2>1, TransferMoves
<1>2. CASE value > 0
  <2> DEFINE seller == sellOrder.maker
             wrapped == Minted(balanceOf, WETH, Protocol, value)
  <2>1. /\ value = price /\ sellOrder.asset = WETH
        /\ ether' = [ether EXCEPT ![buyer] = @ - value]
        /\ balanceOf' = Moved(wrapped, WETH, Protocol, seller, value)
    BY <1>2 DEF PaySeller, ForwardEther
  <2>2. seller \in Users /\ seller \in Accounts
    BY <1>0
  <2> SUFFICES ASSUME NEW b \in Assets
      PROVE  /\ \A user \in Users :
                   Purse(b, user)' = Purse(b, user) - Part(b, user, WETH, buyer, value)
                                                          + Part(b, user, WETH, seller, value)
             /\ \A order \in Orders :
                   InVault(b, order)' = InVault(b, order) - Part(b, order, WETH, buyer, value)
                                                          + Part(b, order, WETH, seller, value)
             /\ withdrawableFees'[b] = withdrawableFees[b] - Part(b, Fees, WETH, buyer, value)
                                                           + Part(b, Fees, WETH, seller, value)
             /\ Unclaimed(b)' = Unclaimed(b) - Part(b, Protocol, WETH, buyer, value)
                                             + Part(b, Protocol, WETH, seller, value)
    BY <2>1 DEF MoneyMoves
  <2>3. wrapped \in Balances
    BY <1>0, KindsOfAccounts, MintedType
  <2>4. \A x \in Accounts :
           wrapped[b][x] = balanceOf[b][x] + Part(b, x, WETH, Protocol, value)
    BY <1>0, KindsOfAccounts, MintedEffect
  <2> HIDE DEF seller, wrapped
  <2>5. \A x \in Accounts :
           balanceOf'[b][x] = wrapped[b][x] - Part(b, x, WETH, Protocol, value)
                                            + Part(b, x, WETH, seller, value)
    <3>1. WETH \in Assets /\ Protocol \in Accounts
      BY <1>0, KindsOfAccounts
    <3>2. \A x \in Accounts :
             Moved(wrapped, WETH, Protocol, seller, value)[b][x]
                 = wrapped[b][x] - Part(b, x, WETH, Protocol, value)
                                 + Part(b, x, WETH, seller, value)
      BY <2>2, <2>3, <3>1, MovedEffect
    <3> QED
      BY <2>1, <3>2
  <2>6. /\ \A x \in Accounts : balanceOf[b][x] \in Nat
        /\ \A user \in Users : ether[user] \in Nat
        /\ withdrawableFees[b] \in Nat
    BY AmountTypes
  <2>7. \A x \in Accounts :
           balanceOf'[b][x] = balanceOf[b][x] + Part(b, x, WETH, seller, value)
    BY <2>4, <2>5, <2>6 DEF Part
  <2>8. ASSUME NEW user \in Users
        PROVE  Purse(b, user)' = Purse(b, user) - Part(b, user, WETH, buyer, value)
                                                      + Part(b, user, WETH, seller, value)
    <3>1. ether'[user] = ether[user] - Part(WETH, user, WETH, buyer, value)
      BY <1>0, <2>1, <2>6 DEF Part
    <3>2. balanceOf'[b][user] = balanceOf[b][user] + Part(b, user, WETH, seller, value)
      BY <2>7, KindsOfAccounts
    <3>3. balanceOf[b][user] \in Nat /\ ether[user] \in Nat
      BY <2>6, KindsOfAccounts
    <3> QED
      BY <3>1, <3>2, <3>3 DEF Purse, Part
  <2>9. ASSUME NEW order \in Orders
        PROVE  InVault(b, order)' = InVault(b, order) - Part(b, order, WETH, buyer, value)
                                                      + Part(b, order, WETH, seller, value)
    <3>1. InVault(b, order)' = InVault(b, order) /\ InVault(b, order) \in Nat
      BY StakeType DEF InVault
    <3> QED
      BY <1>0, <2>2, <3>1, KindsOfAccounts DEF Part
  <2>10. withdrawableFees'[b] = withdrawableFees[b] - Part(b, Fees, WETH, buyer, value)
                                                    + Part(b, Fees, WETH, seller, value)
    BY <1>0, <2>2, <2>6, KindsOfAccounts DEF Part
  <2>11. Unclaimed(b)' = Unclaimed(b) - Part(b, Protocol, WETH, buyer, value)
                                      + Part(b, Protocol, WETH, seller, value)
    BY <2>2, <2>6, <2>7, LockedSame, KindsOfAccounts DEF Unclaimed, Part
  <2> QED
    BY <2>8, <2>9, <2>10, <2>11
<1> QED
  BY <1>1, <1>2

\* Wrapping and unwrapping move no money.
LEMMA WrappingMovesNothing ==
    ASSUME TypeOK, TypeOK', NEW user \in Users, NEW n \in Nat,
           Deposit(user, n) \/ Withdraw(user, n),
           UNCHANGED <<LiveContracts, withdrawableFees>>
    PROVE  MoneyBar' = MoneyBar
<1>0. WETH \in Assets /\ balanceOf \in Balances /\ ether \in [Users -> Nat]
  BY AssetsAssumption DEF TypeOK, TokenTypeOK, Balances
<1>1. ASSUME NEW b \in Assets
      PROVE  /\ \A u \in Users : Purse(b, u)' = Purse(b, u)
             /\ \A order \in Orders : InVault(b, order)' = InVault(b, order)
             /\ withdrawableFees'[b] = withdrawableFees[b]
             /\ Unclaimed(b)' = Unclaimed(b)
  <2>1. /\ \A x \in Accounts : balanceOf[b][x] \in Nat
        /\ \A u \in Users : ether[u] \in Nat
    BY AmountTypes
  <2>2. CASE Deposit(user, n)
    <3>1. /\ ether' = [ether EXCEPT ![user] = @ - n]
          /\ balanceOf' = Minted(balanceOf, WETH, user, n)
      BY <2>2 DEF Deposit
    <3>2. \A x \in Accounts : balanceOf'[b][x] = balanceOf[b][x] + Part(b, x, WETH, user, n)
      BY <1>0, <3>1, KindsOfAccounts, MintedEffect
    <3>3. \A u \in Users : Purse(b, u)' = Purse(b, u)
      BY <1>0, <2>1, <3>1, <3>2, KindsOfAccounts DEF Purse, Part
    <3>4. balanceOf'[b][Protocol] = balanceOf[b][Protocol]
      BY <2>1, <3>2, KindsOfAccounts DEF Part
    <3> QED
      BY <3>3, <3>4, LockedSame DEF InVault, Unclaimed
  <2>3. CASE Withdraw(user, n)
    <3>1. /\ ether' = [ether EXCEPT ![user] = @ + n]
          /\ balanceOf' = [balanceOf EXCEPT ![WETH][user] = @ - n]
      BY <2>3 DEF Withdraw
    <3>2. \A x \in Accounts : balanceOf'[b][x] = balanceOf[b][x] - Part(b, x, WETH, user, n)
      BY <1>0, <2>1, <3>1, KindsOfAccounts DEF Balances, Part
    <3>3. \A u \in Users : Purse(b, u)' = Purse(b, u)
      BY <1>0, <2>1, <3>1, <3>2, KindsOfAccounts DEF Purse, Part
    <3>4. balanceOf'[b][Protocol] = balanceOf[b][Protocol]
      BY <2>1, <3>2, KindsOfAccounts DEF Part
    <3> QED
      BY <3>3, <3>4, LockedSame DEF InVault, Unclaimed
  <2> QED
    BY <2>2, <2>3
<1> QED
  BY <1>1, NothingMoved

\* One party of an order pays its principal into the vault and its fee.
LEMMA FundedEffect ==
    ASSUME NEW m \in Ledgers, NEW order \in Orders, NEW isBull \in BOOLEAN,
           NEW payer \in Users, NEW charge \in Nat
    PROVE  LET funded == Vaults!Funded(m, order, isBull, payer, charge)
               principal == Vaults!Principal(order, isBull)
               asset == order.asset
           IN  /\ funded \in Ledgers
               /\ \A b \in Assets, x \in MoneyAccounts :
                     funded[b][x] = m[b][x] - Part(b, x, asset, payer, principal + charge)
                                            + Part(b, x, asset, order, principal)
                                            + Part(b, x, asset, Fees, charge)
<1> DEFINE principal == Vaults!Principal(order, isBull)
           asset == order.asset
           filled == Vaults!Paid(m, asset, payer, order, principal)
           funded == Vaults!Paid(filled, asset, payer, Fees, charge)
<1>1. /\ principal \in Nat /\ asset \in Assets
      /\ payer \in MoneyAccounts /\ order \in MoneyAccounts /\ Fees \in MoneyAccounts
      /\ payer # order /\ payer # Fees /\ order # Fees
  BY OrdersAssumption, AssetsAssumption, KindsOfAccounts DEF OrderType, Vaults!Principal
<1> HIDE DEF principal, asset
<1>2. /\ filled \in Ledgers
      /\ \A b \in Assets, x \in MoneyAccounts :
            filled[b][x] = m[b][x] - Part(b, x, asset, payer, principal)
                                   + Part(b, x, asset, order, principal)
  BY <1>1, PaidEffect
<1> HIDE DEF filled
<1>3. /\ funded \in Ledgers
      /\ \A b \in Assets, x \in MoneyAccounts :
            funded[b][x] = filled[b][x] - Part(b, x, asset, payer, charge)
                                        + Part(b, x, asset, Fees, charge)
  BY <1>1, <1>2, PaidEffect
<1>4. Vaults!Funded(m, order, isBull, payer, charge) = funded
  BY DEF Vaults!Funded, principal, asset, filled
<1> HIDE DEF funded
<1>5. ASSUME NEW b \in Assets, NEW x \in MoneyAccounts
      PROVE  funded[b][x] = m[b][x] - Part(b, x, asset, payer, principal + charge)
                                    + Part(b, x, asset, order, principal)
                                    + Part(b, x, asset, Fees, charge)
  <2>1. m[b][x] \in Int
    BY DEF Ledgers
  <2>2. filled[b][x] = m[b][x] - Part(b, x, asset, payer, principal)
                               + Part(b, x, asset, order, principal)
    BY <1>2
  <2>3. funded[b][x] = filled[b][x] - Part(b, x, asset, payer, charge)
                                    + Part(b, x, asset, Fees, charge)
    BY <1>3
  <2> QED
    BY <1>1, <2>1, <2>2, <2>3 DEF Part
<1> QED
  BY <1>3, <1>4, <1>5 DEF principal, asset

MakerFees(order) == IF order.isBull THEN BullFees(order) ELSE BearFees(order)
TakerFees(order) == IF order.isBull THEN BearFees(order) ELSE BullFees(order)

\* The fees of both sides are within 5% and within what the maker signed.
LEMMA FeesAreAgreed ==
    ASSUME TypeOK, NEW order \in Orders, FeeAgreed(order)
    PROVE  /\ MakerFees(order) \in Vaults!AgreedFees(order, order.isBull)
           /\ TakerFees(order) \in Vaults!AgreedFees(order, ~order.isBull)
<1>1. /\ order.premium \in Nat /\ order.collateral \in Nat /\ order.isBull \in BOOLEAN
      /\ order.fee \in Nat /\ fee \in Nat /\ fee <= order.fee /\ fee <= 50
  BY OrdersAssumption, AssetsAssumption DEF OrderType, FeeAgreed, TypeOK, ProtocolTypeOK
<1> DEFINE rate == IF order.fee < 50 THEN order.fee ELSE 50
<1>2. rate \in Nat /\ fee <= rate
  BY <1>1
<1> HIDE DEF rate
<1>3. ASSUME NEW amount \in Nat
      PROVE  (amount * fee) \div 1000 \in 0 .. (amount * rate) \div 1000
  <2>1. (amount * fee) \div 1000 \in Nat /\ (amount * rate) \div 1000 \in Nat
    BY <1>1, <1>2, FeeType
  <2>2. (amount * fee) \div 1000 <= (amount * rate) \div 1000
    BY <1>1, <1>2, FeesGrowWithTheRate
  <2> QED
    BY <2>1, <2>2
<1>4. /\ BullFees(order) \in 0 .. (order.collateral * rate) \div 1000
      /\ BearFees(order) \in 0 .. (order.premium * rate) \div 1000
  BY <1>1, <1>3 DEF BullFees, BearFees
<1>5. CASE order.isBull = TRUE
  <2>1. /\ Vaults!AgreedFees(order, order.isBull) = 0 .. (order.collateral * rate) \div 1000
        /\ Vaults!AgreedFees(order, ~order.isBull) = 0 .. (order.premium * rate) \div 1000
    BY <1>5 DEF Vaults!AgreedFees, Vaults!Principal, rate
  <2>2. MakerFees(order) = BullFees(order) /\ TakerFees(order) = BearFees(order)
    BY <1>5 DEF MakerFees, TakerFees
  <2>3. MakerFees(order) \in 0 .. (order.collateral * rate) \div 1000
    BY <1>4, <2>2
  <2>4. MakerFees(order) \in Vaults!AgreedFees(order, order.isBull)
    BY <2>1, <2>3, Zenon
  <2>5. TakerFees(order) \in 0 .. (order.premium * rate) \div 1000
    BY <1>4, <2>2
  <2>6. TakerFees(order) \in Vaults!AgreedFees(order, ~order.isBull)
    BY <2>1, <2>5, Zenon
  <2> QED
    BY <2>4, <2>6
<1>6. CASE order.isBull = FALSE
  <2>1. /\ Vaults!AgreedFees(order, order.isBull) = 0 .. (order.premium * rate) \div 1000
        /\ Vaults!AgreedFees(order, ~order.isBull) = 0 .. (order.collateral * rate) \div 1000
    BY <1>6 DEF Vaults!AgreedFees, Vaults!Principal, rate
  <2>2. MakerFees(order) = BearFees(order) /\ TakerFees(order) = BullFees(order)
    BY <1>6 DEF MakerFees, TakerFees
  <2>3. MakerFees(order) \in 0 .. (order.premium * rate) \div 1000
    BY <1>4, <2>2
  <2>4. MakerFees(order) \in Vaults!AgreedFees(order, order.isBull)
    BY <2>1, <2>3, Zenon
  <2>5. TakerFees(order) \in 0 .. (order.collateral * rate) \div 1000
    BY <1>4, <2>2
  <2>6. TakerFees(order) \in Vaults!AgreedFees(order, ~order.isBull)
    BY <2>1, <2>5, Zenon
  <2> QED
    BY <2>4, <2>6
<1> QED
  BY <1>1, <1>5, <1>6

\* Both parties fund the vault of the order: what matchOrder pools in one balance is
\* the stake in the vault and the fees in their account, and nothing else.
LEMMA MatchFundsTheVault ==
    ASSUME TypeOK, TypeOK', OutcomesInOrder, NEW order \in Orders, NEW sender \in Users,
           NEW value \in Nat, MatchOrder(sender, order, value)
    PROVE  MoneyBar' = Vaults!Funded(
                           Vaults!Funded(MoneyBar, order, ~order.isBull, sender, TakerFees(order)),
                           order, order.isBull, order.maker, MakerFees(order))
<1> DEFINE asset == order.asset
           maker == order.maker
           first == Vaults!Funded(MoneyBar, order, ~order.isBull, sender, TakerFees(order))
           both == Vaults!Funded(first, order, order.isBull, maker, MakerFees(order))
           takerPart == Vaults!Principal(order, ~order.isBull)
           makerPart == Vaults!Principal(order, order.isBull)
           fees == BullFees(order) + BearFees(order)
<1>1. /\ MoneyBar \in Ledgers /\ MoneyBar' \in Ledgers
  BY MoneyBarIs, MoneyBarWillBe
<1>2. /\ asset \in Assets /\ maker \in Users /\ order.isBull \in BOOLEAN
      /\ (~order.isBull) \in BOOLEAN
      /\ MakerFees(order) \in Nat /\ TakerFees(order) \in Nat
      /\ BullFees(order) \in Nat /\ BearFees(order) \in Nat
      /\ makerPart \in Nat /\ takerPart \in Nat /\ Stake(order) \in Nat
      /\ TakerPrice(order) \in Nat /\ MakerPrice(order) \in Nat
  <2>1. /\ asset \in Assets /\ maker \in Users /\ Stake(order) \in Nat
        /\ BullFees(order) \in Nat /\ BearFees(order) \in Nat
        /\ TakerPrice(order) \in Nat /\ MakerPrice(order) \in Nat
    BY PriceTypes, StakeType
  <2>2. /\ order.isBull \in BOOLEAN /\ (~order.isBull) \in BOOLEAN
        /\ order.premium \in Nat /\ order.collateral \in Nat
    BY OrdersAssumption, AssetsAssumption DEF OrderType
  <2> QED
    BY <2>1, <2>2 DEF MakerFees, TakerFees, Vaults!Principal
<1>3. /\ makerPart + takerPart = Stake(order)
      /\ MakerFees(order) + TakerFees(order) = fees
      /\ makerPart + MakerFees(order) = MakerPrice(order)
      /\ takerPart + TakerFees(order) = TakerPrice(order)
  <2>1. /\ order.premium \in Nat /\ order.collateral \in Nat
        /\ BullFees(order) \in Nat /\ BearFees(order) \in Nat
    BY PriceTypes, AssetsAssumption DEF OrderType
  <2> QED
    BY <2>1 DEF MakerFees, TakerFees, MakerPrice, TakerPrice, BullPrice, BearPrice, Stake,
                Vaults!Principal
<1>4. /\ first \in Ledgers
      /\ \A b \in Assets, x \in MoneyAccounts :
            first[b][x] = MoneyBar[b][x] - Part(b, x, asset, sender, takerPart + TakerFees(order))
                                         + Part(b, x, asset, order, takerPart)
                                         + Part(b, x, asset, Fees, TakerFees(order))
  <2>1. PICK side \in BOOLEAN : side = ~order.isBull
    BY <1>2, Zenon
  <2>2. /\ first = Vaults!Funded(MoneyBar, order, side, sender, TakerFees(order))
        /\ takerPart = Vaults!Principal(order, side)
    BY <2>1, Zenon
  <2>3. /\ Vaults!Funded(MoneyBar, order, side, sender, TakerFees(order)) \in Ledgers
        /\ \A b \in Assets, x \in MoneyAccounts :
              Vaults!Funded(MoneyBar, order, side, sender, TakerFees(order))[b][x]
                  = MoneyBar[b][x]
                      - Part(b, x, asset, sender, Vaults!Principal(order, side) + TakerFees(order))
                      + Part(b, x, asset, order, Vaults!Principal(order, side))
                      + Part(b, x, asset, Fees, TakerFees(order))
    <3>1. MoneyBar \in Ledgers /\ TakerFees(order) \in Nat
      BY <1>1, <1>2
    <3> HIDE DEF first, both, takerPart, makerPart, fees, maker
    <3> QED
      BY <3>1, FundedEffect
  <2> QED
    BY <2>2, <2>3, Zenon
<1>5. /\ both \in Ledgers
      /\ \A b \in Assets, x \in MoneyAccounts :
            both[b][x] = first[b][x] - Part(b, x, asset, maker, makerPart + MakerFees(order))
                                     + Part(b, x, asset, order, makerPart)
                                     + Part(b, x, asset, Fees, MakerFees(order))
  <2> HIDE DEF first
  <2> QED
    BY <1>2, <1>4, FundedEffect
<1>6. /\ CollectPayments(sender, order, value)
      /\ value > 0 => value = TakerPrice(order) /\ order.asset = WETH
      /\ withdrawableFees' = [withdrawableFees EXCEPT ![order.asset]
                                 = @ + BullFees(order) + BearFees(order)]
      /\ order \notin LiveContracts /\ LiveContracts' = LiveContracts \cup {order}
  BY DEF MatchOrder, MatchRequires, RecordMatch, CheckIsValidOrder, OutcomesInOrder,
         LiveContracts
<1> HIDE DEF asset, maker, first, both, takerPart, makerPart, fees
<1>7. ASSUME NEW b \in Assets, NEW x \in MoneyAccounts
      PROVE  both[b][x] = MoneyBar[b][x] - Part(b, x, asset, sender, TakerPrice(order))
                                         - Part(b, x, asset, maker, MakerPrice(order))
                                         + Part(b, x, asset, order, Stake(order))
                                         + Part(b, x, asset, Fees, fees)
  <2>1. MoneyBar[b][x] \in Int
    BY <1>1 DEF Ledgers
  <2>2. first[b][x] = MoneyBar[b][x] - Part(b, x, asset, sender, TakerPrice(order))
                                     + Part(b, x, asset, order, takerPart)
                                     + Part(b, x, asset, Fees, TakerFees(order))
    BY <1>3, <1>4
  <2>3. both[b][x] = first[b][x] - Part(b, x, asset, maker, MakerPrice(order))
                                 + Part(b, x, asset, order, makerPart)
                                 + Part(b, x, asset, Fees, MakerFees(order))
    BY <1>3, <1>5
  <2> QED
    BY <1>2, <1>3, <2>1, <2>2, <2>3 DEF Part
<1>8. ASSUME NEW b \in Assets, NEW x \in MoneyAccounts PROVE MoneyBar'[b][x] = both[b][x]
  <2>1. CASE x \in Users
    <3>1. MoneyBar[b][x] = Purse(b, x) /\ MoneyBar'[b][x] = Purse(b, x)'
      BY <2>1, MoneyBarIs, MoneyBarWillBe
    <3>2. Purse(b, x)' = Purse(b, x) - Part(b, x, asset, sender, TakerPrice(order))
                                           - Part(b, x, asset, maker, MakerPrice(order))
      BY <1>6, <2>1, MatchDebits DEF asset, maker
    <3>3. Part(b, x, asset, order, Stake(order)) = 0 /\ Part(b, x, asset, Fees, fees) = 0
      BY <2>1, KindsOfAccounts DEF Part
    <3>4. MoneyBar'[b][x] \in Int /\ MoneyBar[b][x] \in Int
      BY <1>1 DEF Ledgers
    <3> QED
      BY <1>7, <3>1, <3>2, <3>3, <3>4
  <2>2. CASE x \in Orders
    <3>1. MoneyBar[b][x] = InVault(b, x) /\ MoneyBar'[b][x] = InVault(b, x)'
      BY <2>2, MoneyBarIs, MoneyBarWillBe
    <3>2. /\ Part(b, x, asset, sender, TakerPrice(order)) = 0
          /\ Part(b, x, asset, maker, MakerPrice(order)) = 0
          /\ Part(b, x, asset, Fees, fees) = 0
      BY <1>2, <2>2, KindsOfAccounts DEF Part
    <3>3. InVault(b, x)' = InVault(b, x) + Part(b, x, asset, order, Stake(order))
      <4>1. Stake(x) \in Nat
        BY <2>2, StakeType
      <4> QED
        BY <1>2, <1>6, <4>1 DEF InVault, Part, asset
    <3>4. MoneyBar[b][x] \in Int
      BY <1>1 DEF Ledgers
    <3>5. Part(b, x, asset, order, Stake(order)) \in Nat
      BY <1>2 DEF Part
    <3> QED
      BY <1>7, <3>1, <3>2, <3>3, <3>4, <3>5
  <2>3. CASE x = Fees
    <3>1. MoneyBar[b][x] = withdrawableFees[b] /\ MoneyBar'[b][x] = withdrawableFees'[b]
      BY <2>3, MoneyBarIs, MoneyBarWillBe
    <3>2. /\ Part(b, x, asset, sender, TakerPrice(order)) = 0
          /\ Part(b, x, asset, maker, MakerPrice(order)) = 0
          /\ Part(b, x, asset, order, Stake(order)) = 0
      BY <1>2, <2>3, KindsOfAccounts DEF Part
    <3>3. withdrawableFees[b] \in Nat
      BY AmountTypes
    <3>4. withdrawableFees'[b] = withdrawableFees[b] + Part(b, x, asset, Fees, fees)
      BY <1>2, <1>6, <2>3, <3>3 DEF Part, asset, fees, TypeOK, ProtocolTypeOK
    <3>5. Part(b, x, asset, Fees, fees) \in Nat
      BY <1>2 DEF Part, fees
    <3> QED
      BY <1>7, <3>1, <3>2, <3>3, <3>4, <3>5
  <2>4. CASE x = Protocol
    <3>1. MoneyBar[b][x] = Unclaimed(b) /\ MoneyBar'[b][x] = Unclaimed(b)'
      BY <2>4, MoneyBarIs, MoneyBarWillBe
    <3>2. /\ Part(b, x, asset, sender, TakerPrice(order)) = 0
          /\ Part(b, x, asset, maker, MakerPrice(order)) = 0
          /\ Part(b, x, asset, order, Stake(order)) = 0
          /\ Part(b, x, asset, Fees, fees) = 0
      BY <1>2, <2>4, KindsOfAccounts DEF Part
    <3>3. balanceOf'[b][Protocol] = IF b = asset
                                    THEN balanceOf[b][Protocol] + TakerPrice(order)
                                                                + MakerPrice(order)
                                    ELSE balanceOf[b][Protocol]
      BY <1>6, CollectedPayments DEF asset
    <3>4. /\ Locked(b) \in Nat /\ Locked(b)' \in Nat
          /\ Locked(b)' = Locked(b) + Part(b, order, asset, order, Stake(order))
      BY <1>6, LockedWith DEF asset
    <3>5. /\ withdrawableFees[b] \in Nat /\ balanceOf[b][Protocol] \in Nat
      BY AmountTypes, KindsOfAccounts
    <3>6. withdrawableFees'[b] = IF b = asset THEN withdrawableFees[b] + fees
                                 ELSE withdrawableFees[b]
      BY <1>2, <1>6, <3>5 DEF asset, fees, TypeOK, ProtocolTypeOK
    <3>7. TakerPrice(order) + MakerPrice(order) = Stake(order) + fees
      BY <1>2, PricesAreStakeAndFees DEF fees
    <3>8. fees \in Nat
      BY <1>2 DEF fees
    <3>9. Unclaimed(b)' = Unclaimed(b)
      <4>1. /\ TakerPrice(order) \in Nat /\ MakerPrice(order) \in Nat
            /\ Stake(order) \in Nat
        BY <1>2
      <4>2. Part(b, order, asset, order, Stake(order))
                = IF b = asset THEN Stake(order) ELSE 0
        BY DEF Part
      <4>3. CASE b = asset
        <5>1. /\ balanceOf'[b][Protocol]
                     = balanceOf[b][Protocol] + TakerPrice(order) + MakerPrice(order)
              /\ withdrawableFees'[b] = withdrawableFees[b] + fees
              /\ Locked(b)' = Locked(b) + Stake(order)
          BY <3>3, <3>4, <3>6, <4>2, <4>3
        <5> QED
          BY <3>4, <3>5, <3>7, <3>8, <4>1, <5>1 DEF Unclaimed
      <4>4. CASE b # asset
        <5>1. /\ balanceOf'[b][Protocol] = balanceOf[b][Protocol]
              /\ withdrawableFees'[b] = withdrawableFees[b]
              /\ Locked(b)' = Locked(b)
          BY <3>3, <3>4, <3>6, <4>2, <4>4
        <5> QED
          BY <5>1 DEF Unclaimed
      <4> QED
        BY <4>3, <4>4
    <3>10. MoneyBar[b][x] \in Int
      BY <1>1 DEF Ledgers
    <3> QED
      BY <1>7, <3>1, <3>2, <3>9, <3>10
  <2> QED
    BY <2>1, <2>2, <2>3, <2>4 DEF MoneyAccounts, Accounts
<1>9. MoneyBar' = both
  BY <1>1, <1>5, <1>8, SameLedger
<1> QED
  BY <1>9 DEF both, first, maker

------------------------------------------------------------------------------
(* The phases and the tokens.                                                *)

\* The flags put an order in exactly one phase.
LEMMA PhaseIs ==
    ASSUME TypeOK, OutcomesInOrder, NEW order \in Orders
    PROVE  /\ order \notin matchedOrders => PhaseOf(order) = "open"
           /\ order \in LiveContracts => PhaseOf(order) = "live"
           /\ order \in settledContracts \ reclaimedContracts => PhaseOf(order) = "settled"
           /\ order \in settledContracts \cap reclaimedContracts => PhaseOf(order) = "delivered"
           /\ order \in reclaimedContracts \ settledContracts => PhaseOf(order) = "expired"
BY DEF PhaseOf, LiveContracts, OutcomesInOrder, TypeOK, ProtocolTypeOK

\* The same of the next state.
LEMMA PhaseWillBe ==
    TypeOK' /\ OutcomesInOrder' =>
        \A order \in Orders :
            /\ order \notin matchedOrders' => PhaseOf(order)' = "open"
            /\ order \in LiveContracts' => PhaseOf(order)' = "live"
            /\ order \in settledContracts' \ reclaimedContracts' => PhaseOf(order)' = "settled"
            /\ order \in settledContracts' \cap reclaimedContracts'
                  => PhaseOf(order)' = "delivered"
            /\ order \in reclaimedContracts' \ settledContracts' => PhaseOf(order)' = "expired"
<1> DEFINE Reading ==
        \A order \in Orders :
            /\ order \notin matchedOrders => PhaseOf(order) = "open"
            /\ order \in LiveContracts => PhaseOf(order) = "live"
            /\ order \in settledContracts \ reclaimedContracts => PhaseOf(order) = "settled"
            /\ order \in settledContracts \cap reclaimedContracts
                  => PhaseOf(order) = "delivered"
            /\ order \in reclaimedContracts \ settledContracts => PhaseOf(order) = "expired"
<1>1. TypeOK /\ OutcomesInOrder => Reading
  BY PhaseIs
<1>2. TypeOK' /\ OutcomesInOrder' => Reading'
  BY <1>1, PTL
<1> QED
  BY <1>2

\* One order enters a phase, the others stay in theirs.
LEMMA PhaseMoves ==
    ASSUME NEW order \in Orders, NEW next,
           PhaseOf(order)' = next,
           \A o \in Orders \ {order} : PhaseOf(o)' = PhaseOf(o)
    PROVE  PhaseBar' = [PhaseBar EXCEPT ![order] = next]
BY DEF PhaseBar

\* An order no flag changes for stays in its phase.
LEMMA PhaseStays ==
    ASSUME NEW order \in Orders,
           order \in matchedOrders' <=> order \in matchedOrders,
           order \in settledContracts' <=> order \in settledContracts,
           order \in reclaimedContracts' <=> order \in reclaimedContracts
    PROVE  PhaseOf(order)' = PhaseOf(order)
BY DEF PhaseOf, LiveContracts

\* A token that is kept is in the vault of its contract, any other with its owner.
LEMMA TokensBarIs ==
    ASSUME TypeOK, Custody, NEW c \in Collections, NEW id \in TokenIds
    PROVE  /\ \A order \in Orders :
                 KeptFor(order, c, id) => TokenOf(c, id) = order /\ ownerOf[c][id] = Protocol
           /\ (\A order \in Orders : ~KeptFor(order, c, id)) => TokenOf(c, id) = ownerOf[c][id]
           /\ TokenOf(c, id) \in TokenOwners
<1>1. \A o1, o2 \in Orders : KeptFor(o1, c, id) /\ KeptFor(o2, c, id) => o1 = o2
  BY DEF Custody, KeptFor
<1>2. ownerOf[c][id] \in Accounts
  BY DEF TypeOK, TokenTypeOK
<1>3. \A order \in Orders : KeptFor(order, c, id) => ownerOf[c][id] = Protocol
  BY DEF Custody, KeptFor
<1>4. CASE \E order \in Orders : KeptFor(order, c, id)
  <2>1. TokenOf(c, id) = CHOOSE order \in Orders : KeptFor(order, c, id)
    BY <1>4 DEF TokenOf
  <2>2. TokenOf(c, id) \in Orders /\ KeptFor(TokenOf(c, id), c, id)
    BY <1>4, <2>1
  <2> QED
    BY <1>1, <1>3, <1>4, <2>2 DEF TokenOwners
<1>5. CASE \A order \in Orders : ~KeptFor(order, c, id)
  BY <1>2, <1>5 DEF TokenOf, TokenOwners
<1> QED
  BY <1>4, <1>5

\* The same of the next state.
LEMMA TokensBarWillBe ==
    TypeOK' /\ Custody' =>
        \A c \in Collections, id \in TokenIds :
            /\ \A order \in Orders :
                  KeptFor(order, c, id)' => TokenOf(c, id)' = order /\ ownerOf'[c][id] = Protocol
            /\ (\A order \in Orders : ~KeptFor(order, c, id)')
                   => TokenOf(c, id)' = ownerOf'[c][id]
            /\ TokenOf(c, id)' \in TokenOwners
<1> DEFINE Reading ==
        \A c \in Collections, id \in TokenIds :
            /\ \A order \in Orders :
                  KeptFor(order, c, id) => TokenOf(c, id) = order /\ ownerOf[c][id] = Protocol
            /\ (\A order \in Orders : ~KeptFor(order, c, id))
                   => TokenOf(c, id) = ownerOf[c][id]
            /\ TokenOf(c, id) \in TokenOwners
<1>1. TypeOK /\ Custody => Reading
  BY TokensBarIs
<1>2. TypeOK' /\ Custody' => Reading'
  BY <1>1, PTL
<1> QED
  BY <1>2

\* One token moves.
LEMMA TokenMoves ==
    ASSUME NEW c \in Collections, NEW id \in TokenIds, NEW to,
           TokenOf(c, id)' = to,
           \A d \in Collections, j \in TokenIds : d # c \/ j # id => TokenOf(d, j)' = TokenOf(d, j)
    PROVE  TokensBar' = [TokensBar EXCEPT ![c][id] = to]
<1>1. TokensBar' = [d \in Collections |-> [j \in TokenIds |-> TokenOf(d, j)']]
  BY DEF TokensBar
<1>2. \A d \in Collections, j \in TokenIds :
         TokenOf(d, j)' = IF d = c /\ j = id THEN to ELSE TokenOf(d, j)
  OBVIOUS
<1> QED
  BY <1>1, <1>2 DEF TokensBar

\* A token kept for the same contract or owned by the same account did not move.
LEMMA TokenStays ==
    ASSUME TypeOK, TypeOK', Custody, Custody', NEW c \in Collections, NEW id \in TokenIds,
           \A order \in Orders : KeptFor(order, c, id)' <=> KeptFor(order, c, id),
           ownerOf'[c][id] = ownerOf[c][id]
    PROVE  TokenOf(c, id)' = TokenOf(c, id)
BY TokensBarIs, TokensBarWillBe

\* Transactions that touch neither money nor tokens nor outcomes change no vault.
LEMMA NothingHappens ==
    ASSUME UNCHANGED <<balanceOf, ether, withdrawableFees, contractVars, ownerOf>>
    PROVE  UNCHANGED <<PhaseBar, MoneyBar, TokensBar>>
BY DEF PhaseBar, MoneyBar, TokensBar, PhaseOf, MoneyOf, Purse, InVault, Unclaimed, Locked,
       LiveContracts, TokenOf, KeptFor, Undelivered, contractVars

------------------------------------------------------------------------------
(* Each transaction is a step of the vaults.                                 *)

Good == TypeOK /\ OutcomesInOrder /\ Custody

\* A block is mined.
LEMMA TimeStep ==
    ASSUME Tick PROVE Vaults!TimePasses
<1>1. UNCHANGED <<PhaseBar, MoneyBar, TokensBar, bulls, bears, boughtSellOrders>>
  <2>1. UNCHANGED <<balanceOf, ether, withdrawableFees, contractVars, ownerOf, bulls, bears,
                    boughtSellOrders>>
    BY DEF Tick, tokenVars, positionVars
  <2> QED
    BY <2>1, NothingHappens
<1> QED
  BY <1>1 DEF Tick, Vaults!TimePasses, PhaseBar, MoneyBar, TokensBar

\* matchOrder opens a vault and fills it with the money of the two parties.
LEMMA MatchStep ==
    ASSUME Good, Good', NEW order \in Orders, NEW sender \in Users, NEW value \in Nat,
           MatchOrder(sender, order, value)
    PROVE  Vaults!Match(order, sender, MakerFees(order), TakerFees(order))
<1> USE DEF Good
<1>1. /\ order \notin matchedOrders /\ order.validity > now
      /\ matchedOrders' = matchedOrders \cup {order}
      /\ UNCHANGED <<now, settledContracts, reclaimedContracts, claimableTokenId,
                     boughtSellOrders, ownerOf>>
  BY DEF MatchOrder, MatchRequires, CheckIsValidOrder, RecordMatch, erc721Vars
<1>2. now < order.validity
  BY <1>1, OrdersAssumption DEF OrderType, TypeOK, ProtocolTypeOK
<1>3. PhaseBar[order] = "open" /\ PhaseBar' = [PhaseBar EXCEPT ![order] = "live"]
  <2>1. order \in LiveContracts'
    BY <1>1 DEF LiveContracts, OutcomesInOrder
  <2>2. PhaseOf(order) = "open" /\ PhaseOf(order)' = "live"
    BY <1>1, <2>1, PhaseIs, PhaseWillBe
  <2>3. ASSUME NEW o \in Orders \ {order} PROVE PhaseOf(o)' = PhaseOf(o)
    BY <1>1, PhaseStays
  <2> QED
    BY <2>2, <2>3, PhaseMoves DEF PhaseBar
<1>4. TokensBar' = TokensBar
  BY <1>1 DEF TokensBar, TokenOf, KeptFor, Undelivered
<1>5. /\ bulls' = [bulls EXCEPT ![order] = IF order.isBull THEN order.maker ELSE sender]
      /\ bears' = [bears EXCEPT ![order] = IF order.isBull THEN sender ELSE order.maker]
  BY DEF MatchOrder, RecordMatch
<1>6. MoneyBar' = Vaults!Funded(
                      Vaults!Funded(MoneyBar, order, ~order.isBull, sender, TakerFees(order)),
                      order, order.isBull, order.maker, MakerFees(order))
  BY MatchFundsTheVault
<1> QED
  BY <1>1, <1>2, <1>3, <1>4, <1>5, <1>6 DEF Vaults!Match, PhaseBar, MoneyBar, TokensBar

\* settleContract: the bear's token goes into the vault of the contract and the stake
\* in that vault to the bear.
LEMMA SettleStep ==
    ASSUME Good, Good', NEW order \in Orders, NEW sender \in Users, NEW id \in TokenIds,
           SettleContract(sender, order, id)
    PROVE  Vaults!Settle(order, id)
<1> USE DEF Good
<1> DEFINE c == order.collection
<1>1. /\ sender = bears[order] /\ now <= order.expiry
      /\ order \notin settledContracts /\ settledContracts' = settledContracts \cup {order}
      /\ claimableTokenId' = [claimableTokenId EXCEPT ![order] = id]
      /\ ownerOf[c][id] = sender
      /\ ownerOf' = [ownerOf EXCEPT ![c][id] = Protocol]
      /\ PayStake(order, sender)
      /\ UNCHANGED <<now, withdrawableFees, matchedOrders, reclaimedContracts, bulls, bears,
                     boughtSellOrders, ether>>
  BY DEF SettleContract, SettleRequires, TakeNFT, SafeTransferNFT, positionVars
<1>2. /\ now \in Nat /\ order.expiry \in Nat /\ c \in Collections
      /\ sender \in Accounts /\ sender # NoOne /\ sender # Protocol
      /\ ownerOf \in [Collections -> [TokenIds -> Accounts]]
      /\ claimableTokenId \in [Orders -> TokenIds \cup {0}]
  BY CallsAssumption, AccountsAssumption, OrdersAssumption
     DEF TypeOK, TokenTypeOK, ProtocolTypeOK, OrderType, Accounts
<1>3. order \in LiveContracts /\ order \notin reclaimedContracts
  <2>1. ASSUME order \in reclaimedContracts PROVE FALSE
    BY <1>1, <1>2, <2>1 DEF OutcomesInOrder
  <2> QED
    BY <1>1, <1>2, <2>1 DEF LiveContracts, OutcomesInOrder
<1>4. PhaseBar[order] = "live" /\ PhaseBar' = [PhaseBar EXCEPT ![order] = "settled"]
  <2>1. PhaseOf(order) = "live" /\ PhaseOf(order)' = "settled"
    BY <1>1, <1>3, PhaseIs, PhaseWillBe
  <2>2. ASSUME NEW o \in Orders \ {order} PROVE PhaseOf(o)' = PhaseOf(o)
    BY <1>1, PhaseStays
  <2> QED
    BY <2>1, <2>2, PhaseMoves DEF PhaseBar
<1>5. MoneyBar' = Vaults!Paid(MoneyBar, order.asset, order, sender, Stake(order))
  <2>1. LiveContracts' = LiveContracts \ {order}
    BY <1>1, <1>3 DEF LiveContracts
  <2>2. MoneyMoves(order.asset, order, sender, Stake(order))
    BY <1>1, <1>2, <1>3, <2>1, StakeMoves
  <2>3. /\ order.asset \in Assets /\ order \in MoneyAccounts /\ sender \in MoneyAccounts
        /\ Stake(order) \in Int
    BY <1>2, PriceTypes, StakeType, KindsOfAccounts
  <2> QED
    BY <2>2, <2>3, MovesArePayments
<1>6. TokensBar[c][id] = sender
  <2>1. \A o \in Orders : ~KeptFor(o, c, id)
    BY <1>1, <1>2, TokensBarIs
  <2>2. TokenOf(c, id) = sender
    BY <1>1, <1>2, <2>1, TokensBarIs
  <2> QED
    BY <1>2, <2>2 DEF TokensBar
<1>7. TokensBar' = [TokensBar EXCEPT ![c][id] = order]
  <2>1. KeptFor(order, c, id)'
    BY <1>1, <1>2, <1>3 DEF KeptFor, Undelivered
  <2>2. TokenOf(c, id)' = order
    BY <1>2, <2>1, TokensBarWillBe
  <2>3. ASSUME NEW d \in Collections, NEW j \in TokenIds, d # c \/ j # id
        PROVE  TokenOf(d, j)' = TokenOf(d, j)
    <3>1. ASSUME NEW o \in Orders PROVE KeptFor(o, d, j)' <=> KeptFor(o, d, j)
      BY <1>1, <1>2, <1>3, <2>3 DEF KeptFor, Undelivered
    <3>2. ownerOf'[d][j] = ownerOf[d][j]
      BY <1>1, <1>2, <2>3
    <3> QED
      BY <3>1, <3>2, TokenStays
  <2> QED
    BY <1>2, <2>2, <2>3, TokenMoves
<1> HIDE DEF c
<1>8. bears[order] \in Users /\ TokensBar[order.collection][id] = bears[order]
      /\ TokensBar' = [TokensBar EXCEPT ![order.collection][id] = order]
  BY <1>1, <1>6, <1>7 DEF c
<1>9. MoneyBar' = Vaults!Paid(MoneyBar, order.asset, order, bears[order],
                              order.premium + order.collateral)
  BY <1>1, <1>5 DEF Stake
<1> QED
  BY <1>1, <1>4, <1>8, <1>9 DEF Vaults!Settle, PhaseBar, MoneyBar, TokensBar

\* reclaimContract of a settled contract: the token in its vault goes to the bull.
LEMMA DeliverStep ==
    ASSUME Good, Good', NEW order \in Orders, ReclaimContract(order), ReclaimNFT(order)
    PROVE  \E id \in TokenIds : Vaults!Deliver(order, id)
<1> USE DEF Good
<1> DEFINE c == order.collection
<1>0. PICK id \in TokenIds : id = claimableTokenId[order]
  BY DEF ReclaimContract, ReclaimRequires, ReclaimNFT, Custody, Undelivered
<1>1. /\ order \in settledContracts /\ order \notin reclaimedContracts
      /\ reclaimedContracts' = reclaimedContracts \cup {order}
      /\ ownerOf[c][id] = Protocol
      /\ ownerOf' = [ownerOf EXCEPT ![c][id] = bulls[order]]
      /\ UNCHANGED <<now, withdrawableFees, matchedOrders, settledContracts, bulls, bears,
                     boughtSellOrders, ether, balanceOf, claimableTokenId>>
  BY <1>0 DEF ReclaimContract, ReclaimRequires, ReclaimNFT, SafeTransferNFT, positionVars
<1>2. /\ c \in Collections
      /\ ownerOf \in [Collections -> [TokenIds -> Accounts]]
  BY OrdersAssumption DEF TypeOK, TokenTypeOK, OrderType
<1>3. PhaseBar[order] = "settled" /\ PhaseBar' = [PhaseBar EXCEPT ![order] = "delivered"]
  <2>1. PhaseOf(order) = "settled" /\ PhaseOf(order)' = "delivered"
    BY <1>1, PhaseIs, PhaseWillBe
  <2>2. ASSUME NEW o \in Orders \ {order} PROVE PhaseOf(o)' = PhaseOf(o)
    BY <1>1, PhaseStays
  <2> QED
    BY <2>1, <2>2, PhaseMoves DEF PhaseBar
<1>4. MoneyBar' = MoneyBar
  <2>1. UNCHANGED LiveContracts
    BY <1>1 DEF LiveContracts
  <2> QED
    BY <1>1, <2>1 DEF MoneyBar, MoneyOf, Purse, InVault, Unclaimed, Locked
<1>5. KeptFor(order, c, id)
  BY <1>0, <1>1 DEF KeptFor, Undelivered
<1>6. TokensBar[c][id] = order
  BY <1>2, <1>5, TokensBarIs DEF TokensBar
<1>7. TokensBar' = [TokensBar EXCEPT ![c][id] = bulls[order]]
  <2>1. ASSUME NEW o \in Orders PROVE ~KeptFor(o, c, id)'
    <3>1. ASSUME KeptFor(o, c, id)' PROVE FALSE
      <4>1. o # order /\ KeptFor(o, c, id)
        BY <1>1, <3>1 DEF KeptFor, Undelivered
      <4> QED
        BY <1>5, <4>1 DEF KeptFor, Custody
    <3> QED
      BY <3>1
  <2>2. TokenOf(c, id)' = bulls[order]
    <3>1. ownerOf'[c][id] = bulls[order]
      BY <1>1, <1>2
    <3> QED
      BY <1>2, <2>1, <3>1, TokensBarWillBe
  <2>3. ASSUME NEW d \in Collections, NEW j \in TokenIds, d # c \/ j # id
        PROVE  TokenOf(d, j)' = TokenOf(d, j)
    <3>1. ASSUME NEW o \in Orders PROVE KeptFor(o, d, j)' <=> KeptFor(o, d, j)
      BY <1>0, <1>1, <2>3 DEF KeptFor, Undelivered
    <3>2. ownerOf'[d][j] = ownerOf[d][j]
      BY <1>1, <1>2, <2>3
    <3> QED
      BY <3>1, <3>2, TokenStays
  <2> HIDE DEF c
  <2> QED
    BY <1>2, <2>2, <2>3, TokenMoves
<1> HIDE DEF c
<1>8. /\ TokensBar[order.collection][id] = order
      /\ TokensBar' = [TokensBar EXCEPT ![order.collection][id] = bulls[order]]
  BY <1>6, <1>7 DEF c
<1>9. Vaults!Deliver(order, id)
  BY <1>1, <1>3, <1>4, <1>8 DEF Vaults!Deliver, PhaseBar, MoneyBar, TokensBar
<1> QED
  BY <1>9

\* reclaimContract of a contract nobody settled: the stake in its vault goes to the bull.
LEMMA ExpireStep ==
    ASSUME Good, Good', NEW order \in Orders, ReclaimContract(order), ReclaimStake(order)
    PROVE  Vaults!Expire(order)
<1> USE DEF Good
<1>1. /\ order \notin settledContracts /\ order \notin reclaimedContracts
      /\ order \in matchedOrders /\ now > order.expiry
      /\ reclaimedContracts' = reclaimedContracts \cup {order}
      /\ PayStake(order, bulls[order])
      /\ UNCHANGED <<now, withdrawableFees, matchedOrders, settledContracts, bulls, bears,
                     boughtSellOrders, ether, ownerOf, claimableTokenId>>
  BY DEF ReclaimContract, ReclaimRequires, ReclaimStake, Expired, positionVars
<1>2. /\ order \in LiveContracts /\ LiveContracts' = LiveContracts \ {order}
      /\ bulls[order] \in Accounts
  BY <1>1 DEF LiveContracts, OutcomesInOrder, TypeOK, ProtocolTypeOK
<1>3. PhaseBar[order] = "live" /\ PhaseBar' = [PhaseBar EXCEPT ![order] = "expired"]
  <2>1. PhaseOf(order) = "live" /\ PhaseOf(order)' = "expired"
    BY <1>1, <1>2, PhaseIs, PhaseWillBe
  <2>2. ASSUME NEW o \in Orders \ {order} PROVE PhaseOf(o)' = PhaseOf(o)
    BY <1>1, PhaseStays
  <2> QED
    BY <2>1, <2>2, PhaseMoves DEF PhaseBar
<1>4. MoneyBar' = Vaults!Paid(MoneyBar, order.asset, order, bulls[order],
                              order.premium + order.collateral)
  <2>1. MoneyMoves(order.asset, order, bulls[order], Stake(order))
    BY <1>1, <1>2, StakeMoves
  <2>2. /\ order.asset \in Assets /\ order \in MoneyAccounts /\ bulls[order] \in MoneyAccounts
        /\ Stake(order) \in Int
    BY <1>2, PriceTypes, StakeType, KindsOfAccounts
  <2>3. MoneyBar' = Vaults!Paid(MoneyBar, order.asset, order, bulls[order], Stake(order))
    BY <2>1, <2>2, MovesArePayments
  <2> QED
    BY <2>3 DEF Stake
<1>5. TokensBar' = TokensBar
  <2>1. UNCHANGED Undelivered
    BY <1>1 DEF Undelivered
  <2> QED
    BY <1>1, <2>1 DEF TokensBar, TokenOf, KeptFor
<1> QED
  BY <1>1, <1>3, <1>4, <1>5 DEF Vaults!Expire, PhaseBar, MoneyBar, TokensBar

\* The price of a position is within the buyer's own money.
LEMMA BuyerAffords ==
    ASSUME TypeOK, NEW sellOrder \in SellOrders, NEW buyer \in Users, NEW price \in Nat,
           NEW value \in Nat, PaySeller(buyer, sellOrder, price, value)
    PROVE  price \in 0 .. MoneyBar[sellOrder.asset][buyer]
<1> DEFINE asset == sellOrder.asset
<1>1. asset \in Assets /\ buyer \in Accounts
  BY SellOrderTypes, KindsOfAccounts
<1>2. balanceOf[asset][buyer] \in Nat /\ ether[buyer] \in Nat
  BY <1>1, AmountTypes
<1>3. price <= balanceOf[asset][buyer] \/ (asset = WETH /\ price <= ether[buyer])
  BY <1>2 DEF PaySeller, ForwardEther, CanPull
<1>4. price <= Purse(asset, buyer) /\ Purse(asset, buyer) \in Nat
  BY <1>2, <1>3 DEF Purse
<1>5. MoneyBar[asset][buyer] = Purse(asset, buyer)
  BY <1>1, MoneyBarIs
<1> QED
  BY <1>4, <1>5

\* buyPosition moves the position and, against it, the price from buyer to seller.
LEMMA SellStep ==
    ASSUME Good, Good', NEW sellOrder \in SellOrders, NEW buyer \in Users, NEW tip \in Nat,
           NEW value \in Nat, BuyPosition(buyer, sellOrder, tip, value)
    PROVE  /\ sellOrder.price + tip \in 0 .. MoneyBar[sellOrder.asset][buyer]
           /\ Vaults!Sell(sellOrder, buyer, sellOrder.price + tip)
<1> USE DEF Good
<1> DEFINE order == sellOrder.orderHash
<1>1. /\ order \in Orders /\ sellOrder.price \in Nat /\ sellOrder.price + tip \in Nat
      /\ sellOrder.maker \in Users /\ sellOrder.asset \in Assets
      /\ sellOrder.isBull \in BOOLEAN /\ now \in Nat /\ order.expiry \in Nat
  BY SellOrderTypes, OrdersAssumption, CallsAssumption DEF OrderType, TypeOK, ProtocolTypeOK
<1>2. /\ PositionForSale(sellOrder, order) /\ sellOrder \notin boughtSellOrders
      /\ order \notin settledContracts
      /\ IF sellOrder.isBull
         THEN bulls' = [bulls EXCEPT ![order] = buyer] /\ UNCHANGED bears
         ELSE bears' = [bears EXCEPT ![order] = buyer] /\ UNCHANGED bulls
      /\ boughtSellOrders' = boughtSellOrders \cup {sellOrder}
      /\ PaySeller(buyer, sellOrder, sellOrder.price + tip, value)
      /\ UNCHANGED <<now, withdrawableFees, matchedOrders, settledContracts, reclaimedContracts,
                     claimableTokenId, ownerOf>>
  BY DEF BuyPosition, BuyRequires, CheckIsValidSellOrder, NotBoughtYet, RecordSale,
         contractVars, erc721Vars
<1>3. IF sellOrder.isBull THEN bulls[order] = sellOrder.maker ELSE bears[order] = sellOrder.maker
  BY <1>2 DEF PositionForSale
<1>4. order \in LiveContracts
  <2>1. order \in matchedOrders
    BY <1>1, <1>3, CallsAssumption DEF OutcomesInOrder, Accounts
  <2>2. order \notin reclaimedContracts
    BY <1>1, <1>2 DEF PositionForSale, OutcomesInOrder
  <2> QED
    BY <1>2, <2>1, <2>2 DEF LiveContracts
<1>5. PhaseBar[order] = "live" /\ PhaseBar' = PhaseBar
  <2>1. PhaseOf(order) = "live"
    BY <1>1, <1>4, PhaseIs
  <2> QED
    BY <1>1, <1>2, <2>1 DEF PhaseBar, PhaseOf, LiveContracts
<1>6. TokensBar' = TokensBar
  BY <1>2 DEF TokensBar, TokenOf, KeptFor, Undelivered
<1>7. MoneyBar' = Vaults!Paid(MoneyBar, sellOrder.asset, buyer, sellOrder.maker,
                              sellOrder.price + tip)
  <2>1. UNCHANGED <<LiveContracts, withdrawableFees>>
    BY <1>2 DEF LiveContracts
  <2> DEFINE price == sellOrder.price + tip
  <2>2. price \in Nat /\ PaySeller(buyer, sellOrder, price, value)
    BY <1>1, <1>2
  <2> HIDE DEF price
  <2>3. MoneyMoves(sellOrder.asset, buyer, sellOrder.maker, price)
    BY <2>1, <2>2, SaleMoves
  <2>4. buyer \in MoneyAccounts /\ sellOrder.maker \in MoneyAccounts /\ price \in Int
    BY <1>1, <2>2, KindsOfAccounts
  <2>5. MoneyBar' = Vaults!Paid(MoneyBar, sellOrder.asset, buyer, sellOrder.maker, price)
    BY <1>1, <2>3, <2>4, MovesArePayments
  <2> QED
    BY <2>5 DEF price
<1>8. sellOrder.price + tip >= sellOrder.price
  BY <1>1
<1>9. sellOrder.price + tip \in 0 .. MoneyBar[sellOrder.asset][buyer]
  BY <1>1, <1>2, BuyerAffords
<1>10. Vaults!Sell(sellOrder, buyer, sellOrder.price + tip)
  BY <1>2, <1>3, <1>5, <1>6, <1>7, <1>8
     DEF Vaults!Sell, Vaults!HandOver, Vaults!Holder, PhaseBar, MoneyBar, TokensBar
<1> QED
  BY <1>9, <1>10

\* transferPosition gives a position away.
LEMMA GiveAwayStep ==
    ASSUME NEW order \in Orders, NEW sender \in Users, NEW isBull \in BOOLEAN,
           NEW to \in Accounts, TransferPosition(sender, order, isBull, to)
    PROVE  Vaults!GiveAway(order, isBull, to)
<1>1. UNCHANGED <<now, boughtSellOrders, PhaseBar, MoneyBar, TokensBar>>
  <2>1. UNCHANGED <<balanceOf, ether, withdrawableFees, contractVars, ownerOf>>
    BY DEF TransferPosition, tokenVars
  <2> QED
    BY <2>1, NothingHappens DEF TransferPosition
<1>2. IF isBull
      THEN bulls[order] \in Users /\ bulls' = [bulls EXCEPT ![order] = to] /\ UNCHANGED bears
      ELSE bears[order] \in Users /\ bears' = [bears EXCEPT ![order] = to] /\ UNCHANGED bulls
  BY DEF TransferPosition, HoldsPosition
<1> QED
  BY <1>1, <1>2 DEF Vaults!GiveAway, Vaults!HandOver, Vaults!Holder, PhaseBar, MoneyBar, TokensBar

\* withdrawFees empties the account of the fees and touches no vault.
LEMMA WithdrawFeesStep ==
    ASSUME Good, Good', NEW sender \in Users, NEW asset \in Assets, NEW recipient \in Accounts,
           WithdrawFees(sender, asset, recipient)
    PROVE  Vaults!WithdrawFees(asset, recipient)
<1> USE DEF Good
<1>1. MoneyMoves(asset, Fees, recipient, withdrawableFees[asset])
  BY FeesMove
<1>2. PICK n \in Nat : n = withdrawableFees[asset]
  BY AmountTypes
<1>3. Fees \in MoneyAccounts /\ recipient \in MoneyAccounts /\ n \in Int
  BY KindsOfAccounts
<1>4. MoneyMoves(asset, Fees, recipient, n)
  BY <1>1, <1>2
<1>5. MoneyBar' = Vaults!Paid(MoneyBar, asset, Fees, recipient, n)
  BY <1>3, <1>4, MovesArePayments
<1>6. MoneyBar[asset][Fees] = n
  BY <1>2, MoneyBarIs
<1>7. MoneyBar' = Vaults!Paid(MoneyBar, asset, Fees, recipient, MoneyBar[asset][Fees])
  BY <1>5, <1>6
<1>8. UNCHANGED <<now, bulls, bears, boughtSellOrders, contractVars, ownerOf>>
  BY DEF WithdrawFees, positionVars, erc721Vars
<1>9. UNCHANGED <<PhaseBar, TokensBar>>
  BY <1>8 DEF contractVars, PhaseBar, PhaseOf, LiveContracts, TokensBar, TokenOf, KeptFor,
              Undelivered
<1> QED
  BY <1>7, <1>8, <1>9 DEF Vaults!WithdrawFees, PhaseBar, MoneyBar, TokensBar

\* What holders do with their tokens they may do in the vaults, where wrapping ether
\* and giving rights to the protocol are no steps at all.
LEMMA HoldersStep ==
    ASSUME Good, Good', TokenCalls
    PROVE  Vaults!VaultsNext \/ UNCHANGED Vaults!vaultVars
<1> USE DEF Good
<1>1. /\ UNCHANGED protocolVars /\ Holders \subseteq Users /\ Amounts \subseteq Nat
      /\ \A user \in Holders : user \in Users /\ user \in Accounts /\ user \in MoneyAccounts
      /\ Accounts \subseteq MoneyAccounts
  BY HoldersAssumption, KindsOfAccounts DEF TokenCalls
<1>2. UNCHANGED <<now, bulls, bears, boughtSellOrders, withdrawableFees, contractVars,
                  LiveContracts, Undelivered, PhaseBar>>
  BY <1>1 DEF protocolVars, contractVars, LiveContracts, Undelivered, PhaseBar, PhaseOf
<1>3. Vaults!Owners = Accounts
  BY DEF Vaults!Owners, Accounts
<1>4. ASSUME NEW user \in Holders, NEW asset \in Assets, NEW to \in Accounts, NEW n \in Amounts,
             Transfer(user, asset, to, n)
      PROVE  Vaults!VaultsNext
  <2>1. /\ balanceOf[asset][user] >= n /\ balanceOf' = Moved(balanceOf, asset, user, to, n)
        /\ UNCHANGED <<ether, ownerOf>> /\ n \in Nat
    BY <1>1, <1>4 DEF Transfer, erc721Vars
  <2>2. MoneyMoves(asset, user, to, n)
    BY <1>1, <1>2, <2>1, TransferMoves
  <2>3. MoneyBar' = Vaults!Paid(MoneyBar, asset, user, to, n)
    BY <1>1, <2>1, <2>2, MovesArePayments
  <2>4. n \in 0 .. MoneyBar[asset][user]
    <3>1. balanceOf[asset][user] \in Nat /\ ether[user] \in Nat
      BY <1>1, AmountTypes
    <3>2. n <= Purse(asset, user) /\ Purse(asset, user) \in Nat
      BY <2>1, <3>1 DEF Purse
    <3> QED
      BY <1>1, <2>1, <3>2, MoneyBarIs
  <2>5. TokensBar' = TokensBar
    BY <1>1, <2>1 DEF protocolVars, TokensBar, TokenOf, KeptFor, Undelivered
  <2>6. Vaults!Pay(user, to, asset, n)
    BY <1>2, <2>3, <2>5 DEF Vaults!Pay, PhaseBar, MoneyBar, TokensBar
  <2> QED
    BY <1>1, <1>3, <2>4, <2>6 DEF Vaults!VaultsNext, MoneyBar
<1>5. ASSUME NEW user \in Holders, NEW n \in Amounts, Deposit(user, n) \/ Withdraw(user, n)
      PROVE  UNCHANGED Vaults!vaultVars
  <2>1. MoneyBar' = MoneyBar
    BY <1>1, <1>2, <1>5, WrappingMovesNothing
  <2>2. UNCHANGED ownerOf
    BY <1>5 DEF Deposit, Withdraw, erc721Vars
  <2>3. TokensBar' = TokensBar
    BY <1>1, <2>2 DEF protocolVars, TokensBar, TokenOf, KeptFor, Undelivered
  <2> QED
    BY <1>2, <2>1, <2>3 DEF Vaults!vaultVars, PhaseBar, MoneyBar, TokensBar
<1>6. ASSUME NEW user \in Holders, NEW c \in Collections, NEW to \in Accounts,
             NEW id \in TokenIds, TransferNFT(user, c, to, id)
      PROVE  Vaults!VaultsNext
  <2>1. /\ ownerOf[c][id] = user /\ ownerOf' = [ownerOf EXCEPT ![c][id] = to]
        /\ UNCHANGED <<balanceOf, ether>> /\ user # Protocol
        /\ ownerOf \in [Collections -> [TokenIds -> Accounts]]
    BY <1>1, <1>6, AccountsAssumption DEF TransferNFT, erc20Vars, TypeOK, TokenTypeOK
  <2>2. \A o \in Orders, d \in Collections, j \in TokenIds : KeptFor(o, d, j)' <=> KeptFor(o, d, j)
    BY <1>1 DEF protocolVars, KeptFor, Undelivered
  <2>3. \A o \in Orders : ~KeptFor(o, c, id)
    BY <2>1, TokensBarIs
  <2>4. TokensBar[c][id] = user
    <3>1. TokenOf(c, id) = user
      BY <2>1, <2>3, TokensBarIs
    <3> QED
      BY <3>1 DEF TokensBar
  <2>5. TokensBar' = [TokensBar EXCEPT ![c][id] = to]
    <3>1. ownerOf'[c][id] = to
      BY <2>1
    <3>2. TokenOf(c, id)' = to
      BY <2>2, <2>3, <3>1, TokensBarWillBe
    <3>3. ASSUME NEW d \in Collections, NEW j \in TokenIds, d # c \/ j # id
          PROVE  TokenOf(d, j)' = TokenOf(d, j)
      <4>1. ownerOf'[d][j] = ownerOf[d][j]
        BY <2>1, <3>3
      <4> QED
        BY <2>2, <4>1, TokenStays
    <3> QED
      BY <3>2, <3>3, TokenMoves
  <2>6. MoneyBar' = MoneyBar
    BY <1>2, <2>1 DEF MoneyBar, MoneyOf, Purse, InVault, Unclaimed, Locked
  <2>7. Vaults!Send(user, to, c, id)
    BY <1>2, <2>4, <2>5, <2>6 DEF Vaults!Send, PhaseBar, MoneyBar, TokensBar
  <2> QED
    BY <1>1, <1>3, <2>7 DEF Vaults!VaultsNext
<1>7. ASSUME UNCHANGED <<balanceOf, ether, ownerOf>> PROVE UNCHANGED Vaults!vaultVars
  <2>1. UNCHANGED <<PhaseBar, MoneyBar, TokensBar>>
    BY <1>2, <1>7, NothingHappens
  <2> QED
    BY <1>2, <2>1 DEF Vaults!vaultVars, PhaseBar, MoneyBar, TokensBar
<1>8. ASSUME \/ \E user \in Holders, asset \in Assets, n \in Approvals : Approve(user, asset, n)
             \/ \E user \in Holders, c \in Collections, approved \in BOOLEAN :
                   SetApprovalForAll(user, c, approved)
             \/ \E wallet \in Wallets, block \in BOOLEAN : SetShouldBlockTransfer(wallet, block)
      PROVE  UNCHANGED Vaults!vaultVars
  <2>1. UNCHANGED <<balanceOf, ether, ownerOf>>
    BY <1>8 DEF Approve, SetApprovalForAll, SetShouldBlockTransfer, erc20Vars, erc721Vars
  <2> QED
    BY <1>7, <2>1
<1> QED
  BY <1>4, <1>5, <1>6, <1>8 DEF TokenCalls, TokenNext, TokenCallsBy

\* Revocations and the owner's settings are not visible in the vaults.
LEMMA QuietStep ==
    ASSUME Good, Good', QuietNext
    PROVE  Vaults!VaultsNext \/ UNCHANGED Vaults!vaultVars
<1>1. ASSUME NEW sender \in Users, NEW asset \in Assets, NEW recipient \in Recipients,
             WithdrawFees(sender, asset, recipient)
      PROVE  Vaults!VaultsNext
  <2>1. recipient \in Accounts /\ Vaults!Owners = Accounts
    BY CallsAssumption DEF Vaults!Owners, Accounts
  <2>2. Vaults!WithdrawFees(asset, recipient)
    BY <1>1, <2>1, WithdrawFeesStep
  <2> QED
    BY <2>1, <2>2 DEF Vaults!VaultsNext
<1>2. CASE TokenCalls
  BY <1>2, HoldersStep
<1>3. ASSUME UNCHANGED <<balanceOf, ether, withdrawableFees, contractVars, ownerOf>>
      PROVE  UNCHANGED Vaults!vaultVars
  <2>1. UNCHANGED <<PhaseBar, MoneyBar, TokensBar>>
    BY <1>3, NothingHappens
  <2>2. UNCHANGED <<now, bulls, bears, boughtSellOrders>>
    BY QuietSteps
  <2> QED
    BY <2>1, <2>2 DEF Vaults!vaultVars, PhaseBar, MoneyBar, TokensBar
<1>4. CASE ~\E sender \in Users, asset \in Assets, recipient \in Recipients :
               WithdrawFees(sender, asset, recipient)
  <2>1. CASE ~TokenCalls
    BY <1>3, <1>4, <2>1
       DEF QuietNext, CancelOrder, CancelSellOrder, NonceNext, NonceCallsBy,
           SetMinimumValidNonce,
           SetMinimumValidNonceSell, OwnerNext, OwnerCallsBy, SetAllowedCollection,
           SetAllowedAsset, SetFee,
           TransferOwnership, RenounceOwnership, vars, protocolVars, tokenVars, contractVars
  <2> QED
    BY <1>2, <2>1
<1> QED
  BY <1>1, <1>4

\* The protocol is deployed with empty vaults.
LEMMA VaultsStartEmpty == Init => Vaults!VaultsInit
<1> SUFFICES ASSUME Init PROVE Vaults!VaultsInit
  OBVIOUS
<1>1. TypeOK
  BY InitType
<1>2. LiveContracts = {} /\ Undelivered = {}
  BY DEF Init, LiveContracts, Undelivered
<1>3. PhaseBar = [order \in Orders |-> "open"]
  <2>1. OutcomesInOrder /\ matchedOrders = {}
    BY DEF Init, OutcomesInOrder
  <2>2. \A order \in Orders : PhaseOf(order) = "open"
    BY <1>1, <2>1, PhaseIs
  <2> QED
    BY <2>2 DEF PhaseBar
<1>4. /\ Vaults!MoneyAccounts = MoneyAccounts
      /\ MoneyAccounts \ Users = {Protocol, Fees} \cup Orders
  BY AccountsAssumption, VaultsAssumption
     DEF Vaults!MoneyAccounts, Vaults!Owners, MoneyAccounts, Accounts
<1>5. ASSUME NEW a \in Assets
      PROVE  /\ \A user \in Users : MoneyBar[a][user] \in Nat
             /\ \A account \in MoneyAccounts \ Users : MoneyBar[a][account] = 0
  <2>1. balanceOf[a][Protocol] = 0 /\ withdrawableFees[a] = 0
    BY DEF Init, TokenInit, Accounts
  <2>2. Locked(a) = 0
    BY <1>2, EscrowOfNothing DEF Locked
  <2>3. Unclaimed(a) = 0 /\ \A order \in Orders : InVault(a, order) = 0
    BY <1>2, <2>1, <2>2 DEF Unclaimed, InVault
  <2>4. \A user \in Users : Purse(a, user) \in Nat
    BY <1>1, AmountTypes, KindsOfAccounts DEF Purse
  <2> QED
    BY <1>1, <1>4, <2>1, <2>3, <2>4, MoneyBarIs
<1>6. MoneyBar \in [Assets -> [MoneyAccounts -> Nat]]
  <2>1. \A a \in Assets, x \in MoneyAccounts : MoneyBar[a][x] \in Nat
    BY <1>5
  <2>2. MoneyBar \in Ledgers
    BY <1>1, MoneyBarIs
  <2> QED
    BY <2>1, <2>2 DEF Ledgers
<1>7. TokensBar \in [Collections -> [TokenIds -> Users]]
  BY <1>2, EndowmentAssumption DEF Init, TokenInit, TokensBar, TokenOf, KeptFor
<1>8. now = 0 /\ boughtSellOrders = {} /\ bulls = [o \in Orders |-> NoOne]
      /\ bears = [o \in Orders |-> NoOne]
  BY DEF Init
<1> QED
  BY <1>3, <1>4, <1>5, <1>6, <1>7, <1>8 DEF Vaults!VaultsInit, PhaseBar, MoneyBar, TokensBar

\* Every transaction is a step of the vaults, or none.
LEMMA VaultsStep == Good /\ Good' /\ [Next]_vars => [Vaults!VaultsNext]_(Vaults!vaultVars)
<1> SUFFICES ASSUME Good, Good', [Next]_vars
             PROVE  Vaults!VaultsNext \/ UNCHANGED Vaults!vaultVars
  OBVIOUS
<1>0. Vaults!Owners = Accounts
  BY DEF Vaults!Owners, Accounts
<1>1. CASE Tick
  BY <1>1, TimeStep DEF Vaults!VaultsNext
<1>2. ASSUME NEW order \in Orders, NEW sender \in Users, NEW value \in Nat,
             MatchOrder(sender, order, value)
      PROVE  Vaults!VaultsNext
  <2>1. FeeAgreed(order)
    BY <1>2 DEF MatchOrder, MatchRequires, CheckIsValidOrder
  <2>2. /\ MakerFees(order) \in Vaults!AgreedFees(order, order.isBull)
        /\ TakerFees(order) \in Vaults!AgreedFees(order, ~order.isBull)
    BY <2>1, FeesAreAgreed DEF Good
  <2>3. Vaults!Match(order, sender, MakerFees(order), TakerFees(order))
    BY <1>2, MatchStep
  <2> QED
    BY <2>2, <2>3 DEF Vaults!VaultsNext
<1>3. ASSUME NEW order \in Orders, NEW sender \in Users, NEW id \in TokenIds,
             SettleContract(sender, order, id)
      PROVE  Vaults!VaultsNext
  BY <1>3, SettleStep DEF Vaults!VaultsNext
<1>4. ASSUME NEW order \in Orders, ReclaimContract(order) PROVE Vaults!VaultsNext
  <2>1. CASE ReclaimNFT(order)
    BY <1>4, <2>1, DeliverStep DEF Vaults!VaultsNext
  <2>2. CASE ReclaimStake(order)
    BY <1>4, <2>2, ExpireStep DEF Vaults!VaultsNext
  <2> QED
    BY <1>4, <2>1, <2>2 DEF ReclaimContract
<1>5. ASSUME NEW order \in Orders, NEW sender \in Users, NEW isBull \in BOOLEAN,
             NEW to \in Accounts, TransferPosition(sender, order, isBull, to)
      PROVE  Vaults!VaultsNext
  BY <1>0, <1>5, GiveAwayStep DEF Vaults!VaultsNext
<1>6. ASSUME NEW sellOrder \in SellOrders, NEW buyer \in Users, NEW tip \in Nat,
             NEW value \in Nat, BuyPosition(buyer, sellOrder, tip, value)
      PROVE  Vaults!VaultsNext
  <2>1. /\ sellOrder.price + tip \in 0 .. MoneyBar[sellOrder.asset][buyer]
        /\ Vaults!Sell(sellOrder, buyer, sellOrder.price + tip)
    BY <1>6, SellStep
  <2> QED
    BY <2>1 DEF Vaults!VaultsNext, MoneyBar
<1>7. CASE QuietNext
  BY <1>7, QuietStep
<1> QED
  BY <1>1, <1>2, <1>3, <1>4, <1>5, <1>6, <1>7, StepCases DEF Good

\* BvbProtocol implements BvbVaults: although it pools all stakes of an asset with the
\* fees, and all NFTs, at one address, each transaction does what it would do if every
\* contract had a vault of its own.  No payment and no NFT ever comes out of the vault
\* of another contract, or of the account of anybody who did not call or sign.
THEOREM ProtocolImplementsVaults == Spec => EveryContractHasItsOwnVault
<1>1. Init => Vaults!VaultsInit
  BY VaultsStartEmpty
<1>2. Good /\ Good' /\ [Next]_vars => [Vaults!VaultsNext]_(Vaults!vaultVars)
  BY VaultsStep
<1>3. Spec => []Good
  BY TypesAndOutcomes, TokensStayInCustody, PTL DEF Good
<1> QED
  BY <1>1, <1>2, <1>3, PTL DEF Spec, EveryContractHasItsOwnVault, Vaults!VaultsSpec
==============================================================================
