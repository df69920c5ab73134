---------------------------- MODULE BvbRefinement ----------------------------
(****************************************************************************)
(* BvbProtocol, with its one pooled balance per asset and its one address   *)
(* for all NFTs, behaves as BvbVaults, where every option has a vault.      *)
(****************************************************************************)
EXTENDS BvbProtocol

CONSTANT Fees   \* the account of BvbVaults for the fees

\* The vaults and the account for the fees are no addresses.
ASSUME VaultsAssumption ==
    /\ Orders \cap (Accounts \cup {Fees}) = {}
    /\ Fees \notin Accounts

\* What the flags of the contract say of the life of an option.
PhaseOf(order) ==
    CASE order \notin matchedOrders -> "open"
      [] order \in LiveContracts -> "live"
      [] order \in settledContracts \ reclaimedContracts -> "settled"
      [] order \in settledContracts \cap reclaimedContracts -> "delivered"
      [] OTHER -> "expired"

\* The vault of a live contract holds its stake, any other is empty.
InVault(asset, order) ==
    IF order \in LiveContracts /\ order.asset = asset THEN Stake(order) ELSE 0

\* What the protocol holds beyond the vaults and the fees.
Unclaimed(asset) == balanceOf[asset][Protocol] - withdrawableFees[asset] - Locked(asset)

MoneyOf(asset, account) ==
    CASE account \in Users -> Purse(asset, account)
      [] account \in Orders -> InVault(asset, account)
      [] account = Fees -> withdrawableFees[asset]
      [] OTHER -> Unclaimed(asset)

\* A token of the protocol is in the vault of the contract that was settled with it.
KeptFor(order, collection, id) ==
    order \in Undelivered /\ order.collection = collection /\ claimableTokenId[order] = id

TokenOf(collection, id) ==
    IF \E order \in Orders : KeptFor(order, collection, id)
    THEN CHOOSE order \in Orders : KeptFor(order, collection, id)
    ELSE ownerOf[collection][id]

Vaults == INSTANCE BvbVaults WITH
    time <- now,
    phase <- [order \in Orders |-> PhaseOf(order)],
    bull <- bulls,
    bear <- bears,
    used <- boughtSellOrders,
    money <- [asset \in Assets |-> [account \in Accounts \cup Orders \cup {Fees} |->
                                       MoneyOf(asset, account)]],
    tokens <- [collection \in Collections |-> [id \in TokenIds |-> TokenOf(collection, id)]]

\* Pooling is invisible: every transaction moves money and tokens only between the
\* caller, the vault of the one contract it is about and the fees, as if no other
\* contract existed; no payment, and no NFT, ever comes out of another vault.
EveryContractHasItsOwnVault == Vaults!VaultsSpec
==============================================================================
