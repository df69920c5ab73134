------------------------------ MODULE BvbTokens ------------------------------
(****************************************************************************)
(* The token contracts BvbProtocol moves value with: the ERC20 assets, WETH *)
(* (an ERC20 backed by ether) and the ERC721 collections, as the solmate    *)
(* contracts the tests and mocks use implement them.  Only the rights given *)
(* to BvbProtocol are kept: `allowance' and `isApprovedForAll' have that    *)
(* one spender.  The single-token ERC721 approval (`getApproved') is folded *)
(* into `isApprovedForAll', the form every test and script uses.            *)
(****************************************************************************)
EXTENDS Integers, FiniteSets, Functions

CONSTANTS
    Users,        \* externally owned accounts and contract wallets
    Wallets,      \* the users that are contracts (BvbMaliciousBull is one)
    Protocol,     \* the address of BvbProtocol
    Assets,       \* ERC20 contracts
    WETH,         \* the asset that wraps ether
    Collections,  \* ERC721 contracts
    TokenIds,     \* token ids that exist in every collection
    MaxUint       \* type(uint256).max

CONSTANTS         \* what the accounts own when BvbProtocol is deployed
    InitialBalance, InitialAllowance, InitialEther, InitialOwner, InitialApproval

CONSTANTS         \* bounds on what token holders do on their own
    Holders,      \* the users whose own token calls are explored
    Amounts,      \* the amounts they transfer, wrap and unwrap
    Approvals     \* the allowances they give

Accounts == Users \cup {Protocol}

ASSUME AccountsAssumption ==
    /\ IsFiniteSet(Users)
    /\ Protocol \notin Users
    /\ Wallets \subseteq Users

ASSUME AssetsAssumption ==
    /\ WETH \in Assets
    /\ MaxUint \in Nat
    /\ TokenIds \subseteq Nat

ASSUME EndowmentAssumption ==
    /\ InitialBalance \in [Assets -> [Users -> Nat]]
    /\ InitialAllowance \in [Assets -> [Users -> 0 .. MaxUint]]
    /\ InitialEther \in [Users -> Nat]
    /\ InitialOwner \in [Collections -> [TokenIds -> Users]]
    /\ InitialApproval \in [Collections -> SUBSET Users]

\* The amount of an asset that there is: `eth' is what may still be wrapped into WETH.
SupplyOf(asset, bal, accounts, eth) ==
    SumFunctionOnSet(bal, accounts) + (IF asset = WETH THEN SumFunctionOnSet(eth, Users) ELSE 0)

\* The totalSupply of an ERC20 contract is a uint256 and minting checks it.
ASSUME SupplyAssumption ==
    \A asset \in Assets :
        SupplyOf(asset, InitialBalance[asset], Users, InitialEther) <= MaxUint

ASSUME HoldersAssumption ==
    /\ Holders \subseteq Users
    /\ Amounts \subseteq Nat
    /\ Approvals \subseteq 0 .. MaxUint

VARIABLES
    balanceOf,         \* asset -> account -> amount
    allowance,         \* asset -> user -> amount BvbProtocol may still pull
    ether,             \* user -> amount of native currency
    ownerOf,           \* collection -> token id -> account
    isApprovedForAll,  \* collection -> users that let BvbProtocol move their tokens
    shouldBlock        \* wallets that refuse incoming ERC721 tokens

erc20Vars == <<balanceOf, allowance, ether>>
erc721Vars == <<ownerOf, isApprovedForAll, shouldBlock>>
tokenVars == <<balanceOf, allowance, ether, ownerOf, isApprovedForAll, shouldBlock>>

TokenTypeOK ==
    /\ balanceOf \in [Assets -> [Accounts -> Nat]]
    /\ allowance \in [Assets -> [Users -> 0 .. MaxUint]]
    /\ ether \in [Users -> Nat]
    /\ ownerOf \in [Collections -> [TokenIds -> Accounts]]
    /\ isApprovedForAll \in [Collections -> SUBSET Users]
    /\ shouldBlock \subseteq Wallets

TokenInit ==
    /\ balanceOf = [a \in Assets |-> [u \in Accounts |->
                        IF u = Protocol THEN 0 ELSE InitialBalance[a][u]]]
    /\ allowance = InitialAllowance
    /\ ether = InitialEther
    /\ ownerOf = InitialOwner
    /\ isApprovedForAll = InitialApproval
    /\ shouldBlock = Wallets

\* What an account owns of an asset, or may wrap into it.
Purse(asset, user) == balanceOf[asset][user] + (IF asset = WETH THEN ether[user] ELSE 0)

------------------------------------------------------------------------------
(* What a call does to the ledgers, for calls made by BvbProtocol as well.  *)

\* Faulty variant: the sender is not debited.
MovedWithoutDebit(bal, asset, from, to, n) == [bal EXCEPT ![asset][to] = @ + n]

\* balanceOf after `from' sends `n' of `asset' to `to', debited before it is credited:
\* who pays itself ends with what it had.
Moved(bal, asset, from, to, n) ==
    LET debited == [bal EXCEPT ![asset][from] = @ - n]
    IN  [debited EXCEPT ![asset][to] = @ + n]

\* balanceOf after `n' of `asset' is minted to `to'.
Minted(bal, asset, to, n) == [bal EXCEPT ![asset][to] = @ + n]

\* allowance after BvbProtocol used `n' of it; an unlimited one is not used up.
Spent(allowed, asset, from, n) ==
    [allowed EXCEPT ![asset][from] = IF @ = MaxUint THEN @ ELSE @ - n]

\* transferFrom(from, _, n) called by BvbProtocol does not revert.
CanPull(bal, allowed, asset, from, n) ==
    /\ allowed[asset][from] >= n
    /\ bal[asset][from] >= n

\* An account without code takes any token, a contract answers onERC721Received.
AcceptsERC721(account) == account \notin shouldBlock

\* safeTransferFrom(from, to, id) called by BvbProtocol.
SafeTransferNFT(collection, from, to, id) ==
    /\ ownerOf[collection][id] = from
    /\ from = Protocol \/ from \in isApprovedForAll[collection]
    /\ AcceptsERC721(to)
    /\ ownerOf' = [ownerOf EXCEPT ![collection][id] = to]

------------------------------------------------------------------------------
(* Calls the token holders make themselves.                                 *)

Approve(user, asset, n) ==
    /\ allowance' = [allowance EXCEPT ![asset][user] = n]
    /\ UNCHANGED <<balanceOf, ether, erc721Vars>>

Transfer(user, asset, to, n) ==
    /\ balanceOf[asset][user] >= n
    /\ balanceOf' = Moved(balanceOf, asset, user, to, n)
    /\ UNCHANGED <<allowance, ether, erc721Vars>>

Deposit(user, n) ==
    /\ ether[user] >= n
    /\ ether' = [ether EXCEPT ![user] = @ - n]
    /\ balanceOf' = Minted(balanceOf, WETH, user, n)
    /\ UNCHANGED <<allowance, erc721Vars>>

Withdraw(user, n) ==
    /\ balanceOf[WETH][user] >= n
    /\ balanceOf' = [balanceOf EXCEPT ![WETH][user] = @ - n]
    /\ ether' = [ether EXCEPT ![user] = @ + n]
    /\ UNCHANGED <<allowance, erc721Vars>>

SetApprovalForAll(user, collection, approved) ==
    /\ isApprovedForAll' = [isApprovedForAll EXCEPT ![collection] =
                               IF approved THEN @ \cup {user} ELSE @ \ {user}]
    /\ UNCHANGED <<erc20Vars, ownerOf, shouldBlock>>

\* transferFrom, which does not ask the recipient; safeTransferFrom does the same where
\* it succeeds.
TransferNFT(user, collection, to, id) ==
    /\ ownerOf[collection][id] = user
    /\ ownerOf' = [ownerOf EXCEPT ![collection][id] = to]
    /\ UNCHANGED <<erc20Vars, isApprovedForAll, shouldBlock>>

SetShouldBlockTransfer(wallet, block) ==
    /\ shouldBlock' = IF block THEN shouldBlock \cup {wallet} ELSE shouldBlock \ {wallet}
    /\ UNCHANGED <<erc20Vars, ownerOf, isApprovedForAll>>

\* The calls of some holders and wallets.
TokenCallsBy(holders, wallets) ==
    \/ \E user \in holders, asset \in Assets :
          \/ \E n \in Approvals : Approve(user, asset, n)
          \/ \E to \in Accounts, n \in Amounts : Transfer(user, asset, to, n)
    \/ \E user \in holders, n \in Amounts : Deposit(user, n) \/ Withdraw(user, n)
    \/ \E user \in holders, collection \in Collections :
          \/ \E approved \in BOOLEAN : SetApprovalForAll(user, collection, approved)
          \/ \E to \in Accounts, id \in TokenIds : TransferNFT(user, collection, to, id)
    \/ \E wallet \in wallets, block \in BOOLEAN : SetShouldBlockTransfer(wallet, block)

TokenNext == TokenCallsBy(Holders, Wallets)
==============================================================================
