# BullvBear put option protocol: a TLA+ development

`src/BvbProtocol.sol` lets two people enter a put option on "any NFT of a collection".
A *maker* signs an `Order` off-chain; a *taker* sends it with `matchOrder`. The bull
deposits the collateral, the bear the premium, both pay a fee, and the order becomes a
*contract*. Until `order.expiry` the bear may call `settleContract` with a token: the bear
gets premium and collateral, the token waits in the protocol for the bull. After the expiry
of an unsettled contract, `reclaimContract` gives premium and collateral to the bull. Both
positions can be sold with a signed `SellOrder` (`buyPosition`) or given away
(`transferPosition`).

Paths below are relative to the repository.

## 1. Inventory

| Component | State | Operations | Modelled in |
|---|---|---|---|
| Option contracts | `matchedOrders`, `settledContracts`, `reclaimedContracts`, `claimableTokenId`, `withdrawableFees`, the protocol's token balances | `matchOrder`, `settleContract`, `reclaimContract` | `BvbProtocol` |
| Positions | `bulls`, `bears`, `boughtSellOrders` | `buyPosition`, `transferPosition` | `BvbProtocol` |
| Revocation | `canceledOrders`, `canceledSellOrders`, `minimumValidNonce`, `minimumValidNonceSell` | `cancelOrder`, `cancelSellOrder`, `setMinimumValidNonce`, `setMinimumValidNonceSell` | `BvbProtocol` |
| Owner | `owner`, `fee`, `allowedAsset`, `allowedCollection` | `setFee`, `setAllowedAsset`, `setAllowedCollection`, `withdrawFees`, `transferOwnership`, `renounceOwnership` | `BvbProtocol` |
| Validity | none | `checkIsValidOrder`, `checkIsValidSellOrder`, `isWhitelisted`, `isValidSignature` | guards in `BvbProtocol` |
| Tokens | `balanceOf`, `allowance`, `ether`, `ownerOf`, `isApprovedForAll`, `shouldBlock` | the holders' own calls; the pulls and pushes of the protocol | `BvbTokens` |
| Batches | none | `batchMatchOrders`, `batchSettleContracts`, `batchReclaimContracts` | `BvbCalls` |
| Reentrancy guard | `_status` | `nonReentrant` around `matchOrder`, `settleContract`, `reclaimContract`, `buyPosition`, `transferPosition` | `BvbCalls` |
| `BvbProtocolHelpers` | `bvb`, `owner` | `isValidOrder`, `requireIsValidOrder`, `hasAllowanceOrder`, `isValidSellOrder`, `getMakerPrice`, `getTakerPrice`, `setBvb` | `BvbProtocolHelpers` |
| `BvbGateHelpers` | `gateCollections`, `owner` | `addGateCollection`, `removeGateCollection` (swap and pop), `getGateCollections`, `hasAccess` | `BvbGateHelpers` |
| EIP712 and ECDSA | none | hashes and signatures | assumed |
| Scripts | none | send the calls above | not modelled |
| Vendored tooling | none | JavaScript of OpenZeppelin Contracts: generators, release scripts, build configuration | not modelled |

**Interactions.** Makers and takers meet through signatures only: a signature exists
before, and independently of, the transaction that uses it, so everything it refers to
(the fee rate, the lists, the maker's money, the position that is sold) may have changed in
between. All contracts and the fees share one balance per asset. The outcome of a contract
is decided by `block.timestamp` against `order.expiry`, in two functions of which one,
`settleContract`, does not read the other's flag. The collections call back into receivers (`onERC721Received`), and a
wallet can refuse.

**What is hard here**, and what makes each part correct:

* pooled money: the balance covers every live contract and the fees (`Solvent`), and no
  call leaves more or less there than it books (`SurplusOnlyFromGifts`);
* approvals that everybody gives to one contract: they are used for nobody but the caller
  and the maker of a signed order (`NobodyPaysUnasked`);
* pooled NFTs: the token of a contract is there for its bull (`Custody`);
* disjoint time windows: one outcome per contract (`OneOutcome`, `OutcomesInOrder`);
* signatures that outlive what they were made for (`BuyersGetLiveContracts`,
  `PositionMovesOnlyWithConsent`, `RevokedStaysRevoked`, `MakerChargeWithinSignedFee`);
* races between a maker's revocation and a taker (`NeverUsedAndCanceled`);
* counterparties and owners that could stand in the way (`BearCanSettle`,
  `EveryContractEnds`, `SettledNFTIsDelivered`);
* one balance and one address for everybody's contracts (`EveryContractHasItsOwnVault`);
* calls interrupted by the code of wallets, `withdrawFees` without a guard, batches that
  fail half-way (`CallsAreAtomic`, `SolventThroughoutCalls`, `BatchesAreAllOrNothing`,
  `TransactionsEnd`);
* arithmetic at the limit of uint256, done only when a contract ends (`BullCanReclaim`,
  `BearCanSettle`);
* answers of the helpers that are read before the transaction is mined
  (`ValidOrdersCanBeMatched`, `QuotesAreCharged`, `AnswersHoldUnlessMakerOrOwnerActs`,
  `SaleAnswersHoldUnlessSellerActs`);
* a list edited by index (`ChosenIndexStaysGood`, `RemovalTakesOneOccurrence`,
  `RemovalOnlyConcernsHolders`, `AccessByAnyCollection`).

`PROJECT.json` lists these hazards at the lines where they bite.

## 2. Modules

* **`BvbTokens`** is the environment: ERC20 assets, WETH with the ether it wraps, ERC721
  collections, as the solmate contracts of the tests implement them. It defines what a call
  does to the ledgers (`Moved`, `Minted`, `Spent`, `CanPull`, `SafeTransferNFT`), which
  `BvbProtocol` uses for its own calls, and the calls of the holders (`TokenNext`).
  `Wallets` are users with code; `shouldBlock` holds the ones that refuse tokens, as
  `BvbMaliciousBull` does until it is told otherwise.
* **`BvbProtocol`** is the contract. One action is one transaction, atomic as on chain:
  every `require`, including those of the token calls it makes, is a conjunct, and a call
  that would revert is a disabled action. Variables have the names of the state variables.
  `mapping(... => bool)` is a set; `matchedOrders` and `boughtSellOrders`, whose values are
  the key's own preimage, are sets too; `address(0)` is `NoOne`. An `Order` is a record and
  stands for its EIP712 hash, hence also for the contract id: distinct orders are assumed to
  have distinct hashes. A valid signature is membership of `SignedOrders` or
  `SignedSellOrders`; contracts cannot sign, so no wallet is a maker there. `now` is
  `block.timestamp`.
* **`BvbCallers`** adds a history variable, `caller`: who sent the last transaction. No
  action reads it. Properties about what one account may do to another
  (`PositionMovesOnlyWithConsent`, `NobodyPaysUnasked`) need it, as the effect of a call
  alone does not tell who made it. `BvbProtocol` groups its actions by sender for that
  (`OrderCallsBy`, `SellOrderCallsBy`, `NonceCallsBy`, `OwnerCallsBy`).
* **`BvbVaults`** is the abstract specification, what the protocol promises without saying
  how: each order has a vault of its own that holds the stake while the option is live and
  the NFT after a settlement; an option is in one phase of its life; the fees are in an
  account apart; users spend only their own money. There are no flags, no allowances, no
  pooled balance, and ether is the same money as its wrapped form.
* **`BvbRefinement`** maps `BvbProtocol` to it. `PhaseOf` reads the flags; `InVault` splits
  the one balance into the stakes of the live contracts, the fees, and what is left
  (`Unclaimed`, what somebody sent to the protocol's own address, abstractly money of that
  address); `TokenOf` puts a token of the protocol into the vault of the contract
  that was settled with it. `EveryContractHasItsOwnVault` is the abstract specification
  under this mapping, checked as a property.
* **`BvbCalls`** is the same contract as the EVM runs it, not atomic. A transaction
  (`Submit`) is one call or a batch of calls; a call takes the guard (`Begin`), checks and
  stores (`Effects`), then makes its external calls one after the other (`Interact`), with
  the amounts it read before; `Leave` releases the guard. The variables of `BvbProtocol`
  hold the state in the middle of a transaction, `stored` the one a `Revert` restores, which
  may come at any point. A wallet that is reached (a token sent to it, or money of an asset
  in `Notifying`, which may call the payer before and the payee after) runs code of its own
  (`Callback`): any unguarded call, `withdrawFees`, token calls, or another guarded call. A
  call that the code catches when it fails is one it does not make. Guards and stores are
  shared with `BvbProtocol` (`MatchRequires`, `RecordMatch`, `SettleRequires`,
  `BuyRequires`, ...); the transfers are written again, one by one.
* **`BvbProtocolHelpers`** adds to `BvbCallers` the views, which evaluate the state of
  `BvbProtocol`, and the helper's own state. Views are operators: a read changes nothing. A `try` that catches
  is the truth value of the guards. The views compute prices in checked arithmetic
  (`QuoteFits`): a view that overflows reverts and says of nothing that it is valid.
* **`BvbGateHelpers`** stands alone: the list, its owner, the balances of the collections,
  and `chosen`, what the owner read and means to remove later. Index `i` of Solidity is
  `i + 1` in the sequence.
* **`MCBvbProtocol`**, **`MCBvbCallers`**, **`MCBvbRefinement`**, **`MCBvbCalls`**,
  **`MCBvbProtocolHelpers`** give the constants their values; one `.cfg` file per run. `Gate.cfg` needs no module.
* The theorems are in modules of their own. **`BvbProtocolProofs`**: types and lifecycle;
  **`BvbSolvencyProofs`**: sums over finite sets, and the money;
  **`BvbConsentProofs`**: signatures, positions, and who pays; **`BvbRefinementProofs`**: the
  implementation of `BvbVaults`; **`BvbCallsProofs`**: interrupted calls and batches;
  **`BvbAtomicityProofs`**: transactions of one call implement `BvbProtocol`;
  **`BvbHelpersProofs`** and **`BvbGateHelpersProofs`**: the two helpers. Each of them
  extends the module it is about and those whose lemmas it cites.

Definitions whose comment starts with "Faulty variant" are not part of the specification.
Each is a plausible mistake in the definition that follows it; putting it in place of that
definition makes TLC violate a property (list: `mutants` in `PROJECT.json`), which shows
that the property depends on the code and that the instance is large enough to tell.

## 3. Runs

| Run | Configuration | Question |
|---|---|---|
| `escrow` | `Escrow.cfg` | Two contracts on one asset and one collection, two fee rates, an owner free to act, a wallet that may refuse tokens. Is the money of each contract always there, is there one outcome, can a bear always settle? |
| `positions` | `Positions.cfg` | Both positions of a contract on sale (one for wrapped ether with a tip, one for another asset with a whitelist), positions given back, cancellations and minimum nonces. Do positions move only by a call or an unused sell order of their holder, are buyers served, is a revocation final, and does what a buyer pays, in ether and with a tip, reach the seller whole? |
| `tokens` | `Tokens.cfg` | uint256 ends at 100, which is all there is of the asset; an order of exactly 100 and one above it. Maker and taker move, wrap, unwrap and stop approving money between calls, the maker may take its own order, and somebody may send tokens to the protocol itself. Is exactly what is booked pulled, can every matched contract be settled in time and be reclaimed, and does no balance wrap around? |
| `liveness` | `Liveness.cfg` | Does every contract end and every NFT arrive? |
| `vaults` | `Vaults.cfg` | Two contracts on one asset and one collection, an offer of a position, fees withdrawn. Does the pooled protocol implement `BvbVaults`? |
| `calls` | `Calls.cfg` | A wallet that is called in the middle of calls tries to call again; everything may revert. Does a transaction do one atomic action of `BvbProtocol`, or nothing, and leave the guard open? |
| `callbacks` | `Callbacks.cfg` | The owner is such a wallet and withdraws fees, changes the fee and the lists in the middle, also of batches of two calls. Is the money covered at every point, and does a batch that fails leave a trace? |
| `helpers` | `Helpers.cfg` | Two signed orders of a maker who has money for one, a rate that changes, sell orders of both sides. What is an answer worth, and whose money does a call take? |
| `gate` | `Gate.cfg` | Removals by an index read earlier, duplicates, an address that is no collection. Who has access, and what is removed? |

**Bounds.** Two contracts are enough for every interference of one contract with another
(double payment, the token of one handed out by the other); the order of which alice is the
bull and the one of which she is the bear share the collection, so that the token that
settled the first settles the second. Time is 0 to 3 or 4: the code only compares
timestamps, and each validity, expiry, start and end is followed by at least one later
instant. `MaxUint` is far above all amounts except in `tokens`. Fee rates are
2%, 5% and the forbidden 5.1%, and none where money is scarce.
`Takers`, `Recipients`, `Revokers`, `Holders` and `Successors` name the users whose calls of
each kind a run explores. In `tokens` money is
just sufficient, so that an allowance or a balance is missing in many states.
`CHECK_DEADLOCK FALSE` appears where time is up and nobody is left with a call to make.
No symmetry is used: the users play different roles.

In `tokens`, `MaxUint` is the supply: amounts of an ERC20 asset cannot exceed what its total
supply, itself a uint256, can reach. The fee is 0 there: with any other the exact order
would not fit. Alice, the maker, has just her part of the exact order, bob his as ether; she
can take her own order if he wraps his part and sends it to her, and `SurplusOnlyFromGifts`
asks of each match whether both sides were pulled.

In `positions` and `helpers`, `VIEW` leaves `caller` out of the states TLC tells apart: no
guard and no property reads the one of an earlier step, so a state is explored once,
and all steps out of it, by all callers, are checked.
In `positions` the one who is given positions, and who raises minimum nonces, is alice, the
maker: she is the seller who may find a used sell order of hers fitting again. `vaults` uses
one asset that also wraps ether; `Pay` and `Sell` range over all amounts the payer has.

In the runs of `BvbCalls`, `MaxCallbacks` bounds what wallets do in one transaction, as gas
does: two in `calls` (enter, and act inside), one in `callbacks`, for the size of the run.
`MaxDepth` is the calls in progress: one that was interrupted and one made meanwhile. In
`calls` no wallet receives withdrawn fees: `withdrawFees` is not guarded, so a transaction
in which its recipient calls back is two atomic actions and not one; `callbacks` is about that
case, there the recipient is the owner. `alice` can pay for both orders without a fee and not
at 5%, so that pulls fail after others succeeded. Batches have two calls: a longer one has a first
call that fails, and before it some that do not. In `helpers` the first order is covered
at 2% and not at 5%; time is 0 and 1, the last instant before and the first after the
validity. `Deployments` has the one protocol: a helper that asks another one says nothing
of this one, and the properties about views are of the views themselves.
`gate` has lists of up to four entries: chosen, removed, last, and one between.

**Fairness** (`FairSpec` in `liveness`, `FairCalls` in `calls`). Blocks keep coming (weak fairness of `Tick`).
`reclaimContract` is open to everybody and its result does not depend on the caller, so one
that stays possible is eventually called (weak fairness per contract); the beneficiary has
every reason to. Nothing is assumed of takers, bears, buyers or the owner.
`FairCalls` (`calls`) assumes of the EVM that it does not stop in the middle of a
transaction (weak fairness of `Proceed`: the next call, transfer, return, end or revert);
callbacks are not fair, they are limited by gas, and no transaction has to be sent.

**Divergences.** Three runs state what the documentation says and TLC refutes it:
`doc_settle` (the token is not sent to the bull at settlement, README line 107),
`doc_reclaim` (`reclaimContract` serves settled contracts too, README line 115) and
`doc_collection` (delisting a collection does not stop sell orders, README line 220).
Two comments are looser than the code and have no run of their own. `Order.fee`, "fees that
should be applied" (`src/BvbProtocol.sol` line 27), is an upper bound: the current rate is
applied (`MakerChargeWithinSignedFee` is what holds). `isValidSellOrder`, "can be used"
(helpers, line 60), answers for the order it is given next to the sell order and never
compares it with `sellOrder.orderHash`, which `buyPosition` does: a "yes" for another
contract of the same seller says nothing of the sale. What holds of the answer, for whatever
order is given, is that it lasts until the seller acts or the contract ends
(`SaleAnswersHoldUnlessSellerActs`).

## 4. Proofs

All theorems hold for any users, orders, tokens, amounts and times. They rest on the named
assumptions of the modules, which TLC evaluates in the runs, and on nothing else:

* the constants have their types; `NoOne` and `Protocol` are no users; signed orders are
  orders; sets of users and orders are finite (they are the ones of one deployment);
* `SupplyAssumption`: what there is of an asset at the start, with the ether that may be
  wrapped into it, fits a uint256, as `totalSupply` does;
* `VaultsAssumption`: the names given to the vaults are no addresses (refinement only).

**Types and lifecycle** (`BvbProtocolProofs`).

* `TypeCorrect` (`TypeOK`) and `OutcomesAlwaysInOrder` (`OutcomesInOrder`). They are
  inductive only together: `reclaimContract` pays `bulls[contractId]` and would leave the
  type of the ledger if a matched order had no bull; the lifecycle needs the types.
* `ContractsHaveOneOutcome` (`OneOutcome`): `settleContract` requires `now <= expiry`, and
  `OutcomesInOrder` says that a contract reclaimed unsettled has `now > expiry`, which only
  stays true because time does not go back.
* `SalesAreOfLiveContracts` (`BuyersGetLiveContracts`): the bear side of
  `checkIsValidSellOrder` reads only the expiry, the rest follows from the lifecycle.
* `UseExcludesCancellation` (`NeverUsedAndCanceled`).
* `TokensStayInCustody` (`Custody`): a token with which a bear settles was the bear's, so it
  is not in custody for another contract, and no step but `reclaimContract` takes a token
  out of the protocol.

`StepCases` divides every step into six calls and the "quiet" ones, which touch no contract
and no position; most proofs below go by it.

**Money** (`BvbSolvencyProofs`).

* `AlwaysSolvent` (`Solvent`). The inductive invariant is `TypeOK /\ OutcomesInOrder /\
  Solvent`: that a settled contract was live (so that its stake is still counted) follows
  from the lifecycle. One lemma per kind of step says what it does to both sides:
  `matchOrder` takes in exactly the stake and the fees (`PricesAreStakeAndFees`), also when
  maker and taker are one account or the taker pays in ether; an outcome pays one stake and
  removes one order from the sum (`PayingOneStake`); `withdrawFees` pays what it clears; a
  sale in ether passes through; a token holder spends only what is the holder's.
* `SurplusComesFromGifts` (`SurplusOnlyFromGifts`) is the exact form of the same argument,
  and `AlwaysSolvent` follows from it. The surplus is the balance without fees and stakes.
  `SurplusStep` shows, under the invariant above, that a step keeps it or is one of the
  three gifts: tokens sent to the protocol's address, fees withdrawn to it, a stake paid
  out to it as the bull. A solvent protocol could still keep a tip, or make up for a payment it
  missed with an earlier gift; with this it cannot.
* `MoneyIsAlwaysConserved` (`MoneyIsConserved`): each payment path leaves the sum of the
  balances and of the ether still to be wrapped as it was (`MovedKeepsSupply`,
  `WrappingKeepsSupply`, ...), self-payments included, because a transfer debits before
  it credits.
* `BalancesAlwaysFit` (`BalancesFit`): no balance exceeds the sum, the sum never changes and
  fitted a uint256 at the start.
* `WinnersAreNeverBlocked`: all that `settleContract` requires of a bear in time with token
  and approval, and all that `reclaimContract` requires after expiry, holds for every live
  contract. Premium and collateral are added up only then; the sum fits because it is part
  of a balance (`Solvent`) that fits (`BalancesFit`). This is what `BearCanSettle` and
  `BullCanReclaim` say with `ENABLED`, which the prover does not handle; that the
  requirements are all of them is `SufficientToSettle` and `SufficientToReclaim`.

`Escrow` and `SupplyOf` are sums of the community module (`SumFunctionOnSet`), folds that
take the elements in the sequence `CHOOSE` gives. The first lemmas show that such a fold
exists, that the sequence does not matter, and what adding, removing or changing one element
does to it (`SumWithout`, `SumUpdate`). The induction this needs is the argument by a least
set for which the claim would fail; there is one because the sets are finite.

**Consent** (`BvbConsentProofs`).

* `RevocationsAreFinal` (`RevokedStaysRevoked`): minimum nonces only rise, cancellations
  are not undone, time goes on, and an order in one of these conditions fails the checks.
* `MakersAreChargedWithinTheirFee` (`MakerChargeWithinSignedFee`): the fee grows with the
  rate (`FeesGrowWithTheRate`, in integer division), and the rate is at most the signed one.
* `PositionsMoveWithConsent` (`PositionMovesOnlyWithConsent`), over `CallersSpec`, for both
  sides, with the payment to the seller in ether and in the asset. `CallerCases` names the
  call and its sender, so that a transfer is one its holder sent: the requirements in lines
  519 and 524 of `src/BvbProtocol.sol` are what this case rests on, the matched and unused
  sell order what the other does.
* `NobodyEverPaysUnasked` (`NobodyPaysUnasked`): by cases on the call (`CallsSpareOthers`,
  `CallsTakeNoTokens`), no balance, allowance, ether or token of an account that does not
  call is touched, but by a match of its signed order; there the charge is within the fee
  signed (`MatchingChargesTheMaker`).
* `CallersOnlyWatch` and `ProtocolWithCallers` (`CallersSpec => Spec`): the history
  variable changes no behaviour, so the theorems about `Spec` hold with it.

**Refinement** (`BvbRefinementProofs`).

* `ProtocolImplementsVaults` (`EveryContractHasItsOwnVault`). With `Good == TypeOK /\
  OutcomesInOrder /\ Custody` true in both states, each step is a step of `BvbVaults` or
  leaves it alone. `MoneyBar`, `PhaseBar` and `TokensBar` are its state as read off the
  contract. A step is shown in three parts. Money: what it adds to and takes from the
  pooled balance, from the fees and from the sum of the stakes is a series of `Paid`
  between vaults (`MovesArePayments`, `MatchFundsTheVault`, `SaleMoves`), compared account by
  account. Phases: the flags of one order change and those of the others do not
  (`PhaseMoves`). Tokens: `Custody` makes the owner of a token in a vault unique
  (`TokenMoves`). Wrapping ether is no step of the vaults (`WrappingMovesNothing`).

**Transactions** (`BvbCallsProofs`), for batches of any length, callbacks and calls in
progress without limit.

* `BatchesServeAllOrNothing` (`BatchesAreAllOrNothing`). The inductive invariant `BatchInv`
  says that in the middle of a batch every call begun so far has added the order it names to
  the outcomes, where the storage before the transaction did not have it, and that no two
  of them name one order; between transactions the outcomes are the stored ones. It holds on
  because nothing but a revert takes an outcome back (`EffectsGrow`, `TransfersGrow`,
  `CallsWithoutInteractionGrow`), so a second call of the same function finds the order
  there. That the calls of a batch are of one function is part of the invariant
  (`IsRequest`): membership in `Requests` would not do, that set depends on the fee rate (by
  the ether attached), which a callback may change.
* `SolventWhileCallsRun` (`SolventThroughoutCalls`). Solvency between transactions is broken
  by every call the moment it stores its outcome; what holds throughout is solvency together
  with what the calls in progress still collect and pay (`OwedBy`, a sum over the frames of
  sums over their remaining external calls). The argument follows the life of a call. What
  it stores raises the claims by no more than its external calls make good (`PaidBy`;
  `EffectsArePaid`, one lemma per kind of call). Each external call moves what it was down
  for and nothing else (`PerformingPays`). A call that ends owes nothing. What a wallet does
  without entering a call takes nothing from the protocol (`QuietStepsTakeNothing`); what it
  enters, `withdrawFees` in the middle of a match included, is one more frame. The inductive
  invariant `CallsInv` has three parts: `StateInv`, the types, the lifecycle and solvency
  with the frames; `StorageInv`, that `stored` is a well-typed, ordered and solvent state
  (`Atomic!TypeOK`, `Atomic!OutcomesInOrder`), which a revert needs; `RequestInv`, that
  without a transaction no call is in progress, so that the state a transaction leaves
  is solvent by itself.
* `OutcomesInOrderWhileCallsRun`: by the same invariant, types and lifecycle hold at every
  point of a transaction and not only between two.

**Atomicity** (`BvbAtomicityProofs`).

* `CallsImplementProtocol` (`CallsAreAtomic`): read at the ends of transactions, `BvbCalls`
  is `BvbProtocol`. Checks, bookings and external calls are steps of their own there, each
  external call may fail or hand control to a wallet, and the wallet may try all functions;
  still the transaction does what one step of `BvbProtocol` does, or nothing. So what is
  proved of `BvbProtocol` holds of such transactions.

  The theorem has a hypothesis on the constants, `LoneCalls`, which `Calls.cfg` satisfies: a
  transaction has one call, and wallets are no makers, owners, receivers of positions or
  holders who move tokens by themselves. It is what the claim is about and not for the
  proof's sake. A batch is several steps of `BvbProtocol`; so is a match in the middle of
  which a maker cancels another order or an owner withdraws fees, as `cancelOrder` and
  `withdrawFees` have no guard. (`callbacks` and the theorems of `BvbCallsProofs` are about
  those.) What is left to a wallet is the guarded functions, in any sequence and at any depth:
  the theorem says that `nonReentrant` keeps it out of all of them.

  The inductive invariant, next to `CallsInv`, is `AtomicInv`. Between transactions the
  state is the stored one and the guard is open. In a transaction exactly one call is in
  progress (`OnlyCall`); the state is the stored one with what the call booked, all its
  requirements held in the stored one (`Runs`), and the ledgers are the stored ones with the
  external calls that were made (`Underway`). `CallStarts` establishes this when a call
  begins; an external call moves one item from "to come" to "made" (`UnderwayFurther`); a
  wallet changes nothing (`WalletsHaveNoSay`, `WalletsWithdrawNothing`, `AtomicCallback`);
  when all are made, they compose to the action of `BvbProtocol` (`CallEnds`, one lemma per
  call). The composition is where the two models differ: `BvbCalls` makes no external call
  for a payment of nothing, `BvbProtocol` moves nothing (`PullOfAny`, `PushOfAny`); a maker and
  taker on one account are debited one after the other; ether is wrapped before it is passed
  on. A revert returns to the stored state, a stutter of `BvbProtocol`.

**Helpers** (`BvbHelpersProofs`), on top of the consent proofs. `ProtocolWithHelper`
(`HelpersSpec => Spec`): the helper
only reads, so all of the above holds next to it.

* `QuotesAreAlwaysCharged` (`QuotesAreCharged`).
* `ValidOrdersAreAlwaysAccepted`: what `ValidOrdersCanBeMatched` says with `ENABLED`. All
  that `matchOrder` requires holds for an order found valid; in particular the fees it books
  fit on top of those not withdrawn, as they are part of what exists of the asset
  (`BookedFeesFit`).
* `AnswersAreStable` (`AnswersHoldUnlessMakerOrOwnerActs`): by cases on the call, an account
  that does not call and whose signature nobody uses keeps balance and allowance.
* `SaleAnswersAreStable` (`SaleAnswersHoldUnlessSellerActs`): no call of another
  account moves the position without the seller's signature (`CallsLeavePositions`) or
  revokes the offer (`CallsLeaveSellOrders`); the rest of what the view checks only the owner,
  time or the end of the contract changes.

**Gate** (`BvbGateHelpersProofs`), for lists of any length, whatever is added and removed:

* `ChosenIndexIsGood` (`ChosenIndexStaysGood`). The inductive invariant is the property and
  the types of the list and of the choice. `SwapAndPopMovesOnlyTheLast` is the lemma on
  the list: a removal leaves every index below the last alone except the removed one.
* `RemovalsTakeOneOccurrence` (`RemovalTakesOneOccurrence`) counts the indexes of a
  collection before and after, in the four cases of which of the removed and the last
  entry is that collection.
* `HoldersHaveAccess` (`AccessByAnyCollection`): the loop of `hasAccess`, a recursive
  function, is determined from the end of the list on; the greatest index at which it could
  differ from the answer claimed leads to a contradiction (`LoopFindsHeldCollections`).
* `RemovalsConcernHoldersOnly` (`RemovalOnlyConcernsHolders`) follows from it.

## 5. Only model-checked

* `BearCanSettle`, `BullCanReclaim` and `ValidOrdersCanBeMatched` speak of `ENABLED`, which
  is out of reach of the prover. The theorems above state the requirements themselves.
* `EveryContractEnds`, `SettledNFTIsDelivered` and `TransactionsEnd` are liveness, also out
  of reach.

## 6. Not modelled

* EIP712 and ECDSA: assumed ideal. `isValidSignature` is membership of the signed orders.
* EIP-2612 permits, single-token ERC721 approvals and approvals towards other spenders: no
  call of the protocol depends on them.
* Events and the amount of gas.
* Assets that charge on transfer or return false without moving money: the owner lists assets by hand, and
  `SafeERC20` turns a `false` into a revert.
* The array views of `BvbProtocolHelpers`: loops over the single views, without state.
  Likewise the length checks of the batches: a call carries its own arguments.
* Forge scripts, and the JavaScript that comes with the vendored OpenZeppelin Contracts
  (code generators, release scripts, Hardhat configuration): they are not part of the
  program, which is Solidity built with Foundry, and act on none of its state.

## 7. Plan

Every component of the program is modelled, and every safety property that the runs check
has its theorem, except the three with `ENABLED`, for which the requirements themselves are
proved to hold. The two refinements are proved. What is left to TLC is liveness.
