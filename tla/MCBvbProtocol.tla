---------------------------- MODULE MCBvbProtocol ----------------------------
(* Small instances of BvbProtocol for TLC.  One time unit stands for any span *)
(* of seconds: the code only compares timestamps.                             *)
EXTENDS BvbProtocol

CONSTANTS alice, bob, carol, mallory,   \* mallory is a contract, BvbMaliciousBull
          usdc, apes

TwoUsers == {alice, bob}
ThreeUsers == {alice, bob, carol}
WithMallory == TwoUsers \cup {mallory}
FourUsers == ThreeUsers \cup {mallory}

\* 2^256 - 1 scaled to instances whose amounts stay far below it.
Huge == 1000000

MCBalance == [a \in Assets |-> [u \in Users |-> 1000]]
MCAllowance == [a \in Assets |-> [u \in Users |-> MaxUint]]
MCEther == [u \in Users |-> IF u = bob THEN 500 ELSE 0]

MCOwner == [c \in Collections |-> [id \in TokenIds |-> bob]]
MCApproval == [c \in Collections |-> Users]

------------------------------------------------------------------------------
(* Two contracts on one asset and one collection: alice is the bull of the    *)
(* first and the bear of the second, so the token bob settles the first with  *)
(* can settle the second one later.                                           *)

BullOrder ==
    [premium |-> 20, collateral |-> 100, validity |-> 1, expiry |-> 2, nonce |-> 0,
     fee |-> 50, maker |-> alice, asset |-> WETH, collection |-> apes, isBull |-> TRUE]

BearOrder ==
    [premium |-> 100, collateral |-> 200, validity |-> 2, expiry |-> 3, nonce |-> 0,
     fee |-> 20, maker |-> alice, asset |-> WETH, collection |-> apes, isBull |-> FALSE]

EscrowOrders == {BullOrder, BearOrder}
OneOrder == {BullOrder}

------------------------------------------------------------------------------
(* The limits of uint256: the stake of one contract is the whole supply of the *)
(* asset and as large as a uint256 gets; that of the other does not fit.        *)

LimitMax == 100

\* Just enough for the first, bob's part as ether, and alice can pay both parts if bob
\* gives her his; bob has approved nothing yet.
TightBalance == [a \in Assets |-> [u \in Users |-> IF u = alice THEN 60 ELSE 0]]
TightAllowance == [a \in Assets |-> [u \in Users |-> IF u = bob THEN 0 ELSE MaxUint]]
TightEther == [u \in Users |-> IF u = bob THEN 40 ELSE 0]
TightApproval == [c \in Collections |-> {alice}]

ExactOrder ==
    [premium |-> 40, collateral |-> 60, validity |-> 1, expiry |-> 2, nonce |-> 0,
     fee |-> 50, maker |-> alice, asset |-> WETH, collection |-> apes, isBull |-> TRUE]

TooLargeOrder ==
    [premium |-> 50, collateral |-> 60, validity |-> 2, expiry |-> 3, nonce |-> 0,
     fee |-> 50, maker |-> alice, asset |-> WETH, collection |-> apes, isBull |-> TRUE]

LimitOrders == {ExactOrder, TooLargeOrder}

------------------------------------------------------------------------------
(* Sell orders for both sides of the first contract.                          *)

BullSale ==
    [orderHash |-> BullOrder, price |-> 10, start |-> 0, end |-> 3, nonce |-> 0,
     maker |-> alice, asset |-> WETH, whitelist |-> {}, isBull |-> TRUE]

BearSale ==
    [orderHash |-> BullOrder, price |-> 7, start |-> 1, end |-> 2, nonce |-> 0,
     maker |-> bob, asset |-> usdc, whitelist |-> {carol}, isBull |-> FALSE]

Sales == {BullSale, BearSale}
==============================================================================
