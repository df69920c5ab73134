----------------------- MODULE MCBvbProtocolHelpers --------------------------
(* Small instances of BvbProtocolHelpers for TLC: two signed orders of one     *)
(* maker whose money is enough for one, and an order nobody signed.            *)
EXTENDS MCBvbProtocol, BvbProtocolHelpers

OrderA ==
    [premium |-> 20, collateral |-> 40, validity |-> 1, expiry |-> 2, nonce |-> 0,
     fee |-> 50, maker |-> alice, asset |-> WETH, collection |-> apes, isBull |-> TRUE]

OrderB ==
    [premium |-> 20, collateral |-> 60, validity |-> 1, expiry |-> 2, nonce |-> 1,
     fee |-> 50, maker |-> alice, asset |-> WETH, collection |-> apes, isBull |-> FALSE]

UnsignedOrder ==
    [premium |-> 20, collateral |-> 20, validity |-> 1, expiry |-> 2, nonce |-> 0,
     fee |-> 50, maker |-> carol, asset |-> WETH, collection |-> apes, isBull |-> TRUE]

SignedTwo == {OrderA, OrderB}
AllThree == {OrderA, OrderB, UnsignedOrder}

OfferA ==
    [orderHash |-> OrderA, price |-> 10, start |-> 0, end |-> 3, nonce |-> 0,
     maker |-> alice, asset |-> WETH, whitelist |-> {bob}, isBull |-> TRUE]

\* bob, once he bought alice's side of the first contract, is the bull of both.
OfferB ==
    [orderHash |-> OrderB, price |-> 10, start |-> 0, end |-> 3, nonce |-> 0,
     maker |-> bob, asset |-> WETH, whitelist |-> {carol}, isBull |-> TRUE]

BothOffers == {OfferA, OfferB}

\* No guard and no property reads the caller of an earlier step.
WithoutCaller == <<vars, helpersVars>>

\* alice can pay for her part of the first order at a fee of 2%, not at 5%.
HelpersBalance ==
    [a \in Assets |-> [u \in Users |-> CASE u = alice -> 41 [] u = bob -> 100 [] OTHER -> 30]]
HelpersEther == [u \in Users |-> IF u = bob THEN 21 ELSE 0]
==============================================================================
