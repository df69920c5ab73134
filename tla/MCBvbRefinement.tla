--------------------------- MODULE MCBvbRefinement ---------------------------
(* Small instances of BvbRefinement for TLC: two contracts that share one      *)
(* asset and one collection, and an offer of a position in the first.          *)
EXTENDS MCBvbProtocol, BvbRefinement

FirstOrder ==
    [premium |-> 20, collateral |-> 40, validity |-> 1, expiry |-> 2, nonce |-> 0,
     fee |-> 50, maker |-> alice, asset |-> WETH, collection |-> apes, isBull |-> TRUE]

SecondOrder ==
    [premium |-> 20, collateral |-> 60, validity |-> 2, expiry |-> 3, nonce |-> 0,
     fee |-> 60, maker |-> alice, asset |-> WETH, collection |-> apes, isBull |-> FALSE]

TwoOrders == {FirstOrder, SecondOrder}

FirstOffer ==
    [orderHash |-> FirstOrder, price |-> 5, start |-> 0, end |-> 3, nonce |-> 0,
     maker |-> alice, asset |-> WETH, whitelist |-> {}, isBull |-> TRUE]

FirstOffers == {FirstOffer}

SmallBalance == [a \in Assets |-> [u \in Users |-> 90]]
SmallEther == [u \in Users |-> IF u = bob THEN 70 ELSE 0]
==============================================================================
