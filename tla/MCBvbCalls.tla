----------------------------- MODULE MCBvbCalls ------------------------------
(* Small instances of BvbCalls for TLC.  mallory is a wallet contract and the  *)
(* asset usdc one that calls the wallets it debits and credits.                *)
EXTENDS MCBvbProtocol, BvbCalls

\* mallory takes the bull side: the money or the NFT it reclaims calls it.
AsBull ==
    [premium |-> 20, collateral |-> 40, validity |-> 1, expiry |-> 2, nonce |-> 0,
     fee |-> 50, maker |-> alice, asset |-> usdc, collection |-> apes, isBull |-> FALSE]

\* mallory takes the bear side: the money it settles for calls it.
AsBear ==
    [premium |-> 20, collateral |-> 60, validity |-> 1, expiry |-> 2, nonce |-> 0,
     fee |-> 50, maker |-> alice, asset |-> usdc, collection |-> apes, isBull |-> TRUE]

BothSides == {AsBull, AsBear}
BullSide == {AsBull}

\* alice sells her side of the first contract for wrapped ether.
BearOffer ==
    [orderHash |-> AsBull, price |-> 10, start |-> 0, end |-> 3, nonce |-> 0,
     maker |-> alice, asset |-> WETH, whitelist |-> {}, isBull |-> FALSE]

Offers == {BearOffer}

AliceAndMallory == {alice, mallory}

AmpleBalance == [a \in Assets |-> [u \in Users |-> 200]]
AmpleEther == [u \in Users |-> 10]

\* alice can pay for both orders when there is no fee, for one at 5%.
ScarceBalance == [a \in Assets |-> [u \in Users |-> IF u = alice THEN 83 ELSE 200]]

AliceHasOne == [c \in Collections |-> [id \in TokenIds |-> IF id = 1 THEN alice ELSE mallory]]
MalloryHasAll == [c \in Collections |-> [id \in TokenIds |-> mallory]]
==============================================================================
