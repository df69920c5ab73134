------------------------------ MODULE BvbVaults ------------------------------
(****************************************************************************)
(* What BvbProtocol promises to its users.  Every put option has a vault of *)
(* its own: the stake and later the NFT are in that vault and in no other   *)
(* place, the fees are in an account apart, and nobody's money but a        *)
(* payer's own ever pays.  There is no pooled balance, no allowance and no  *)
(* flag: an option is in one phase of its life.                             *)
(*                                                                          *)
(* Ether and the asset that wraps it are the same money here.               *)
(****************************************************************************)
EXTENDS Integers

CONSTANTS
    Users, Protocol, Assets, Collections, TokenIds, NoOne,
    Orders,      \* the orders that may be matched, each one a vault
    SellOrders,  \* the offers of positions
    Fees         \* the account the owner withdraws from

VARIABLES
    time,
    phase,       \* order -> where its option is in its life
    bull, bear,  \* order -> holder of the position
    used,        \* the sell orders that served
    money,       \* asset -> account -> amount
    tokens       \* collection -> token id -> account

vaultVars == <<time, phase, bull, bear, used, money, tokens>>

Phases == {"open", "live", "settled", "delivered", "expired"}

\* Users own money and tokens, vaults and the fee account hold them, and what is
\* sent to the protocol's own address belongs to nobody.
Owners == Users \cup {Protocol}
MoneyAccounts == Owners \cup Orders \cup {Fees}

Paid(m, asset, from, to, n) ==
    LET debited == [m EXCEPT ![asset][from] = @ - n]
    IN  [debited EXCEPT ![asset][to] = @ + n]

Principal(order, isBull) == IF isBull THEN order.collateral ELSE order.premium

\* A fee of at most 5%, and of at most the rate the maker signed.
AgreedFees(order, isBull) ==
    LET rate == IF order.fee < 50 THEN order.fee ELSE 50
    IN  0 .. (Principal(order, isBull) * rate) \div 1000

VaultsInit ==
    /\ time = 0
    /\ phase = [order \in Orders |-> "open"]
    /\ bull = [order \in Orders |-> NoOne]
    /\ bear = [order \in Orders |-> NoOne]
    /\ used = {}
    /\ money \in [Assets -> [MoneyAccounts -> Nat]]
    /\ \A asset \in Assets : \A account \in MoneyAccounts \ Users : money[asset][account] = 0
    /\ tokens \in [Collections -> [TokenIds -> Users]]

TimePasses ==
    /\ time' = time + 1
    /\ UNCHANGED <<phase, bull, bear, used, money, tokens>>

\* One party of an order fills its vault with the principal and pays its fee.
Funded(m, order, isBull, payer, fee) ==
    Paid(Paid(m, order.asset, payer, order, Principal(order, isBull)),
         order.asset, payer, Fees, fee)

\* Maker and taker fund the vault of the order, each with its own money.
Match(order, taker, makerFee, takerFee) ==
    LET afterTaker == Funded(money, order, ~order.isBull, taker, takerFee)
    IN  /\ phase[order] = "open"
        /\ time < order.validity
        /\ phase' = [phase EXCEPT ![order] = "live"]
        /\ bull' = [bull EXCEPT ![order] = IF order.isBull THEN order.maker ELSE taker]
        /\ bear' = [bear EXCEPT ![order] = IF order.isBull THEN taker ELSE order.maker]
        /\ money' = Funded(afterTaker, order, order.isBull, order.maker, makerFee)
        /\ UNCHANGED <<time, used, tokens>>

\* The bear puts a token of its own into the vault and takes the money out.
Settle(order, id) ==
    /\ phase[order] = "live"
    /\ time <= order.expiry
    /\ bear[order] \in Users
    /\ tokens[order.collection][id] = bear[order]
    /\ phase' = [phase EXCEPT ![order] = "settled"]
    /\ tokens' = [tokens EXCEPT ![order.collection][id] = order]
    /\ money' = Paid(money, order.asset, order, bear[order], order.premium + order.collateral)
    /\ UNCHANGED <<time, bull, bear, used>>

\* The token in the vault goes to the bull.
Deliver(order, id) ==
    /\ phase[order] = "settled"
    /\ tokens[order.collection][id] = order
    /\ phase' = [phase EXCEPT ![order] = "delivered"]
    /\ tokens' = [tokens EXCEPT ![order.collection][id] = bull[order]]
    /\ UNCHANGED <<time, bull, bear, used, money>>

\* Nobody settled in time: the money in the vault goes to the bull.
Expire(order) ==
    /\ phase[order] = "live"
    /\ time > order.expiry
    /\ phase' = [phase EXCEPT ![order] = "expired"]
    /\ money' = Paid(money, order.asset, order, bull[order], order.premium + order.collateral)
    /\ UNCHANGED <<time, bull, bear, used, tokens>>

HandOver(order, isBull, to) ==
    IF isBull THEN /\ bull' = [bull EXCEPT ![order] = to]
                   /\ UNCHANGED bear
              ELSE /\ bear' = [bear EXCEPT ![order] = to]
                   /\ UNCHANGED bull

Holder(order, isBull) == IF isBull THEN bull[order] ELSE bear[order]

\* A position in a live option changes hands against at least the price its holder
\* asked for, once per offer.
Sell(offer, buyer, price) ==
    LET order == offer.orderHash IN
    /\ phase[order] = "live"
    /\ Holder(order, offer.isBull) = offer.maker
    /\ offer \notin used
    /\ used' = used \cup {offer}
    /\ HandOver(order, offer.isBull, buyer)
    /\ price >= offer.price
    /\ money' = Paid(money, offer.asset, buyer, offer.maker, price)
    /\ UNCHANGED <<time, phase, tokens>>

GiveAway(order, isBull, to) ==
    /\ Holder(order, isBull) \in Users
    /\ HandOver(order, isBull, to)
    /\ UNCHANGED <<time, phase, used, money, tokens>>

\* The owner empties the fee account and touches no other.
WithdrawFees(asset, to) ==
    /\ money' = Paid(money, asset, Fees, to, money[asset][Fees])
    /\ UNCHANGED <<time, phase, bull, bear, used, tokens>>

\* Users do with their own money and tokens what they like.
Pay(user, to, asset, n) ==
    /\ money' = Paid(money, asset, user, to, n)
    /\ UNCHANGED <<time, phase, bull, bear, used, tokens>>

Send(user, to, collection, id) ==
    /\ tokens[collection][id] = user
    /\ tokens' = [tokens EXCEPT ![collection][id] = to]
    /\ UNCHANGED <<time, phase, bull, bear, used, money>>

VaultsNext ==
    \/ TimePasses
    \/ \E order \in Orders :
          \/ \E taker \in Users :
                \E makerFee \in AgreedFees(order, order.isBull),
                   takerFee \in AgreedFees(order, ~order.isBull) :
                    Match(order, taker, makerFee, takerFee)
          \/ \E id \in TokenIds : Settle(order, id) \/ Deliver(order, id)
          \/ Expire(order)
          \/ \E isBull \in BOOLEAN, to \in Owners : GiveAway(order, isBull, to)
    \/ \E offer \in SellOrders, buyer \in Users :
          \E price \in 0 .. money[offer.asset][buyer] : Sell(offer, buyer, price)
    \/ \E asset \in Assets, to \in Owners : WithdrawFees(asset, to)
    \/ \E user \in Users, to \in Owners, asset \in Assets :
          \E n \in 0 .. money[asset][user] : Pay(user, to, asset, n)
    \/ \E user \in Users, to \in Owners, collection \in Collections, id \in TokenIds :
          Send(user, to, collection, id)

VaultsSpec == VaultsInit /\ [][VaultsNext]_vaultVars
==============================================================================
