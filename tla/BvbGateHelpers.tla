--------------------------- MODULE BvbGateHelpers ----------------------------
(****************************************************************************)
(* BvbGateHelpers: the owner keeps a list of ERC721 collections; a wallet   *)
(* that holds a token of one of them has access.  Collections are appended, *)
(* and removed by index: the last one takes the place of the removed one.   *)
(*                                                                          *)
(* The contract does not check what it is given: an address that is no      *)
(* ERC721 contract makes hasAccess revert when the loop reaches it.  The    *)
(* owner reads the list off-chain and sends an index later.                 *)
(****************************************************************************)
EXTENDS Integers, Sequences, FiniteSets, Functions

CONSTANTS
    Owners,         \* accounts that may own the gate; the deployer is one
    Deployer, NoOne,
    Wallets,        \* accounts that ask for access
    Collections,    \* addresses given to addGateCollection
    ERC721s,        \* those of them that are ERC721 contracts
    MaxLength       \* bound on the length of the list

ASSUME GateAssumption ==
    /\ Deployer \in Owners
    /\ NoOne \notin Owners
    /\ ERC721s \subseteq Collections
    /\ MaxLength \in Nat

VARIABLES
    gateOwner,         \* Ownable's _owner
    gateCollections,   \* the list; Solidity's index i is i + 1 here
    holders,           \* ERC721 contract -> wallets with a positive balance
    chosen             \* what the owner read and means to remove, or nothing

gateVars == <<gateOwner, gateCollections, holders, chosen>>

Nothing == [index |-> -1]

GateInit ==
    /\ gateOwner = Deployer
    /\ gateCollections = <<>>
    /\ holders \in [ERC721s -> SUBSET Wallets]
    /\ chosen = Nothing

Last(list) == list[Len(list)]

\* Faulty variant: the last collection is not looked at.
AccessFromAllButLast(wallet, list) ==
    IF list = <<>> THEN "no"
    ELSE LET access[i \in 1 .. Len(list)] ==
                 IF i = Len(list) THEN "no"
                 ELSE IF list[i] \notin ERC721s THEN "reverts"
                 ELSE IF wallet \in holders[list[i]] THEN "yes"
                 ELSE access[i + 1]
         IN  access[1]

\* The loop of hasAccess: the first collection held decides, and a listed address that
\* is no ERC721 contract ends the call.
AccessFrom(wallet, list) ==
    LET access[i \in 1 .. Len(list) + 1] ==
            IF i > Len(list) THEN "no"
            ELSE IF list[i] \notin ERC721s THEN "reverts"
            ELSE IF wallet \in holders[list[i]] THEN "yes"
            ELSE access[i + 1]
    IN  access[1]

HasAccess(wallet) == AccessFrom(wallet, gateCollections)

------------------------------------------------------------------------------

Pushed(list, collection) == Append(list, collection)

AddGateCollection(sender, collection) ==
    /\ sender = gateOwner
    /\ gateCollections' = Pushed(gateCollections, collection)
    /\ UNCHANGED <<gateOwner, holders, chosen>>

\* Faulty variant: the last collection goes, whichever was named.
PopOnly(list, index) == SubSeq(list, 1, Len(list) - 1)

\* Faulty variant: the collections behind the removed one move up.
ShiftAndPop(list, index) ==
    [i \in 1 .. Len(list) - 1 |-> IF i <= index THEN list[i] ELSE list[i + 1]]

\* Faulty variant: the removed one is overwritten and the list keeps its length.
OverwriteOnly(list, index) == [list EXCEPT ![index + 1] = Last(list)]

SwapAndPop(list, index) ==
    SubSeq([list EXCEPT ![index + 1] = Last(list)], 1, Len(list) - 1)

\* An index outside of the list, and any index of an empty one, reverts.
RemoveGateCollection(sender, index) ==
    /\ sender = gateOwner
    /\ index \in 0 .. Len(gateCollections) - 1
    /\ gateCollections' = SwapAndPop(gateCollections, index)
    /\ UNCHANGED <<gateOwner, holders>>

TransferGateOwnership(sender, successor) ==
    /\ sender = gateOwner
    /\ gateOwner' = successor
    /\ UNCHANGED <<gateCollections, holders, chosen>>

RenounceGateOwnership(sender) ==
    /\ sender = gateOwner
    /\ gateOwner' = NoOne
    /\ UNCHANGED <<gateCollections, holders, chosen>>

\* The owner calls getGateCollections and picks a collection to remove.
GetGateCollections ==
    /\ chosen = Nothing
    /\ \E i \in DOMAIN gateCollections :
          chosen' = [index |-> i - 1, collection |-> gateCollections[i], exposed |-> FALSE]
    /\ UNCHANGED <<gateOwner, gateCollections, holders>>

\* Tokens of the collections change hands.
HoldersChange ==
    /\ \E c \in ERC721s, S \in SUBSET Wallets : holders' = [holders EXCEPT ![c] = S]
    /\ UNCHANGED <<gateOwner, gateCollections, chosen>>

\* A removal, of what was chosen or of something else while the choice is pending.
Removal(sender, index) ==
    /\ RemoveGateCollection(sender, index)
    /\ chosen' = IF chosen = Nothing \/ chosen.index = index THEN Nothing
                 ELSE [chosen EXCEPT !.exposed = @ \/ chosen.index = Len(gateCollections) - 1]

GateNext ==
    \/ \E sender \in Owners :
          \/ Len(gateCollections) < MaxLength
             /\ \E collection \in Collections : AddGateCollection(sender, collection)
          \/ \E index \in 0 .. MaxLength - 1 : Removal(sender, index)
          \/ \E successor \in Owners : TransferGateOwnership(sender, successor)
          \/ RenounceGateOwnership(sender)
    \/ GetGateCollections
    \/ HoldersChange

GateSpec == GateInit /\ [][GateNext]_gateVars

------------------------------------------------------------------------------

\* An index the owner read stays good whatever is added, and whatever else is removed,
\* until something is removed while it is the last index of the list: it is then out of
\* the list, or a collection added later has it.
ChosenIndexStaysGood ==
    chosen # Nothing /\ ~chosen.exposed =>
        /\ chosen.index \in 0 .. Len(gateCollections) - 1
        /\ gateCollections[chosen.index + 1] = chosen.collection

Occurrences(list, c) == Cardinality({i \in DOMAIN list : list[i] = c})

\* The named collection is taken off the list once, duplicates of it stay, and no other
\* collection is lost or listed twice when the last one moves.
RemovalTakesOneOccurrence ==
    [][\A index \in 0 .. Len(gateCollections) - 1 :
          RemoveGateCollection(gateOwner, index) =>
              \A c \in Collections :
                  Occurrences(gateCollections, c) =
                      Occurrences(gateCollections, c)'
                          + (IF c = gateCollections[index + 1] THEN 1 ELSE 0)]_gateVars

AllAreERC721s == Range(gateCollections) \subseteq ERC721s

\* As long as all that is listed are ERC721 contracts, whoever holds a token of one of
\* them has access and nobody else, in whatever order removals left the list.
AccessByAnyCollection ==
    AllAreERC721s =>
        \A wallet \in Wallets :
            HasAccess(wallet) = IF \E c \in Range(gateCollections) : wallet \in holders[c]
                                THEN "yes" ELSE "no"

\* Removing a collection changes nothing for the wallets that hold none of its tokens,
\* although the collections behind it are looked at in another order.
RemovalOnlyConcernsHolders ==
    [][\A index \in 0 .. Len(gateCollections) - 1, wallet \in Wallets :
          /\ AllAreERC721s
          /\ RemoveGateCollection(gateOwner, index)
          /\ wallet \notin holders[gateCollections[index + 1]]
          => HasAccess(wallet)' = HasAccess(wallet)]_gateVars
==============================================================================
