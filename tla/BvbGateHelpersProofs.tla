------------------------ MODULE BvbGateHelpersProofs -------------------------
(* Proofs about the list of BvbGateHelpers: what a removal by swap-and-pop    *)
(* does to the other indexes.                                                 *)
EXTENDS BvbGateHelpers, FiniteSetTheorems, TLAPS

Choices == [index : Int, collection : Collections, exposed : BOOLEAN]

IndexInv ==
    /\ gateCollections \in Seq(Collections)
    /\ chosen = Nothing \/ chosen \in Choices
    /\ ChosenIndexStaysGood

\* What push leaves at every index of the list.
LEMMA PushKeepsIndexes ==
    ASSUME NEW list \in Seq(Collections), NEW c \in Collections
    PROVE  /\ Pushed(list, c) \in Seq(Collections)
           /\ Len(Pushed(list, c)) = Len(list) + 1
           /\ \A i \in 1 .. Len(list) : Pushed(list, c)[i] = list[i]
BY DEF Pushed

\* What swap-and-pop leaves: every index but the removed and the last one keeps its
\* collection, and the last collection gets the index of the removed one.
LEMMA SwapAndPopMovesOnlyTheLast ==
    ASSUME NEW list \in Seq(Collections), NEW index \in 0 .. Len(list) - 1
    PROVE  /\ SwapAndPop(list, index) \in Seq(Collections)
           /\ Len(SwapAndPop(list, index)) = Len(list) - 1
           /\ \A i \in 1 .. Len(list) - 1 :
                 SwapAndPop(list, index)[i] = IF i = index + 1 THEN Last(list) ELSE list[i]
<1> DEFINE swapped == [list EXCEPT ![index + 1] = Last(list)]
<1>1. Len(list) \in Nat /\ Len(list) > 0 /\ index + 1 \in 1 .. Len(list)
  OBVIOUS
<1>2. Last(list) \in Collections
  BY <1>1 DEF Last
<1>3. swapped \in Seq(Collections) /\ Len(swapped) = Len(list)
  BY <1>1, <1>2
<1>4. \A i \in 1 .. Len(list) :
         swapped[i] = IF i = index + 1 THEN Last(list) ELSE list[i]
  BY <1>1
<1> HIDE DEF swapped
<1>5. /\ SubSeq(swapped, 1, Len(list) - 1) \in Seq(Collections)
      /\ Len(SubSeq(swapped, 1, Len(list) - 1)) = Len(list) - 1
      /\ \A i \in 1 .. Len(list) - 1 : SubSeq(swapped, 1, Len(list) - 1)[i] = swapped[i]
  BY <1>1, <1>3
<1> QED
  BY <1>1, <1>4, <1>5 DEF SwapAndPop, swapped

\* Before the first call the list is empty and nothing is chosen.
LEMMA GateStartsGood == GateInit => IndexInv
BY DEF GateInit, IndexInv, ChosenIndexStaysGood

\* No call spoils a choice without exposing it.
LEMMA GateStepsStayGood == IndexInv /\ [GateNext]_gateVars => IndexInv'
<1> SUFFICES ASSUME IndexInv, [GateNext]_gateVars PROVE IndexInv'
  OBVIOUS
<1> USE DEF IndexInv
<1>1. CASE UNCHANGED <<gateCollections, chosen>>
  BY <1>1 DEF ChosenIndexStaysGood
<1>2. ASSUME NEW sender \in Owners, NEW c \in Collections, AddGateCollection(sender, c)
      PROVE  IndexInv'
  <2>1. gateCollections' = Pushed(gateCollections, c) /\ chosen' = chosen
    BY <1>2 DEF AddGateCollection
  <2>2. /\ gateCollections' \in Seq(Collections)
        /\ Len(gateCollections') = Len(gateCollections) + 1
        /\ \A i \in 1 .. Len(gateCollections) : gateCollections'[i] = gateCollections[i]
    BY <2>1, <1>2, PushKeepsIndexes
  <2>3. ASSUME chosen # Nothing, ~chosen.exposed
        PROVE  /\ chosen.index \in 0 .. Len(gateCollections') - 1
               /\ gateCollections'[chosen.index + 1] = chosen.collection
    <3>1. /\ chosen.index \in 0 .. Len(gateCollections) - 1
          /\ gateCollections[chosen.index + 1] = chosen.collection
      BY <2>3 DEF ChosenIndexStaysGood
    <3> QED
      BY <2>2, <3>1
  <2> QED
    BY <2>1, <2>2, <2>3 DEF ChosenIndexStaysGood
<1>3. ASSUME NEW sender \in Owners, NEW index \in 0 .. MaxLength - 1, Removal(sender, index)
      PROVE  IndexInv'
  <2>1. /\ index \in 0 .. Len(gateCollections) - 1
        /\ gateCollections' = SwapAndPop(gateCollections, index)
    BY <1>3 DEF Removal, RemoveGateCollection
  <2>2. /\ gateCollections' \in Seq(Collections)
        /\ Len(gateCollections') = Len(gateCollections) - 1
        /\ \A i \in 1 .. Len(gateCollections) - 1 :
              i # index + 1 => gateCollections'[i] = gateCollections[i]
    BY <2>1, SwapAndPopMovesOnlyTheLast
  <2>3. CASE chosen = Nothing \/ chosen.index = index
    <3>1. chosen' = Nothing
      BY <1>3, <2>3 DEF Removal
    <3> QED
      BY <2>2, <3>1 DEF ChosenIndexStaysGood
  <2>4. CASE ~(chosen = Nothing \/ chosen.index = index)
    <3>1. /\ chosen \in Choices
          /\ chosen' = [chosen EXCEPT !.exposed =
                           @ \/ chosen.index = Len(gateCollections) - 1]
      BY <1>3, <2>4 DEF Removal
    <3>2. /\ chosen' \in Choices
          /\ chosen'.index = chosen.index /\ chosen'.collection = chosen.collection
          /\ chosen'.exposed = (chosen.exposed \/ chosen.index = Len(gateCollections) - 1)
      BY <3>1 DEF Choices
    <3>3. ASSUME ~chosen'.exposed
          PROVE  /\ chosen.index \in 0 .. Len(gateCollections) - 2
                 /\ gateCollections[chosen.index + 1] = chosen.collection
      BY <2>4, <3>1, <3>2, <3>3 DEF ChosenIndexStaysGood, Choices
    <3>4. ASSUME ~chosen'.exposed
          PROVE  /\ chosen'.index \in 0 .. Len(gateCollections') - 1
                 /\ gateCollections'[chosen'.index + 1] = chosen'.collection
      <4>1. /\ chosen.index \in 0 .. Len(gateCollections) - 2
            /\ gateCollections[chosen.index + 1] = chosen.collection
        BY <3>3, <3>4
      <4>2. chosen.index + 1 \in 1 .. Len(gateCollections) - 1 /\ chosen.index # index
        BY <2>4, <4>1
      <4>3. chosen.index + 1 # index + 1
        BY <2>1, <4>1, <4>2
      <4>4. gateCollections'[chosen.index + 1] = gateCollections[chosen.index + 1]
        BY <2>2, <4>2, <4>3
      <4>5. chosen.index \in 0 .. Len(gateCollections') - 1
        BY <2>2, <4>1
      <4> QED
        BY <3>2, <4>1, <4>4, <4>5
    <3>5. ChosenIndexStaysGood'
      BY <3>4 DEF ChosenIndexStaysGood
    <3> QED
      BY <2>2, <3>2, <3>5
  <2> QED
    BY <2>3, <2>4
<1>4. CASE GetGateCollections
  <2>1. PICK i \in DOMAIN gateCollections :
            chosen' = [index |-> i - 1, collection |-> gateCollections[i],
                       exposed |-> FALSE]
    BY <1>4 DEF GetGateCollections
  <2>2. gateCollections' = gateCollections /\ i \in 1 .. Len(gateCollections)
    BY <1>4 DEF GetGateCollections
  <2> QED
    BY <2>1, <2>2 DEF Choices, ChosenIndexStaysGood
<1> QED
  BY <1>1, <1>2, <1>3, <1>4
     DEF GateNext, gateVars, TransferGateOwnership, RenounceGateOwnership, HoldersChange

\* The list holds collections, and what an owner chose from it is good.
LEMMA GateInvariant == GateSpec => []IndexInv
BY GateStartsGood, GateStepsStayGood, PTL DEF GateSpec

\* The index an owner read off-chain is good when it is used, unless a removal caught
\* it as the last one: for lists of any length and any number of calls in between.
THEOREM ChosenIndexIsGood == GateSpec => []ChosenIndexStaysGood
<1>1. IndexInv => ChosenIndexStaysGood
  BY DEF IndexInv
<1> QED
  BY <1>1, GateInvariant, PTL

------------------------------------------------------------------------------
(* What a removal takes off the list.                                        *)

\* Swap-and-pop takes one occurrence of the collection at the index off the list.
LEMMA SwapAndPopTakesOne ==
    ASSUME NEW list \in Seq(Collections), NEW index \in 0 .. Len(list) - 1, NEW c
    PROVE  Occurrences(list, c) =
               Occurrences(SwapAndPop(list, index), c)
                   + (IF c = list[index + 1] THEN 1 ELSE 0)
<1> DEFINE n == Len(list)
           j == index + 1
           new == SwapAndPop(list, index)
           Before == {i \in 1 .. n : list[i] = c}
           After == {i \in 1 .. n - 1 : new[i] = c}
<1>1. /\ n \in Nat /\ j \in 1 .. n
      /\ new \in Seq(Collections) /\ Len(new) = n - 1
      /\ \A i \in 1 .. n - 1 : new[i] = IF i = j THEN list[n] ELSE list[i]
  <2>1. n \in Nat /\ j \in 1 .. n
    OBVIOUS
  <2> QED
    BY <2>1, SwapAndPopMovesOnlyTheLast DEF Last
<1>2. DOMAIN list = 1 .. n /\ DOMAIN new = 1 .. n - 1
  BY <1>1
<1>3. Occurrences(list, c) = Cardinality(Before) /\ Occurrences(new, c) = Cardinality(After)
  BY <1>2 DEF Occurrences
<1> HIDE DEF n, j, new, Before, After
<1>4. IsFiniteSet(Before) /\ Cardinality(Before) \in Nat
  <2>1. IsFiniteSet(1 .. n)
    BY <1>1, FS_Interval
  <2> QED
    BY <2>1, FS_Subset, FS_CardinalityType DEF Before
<1>5. IsFiniteSet(Before \ {n}) /\ Cardinality(Before \ {n}) \in Nat
  BY <1>4, FS_Subset, FS_CardinalityType
<1>6. n \in Before => Cardinality(Before \ {n}) = Cardinality(Before) - 1
  BY <1>4, FS_RemoveElement
<1>7. CASE list[j] = c /\ list[n] = c
  <2>1. After = Before \ {n} /\ n \in Before
    BY <1>1, <1>7 DEF Before, After
  <2>2. Occurrences(list, c) = Occurrences(new, c) + 1
    BY <1>3, <1>4, <1>6, <2>1
  <2> QED
    BY <1>7, <2>2, Zenon DEF j, new
<1>8. CASE list[j] = c /\ list[n] # c
  <2>1. After = Before \ {j} /\ j \in Before
    BY <1>1, <1>8 DEF Before, After
  <2>2. Cardinality(Before \ {j}) = Cardinality(Before) - 1
    BY <1>4, <2>1, FS_RemoveElement
  <2>3. Occurrences(list, c) = Occurrences(new, c) + 1
    BY <1>3, <1>4, <2>1, <2>2
  <2> QED
    BY <1>8, <2>3, Zenon DEF j, new
<1>9. CASE list[j] # c /\ list[n] # c
  <2>1. After = Before
    BY <1>1, <1>9 DEF Before, After
  <2>2. Occurrences(list, c) = Occurrences(new, c) + 0
    BY <1>3, <1>4, <2>1
  <2> QED
    BY <1>9, <2>2, Zenon DEF j, new
<1>10. CASE list[j] # c /\ list[n] = c
  <2>1. After = (Before \ {n}) \cup {j} /\ n \in Before /\ j \notin Before \ {n}
    BY <1>1, <1>10 DEF Before, After
  <2>2. Cardinality((Before \ {n}) \cup {j}) = Cardinality(Before \ {n}) + 1
    BY <1>5, <2>1, FS_AddElement
  <2>3. Cardinality(After) = Cardinality(Before)
    BY <1>4, <1>6, <2>1, <2>2
  <2>4. Occurrences(list, c) = Occurrences(new, c) + 0
    BY <1>3, <1>4, <2>3
  <2> QED
    BY <1>10, <2>4, Zenon DEF j, new
<1> QED
  BY <1>7, <1>8, <1>9, <1>10

\* Every removal takes the named collection off the list once and leaves the number of
\* occurrences of all others as it was.
THEOREM RemovalsTakeOneOccurrence == GateSpec => RemovalTakesOneOccurrence
<1> DEFINE Taken ==
       \A index \in 0 .. Len(gateCollections) - 1 :
          RemoveGateCollection(gateOwner, index) =>
              \A c \in Collections :
                  Occurrences(gateCollections, c) =
                      Occurrences(gateCollections, c)'
                          + (IF c = gateCollections[index + 1] THEN 1 ELSE 0)
<1>1. IndexInv => Taken
  <2> SUFFICES ASSUME IndexInv, NEW index \in 0 .. Len(gateCollections) - 1,
                      RemoveGateCollection(gateOwner, index), NEW c \in Collections
               PROVE  Occurrences(gateCollections, c) =
                         Occurrences(gateCollections, c)'
                            + (IF c = gateCollections[index + 1] THEN 1 ELSE 0)
    OBVIOUS
  <2>1. PICK after : after = SwapAndPop(gateCollections, index)
    OBVIOUS
  <2>2. Occurrences(gateCollections, c)' = Occurrences(after, c)
    BY <2>1 DEF RemoveGateCollection, Occurrences
  <2>3. Occurrences(gateCollections, c) =
            Occurrences(after, c) + (IF c = gateCollections[index + 1] THEN 1 ELSE 0)
    BY <2>1, SwapAndPopTakesOne DEF IndexInv
  <2> QED
    BY <2>2, <2>3
<1>2. Taken => [Taken]_gateVars
  OBVIOUS
<1> HIDE DEF Taken
<1>3. GateSpec => [][Taken]_gateVars
  BY <1>1, <1>2, GateInvariant, PTL
<1> QED
  BY <1>3 DEF RemovalTakesOneOccurrence, Taken

------------------------------------------------------------------------------
(* Access.                                                                   *)

\* Some set of indexes that is not empty has a greatest one.
LEMMA GreatestIndex ==
    ASSUME NEW n \in Nat, NEW S \in SUBSET (1 .. n), S # {}
    PROVE  \E k \in S : \A i \in S : i <= k
<1> DEFINE From(k) == k .. n
           Tails == {From(k) : k \in S}
<1>1. IsFiniteSet(1 .. n)
  BY FS_Interval
<1>2. IsWellFoundedOn(StrictSubsetOrdering(1 .. n), SUBSET (1 .. n))
  BY <1>1, FS_StrictSubsetOrderingWellFounded, FS_FiniteSubsetsOfFinite
<1>3. Tails \subseteq SUBSET (1 .. n) /\ Tails # {}
  <2>1. \A k \in S : From(k) \subseteq 1 .. n
    OBVIOUS
  <2> HIDE DEF From
  <2> QED
    BY <2>1
<1>4. PICK T \in Tails : \A R \in Tails : ~ (<<R, T>> \in StrictSubsetOrdering(1 .. n))
  <2> HIDE DEF Tails
  <2> QED
    BY <1>2, <1>3, WFMin
<1>5. PICK k \in S : T = From(k)
  BY <1>4
<1>6. ASSUME NEW i \in S, i > k PROVE FALSE
  <2>1. From(i) \in Tails /\ From(i) \subseteq From(k) /\ k \notin From(i) /\ k \in From(k)
    BY <1>6
  <2>2. <<From(i), From(k)>> \in StrictSubsetOrdering(1 .. n)
    BY <2>1 DEF StrictSubsetOrdering
  <2> QED
    BY <1>4, <1>5, <2>1, <2>2
<1> QED
  BY <1>6

\* The loop of hasAccess, from an index on.
Loop(wallet, list, f) ==
    [i \in 1 .. Len(list) + 1 |->
        IF i > Len(list) THEN "no"
        ELSE IF list[i] \notin ERC721s THEN "reverts"
        ELSE IF wallet \in holders[list[i]] THEN "yes"
        ELSE f[i + 1]]

\* The loop ends with "yes" when a collection of the list is held, and with "no"
\* otherwise: induction from the end of the list.
LEMMA LoopFindsHeldCollections ==
    ASSUME NEW list \in Seq(ERC721s), NEW wallet
    PROVE  AccessFrom(wallet, list) =
               IF \E i \in 1 .. Len(list) : wallet \in holders[list[i]] THEN "yes" ELSE "no"
<1> DEFINE n == Len(list)
           Held(i) == wallet \in holders[list[i]]
           g == [i \in 1 .. n + 1 |-> IF \E k \in i .. n : Held(k) THEN "yes" ELSE "no"]
           f == CHOOSE access : access = Loop(wallet, list, access)
<1>1. n \in Nat /\ \A i \in 1 .. n : list[i] \in ERC721s
  OBVIOUS
<1>2. AccessFrom(wallet, list) = f[1]
  BY DEF AccessFrom, Loop
<1>3. g = Loop(wallet, list, g)
  <2>1. ASSUME NEW i \in 1 .. n + 1
        PROVE  g[i] = IF i > n THEN "no"
                      ELSE IF list[i] \notin ERC721s THEN "reverts"
                      ELSE IF Held(i) THEN "yes" ELSE g[i + 1]
    BY <1>1
  <2> HIDE DEF g
  <2>2. g = [i \in 1 .. n + 1 |-> g[i]]
    BY DEF g
  <2> QED
    BY <2>1, <2>2 DEF Loop
<1>4. f = Loop(wallet, list, f)
  <2> HIDE DEF g
  <2> QED
    BY <1>3
<1> HIDE DEF f
<1>5. \A i \in 1 .. n + 1 :
         f[i] = IF i > n THEN "no" ELSE IF Held(i) THEN "yes" ELSE f[i + 1]
  BY <1>1, <1>4 DEF Loop
<1>6. \A i \in 1 .. n + 1 :
         g[i] = IF i > n THEN "no" ELSE IF Held(i) THEN "yes" ELSE g[i + 1]
  BY <1>1
<1> HIDE DEF g
<1> DEFINE Differ == {i \in 1 .. n + 1 : f[i] # g[i]}
<1>7. ASSUME Differ # {} PROVE FALSE
  <2>1. PICK k \in Differ : \A i \in Differ : i <= k
    <3>1. PICK m \in Nat : m = n + 1
      BY <1>1
    <3>2. Differ \in SUBSET (1 .. m)
      BY <3>1
    <3> HIDE DEF Differ
    <3> QED
      BY <1>7, <3>2, GreatestIndex
  <2>2. k <= n => k + 1 \notin Differ
    BY <1>1, <2>1
  <2> QED
    BY <1>1, <1>5, <1>6, <2>1, <2>2
<1>8. f[1] = g[1]
  BY <1>1, <1>7
<1> QED
  BY <1>1, <1>2, <1>8 DEF g
\* A wallet that is held by nothing on the list, or that holds something on it.
LEMMA AccessIsHolding ==
    ASSUME NEW list \in Seq(Collections), Range(list) \subseteq ERC721s, NEW wallet
    PROVE  AccessFrom(wallet, list) =
               IF \E c \in Range(list) : wallet \in holders[c] THEN "yes" ELSE "no"
<1>1. Len(list) \in Nat /\ DOMAIN list = 1 .. Len(list)
  OBVIOUS
<1>2. Range(list) = {list[i] : i \in 1 .. Len(list)}
  BY <1>1 DEF Range
<1>3. list \in Seq(ERC721s)
  <2>1. \A i \in 1 .. Len(list) : list[i] \in ERC721s
    BY <1>2
  <2> QED
    BY <1>1, <2>1
<1> QED
  BY <1>2, <1>3, LoopFindsHeldCollections

\* Whoever holds a token of a listed collection has access and nobody else, for lists
\* of any length.
THEOREM HoldersHaveAccess == GateSpec => []AccessByAnyCollection
<1>1. IndexInv => AccessByAnyCollection
  BY AccessIsHolding DEF IndexInv, AccessByAnyCollection, AllAreERC721s, HasAccess
<1> QED
  BY <1>1, GateInvariant, PTL

\* What swap-and-pop leaves on the list was on it, and nothing but the removed
\* collection is missing.
LEMMA SwapAndPopRange ==
    ASSUME NEW list \in Seq(Collections), NEW index \in 0 .. Len(list) - 1
    PROVE  /\ Range(SwapAndPop(list, index)) \subseteq Range(list)
           /\ Range(list) \ {list[index + 1]} \subseteq Range(SwapAndPop(list, index))
<1> DEFINE n == Len(list)
           j == index + 1
           new == SwapAndPop(list, index)
<1>1. /\ n \in Nat /\ j \in 1 .. n
      /\ new \in Seq(Collections) /\ Len(new) = n - 1
      /\ \A i \in 1 .. n - 1 : new[i] = IF i = j THEN list[n] ELSE list[i]
  <2>1. n \in Nat /\ j \in 1 .. n
    OBVIOUS
  <2> QED
    BY <2>1, SwapAndPopMovesOnlyTheLast DEF Last
<1>2. DOMAIN list = 1 .. n /\ DOMAIN new = 1 .. n - 1
  BY <1>1
<1> HIDE DEF n, j, new
<1>3. Range(list) = {list[i] : i \in 1 .. n} /\ Range(new) = {new[i] : i \in 1 .. n - 1}
  BY <1>2 DEF Range
<1>4. ASSUME NEW i \in 1 .. n - 1 PROVE new[i] \in Range(list)
  BY <1>1, <1>3, <1>4
<1>5. ASSUME NEW i \in 1 .. n, list[i] # list[j] PROVE list[i] \in Range(new)
  <2>1. CASE i < n
    <3>1. i \in 1 .. n - 1 /\ new[i] = list[i]
      BY <1>1, <1>5, <2>1
    <3> QED
      BY <1>3, <3>1
  <2>2. CASE i = n
    <3>1. j \in 1 .. n - 1 /\ new[j] = list[i]
      BY <1>1, <1>5, <2>2
    <3> QED
      BY <1>3, <3>1
  <2> QED
    BY <1>1, <2>1, <2>2
<1>6. Range(new) \subseteq Range(list) /\ Range(list) \ {list[j]} \subseteq Range(new)
  BY <1>3, <1>4, <1>5
<1> QED
  BY <1>6 DEF new, j

\* A removal changes the answer for nobody who holds nothing of what is removed,
\* in whatever order the list is then gone through.
THEOREM RemovalsConcernHoldersOnly == GateSpec => RemovalOnlyConcernsHolders
<1> DEFINE Concerned ==
       \A index \in 0 .. Len(gateCollections) - 1, wallet \in Wallets :
          /\ AllAreERC721s
          /\ RemoveGateCollection(gateOwner, index)
          /\ wallet \notin holders[gateCollections[index + 1]]
          => HasAccess(wallet)' = HasAccess(wallet)
<1>1. IndexInv /\ IndexInv' => Concerned
  <2> SUFFICES ASSUME IndexInv, IndexInv', NEW index \in 0 .. Len(gateCollections) - 1,
                      NEW wallet \in Wallets, AllAreERC721s,
                      RemoveGateCollection(gateOwner, index),
                      wallet \notin holders[gateCollections[index + 1]]
               PROVE  HasAccess(wallet)' = HasAccess(wallet)
    OBVIOUS
  <2> DEFINE before == gateCollections
             gone == gateCollections[index + 1]
  <2>1. PICK after : after = SwapAndPop(gateCollections, index)
    OBVIOUS
  <2>2. gateCollections' = after /\ holders' = holders
    BY <2>1 DEF RemoveGateCollection
  <2>3. /\ Range(after) \subseteq Range(gateCollections)
        /\ Range(gateCollections) \ {gone} \subseteq Range(after)
    BY <2>1, SwapAndPopRange DEF IndexInv
  <2>4. Range(gateCollections) \subseteq ERC721s /\ Range(after) \subseteq ERC721s
    BY <2>3 DEF AllAreERC721s
  <2>5. AccessFrom(wallet, gateCollections)
            = IF \E c \in Range(gateCollections) : wallet \in holders[c] THEN "yes" ELSE "no"
    BY <2>4, AccessIsHolding DEF IndexInv
  <2>6. AccessFrom(wallet, after)
            = IF \E c \in Range(after) : wallet \in holders[c] THEN "yes" ELSE "no"
    BY <2>2, <2>4, AccessIsHolding DEF IndexInv
  <2>7. AccessFrom(wallet, gateCollections)' = AccessFrom(wallet, after)
    BY <2>2 DEF AccessFrom
  <2> QED
    BY <2>3, <2>5, <2>6, <2>7 DEF HasAccess
<1>2. Concerned => [Concerned]_gateVars
  OBVIOUS
<1> HIDE DEF Concerned
<1>3. IndexInv /\ IndexInv' => [Concerned]_gateVars
  BY <1>1, <1>2
<1>4. GateSpec => [][Concerned]_gateVars
  BY <1>3, GateInvariant, PTL
<1> QED
  BY <1>4 DEF RemovalOnlyConcernsHolders, Concerned
==============================================================================
