--------------------------- MODULE BvbCallsProofs ----------------------------
(****************************************************************************)
(* What transactions of several calls promise, proved of BvbCalls: a batch  *)
(* serves every order it names, each once, or leaves no trace, and the      *)
(* protocol is solvent at every point of a transaction, whatever the        *)
(* wallets it reaches do in the middle.                                     *)
(****************************************************************************)
EXTENDS BvbCalls, BvbSolvencyProofs, SequenceTheorems

------------------------------------------------------------------------------
(* Outcomes, and how they grow.                                              *)

\* The call stored its outcome, and the transaction is the one that did it.
Counted(call) ==
    CASE call.op = "matchOrder" -> call.order \in matchedOrders \ stored.matchedOrders
      [] call.op = "settleContract" ->
            call.order \in settledContracts \ stored.settledContracts
      [] OTHER -> call.order \in reclaimedContracts \ stored.reclaimedContracts

\* The outcomes the last transaction left are those there are now.
SameOutcomes ==
    /\ stored.matchedOrders = matchedOrders
    /\ stored.settledContracts = settledContracts
    /\ stored.reclaimedContracts = reclaimedContracts

\* No outcome of an earlier transaction is gone.
OutcomesKept ==
    /\ stored.matchedOrders \subseteq matchedOrders
    /\ stored.settledContracts \subseteq settledContracts
    /\ stored.reclaimedContracts \subseteq reclaimedContracts

\* The step takes back no outcome.
OutcomesGrow ==
    /\ matchedOrders \subseteq matchedOrders'
    /\ settledContracts \subseteq settledContracts'
    /\ reclaimedContracts \subseteq reclaimedContracts'

\* No call takes back an outcome.
LEMMA EffectsGrow == ASSUME NEW call, Effects(call) PROVE OutcomesGrow
BY DEF Effects, MatchEffects, SettleEffects, ReclaimEffects, BuyEffects, WithdrawEffects,
       TransferPosition, RecordMatch, contractVars, OutcomesGrow

\* No external call takes back an outcome.
LEMMA TransfersGrow == ASSUME NEW t, Perform(t) PROVE OutcomesGrow
BY DEF Perform, protocolVars, OutcomesGrow

\* The functions without external calls leave the outcomes as they are.
LEMMA CallsWithoutInteractionGrow ==
    ASSUME NEW senders, CallsWithoutInteraction(senders)
    PROVE  UNCHANGED contractVars
<1>1. CASE UnguardedCalls(senders)
  BY <1>1 DEF UnguardedCalls, CancelOrder, CancelSellOrder, SetMinimumValidNonce,
              SetMinimumValidNonceSell, SetAllowedCollection, SetAllowedAsset, SetFee,
              TransferOwnership, RenounceOwnership, contractVars
<1>2. CASE UNCHANGED protocolVars
  BY <1>2 DEF protocolVars, contractVars
<1> QED
  BY <1>1, <1>2 DEF CallsWithoutInteraction

------------------------------------------------------------------------------
(* Batches.                                                                  *)

BatchOps == {"matchOrder", "settleContract", "reclaimContract"}

\* The calls of a transaction are of one of the batch functions.
OneFunction(calls) == \E op \in BatchOps : \A i \in 1 .. Len(calls) : calls[i].op = op

\* The calls of a transaction: one, or several of one batch function.
IsRequest(calls) ==
    /\ Len(calls) \in Nat \ {0}
    /\ DOMAIN calls = 1 .. Len(calls)
    /\ Len(calls) > 1 => OneFunction(calls)

\* Users send single calls and batches.  (The set of them depends on the fee rate, by
\* the ether they attach; what is said here of each does not.)
LEMMA RequestsAreCalls == ASSUME NEW calls \in Requests PROVE IsRequest(calls)
<1>1. ASSUME NEW call, calls = <<call>> PROVE IsRequest(calls)
  <2>1. Len(calls) = 1 /\ DOMAIN calls = 1 .. 1
    BY <1>1
  <2> QED
    BY <2>1 DEF IsRequest
<1>2. ASSUME NEW n \in 2 .. MaxBatch, NEW group \in BatchGroups,
             calls \in [1 .. n -> group]
      PROVE  IsRequest(calls)
  <2>1. MaxBatch \in Nat /\ n \in Nat \ {0}
    BY CallbacksAssumption
  <2>2. DOMAIN calls = 1 .. n /\ Len(calls) = n
    <3>1. calls \in Seq(group)
      BY <1>2, <2>1, SeqDef
    <3> QED
      BY <1>2, <2>1, <3>1
  <2>3. \E op \in BatchOps : \A call \in group : call.op = op
    BY DEF BatchGroups, MatchCalls, SettleCalls, ReclaimCalls, BatchOps
  <2>4. OneFunction(calls)
    BY <1>2, <2>1, <2>2, <2>3 DEF OneFunction
  <2> QED
    BY <2>1, <2>2, <2>4 DEF IsRequest
<1>3. \/ \E call \in CallsOf(Users) : calls = <<call>>
      \/ \E n \in 2 .. MaxBatch, group \in BatchGroups : calls \in [1 .. n -> group]
  BY DEF Requests
<1> QED
  BY <1>1, <1>2, <1>3

\* A call of a batch function adds its order to the outcomes, where it was not.
LEMMA BatchCallsAddTheirOrder ==
    ASSUME NEW call, call.op \in BatchOps, Effects(call)
    PROVE  /\ call.op = "matchOrder" => call.order \in matchedOrders' \ matchedOrders
           /\ call.op = "settleContract" =>
                 call.order \in settledContracts' \ settledContracts
           /\ call.op = "reclaimContract" =>
                 call.order \in reclaimedContracts' \ reclaimedContracts
<1>1. CASE call.op = "matchOrder"
  BY <1>1 DEF Effects, MatchEffects, MatchRequires, CheckIsValidOrder, RecordMatch
<1>2. CASE call.op = "settleContract"
  BY <1>2 DEF Effects, SettleEffects, SettleRequires
<1>3. CASE call.op = "reclaimContract"
  BY <1>3 DEF Effects, ReclaimEffects, ReclaimRequires
<1> QED
  BY <1>1, <1>2, <1>3 DEF BatchOps

\* Every call that was begun is counted.
AllCounted == \A i \in 1 .. position : Counted(request[i])

\* No two calls that were begun name one order.
NoneTwice == \A i, j \in 1 .. position : i < j => request[i].order # request[j].order

\* Between transactions the storage is what the last one left.  In the middle of a
\* batch every call that was begun is counted, and no two of them name one order.
BatchInv ==
    /\ Idle => SameOutcomes /\ frames = <<>>
    /\ OutcomesKept
    /\ ~Idle => IsRequest(request) /\ position > 0
    /\ position \in 0 .. Len(request)
    /\ Len(request) > 1 => AllCounted /\ NoneTwice

\* Nothing runs at first.
LEMMA BatchStarts == CallsInit => BatchInv
BY DEF CallsInit, Storage, BatchInv, SameOutcomes, OutcomesKept, Idle

\* What is counted stays counted while the transaction runs.
LEMMA CountedStays ==
    ASSUME OutcomesGrow, stored' = stored, NEW call, Counted(call)
    PROVE  Counted(call)'
BY DEF Counted, OutcomesGrow

\* A step in a running transaction that begins none of its calls.
LEMMA BatchGoesOn ==
    ASSUME BatchInv, OutcomesGrow, ~Idle, UNCHANGED <<stored, request, position>>
    PROVE  BatchInv'
<1>1. OutcomesKept'
  BY DEF BatchInv, OutcomesKept, OutcomesGrow
<1>2. ~Idle' /\ IsRequest(request') /\ position' > 0 /\ position' \in 0 .. Len(request')
  BY DEF BatchInv, Idle
<1>3. ASSUME Len(request) > 1 PROVE AllCounted'
  <2> SUFFICES ASSUME NEW i \in 1 .. position PROVE Counted(request[i])'
    BY DEF AllCounted
  <2>1. PICK call : call = request[i]
    OBVIOUS
  <2>2. Counted(call)
    BY <1>3, <2>1 DEF BatchInv, AllCounted
  <2>3. Counted(call)'
    BY <2>2, CountedStays
  <2> QED
    BY <2>1, <2>3 DEF Counted
<1>4. ASSUME Len(request) > 1 PROVE NoneTwice'
  BY <1>4 DEF BatchInv, NoneTwice
<1>5. Len(request') > 1 => AllCounted' /\ NoneTwice'
  BY <1>3, <1>4
<1>6. (Idle => SameOutcomes /\ frames = <<>>)'
  BY <1>2 DEF Idle
<1> QED
  BY <1>1, <1>2, <1>5, <1>6, Zenon DEF BatchInv

\* The first call of a batch.
LEMMA BatchBegins ==
    ASSUME BatchInv, NEW calls \in Requests, Submit(calls)
    PROVE  BatchInv'
<1>1. /\ Idle /\ Effects(calls[1]) /\ request' = calls /\ position' = 1 /\ stored' = stored
  BY DEF Submit, Begin
<1>2. OutcomesGrow /\ SameOutcomes
  BY <1>1, EffectsGrow DEF BatchInv
<1>3. OutcomesKept'
  BY <1>1, <1>2 DEF OutcomesKept, OutcomesGrow, SameOutcomes
<1>4. ASSUME Len(calls) > 1 PROVE Counted(calls[1])'
  <2>1. calls[1].op \in BatchOps
    BY <1>4, RequestsAreCalls DEF IsRequest, OneFunction
  <2> QED
    BY <1>1, <1>2, <2>1, BatchCallsAddTheirOrder DEF Counted, SameOutcomes, BatchOps
<1>5. AllCounted' \/ ~(Len(calls) > 1)
  <2> SUFFICES ASSUME Len(calls) > 1 PROVE AllCounted'
    OBVIOUS
  <2> SUFFICES ASSUME NEW i \in 1 .. 1 PROVE Counted(calls[i])'
    BY <1>1 DEF AllCounted
  <2>1. i = 1
    OBVIOUS
  <2> QED
    BY <1>4, <2>1
<1>6. NoneTwice'
  BY <1>1 DEF NoneTwice
<1>7. calls # <<>> /\ 1 \in 1 .. Len(calls)
  <2>1. IsRequest(calls)
    BY RequestsAreCalls
  <2> QED
    BY <2>1 DEF IsRequest
<1>8. ~Idle' /\ IsRequest(request') /\ position' > 0 /\ position' \in 0 .. Len(request')
  BY <1>1, <1>7, RequestsAreCalls DEF Idle, IsRequest
<1>9. (Idle => SameOutcomes /\ frames = <<>>)'
  BY <1>8 DEF Idle
<1>10. Len(request') > 1 => AllCounted' /\ NoneTwice'
  BY <1>1, <1>5, <1>6
<1> QED
  BY <1>3, <1>8, <1>9, <1>10, Zenon DEF BatchInv

\* A further call of a batch.
LEMMA BatchContinues == BatchInv /\ BeginNext => BatchInv'
<1> SUFFICES ASSUME BatchInv, BeginNext PROVE BatchInv'
  OBVIOUS
<1>1. PICK next : next = request[position + 1]
  OBVIOUS
<1>2. /\ position < Len(request) /\ Effects(next) /\ position' = position + 1
      /\ request' = request /\ stored' = stored
  BY <1>1 DEF BeginNext, Begin
<1>3. /\ position \in Nat /\ Len(request) \in Nat /\ Len(request) > 1 /\ ~Idle
      /\ DOMAIN request = 1 .. Len(request) /\ OneFunction(request)
  <2>1. request # <<>> /\ position \in Nat
    BY <1>2 DEF BatchInv
  <2>2. IsRequest(request) /\ position > 0 /\ ~Idle
    BY <2>1 DEF BatchInv, Idle
  <2>3. Len(request) \in Nat /\ Len(request) > 1
    BY <1>2, <2>1, <2>2 DEF IsRequest
  <2> QED
    BY <2>1, <2>2, <2>3, Zenon DEF IsRequest
<1>4. OutcomesGrow
  BY <1>2, EffectsGrow
<1>5. OutcomesKept'
  BY <1>2, <1>4 DEF BatchInv, OutcomesKept, OutcomesGrow
<1>6. PICK op \in BatchOps : \A i \in 1 .. Len(request) : request[i].op = op
  BY <1>3 DEF OneFunction
<1>7. next.op = op
  BY <1>1, <1>2, <1>3, <1>6
<1>8. Counted(next)' /\ \A call : Counted(call) /\ call.op = op => call.order # next.order
  <2>1. OutcomesKept
    BY DEF BatchInv
  <2>2. /\ op = "matchOrder" => next.order \in matchedOrders' \ matchedOrders
        /\ op = "settleContract" => next.order \in settledContracts' \ settledContracts
        /\ op = "reclaimContract" => next.order \in reclaimedContracts' \ reclaimedContracts
    BY <1>2, <1>7, BatchCallsAddTheirOrder
  <2>3. CASE op = "matchOrder"
    BY <1>2, <1>7, <2>1, <2>2, <2>3 DEF Counted, OutcomesKept
  <2>4. CASE op = "settleContract"
    BY <1>2, <1>7, <2>1, <2>2, <2>4 DEF Counted, OutcomesKept
  <2>5. CASE op = "reclaimContract"
    BY <1>2, <1>7, <2>1, <2>2, <2>5 DEF Counted, OutcomesKept
  <2> QED
    BY <2>3, <2>4, <2>5 DEF BatchOps
<1>9. AllCounted /\ NoneTwice
  BY <1>3 DEF BatchInv
<1>10. AllCounted'
  <2> SUFFICES ASSUME NEW i \in 1 .. position + 1 PROVE Counted(request[i])'
    BY <1>2 DEF AllCounted
  <2>1. PICK call : call = request[i]
    OBVIOUS
  <2>2. CASE i = position + 1
    BY <1>1, <1>2, <1>8, <2>1, <2>2
  <2>3. CASE i \in 1 .. position
    <3>1. Counted(call)
      BY <1>9, <2>1, <2>3 DEF AllCounted
    <3>2. Counted(call)'
      BY <1>2, <1>4, <3>1, CountedStays
    <3> QED
      BY <1>2, <2>1, <3>2
  <2> QED
    BY <1>3, <2>2, <2>3
<1>11. NoneTwice'
  <2> SUFFICES ASSUME NEW i \in 1 .. position + 1, NEW j \in 1 .. position + 1, i < j
               PROVE  request[i].order # request[j].order
    BY <1>2 DEF NoneTwice
  <2>1. i \in 1 .. position /\ i \in 1 .. Len(request)
    BY <1>2, <1>3
  <2>2. CASE j \in 1 .. position
    BY <1>9, <2>1, <2>2 DEF NoneTwice
  <2>3. CASE j = position + 1
    <3>1. Counted(request[i]) /\ request[i].op = op
      BY <1>6, <1>9, <2>1 DEF AllCounted
    <3> QED
      BY <1>1, <1>8, <2>3, <3>1
  <2> QED
    BY <1>3, <2>2, <2>3
<1>12. ~Idle' /\ IsRequest(request') /\ position' > 0 /\ position' \in 0 .. Len(request')
  <2>1. IsRequest(request)
    BY <1>3 DEF BatchInv
  <2> QED
    BY <1>2, <1>3, <2>1 DEF Idle
<1>13. (Idle => SameOutcomes /\ frames = <<>>)'
  BY <1>12 DEF Idle
<1> QED
  BY <1>5, <1>10, <1>11, <1>12, <1>13, Zenon DEF BatchInv

\* The end of a call: the batch goes on, or its outcomes are stored.
LEMMA BatchLeaves == BatchInv /\ Leave => BatchInv'
<1> SUFFICES ASSUME BatchInv, Leave PROVE BatchInv'
  OBVIOUS
<1>1. OutcomesGrow /\ UNCHANGED <<matchedOrders, settledContracts, reclaimedContracts>>
  BY DEF Leave, vars, protocolVars, OutcomesGrow
<1>2. ~Idle
  BY DEF BatchInv, Leave
<1>3. CASE Len(frames) = 1 /\ position = Len(request)
  <2>1. /\ request' = <<>> /\ position' = 0 /\ stored' = Storage
        /\ frames' = SubSeq(frames, 1, 0)
    BY <1>3 DEF Leave
  <2>2. frames' = <<>>
    BY <2>1
  <2>3. SameOutcomes' /\ OutcomesKept'
    BY <1>1, <2>1 DEF SameOutcomes, OutcomesKept, Storage
  <2>4. Idle' /\ position' \in 0 .. Len(request') /\ ~(Len(request') > 1)
    BY <2>1 DEF Idle
  <2> QED
    BY <2>2, <2>3, <2>4, Zenon DEF BatchInv
<1>4. CASE ~(Len(frames) = 1 /\ position = Len(request))
  BY <1>1, <1>2, <1>4, BatchGoesOn DEF Leave
<1> QED
  BY <1>3, <1>4

\* A revert leaves the outcomes of the last transaction.
LEMMA BatchReverts == BatchInv /\ Revert => BatchInv'
<1> SUFFICES ASSUME Revert PROVE BatchInv'
  OBVIOUS
<1>1. request' = <<>> /\ position' = 0 /\ frames' = <<>>
  BY DEF Revert
<1>2. SameOutcomes' /\ OutcomesKept'
  BY DEF Revert, SameOutcomes, OutcomesKept
<1>3. Idle' /\ position' \in 0 .. Len(request') /\ ~(Len(request') > 1)
  BY <1>1 DEF Idle
<1> QED
  BY <1>1, <1>2, <1>3, Zenon DEF BatchInv

\* What is done between transactions is stored.
LEMMA BatchWaits == BatchInv /\ BetweenCalls => BatchInv'
<1> SUFFICES ASSUME BatchInv, BetweenCalls PROVE BatchInv'
  OBVIOUS
<1>1. request' = <<>> /\ position' = position /\ frames' = <<>> /\ position = 0
  BY DEF BatchInv, BetweenCalls, Idle
<1>2. SameOutcomes' /\ OutcomesKept'
  BY DEF BetweenCalls, Storage, SameOutcomes, OutcomesKept
<1>3. Idle' /\ position' \in 0 .. Len(request') /\ ~(Len(request') > 1)
  BY <1>1 DEF Idle
<1> QED
  BY <1>1, <1>2, <1>3, Zenon DEF BatchInv

\* What wallets do in the middle of a batch takes back nothing it has done.
LEMMA BatchIsCalledBack == BatchInv /\ Callback => BatchInv'
<1> SUFFICES ASSUME BatchInv, Callback PROVE BatchInv'
  OBVIOUS
<1>1. ~Idle
  BY DEF Callback, Running, BatchInv
<1>2. OutcomesGrow
  <2>1. CASE \E wallet : CallsWithoutInteraction({wallet})
    BY <2>1, CallsWithoutInteractionGrow DEF contractVars, OutcomesGrow
  <2>2. CASE \E call : Effects(call)
    BY <2>2, EffectsGrow
  <2> QED
    BY <2>1, <2>2 DEF Callback, Begin
<1>3. UNCHANGED <<stored, request, position>>
  BY DEF Callback
<1> QED
  BY <1>1, <1>2, <1>3, BatchGoesOn

\* Every step keeps the invariant of batches.
LEMMA BatchInvIsInductive == BatchInv /\ [CallsNext]_<<vars, callVars>> => BatchInv'
<1> SUFFICES ASSUME BatchInv, [CallsNext]_<<vars, callVars>> PROVE BatchInv'
  OBVIOUS
<1>1. CASE BetweenCalls
  BY <1>1, BatchWaits
<1>2. ASSUME NEW calls \in Requests, Submit(calls) PROVE BatchInv'
  BY <1>2, BatchBegins
<1>3. CASE Callback
  BY <1>3, BatchIsCalledBack
<1>4. CASE BeginNext
  BY <1>4, BatchContinues
<1>5. CASE Interact
  <2>1. ~Idle /\ UNCHANGED <<stored, request, position>>
    BY <1>5 DEF Interact, BatchInv
  <2>2. OutcomesGrow
    BY <1>5, TransfersGrow DEF Interact
  <2> QED
    BY <2>1, <2>2, BatchGoesOn
<1>6. CASE Return
  <2>1. ~Idle /\ UNCHANGED <<stored, request, position>>
    BY <1>6 DEF Return, BatchInv
  <2>2. OutcomesGrow
    BY <1>6 DEF Return, vars, protocolVars, OutcomesGrow
  <2> QED
    BY <2>1, <2>2, BatchGoesOn
<1>7. CASE Leave
  BY <1>7, BatchLeaves
<1>8. CASE Revert
  BY <1>8, BatchReverts
<1>9. CASE UNCHANGED <<vars, callVars>>
  <2>1. CASE Idle
    <3>1. /\ UNCHANGED <<request, position, frames, stored>>
          /\ UNCHANGED <<matchedOrders, settledContracts, reclaimedContracts>>
      BY <1>9 DEF vars, protocolVars, callVars
    <3>2. Idle' /\ SameOutcomes' /\ OutcomesKept' /\ frames' = <<>>
      BY <2>1, <3>1 DEF BatchInv, Idle, SameOutcomes, OutcomesKept
    <3>3. position' \in 0 .. Len(request') /\ ~(Len(request') > 1)
      BY <2>1, <3>1 DEF BatchInv, Idle
    <3> QED
      BY <3>2, <3>3, Zenon DEF BatchInv
  <2>2. CASE ~Idle
    <3>1. OutcomesGrow /\ UNCHANGED <<stored, request, position>>
      BY <1>9 DEF vars, protocolVars, callVars, OutcomesGrow
    <3> QED
      BY <2>2, <3>1, BatchGoesOn
  <2> QED
    BY <2>1, <2>2
<1> QED
  BY <1>1, <1>2, <1>3, <1>4, <1>5, <1>6, <1>7, <1>8, <1>9 DEF CallsNext, Proceed

\* A batch served every order it names, each once, when its outcomes are stored; what
\* is not stored is undone.  For batches of any length, and whatever the wallets they
\* reach do in the middle.
THEOREM BatchesServeAllOrNothing == CallsSpec => BatchesAreAllOrNothing
<1> DEFINE Stored ==
       Len(request) > 1 /\ stored' # stored =>
          /\ \A i \in DOMAIN request : Served(request[i], stored, stored')
          /\ IsInjective([i \in DOMAIN request |-> request[i].order])
<1>1. BatchInv /\ [CallsNext]_<<vars, callVars>> => Stored
  <2> SUFFICES ASSUME BatchInv, [CallsNext]_<<vars, callVars>>, Len(request) > 1,
                      stored' # stored
               PROVE  /\ \A i \in DOMAIN request : Served(request[i], stored, stored')
                      /\ IsInjective([i \in DOMAIN request |-> request[i].order])
    OBVIOUS
  <2>1. ~Idle
    BY DEF Idle
  <2>2. stored' = Storage /\ position = Len(request)
    BY <2>1 DEF CallsNext, BetweenCalls, Submit, Callback, Proceed, BeginNext, Interact,
                Return, Leave, Revert, callVars
  <2>3. DOMAIN request = 1 .. Len(request) /\ AllCounted /\ NoneTwice
    BY <2>1 DEF BatchInv, IsRequest
  <2>4. ASSUME NEW i \in DOMAIN request PROVE Served(request[i], stored, stored')
    <3>1. Counted(request[i])
      BY <2>2, <2>3 DEF AllCounted
    <3> QED
      BY <2>2, <3>1 DEF Counted, Served, Storage
  <2>5. ASSUME NEW i \in DOMAIN request, NEW j \in DOMAIN request,
               request[i].order = request[j].order
        PROVE  i = j
    BY <2>2, <2>3, <2>5 DEF NoneTwice
  <2> QED
    BY <2>4, <2>5 DEF IsInjective
<1>2. CallsSpec => []BatchInv
  BY BatchStarts, BatchInvIsInductive, PTL DEF CallsSpec
<1> QED
  BY <1>1, <1>2, PTL DEF CallsSpec, BatchesAreAllOrNothing

------------------------------------------------------------------------------
(* The external calls to come, and what they pay.                            *)

Payments ==
    [kind : {"pull"}, asset : Assets, from : Users, to : Accounts, n : Nat]
    \cup [kind : {"push"}, asset : Assets, from : {Protocol}, to : Accounts, n : Nat]
    \cup [kind : {"wrap"}, asset : {WETH}, from : Users, to : {Protocol}, n : Nat]

TokenMoves == [kind : {"nft"}, collection : Collections, from : Accounts, to : Accounts, id : Nat]

\* The external calls of one call of the protocol: two at most.
Todos == {todo \in Seq(Payments \cup TokenMoves) : Len(todo) <= 2}

\* The kinds that bring money in, and the one that takes it out.
In == {"pull", "wrap"}
Out == {"push"}

\* What an external call pays is a number; moving a token pays nothing.
LEMMA DueType ==
    ASSUME NEW t \in Payments \cup TokenMoves, NEW a \in Assets, NEW kinds \in {In, Out}
    PROVE  Due(t, a, kinds) \in Nat
<1>1. CASE t \in Payments
  BY <1>1 DEF Due, Payments
<1>2. CASE t \in TokenMoves
  BY <1>2 DEF Due, TokenMoves, In, Out
<1> QED
  BY <1>1, <1>2

\* A sum over 1 .. n + 1, by its last term.
LEMMA SumToNext ==
    ASSUME NEW n \in Nat, NEW f, \A i \in 1 .. n + 1 : f[i] \in Nat
    PROVE  /\ SumFunctionOnSet(f, 1 .. n) \in Nat
           /\ SumFunctionOnSet(f, 1 .. n + 1) = SumFunctionOnSet(f, 1 .. n) + f[n + 1]
<1>1. PICK T : T = 1 .. n + 1
  OBVIOUS
<1>2. IsFiniteSet(T) /\ IsFiniteSet(1 .. n)
  BY <1>1, FS_Interval
<1>3. n + 1 \in T /\ T \ {n + 1} = 1 .. n /\ \A i \in T : f[i] \in Nat
  BY <1>1
<1>4. SumFunctionOnSet(f, 1 .. n) \in Nat
  <2>1. \A i \in 1 .. n : f[i] \in Nat
    OBVIOUS
  <2> QED
    BY <1>2, <2>1, SumType
<1>5. SumFunctionOnSet(f, T) = f[n + 1] + SumFunctionOnSet(f, T \ {n + 1})
  BY <1>2, <1>3, SumWithout
<1>6. f[n + 1] \in Nat
  BY <1>1, <1>3
<1>7. SumFunctionOnSet(f, T) = f[n + 1] + SumFunctionOnSet(f, 1 .. n)
  BY <1>3, <1>5
<1> QED
  BY <1>1, <1>4, <1>6, <1>7

\* What a list of them pays, from its entries.
LEMMA DueOfEntries ==
    ASSUME NEW todo \in Todos, NEW a \in Assets, NEW kinds \in {In, Out}
    PROVE  /\ DueOf(todo, a, kinds) \in Nat
           /\ Len(todo) = 0 => DueOf(todo, a, kinds) = 0
           /\ Len(todo) = 1 => DueOf(todo, a, kinds) = Due(todo[1], a, kinds)
           /\ Len(todo) = 2 => DueOf(todo, a, kinds)
                                   = Due(todo[1], a, kinds) + Due(todo[2], a, kinds)
<1>1. PICK dues : dues = [i \in DOMAIN todo |-> Due(todo[i], a, kinds)]
  OBVIOUS
<1>2. /\ DOMAIN todo = 1 .. Len(todo) /\ Len(todo) \in {0, 1, 2}
      /\ \A i \in 1 .. Len(todo) : todo[i] \in Payments \cup TokenMoves
  <2>1. PICK E : E = Payments \cup TokenMoves
    OBVIOUS
  <2>2. todo \in Seq(E) /\ Len(todo) <= 2
    BY <2>1 DEF Todos
  <2>3. DOMAIN todo = 1 .. Len(todo) /\ Len(todo) \in Nat
    BY <2>2, LenProperties
  <2>4. \A i \in 1 .. Len(todo) : todo[i] \in E
    BY <2>2, ElementOfSeq
  <2> QED
    BY <2>1, <2>2, <2>3, <2>4
<1>3. \A i \in 1 .. Len(todo) : Due(todo[i], a, kinds) \in Nat
  BY <1>2, DueType
<1>4. \A i \in 1 .. Len(todo) : dues[i] = Due(todo[i], a, kinds) /\ dues[i] \in Nat
  BY <1>1, <1>2, <1>3
<1>5. DueOf(todo, a, kinds) = SumFunctionOnSet(dues, 1 .. Len(todo))
  BY <1>1, <1>2 DEF DueOf
<1>6. SumFunctionOnSet(dues, 1 .. 0) = 0
  <2>1. 1 .. 0 = {}
    OBVIOUS
  <2> QED
    BY <2>1, SumOfNothing
<1>7. CASE Len(todo) = 0
  BY <1>5, <1>6, <1>7
<1>8. ASSUME Len(todo) \in {1, 2} PROVE SumFunctionOnSet(dues, 1 .. 1) = dues[1]
  <2>1. \A i \in 1 .. 0 + 1 : dues[i] \in Nat
    BY <1>4, <1>8
  <2>2. SumFunctionOnSet(dues, 1 .. 0 + 1) = SumFunctionOnSet(dues, 1 .. 0) + dues[0 + 1]
    BY <2>1, SumToNext
  <2>3. dues[1] \in Nat
    BY <2>1
  <2> QED
    BY <1>6, <2>2, <2>3
<1>9. CASE Len(todo) = 1
  <2>1. DueOf(todo, a, kinds) = dues[1] /\ dues[1] = Due(todo[1], a, kinds) /\ dues[1] \in Nat
    BY <1>4, <1>5, <1>8, <1>9
  <2> QED
    BY <1>9, <2>1
<1>10. CASE Len(todo) = 2
  <2>1. \A i \in 1 .. 1 + 1 : dues[i] \in Nat
    BY <1>4, <1>10
  <2>2. SumFunctionOnSet(dues, 1 .. 1 + 1) = SumFunctionOnSet(dues, 1 .. 1) + dues[1 + 1]
    BY <2>1, SumToNext
  <2>3. SumFunctionOnSet(dues, 1 .. 2) = dues[1] + dues[2]
    BY <1>8, <1>10, <2>2
  <2>4. DueOf(todo, a, kinds) = dues[1] + dues[2]
    BY <1>5, <1>10, <2>3
  <2>5. /\ dues[1] = Due(todo[1], a, kinds) /\ dues[1] \in Nat
        /\ dues[2] = Due(todo[2], a, kinds) /\ dues[2] \in Nat
    BY <1>4, <1>10
  <2> QED
    BY <1>10, <2>4, <2>5
<1> QED
  BY <1>2, <1>7, <1>9, <1>10

\* Making the first of them leaves the rest to pay.
LEMMA DueOfTail ==
    ASSUME NEW todo \in Todos, todo # <<>>, NEW a \in Assets, NEW kinds \in {In, Out}
    PROVE  /\ Tail(todo) \in Todos /\ todo[1] \in Payments \cup TokenMoves
           /\ DueOf(Tail(todo), a, kinds) \in Nat
           /\ DueOf(todo, a, kinds) = Due(todo[1], a, kinds) + DueOf(Tail(todo), a, kinds)
<1>0. PICK E : E = Payments \cup TokenMoves
  OBVIOUS
<1>1. todo \in Seq(E) /\ Len(todo) \in {1, 2}
  <2>1. todo \in Seq(E) /\ Len(todo) <= 2
    BY <1>0 DEF Todos
  <2>2. Len(todo) \in Nat \ {0}
    BY <2>1, EmptySeq
  <2>3. PICK n \in Nat \ {0} : n = Len(todo)
    BY <2>2
  <2>4. n \in {1, 2}
    BY <2>1, <2>3
  <2> QED
    BY <2>1, <2>3, <2>4
<1>2. todo[1] \in E
  BY <1>1
<1>3. PICK rest : rest = Tail(todo)
  OBVIOUS
<1>4. rest \in Seq(E) /\ Len(rest) = Len(todo) - 1 /\ (Len(todo) = 2 => rest[1] = todo[2])
  BY <1>1, <1>3
<1>5. rest \in Todos
  BY <1>0, <1>1, <1>4 DEF Todos
<1>6. Due(todo[1], a, kinds) \in Nat
  BY <1>0, <1>2, DueType
<1>7. DueOf(rest, a, kinds) \in Nat
  BY <1>5, DueOfEntries
<1>8. DueOf(todo, a, kinds) = Due(todo[1], a, kinds) + DueOf(rest, a, kinds)
  <2>1. CASE Len(todo) = 1
    <3>1. Len(rest) = 0
      BY <1>4, <2>1
    <3>2. DueOf(rest, a, kinds) = 0
      BY <1>5, <3>1, DueOfEntries
    <3>3. DueOf(todo, a, kinds) = Due(todo[1], a, kinds)
      BY <2>1, DueOfEntries
    <3> QED
      BY <1>6, <3>2, <3>3
  <2>2. CASE Len(todo) = 2
    <3>1. Len(rest) = 1 /\ rest[1] = todo[2]
      BY <1>4, <2>2
    <3>2. DueOf(rest, a, kinds) = Due(rest[1], a, kinds)
      BY <1>5, <3>1, DueOfEntries
    <3>3. DueOf(todo, a, kinds) = Due(todo[1], a, kinds) + Due(todo[2], a, kinds)
      BY <2>2, DueOfEntries
    <3> QED
      BY <3>1, <3>2, <3>3
  <2> QED
    BY <1>1, <2>1, <2>2
<1> QED
  BY <1>0, <1>2, <1>3, <1>5, <1>7, <1>8

------------------------------------------------------------------------------
(* The calls in progress.                                                    *)

\* The calls of the protocol, by whomever they are made.
ACall ==
    UNION {[op : {"matchOrder"}, sender : Users, order : Orders, value : Nat],
           [op : {"settleContract"}, sender : Users, order : Orders, tokenId : TokenIds],
           [op : {"reclaimContract"}, order : Orders],
           [op : {"buyPosition"}, sender : Users, sellOrder : SellOrders, tipAmount : Nat,
            value : Nat],
           [op : {"transferPosition"}, sender : Users, order : Orders, isBull : BOOLEAN,
            recipient : Accounts],
           [op : {"withdrawFees"}, sender : Users, asset : Assets, recipient : Accounts]}

\* A call in progress, and who runs in the middle of it.
Frame == [call : ACall, todo : Todos, control : Wallets \cup {NoOne}]

\* What the calls of a list still have to pay.
OwedBy(calls, asset, kinds) ==
    SumFunctionOnSet([i \in DOMAIN calls |-> DueOf(calls[i].todo, asset, kinds)],
                     DOMAIN calls)

\* No call owes nothing.
LEMMA OwedByNone == ASSUME NEW a, NEW kinds PROVE OwedBy(<<>>, a, kinds) = 0
<1>1. DOMAIN <<>> = {}
  OBVIOUS
<1> QED
  BY <1>1, SumOfNothing DEF OwedBy

\* A further call adds what it owes.
LEMMA OwedByAppend ==
    ASSUME NEW calls \in Seq(Frame), NEW call \in Frame, NEW a \in Assets,
           NEW kinds \in {In, Out}
    PROVE  /\ OwedBy(calls, a, kinds) \in Nat
           /\ DueOf(call.todo, a, kinds) \in Nat
           /\ OwedBy(Append(calls, call), a, kinds)
                  = OwedBy(calls, a, kinds) + DueOf(call.todo, a, kinds)
<1>1. PICK longer : longer = Append(calls, call)
  OBVIOUS
<1>2. PICK n : n = Len(calls)
  OBVIOUS
<1>3. n \in Nat /\ DOMAIN calls = 1 .. n
  BY <1>2, LenProperties
<1>4. /\ longer \in Seq(Frame) /\ Len(longer) = n + 1 /\ longer[n + 1] = call
      /\ \A i \in 1 .. n : longer[i] = calls[i]
  BY <1>1, <1>2, AppendProperties
<1>5. DOMAIN longer = 1 .. n + 1 /\ \A i \in 1 .. n + 1 : longer[i] \in Frame
  BY <1>4, LenProperties, ElementOfSeq
<1>6. PICK f : f = [i \in 1 .. n |-> DueOf(calls[i].todo, a, kinds)]
  OBVIOUS
<1>7. PICK g : g = [i \in 1 .. n + 1 |-> DueOf(longer[i].todo, a, kinds)]
  OBVIOUS
<1>8. \A i \in 1 .. n + 1 : longer[i].todo \in Todos
  BY <1>5 DEF Frame
<1>9. \A i \in 1 .. n + 1 : g[i] \in Nat
  <2> SUFFICES ASSUME NEW i \in 1 .. n + 1 PROVE g[i] \in Nat
    OBVIOUS
  <2>1. PICK todo \in Todos : todo = longer[i].todo
    BY <1>8
  <2>2. DueOf(todo, a, kinds) \in Nat
    BY DueOfEntries
  <2> QED
    BY <1>7, <2>1, <2>2
<1>10. \A i \in 1 .. n : g[i] \in Nat /\ f[i] = g[i] /\ i \in 1 .. n + 1
  BY <1>3, <1>4, <1>6, <1>7, <1>9
<1>11. /\ SumFunctionOnSet(g, 1 .. n) \in Nat
       /\ SumFunctionOnSet(g, 1 .. n + 1) = SumFunctionOnSet(g, 1 .. n) + g[n + 1]
  BY <1>3, <1>9, SumToNext
<1>12. SumFunctionOnSet(f, 1 .. n) = SumFunctionOnSet(g, 1 .. n)
  <2>1. IsFiniteSet(1 .. n)
    BY <1>3, FS_Interval
  <2>2. \A i \in 1 .. n : g[i] \in Nat
    BY <1>10
  <2>3. \A i \in 1 .. n : f[i] = g[i]
    BY <1>10
  <2> QED
    BY <2>1, <2>2, <2>3, SumOfSame
<1>13. g[n + 1] = DueOf(call.todo, a, kinds) /\ g[n + 1] \in Nat
  BY <1>3, <1>4, <1>7, <1>9
<1>14. OwedBy(calls, a, kinds) = SumFunctionOnSet(f, 1 .. n)
  BY <1>3, <1>6 DEF OwedBy
<1>15. OwedBy(longer, a, kinds) = SumFunctionOnSet(g, 1 .. n + 1)
  BY <1>5, <1>7 DEF OwedBy
<1> QED
  BY <1>1, <1>11, <1>12, <1>13, <1>14, <1>15

\* When calls are in progress, one of them is the innermost.
LEMMA InnermostIsLast ==
    ASSUME frames \in Seq(Frame), frames # <<>>
    PROVE  \E outer \in Seq(Frame) :
              /\ Innermost \in Frame
              /\ frames = Append(outer, Innermost)
              /\ Len(frames) = Len(outer) + 1
              /\ SubSeq(frames, 1, Len(frames) - 1) = outer
<1>1. PICK outer \in Seq(Frame), last \in Frame : frames = Append(outer, last)
  BY SequenceEmptyOrAppend
<1>2. PICK n : n = Len(outer)
  OBVIOUS
<1>3. n \in Nat
  BY <1>2, LenProperties
<1>4. /\ Len(frames) = n + 1 /\ frames[n + 1] = last
      /\ \A i \in 1 .. n : frames[i] = outer[i]
  BY <1>1, <1>2, AppendProperties
<1>5. Innermost = last
  BY <1>4 DEF Innermost
<1>6. SubSeq(frames, 1, n) = outer
  <2>1. PICK front : front = SubSeq(frames, 1, n)
    OBVIOUS
  <2>2. \A i \in 1 .. n : outer[i] \in Frame
    BY <1>2, ElementOfSeq
  <2>3. \A i \in 1 .. n : frames[i] \in Frame
    BY <1>4, <2>2
  <2>4. /\ front \in Seq(Frame) /\ Len(front) = IF 1 <= n THEN n - 1 + 1 ELSE 0
        /\ \A i \in 1 .. n - 1 + 1 : front[i] = frames[1 + i - 1]
    BY <1>3, <2>1, <2>3, SubSeqProperties
  <2>5. Len(front) = n /\ \A i \in 1 .. n : front[i] = frames[i]
    BY <1>3, <2>4
  <2>6. \A i \in 1 .. n : front[i] = outer[i]
    BY <1>4, <2>5
  <2> QED
    BY <1>2, <2>1, <2>4, <2>5, <2>6, SeqEqual
<1> QED
  BY <1>1, <1>2, <1>3, <1>4, <1>5, <1>6

\* The innermost call is replaced, and the others stay.
LEMMA LastReplaced ==
    ASSUME NEW outer \in Seq(Frame), NEW last \in Frame, NEW new \in Frame,
           NEW calls, calls = Append(outer, last)
    PROVE  [calls EXCEPT ![Len(calls)] = new] = Append(outer, new)
<1>1. PICK n : n = Len(outer)
  OBVIOUS
<1>2. n \in Nat
  BY <1>1, LenProperties
<1>3. /\ calls \in Seq(Frame) /\ Len(calls) = n + 1
      /\ \A i \in 1 .. n : calls[i] = outer[i]
  BY <1>1, AppendProperties
<1>4. PICK replaced : replaced = [calls EXCEPT ![n + 1] = new]
  OBVIOUS
<1>5. n + 1 \in 1 .. Len(calls)
  BY <1>2, <1>3
<1>6. /\ replaced \in Seq(Frame) /\ Len(replaced) = n + 1
      /\ \A j \in 1 .. n + 1 : replaced[j] = IF j = n + 1 THEN new ELSE calls[j]
  <2>1. DOMAIN calls = 1 .. n + 1 /\ \A j \in 1 .. n + 1 : calls[j] \in Frame
    BY <1>3, LenProperties, ElementOfSeq
  <2>2. \A j \in 1 .. n + 1 : replaced[j] = IF j = n + 1 THEN new ELSE calls[j]
    BY <1>4, <2>1
  <2>3. replaced \in [1 .. n + 1 -> Frame]
    BY <1>4, <2>1
  <2>4. n + 1 \in Nat
    BY <1>2
  <2>5. replaced \in Seq(Frame)
    BY <2>3, <2>4, SeqDef
  <2>6. Len(replaced) = n + 1
    BY <2>3, <2>4, <2>5, LenProperties
  <2> QED
    BY <2>2, <2>5, <2>6
<1>7. PICK appended : appended = Append(outer, new)
  OBVIOUS
<1>8. /\ appended \in Seq(Frame) /\ Len(appended) = n + 1 /\ appended[n + 1] = new
      /\ \A i \in 1 .. n : appended[i] = outer[i]
  BY <1>1, <1>7, AppendProperties
<1>9. \A i \in 1 .. n + 1 : replaced[i] = appended[i]
  <2> SUFFICES ASSUME NEW i \in 1 .. n + 1 PROVE replaced[i] = appended[i]
    OBVIOUS
  <2>1. CASE i = n + 1
    BY <1>6, <1>8, <2>1
  <2>2. CASE i \in 1 .. n
    BY <1>2, <1>3, <1>6, <1>8, <2>2
  <2> QED
    BY <1>2, <2>1, <2>2
<1>10. replaced = appended
  BY <1>6, <1>8, <1>9, SeqEqual
<1> QED
  BY <1>3, <1>4, <1>7, <1>10

------------------------------------------------------------------------------
(* What single payments pay.                                                 *)

\* A payment that brings money in.
LEMMA PullDue ==
    ASSUME NEW asset \in Assets, NEW from \in Users, NEW to \in Accounts, NEW n \in Nat,
           NEW a \in Assets
    PROVE  /\ Pull(asset, from, to, n) \in Payments
           /\ Due(Pull(asset, from, to, n), a, In)
                  = IF a = asset /\ to = Protocol THEN n ELSE 0
           /\ Due(Pull(asset, from, to, n), a, Out) = 0
BY AccountsAssumption DEF Pull, Payments, Due, In, Out

\* A payment that takes money out.
LEMMA PushDue ==
    ASSUME NEW asset \in Assets, NEW to \in Accounts, NEW n \in Nat, NEW a \in Assets
    PROVE  /\ Push(asset, to, n) \in Payments
           /\ Due(Push(asset, to, n), a, In) = 0
           /\ Due(Push(asset, to, n), a, Out) = IF a = asset THEN n ELSE 0
BY DEF Push, Payments, Due, In, Out

\* Ether that the protocol wraps.
LEMMA WrapDue ==
    ASSUME NEW from \in Users, NEW n \in Nat, NEW a \in Assets
    PROVE  /\ Wrap(from, n) \in Payments
           /\ Due(Wrap(from, n), a, In) = IF a = WETH THEN n ELSE 0
           /\ Due(Wrap(from, n), a, Out) = 0
BY AssetsAssumption DEF Wrap, Payments, Due, In, Out

\* Tokens are no money.
LEMMA NFTDue ==
    ASSUME NEW collection \in Collections, NEW from \in Accounts, NEW to \in Accounts,
           NEW id \in Nat, NEW a
    PROVE  /\ MoveNFT(collection, from, to, id) \in TokenMoves
           /\ Due(MoveNFT(collection, from, to, id), a, In) = 0
           /\ Due(MoveNFT(collection, from, to, id), a, Out) = 0
BY DEF MoveNFT, TokenMoves, Due, In, Out

\* A list of one external call.
LEMMA OneDue ==
    ASSUME NEW t \in Payments \cup TokenMoves, NEW a \in Assets, NEW kinds \in {In, Out}
    PROVE  <<t>> \in Todos /\ DueOf(<<t>>, a, kinds) = Due(t, a, kinds)
<1>1. PICK E : E = Payments \cup TokenMoves
  OBVIOUS
<1>2. PICK todo : todo = <<t>>
  OBVIOUS
<1>3. todo \in Seq(E) /\ Len(todo) = 1 /\ todo[1] = t
  BY <1>1, <1>2
<1>4. todo \in Todos
  BY <1>1, <1>3 DEF Todos
<1>5. DueOf(todo, a, kinds) = Due(todo[1], a, kinds)
  BY <1>3, <1>4, DueOfEntries
<1> QED
  BY <1>2, <1>3, <1>4, <1>5

\* A payment of nothing pays nothing, made or not.
LEMMA PaymentDue ==
    ASSUME NEW t \in Payments, NEW a \in Assets, NEW kinds \in {In, Out}
    PROVE  /\ UnlessNothing(t) \in Todos /\ Len(UnlessNothing(t)) <= 1
           /\ DueOf(UnlessNothing(t), a, kinds) = Due(t, a, kinds)
<1>1. t \in Payments \cup TokenMoves /\ t.n \in Nat
  BY DEF Payments
<1>2. CASE t.n > 0
  <2>1. UnlessNothing(t) = <<t>>
    BY <1>2 DEF UnlessNothing
  <2>2. <<t>> \in Todos /\ DueOf(<<t>>, a, kinds) = Due(t, a, kinds)
    BY <1>1, OneDue
  <2>3. Len(<<t>>) = 1
    OBVIOUS
  <2> QED
    BY <2>1, <2>2, <2>3
<1>3. CASE ~(t.n > 0)
  <2>1. UnlessNothing(t) = <<>>
    BY <1>3 DEF UnlessNothing
  <2>2. <<>> \in Todos /\ Len(<<>>) = 0
    BY EmptySeq DEF Todos
  <2>3. DueOf(<<>>, a, kinds) = 0
    BY <2>2, DueOfEntries
  <2>4. Due(t, a, kinds) = 0
    BY <1>1, <1>3 DEF Due
  <2> QED
    BY <2>1, <2>2, <2>3, <2>4
<1> QED
  BY <1>2, <1>3

\* Two lists of one external call, or none, made one after the other.
LEMMA TwoDue ==
    ASSUME NEW s \in Todos, NEW t \in Todos, Len(s) <= 1, Len(t) <= 1, NEW a \in Assets,
           NEW kinds \in {In, Out}
    PROVE  /\ s \o t \in Todos
           /\ DueOf(s \o t, a, kinds) = DueOf(s, a, kinds) + DueOf(t, a, kinds)
<1>1. PICK E : E = Payments \cup TokenMoves
  OBVIOUS
<1>2. s \in Seq(E) /\ t \in Seq(E)
  BY <1>1 DEF Todos
<1>3. PICK m \in Nat : m = Len(s)
  BY <1>2, LenProperties
<1>4. PICK n \in Nat : n = Len(t)
  BY <1>2, LenProperties
<1>5. PICK both : both = s \o t
  OBVIOUS
<1>6. /\ both \in Seq(E) /\ Len(both) = m + n
      /\ \A i \in 1 .. m + n : both[i] = IF i <= m THEN s[i] ELSE t[i - m]
  BY <1>2, <1>3, <1>4, <1>5, ConcatProperties
<1>7. m \in {0, 1} /\ n \in {0, 1}
  BY <1>3, <1>4
<1>8. both \in Todos
  BY <1>1, <1>6, <1>7 DEF Todos
<1>9. DueOf(s, a, kinds) \in Nat /\ DueOf(t, a, kinds) \in Nat
  BY DueOfEntries
<1>10. DueOf(both, a, kinds) = DueOf(s, a, kinds) + DueOf(t, a, kinds)
  <2>1. CASE m = 0
    <3>1. both = t /\ DueOf(s, a, kinds) = 0
      <4>1. \A i \in 1 .. n : both[i] = t[i]
        BY <1>4, <1>6, <2>1
      <4>2. Len(both) = n
        BY <1>4, <1>6, <2>1
      <4>3. both = t
        BY <1>2, <1>4, <1>6, <4>1, <4>2, SeqEqual
      <4> QED
        BY <1>3, <2>1, <4>3, DueOfEntries
    <3> QED
      BY <1>9, <3>1
  <2>2. CASE m = 1 /\ n = 0
    <3>1. both = s /\ DueOf(t, a, kinds) = 0
      <4>1. \A i \in 1 .. m : both[i] = s[i]
        BY <1>3, <1>6, <2>2
      <4>2. Len(both) = m
        BY <1>3, <1>6, <2>2
      <4>3. both = s
        BY <1>2, <1>3, <1>6, <4>1, <4>2, SeqEqual
      <4> QED
        BY <1>4, <2>2, <4>3, DueOfEntries
    <3> QED
      BY <1>9, <3>1
  <2>3. CASE m = 1 /\ n = 1
    <3>1. Len(both) = 2 /\ both[1] = s[1] /\ both[2] = t[1]
      BY <1>6, <2>3
    <3>2. DueOf(both, a, kinds) = Due(both[1], a, kinds) + Due(both[2], a, kinds)
      BY <1>8, <3>1, DueOfEntries
    <3>3. DueOf(s, a, kinds) = Due(s[1], a, kinds) /\ DueOf(t, a, kinds) = Due(t[1], a, kinds)
      BY <1>3, <1>4, <2>3, DueOfEntries
    <3> QED
      BY <3>1, <3>2, <3>3
  <2> QED
    BY <1>7, <2>1, <2>2, <2>3
<1> QED
  BY <1>5, <1>8, <1>10

------------------------------------------------------------------------------
(* What the calls store.                                                     *)

\* A call, with what was checked of it and what it stored.
CallCases(call) ==
    \/ \E sender \in Users, order \in Orders, value \in Nat :
          /\ call = [op |-> "matchOrder", sender |-> sender, order |-> order,
                     value |-> value]
          /\ MatchEffects(call)
    \/ \E sender \in Users, order \in Orders, tokenId \in TokenIds :
          /\ call = [op |-> "settleContract", sender |-> sender, order |-> order,
                     tokenId |-> tokenId]
          /\ SettleEffects(call)
    \/ \E order \in Orders :
          /\ call = [op |-> "reclaimContract", order |-> order]
          /\ ReclaimEffects(call)
    \/ \E sender \in Users, sellOrder \in SellOrders, tip \in Nat, value \in Nat :
          /\ call = [op |-> "buyPosition", sender |-> sender, sellOrder |-> sellOrder,
                     tipAmount |-> tip, value |-> value]
          /\ BuyEffects(call)
    \/ \E sender \in Users, order \in Orders, isBull \in BOOLEAN, recipient \in Accounts :
          /\ call = [op |-> "transferPosition", sender |-> sender, order |-> order,
                     isBull |-> isBull, recipient |-> recipient]
          /\ TransferPosition(sender, order, isBull, recipient)
    \/ \E sender \in Users, asset \in Assets, recipient \in Accounts :
          /\ call = [op |-> "withdrawFees", sender |-> sender, asset |-> asset,
                     recipient |-> recipient]
          /\ WithdrawEffects(call)

\* The effects of a call are those of its function.
LEMMA EffectsCases == ASSUME NEW call \in ACall, Effects(call) PROVE CallCases(call)
<1>1. CASE call \in [op : {"matchOrder"}, sender : Users, order : Orders, value : Nat]
  BY <1>1 DEF Effects, CallCases
<1>2. CASE call \in [op : {"settleContract"}, sender : Users, order : Orders,
                     tokenId : TokenIds]
  BY <1>2 DEF Effects, CallCases
<1>3. CASE call \in [op : {"reclaimContract"}, order : Orders]
  BY <1>3 DEF Effects, CallCases
<1>4. CASE call \in [op : {"buyPosition"}, sender : Users, sellOrder : SellOrders,
                     tipAmount : Nat, value : Nat]
  BY <1>4 DEF Effects, CallCases
<1>5. CASE call \in [op : {"transferPosition"}, sender : Users, order : Orders,
                     isBull : BOOLEAN, recipient : Accounts]
  BY <1>5 DEF Effects, CallCases
<1>6. CASE call \in [op : {"withdrawFees"}, sender : Users, asset : Assets,
                     recipient : Accounts]
  BY <1>6 DEF Effects, CallCases
<1> QED
  BY <1>1, <1>2, <1>3, <1>4, <1>5, <1>6 DEF ACall

\* What a call stores before its external calls is well-typed and in order, and moves
\* nothing yet.
LEMMA EffectsType ==
    ASSUME TypeOK, OutcomesInOrder, NEW call \in ACall, Effects(call)
    PROVE  TypeOK' /\ OutcomesInOrder' /\ UNCHANGED <<now, tokenVars>>
<1>0. CallCases(call)
  BY EffectsCases
<1>1. UNCHANGED <<now, tokenVars>>
  BY DEF Effects, MatchEffects, SettleEffects, ReclaimEffects, BuyEffects,
         TransferPosition, WithdrawEffects
<1>2. TokenTypeOK'
  BY <1>1 DEF tokenVars, TypeOK, TokenTypeOK
<1>3. /\ now \in Nat /\ \A order \in Orders : order.expiry \in Nat
      /\ bulls \in [Orders -> Accounts \cup {NoOne}]
      /\ bears \in [Orders -> Accounts \cup {NoOne}]
      /\ NoOne \notin Accounts /\ Users \subseteq Accounts
      /\ \A order \in Orders : order.maker \in Accounts /\ order.asset \in Assets
      /\ matchedOrders \subseteq Orders /\ reclaimedContracts \subseteq Orders
  BY CallsAssumption, OrdersAssumption DEF TypeOK, ProtocolTypeOK, OrderType, Accounts
<1>4. ASSUME NEW sender \in Users, NEW order \in Orders, NEW value \in Nat,
             call = [op |-> "matchOrder", sender |-> sender, order |-> order,
                     value |-> value],
             MatchEffects(call)
      PROVE  ProtocolTypeOK' /\ OutcomesInOrder'
  <2>1. MatchRequires(order, value) /\ RecordMatch(sender, order)
    BY <1>4 DEF MatchEffects
  <2>2. UNCHANGED <<now, ownerVars, settledContracts, reclaimedContracts,
                    claimableTokenId, revocationVars, boughtSellOrders>>
    BY <1>4 DEF MatchEffects
  <2>3. withdrawableFees' \in [Assets -> 0 .. MaxUint]
    <3>1. /\ order.asset \in Assets /\ BullFees(order) \in Nat /\ BearFees(order) \in Nat
      BY PriceTypes
    <3>2. withdrawableFees[order.asset] \in Nat
      BY <3>1, AssetsAssumption DEF TypeOK, ProtocolTypeOK
    <3>3. withdrawableFees[order.asset] + BullFees(order) + BearFees(order) \in 0 .. MaxUint
      BY <2>1, <3>1, <3>2, AssetsAssumption DEF MatchRequires, PricesFit
    <3> QED
      BY <2>1, <3>1, <3>3 DEF RecordMatch, TypeOK, ProtocolTypeOK
  <2>4. /\ bulls' \in [Orders -> Accounts \cup {NoOne}]
        /\ bears' \in [Orders -> Accounts \cup {NoOne}]
        /\ bulls'[order] \in Accounts /\ bears'[order] \in Accounts
    BY <1>3, <2>1 DEF RecordMatch
  <2>5. ProtocolTypeOK'
    BY <2>1, <2>2, <2>3, <2>4
       DEF RecordMatch, TypeOK, ProtocolTypeOK, ownerVars, revocationVars
  <2>6. OutcomesInOrder'
    BY <1>3, <2>1, <2>2, <2>4 DEF RecordMatch, OutcomesInOrder
  <2> QED
    BY <2>5, <2>6
<1>5. ASSUME NEW sender \in Users, NEW order \in Orders, NEW tokenId \in TokenIds,
             call = [op |-> "settleContract", sender |-> sender, order |-> order,
                     tokenId |-> tokenId],
             SettleEffects(call)
      PROVE  ProtocolTypeOK' /\ OutcomesInOrder'
  <2>1. /\ SettleRequires(sender, order)
        /\ settledContracts' = settledContracts \cup {order}
        /\ claimableTokenId' = [claimableTokenId EXCEPT ![order] = tokenId]
        /\ UNCHANGED <<now, ownerVars, withdrawableFees, matchedOrders, reclaimedContracts,
                       positionVars, revocationVars, boughtSellOrders>>
    BY <1>5 DEF SettleEffects
  <2>2. order \in matchedOrders
    BY <1>3, <2>1 DEF SettleRequires, OutcomesInOrder
  <2>3. ProtocolTypeOK'
    BY <2>1 DEF TypeOK, ProtocolTypeOK, ownerVars, positionVars, revocationVars
  <2>4. OutcomesInOrder'
    BY <2>1, <2>2 DEF OutcomesInOrder, positionVars
  <2> QED
    BY <2>3, <2>4
<1>6. ASSUME NEW order \in Orders, call = [op |-> "reclaimContract", order |-> order],
             ReclaimEffects(call)
      PROVE  ProtocolTypeOK' /\ OutcomesInOrder'
  <2>1. /\ ReclaimRequires(order)
        /\ order \in settledContracts \/ Expired(order)
        /\ reclaimedContracts' = reclaimedContracts \cup {order}
        /\ UNCHANGED <<now, ownerVars, withdrawableFees, matchedOrders, settledContracts,
                       claimableTokenId, positionVars, revocationVars, boughtSellOrders>>
    BY <1>6 DEF ReclaimEffects
  <2>2. ProtocolTypeOK'
    BY <2>1 DEF TypeOK, ProtocolTypeOK, ownerVars, positionVars, revocationVars
  <2>3. OutcomesInOrder'
    BY <1>3, <2>1 DEF OutcomesInOrder, ReclaimRequires, Expired, positionVars
  <2> QED
    BY <2>2, <2>3
<1>7. ASSUME NEW sender \in Users, NEW sellOrder \in SellOrders, NEW tip \in Nat,
             NEW value \in Nat,
             call = [op |-> "buyPosition", sender |-> sender, sellOrder |-> sellOrder,
                     tipAmount |-> tip, value |-> value],
             BuyEffects(call)
      PROVE  ProtocolTypeOK' /\ OutcomesInOrder'
  <2>1. /\ BuyRequires(sender, sellOrder, tip) /\ RecordSale(sender, sellOrder)
        /\ UNCHANGED <<now, ownerVars, withdrawableFees, contractVars, revocationVars>>
    BY <1>7 DEF BuyEffects
  <2>2. /\ sellOrder.orderHash \in Orders /\ sellOrder.maker \in Accounts
        /\ sellOrder.isBull \in BOOLEAN /\ sender \in Accounts
    BY SellOrderTypes DEF Accounts
  <2>3. sellOrder.orderHash \in matchedOrders
    BY <1>3, <2>1, <2>2
       DEF BuyRequires, CheckIsValidSellOrder, PositionForSale, OutcomesInOrder
  <2>4. ProtocolTypeOK'
    BY <2>1, <2>2
       DEF RecordSale, TypeOK, ProtocolTypeOK, ownerVars, contractVars, revocationVars
  <2>5. OutcomesInOrder'
    BY <1>3, <2>1, <2>2, <2>3 DEF RecordSale, OutcomesInOrder, contractVars
  <2> QED
    BY <2>4, <2>5
<1>8. ASSUME NEW sender \in Users, NEW order \in Orders, NEW isBull \in BOOLEAN,
             NEW recipient \in Accounts, TransferPosition(sender, order, isBull, recipient)
      PROVE  ProtocolTypeOK' /\ OutcomesInOrder'
  <2>1. ProtocolTypeOK'
    BY <1>8, TransferPositionType DEF TypeOK
  <2>2. OutcomesInOrder'
    BY <1>3, <1>8 DEF TransferPosition, HoldsPosition, OutcomesInOrder, contractVars
  <2> QED
    BY <2>1, <2>2
<1>9. ASSUME NEW sender \in Users, NEW asset \in Assets, NEW recipient \in Accounts,
             call = [op |-> "withdrawFees", sender |-> sender, asset |-> asset,
                     recipient |-> recipient],
             WithdrawEffects(call)
      PROVE  ProtocolTypeOK' /\ OutcomesInOrder'
  <2>1. /\ withdrawableFees' = FeesCleared(asset)
        /\ UNCHANGED <<now, ownerVars, contractVars, positionVars, revocationVars,
                       boughtSellOrders>>
    BY <1>9 DEF WithdrawEffects
  <2>2. ProtocolTypeOK'
    BY <2>1, AssetsAssumption
       DEF FeesCleared, TypeOK, ProtocolTypeOK, ownerVars, contractVars, positionVars,
           revocationVars
  <2>3. OutcomesInOrder'
    BY <2>1 DEF OutcomesInOrder, contractVars, positionVars
  <2> QED
    BY <2>2, <2>3
<1>10. ProtocolTypeOK' /\ OutcomesInOrder'
  BY <1>0, <1>4, <1>5, <1>6, <1>7, <1>8, <1>9 DEF CallCases
<1> QED
  BY <1>1, <1>2, <1>10 DEF TypeOK

------------------------------------------------------------------------------
(* Every call pays for itself.                                               *)

\* What the step does to the books of an asset is covered by what the external calls
\* bring in and take out.
PaidBy(transfers, a) ==
    /\ transfers \in Todos
    /\ withdrawableFees'[a] + Locked(a)' + DueOf(transfers, a, Out)
           <= withdrawableFees[a] + Locked(a) + DueOf(transfers, a, In)

\* What is locked is a number, and is kept when no contract starts or ends.
LEMMA LockedType ==
    ASSUME TypeOK, NEW a \in Assets
    PROVE  /\ Locked(a) \in Nat
           /\ UNCHANGED LiveContracts => Locked(a)' = Locked(a)
<1>1. LiveOn(a) \in SUBSET Orders
  BY DEF LiveOn, LiveContracts, TypeOK, ProtocolTypeOK
<1>2. Escrow(LiveOn(a)) \in Nat
  BY <1>1, EscrowType
<1>3. UNCHANGED LiveContracts => LiveOn(a)' = LiveOn(a)
  BY DEF LiveOn
<1> QED
  BY <1>2, <1>3 DEF Locked, LiveOn

\* A contract that ends frees its stake.
LEMMA EndingFreesTheStake ==
    ASSUME TypeOK, NEW order \in LiveContracts, LiveContracts' = LiveContracts \ {order},
           NEW a \in Assets
    PROVE  /\ Locked(a)' \in Nat
           /\ Locked(a) = Locked(a)' + IF a = order.asset THEN Stake(order) ELSE 0
<1>1. LiveOn(a) \in SUBSET Orders
  BY DEF LiveOn, LiveContracts, TypeOK, ProtocolTypeOK
<1>2. PICK S \in SUBSET Orders : S = LiveOn(a)
  BY <1>1
<1>3. PICK R : R = LiveOn(a)'
  OBVIOUS
<1>4. Locked(a) = Escrow(S) /\ Locked(a)' = Escrow(R)
  BY <1>2, <1>3 DEF Locked, LiveOn
<1>5. CASE a = order.asset
  <2>1. R = S \ {order} /\ order \in S
    BY <1>2, <1>3, <1>5 DEF LiveOn
  <2>2. Escrow(S) = Escrow(S \ {order}) + Stake(order)
    BY <2>1, EscrowRemove
  <2>3. S \ {order} \in SUBSET Orders
    OBVIOUS
  <2>4. Escrow(S \ {order}) \in Nat
    BY <2>3, EscrowType
  <2> QED
    BY <1>4, <1>5, <2>1, <2>2, <2>4
<1>6. CASE a # order.asset
  <2>1. R = S
    BY <1>2, <1>3, <1>6 DEF LiveOn
  <2>2. Escrow(S) \in Nat
    BY EscrowType
  <2> QED
    BY <1>4, <1>6, <2>1, <2>2
<1> QED
  BY <1>5, <1>6

\* A contract that starts locks its stake.
LEMMA StartingLocksTheStake ==
    ASSUME TypeOK, NEW order \in Orders, order \notin LiveContracts,
           LiveContracts' = LiveContracts \cup {order}, NEW a \in Assets
    PROVE  /\ Locked(a) \in Nat
           /\ Locked(a)' = Locked(a) + IF a = order.asset THEN Stake(order) ELSE 0
<1>1. LiveOn(a) \in SUBSET Orders
  BY DEF LiveOn, LiveContracts, TypeOK, ProtocolTypeOK
<1>2. PICK S \in SUBSET Orders : S = LiveOn(a)
  BY <1>1
<1>3. PICK R : R = LiveOn(a)'
  OBVIOUS
<1>4. Locked(a) = Escrow(S) /\ Locked(a)' = Escrow(R)
  BY <1>2, <1>3 DEF Locked, LiveOn
<1>5. Escrow(S) \in Nat
  BY EscrowType
<1>6. CASE a = order.asset
  <2>1. R = S \cup {order} /\ order \notin S
    BY <1>2, <1>3, <1>6 DEF LiveOn
  <2>2. Escrow(S \cup {order}) = Escrow(S) + Stake(order)
    BY <2>1, EscrowAdd
  <2> QED
    BY <1>4, <1>5, <1>6, <2>1, <2>2
<1>7. CASE a # order.asset
  <2>1. R = S
    BY <1>2, <1>3, <1>7 DEF LiveOn
  <2> QED
    BY <1>4, <1>5, <1>7, <2>1
<1> QED
  BY <1>6, <1>7

\* matchOrder collects the stake and the fees it books.
LEMMA MatchIsPaid ==
    ASSUME TypeOK, OutcomesInOrder, NEW sender \in Users, NEW order \in Orders,
           NEW value \in Nat, NEW call,
           call = [op |-> "matchOrder", sender |-> sender, order |-> order, value |-> value],
           MatchEffects(call), NEW a \in Assets
    PROVE  PaidBy(Transfers(call), a)
<1>1. /\ MatchRequires(order, value) /\ RecordMatch(sender, order)
      /\ UNCHANGED <<settledContracts, reclaimedContracts>>
  BY DEF MatchEffects
<1>2. /\ order.asset \in Assets /\ order.maker \in Users
      /\ BullFees(order) \in Nat /\ BearFees(order) \in Nat
      /\ TakerPrice(order) \in Nat /\ MakerPrice(order) \in Nat /\ Stake(order) \in Nat
      /\ TakerPrice(order) + MakerPrice(order)
             = Stake(order) + BullFees(order) + BearFees(order)
  BY PriceTypes, StakeType, PricesAreStakeAndFees
<1>3. /\ LiveContracts' = LiveContracts \cup {order} /\ order \notin LiveContracts
  BY <1>1 DEF MatchRequires, RecordMatch, CheckIsValidOrder, OutcomesInOrder, LiveContracts
<1>4. /\ Locked(a) \in Nat
      /\ Locked(a)' = Locked(a) + IF a = order.asset THEN Stake(order) ELSE 0
  BY <1>3, StartingLocksTheStake
<1>5. /\ withdrawableFees[a] \in Nat
      /\ withdrawableFees'[a] = IF a = order.asset
                                THEN withdrawableFees[a] + BullFees(order) + BearFees(order)
                                ELSE withdrawableFees[a]
  BY <1>1, AssetsAssumption DEF RecordMatch, TypeOK, ProtocolTypeOK
<1>6. PICK p : p = IF value > 0 THEN Wrap(sender, value)
                   ELSE Pull(order.asset, sender, Protocol, TakerPrice(order))
  OBVIOUS
<1>7. /\ p \in Payments /\ Due(p, a, Out) = 0
      /\ Due(p, a, In) = IF a = order.asset THEN TakerPrice(order) ELSE 0
  <2>1. CASE value > 0
    <3>1. value = TakerPrice(order) /\ order.asset = WETH
      BY <1>1, <2>1 DEF MatchRequires
    <3>2. p = Wrap(sender, value)
      BY <1>6, <2>1
    <3> QED
      BY <3>1, <3>2, WrapDue
  <2>2. CASE ~(value > 0)
    <3>1. p = Pull(order.asset, sender, Protocol, TakerPrice(order)) /\ Protocol \in Accounts
      BY <1>6, <2>2 DEF Accounts
    <3> QED
      BY <1>2, <3>1, PullDue
  <2> QED
    BY <2>1, <2>2
<1>8. PICK q : q = Pull(order.asset, order.maker, Protocol, MakerPrice(order))
  OBVIOUS
<1>9. /\ q \in Payments /\ Due(q, a, Out) = 0
      /\ Due(q, a, In) = IF a = order.asset THEN MakerPrice(order) ELSE 0
  <2>1. Protocol \in Accounts
    BY DEF Accounts
  <2> QED
    BY <1>2, <1>8, <2>1, PullDue
<1>10. Transfers(call) = UnlessNothing(p) \o UnlessNothing(q)
  BY <1>6, <1>8 DEF Transfers, MatchTransfers
<1>11. In \in {In, Out} /\ Out \in {In, Out}
  OBVIOUS
<1>12. /\ UnlessNothing(p) \in Todos /\ Len(UnlessNothing(p)) <= 1
       /\ DueOf(UnlessNothing(p), a, In) = Due(p, a, In)
       /\ DueOf(UnlessNothing(p), a, Out) = Due(p, a, Out)
  BY <1>7, <1>11, PaymentDue
<1>13. /\ UnlessNothing(q) \in Todos /\ Len(UnlessNothing(q)) <= 1
       /\ DueOf(UnlessNothing(q), a, In) = Due(q, a, In)
       /\ DueOf(UnlessNothing(q), a, Out) = Due(q, a, Out)
  BY <1>9, <1>11, PaymentDue
<1>14. PICK s \in Todos : s = UnlessNothing(p)
  BY <1>12
<1>15. PICK t \in Todos : t = UnlessNothing(q)
  BY <1>13
<1>16. /\ s \o t \in Todos
       /\ DueOf(s \o t, a, In) = DueOf(s, a, In) + DueOf(t, a, In)
       /\ DueOf(s \o t, a, Out) = DueOf(s, a, Out) + DueOf(t, a, Out)
  BY <1>11, <1>12, <1>13, <1>14, <1>15, TwoDue
<1>17. /\ Transfers(call) \in Todos
       /\ DueOf(Transfers(call), a, In) = Due(p, a, In) + Due(q, a, In)
       /\ DueOf(Transfers(call), a, Out) = Due(p, a, Out) + Due(q, a, Out)
  BY <1>10, <1>12, <1>13, <1>14, <1>15, <1>16
<1> QED
  <2>1. CASE a = order.asset
    BY <1>2, <1>4, <1>5, <1>7, <1>9, <1>17, <2>1 DEF PaidBy
  <2>2. CASE a # order.asset
    BY <1>4, <1>5, <1>7, <1>9, <1>17, <2>2 DEF PaidBy
  <2> QED
    BY <2>1, <2>2

\* settleContract ends a live contract and sends out its stake.
LEMMA SettlementIsPaid ==
    ASSUME TypeOK, OutcomesInOrder, NEW sender \in Users, NEW order \in Orders,
           NEW tokenId \in TokenIds, NEW call,
           call = [op |-> "settleContract", sender |-> sender, order |-> order,
                   tokenId |-> tokenId],
           SettleEffects(call), NEW a \in Assets
    PROVE  PaidBy(Transfers(call), a)
<1>1. /\ SettleRequires(sender, order)
      /\ settledContracts' = settledContracts \cup {order}
      /\ UNCHANGED <<withdrawableFees, matchedOrders, reclaimedContracts>>
  BY DEF SettleEffects
<1>2. /\ now \in Nat /\ order.expiry \in Nat /\ sender \in Accounts
      /\ order.asset \in Assets /\ order.collection \in Collections
      /\ Stake(order) \in Nat /\ Protocol \in Accounts /\ tokenId \in Nat
      /\ order \in matchedOrders /\ order \notin settledContracts
  BY <1>1, CallsAssumption, OrdersAssumption, AssetsAssumption, StakeType
     DEF SettleRequires, OutcomesInOrder, TypeOK, ProtocolTypeOK, OrderType, Accounts
<1>3. order \notin reclaimedContracts
  BY <1>1, <1>2 DEF SettleRequires, OutcomesInOrder
<1>4. order \in LiveContracts /\ LiveContracts' = LiveContracts \ {order}
  BY <1>1, <1>2, <1>3 DEF LiveContracts
<1>5. /\ Locked(a)' \in Nat
      /\ Locked(a) = Locked(a)' + IF a = order.asset THEN Stake(order) ELSE 0
  BY <1>4, EndingFreesTheStake
<1>6. withdrawableFees[a] \in Nat /\ withdrawableFees'[a] = withdrawableFees[a]
  BY <1>1, AssetsAssumption DEF TypeOK, ProtocolTypeOK
<1>7. PICK p : p = MoveNFT(order.collection, sender, Protocol, tokenId)
  OBVIOUS
<1>8. p \in TokenMoves /\ Due(p, a, In) = 0 /\ Due(p, a, Out) = 0
  BY <1>2, <1>7, NFTDue
<1>9. PICK q : q = Push(order.asset, sender, Stake(order))
  OBVIOUS
<1>10. /\ q \in Payments /\ Due(q, a, In) = 0
       /\ Due(q, a, Out) = IF a = order.asset THEN Stake(order) ELSE 0
  BY <1>2, <1>9, PushDue
<1>11. Transfers(call) = <<p>> \o UnlessNothing(q)
  BY <1>7, <1>9 DEF Transfers, SettleTransfers
<1>12. In \in {In, Out} /\ Out \in {In, Out} /\ p \in Payments \cup TokenMoves
  BY <1>8
<1>13. /\ <<p>> \in Todos /\ DueOf(<<p>>, a, In) = 0 /\ DueOf(<<p>>, a, Out) = 0
  BY <1>8, <1>12, OneDue
<1>14. /\ UnlessNothing(q) \in Todos /\ Len(UnlessNothing(q)) <= 1
       /\ DueOf(UnlessNothing(q), a, In) = Due(q, a, In)
       /\ DueOf(UnlessNothing(q), a, Out) = Due(q, a, Out)
  BY <1>10, <1>12, PaymentDue
<1>15. PICK s : s = <<p>>
  OBVIOUS
<1>16. s \in Todos /\ Len(s) <= 1
  <2>1. Len(s) = 1
    BY <1>15
  <2>2. s \in Todos
    BY <1>13, <1>15
  <2> QED
    BY <2>1, <2>2
<1>17. PICK t \in Todos : t = UnlessNothing(q)
  BY <1>14
<1>18. /\ s \o t \in Todos
       /\ DueOf(s \o t, a, In) = DueOf(s, a, In) + DueOf(t, a, In)
       /\ DueOf(s \o t, a, Out) = DueOf(s, a, Out) + DueOf(t, a, Out)
  BY <1>12, <1>14, <1>17, <1>16, TwoDue
<1>19. /\ Transfers(call) \in Todos
       /\ DueOf(Transfers(call), a, In) = 0
       /\ DueOf(Transfers(call), a, Out) = Due(q, a, Out)
  <2>1. PICK both : both = s \o t
    OBVIOUS
  <2>2. Transfers(call) = both
    BY <1>11, <1>15, <1>17, <2>1
  <2>3. DueOf(s, a, In) = 0 /\ DueOf(s, a, Out) = 0
    BY <1>13, <1>15
  <2>4. DueOf(t, a, In) = 0 /\ DueOf(t, a, Out) = Due(q, a, Out)
    BY <1>10, <1>14, <1>17
  <2>5. PICK due \in Nat : due = Due(q, a, Out)
    BY <1>2, <1>10
  <2>6. both \in Todos /\ DueOf(both, a, In) = 0 + 0 /\ DueOf(both, a, Out) = 0 + due
    BY <1>18, <2>1, <2>3, <2>4, <2>5
  <2> QED
    BY <2>2, <2>5, <2>6
<1> QED
  <2>1. CASE a = order.asset
    BY <1>2, <1>5, <1>6, <1>10, <1>19, <2>1 DEF PaidBy
  <2>2. CASE a # order.asset
    BY <1>5, <1>6, <1>10, <1>19, <2>2 DEF PaidBy
  <2> QED
    BY <2>1, <2>2

\* A call without external calls that leaves the books of an asset alone.
LEMMA NothingToPay ==
    ASSUME TypeOK, NEW a \in Assets, NEW transfers \in Todos,
           UNCHANGED LiveContracts, withdrawableFees'[a] = withdrawableFees[a],
           DueOf(transfers, a, Out) <= DueOf(transfers, a, In)
    PROVE  PaidBy(transfers, a)
<1>1. withdrawableFees[a] \in Nat
  BY AssetsAssumption DEF TypeOK, ProtocolTypeOK
<1>2. Locked(a) \in Nat /\ Locked(a)' = Locked(a)
  BY LockedType
<1>3. DueOf(transfers, a, Out) \in Nat /\ DueOf(transfers, a, In) \in Nat
  BY DueOfEntries
<1> QED
  BY <1>1, <1>2, <1>3 DEF PaidBy

\* reclaimContract sends out the stake of a live contract, or a token.
LEMMA ReclaimIsPaid ==
    ASSUME TypeOK, OutcomesInOrder, NEW order \in Orders, NEW call,
           call = [op |-> "reclaimContract", order |-> order],
           ReclaimEffects(call), NEW a \in Assets
    PROVE  PaidBy(Transfers(call), a)
<1>1. /\ ReclaimRequires(order)
      /\ reclaimedContracts' = reclaimedContracts \cup {order}
      /\ UNCHANGED <<withdrawableFees, matchedOrders, settledContracts>>
  BY DEF ReclaimEffects
<1>2. /\ order.asset \in Assets /\ order.collection \in Collections
      /\ bulls[order] \in Accounts /\ Protocol \in Accounts
      /\ claimableTokenId[order] \in Nat /\ Stake(order) \in Nat
  <2>1. bulls[order] \in Accounts
    BY <1>1 DEF ReclaimRequires, OutcomesInOrder, TypeOK, ProtocolTypeOK
  <2>2. PICK id : id = claimableTokenId[order]
    OBVIOUS
  <2>3. id \in TokenIds \cup {0}
    BY <2>2 DEF TypeOK, ProtocolTypeOK
  <2>4. order.asset \in Assets /\ order.collection \in Collections
    BY OrdersAssumption DEF OrderType
  <2>5. id \in Nat
    BY <2>3, AssetsAssumption
  <2> QED
    BY <2>1, <2>2, <2>4, <2>5, StakeType DEF Accounts
<1>3. withdrawableFees[a] \in Nat /\ withdrawableFees'[a] = withdrawableFees[a]
  BY <1>1, AssetsAssumption DEF TypeOK, ProtocolTypeOK
<1>4. In \in {In, Out} /\ Out \in {In, Out}
  OBVIOUS
<1>5. CASE order \in settledContracts
  <2>1. PICK p : p = MoveNFT(order.collection, Protocol, bulls[order],
                             claimableTokenId[order])
    OBVIOUS
  <2>2. p \in TokenMoves /\ Due(p, a, In) = 0 /\ Due(p, a, Out) = 0
    BY <1>2, <2>1, NFTDue
  <2>3. p \in Payments \cup TokenMoves
    BY <2>2
  <2>4. /\ <<p>> \in Todos /\ DueOf(<<p>>, a, In) = 0 /\ DueOf(<<p>>, a, Out) = 0
    BY <1>4, <2>2, <2>3, OneDue
  <2>5. Transfers(call) = <<p>>
    BY <1>5, <2>1 DEF Transfers, ReclaimTransfers
  <2>6. UNCHANGED LiveContracts
    BY <1>1, <1>5 DEF LiveContracts
  <2> QED
    BY <1>3, <2>4, <2>5, <2>6, NothingToPay
<1>6. CASE order \notin settledContracts
  <2>1. PICK q : q = Push(order.asset, bulls[order], Stake(order))
    OBVIOUS
  <2>2. /\ q \in Payments /\ Due(q, a, In) = 0
        /\ Due(q, a, Out) = IF a = order.asset THEN Stake(order) ELSE 0
    BY <1>2, <2>1, PushDue
  <2>3. /\ UnlessNothing(q) \in Todos
        /\ DueOf(UnlessNothing(q), a, In) = Due(q, a, In)
        /\ DueOf(UnlessNothing(q), a, Out) = Due(q, a, Out)
    BY <1>4, <2>2, PaymentDue
  <2>4. Transfers(call) = UnlessNothing(q)
    BY <1>6, <2>1 DEF Transfers, ReclaimTransfers
  <2>5. order \in LiveContracts /\ LiveContracts' = LiveContracts \ {order}
    BY <1>1, <1>6 DEF LiveContracts, ReclaimRequires
  <2>6. /\ Locked(a)' \in Nat
        /\ Locked(a) = Locked(a)' + IF a = order.asset THEN Stake(order) ELSE 0
    BY <2>5, EndingFreesTheStake
  <2>7. CASE a = order.asset
    BY <1>2, <1>3, <2>2, <2>3, <2>4, <2>6, <2>7 DEF PaidBy
  <2>8. CASE a # order.asset
    BY <1>3, <2>2, <2>3, <2>4, <2>6, <2>8 DEF PaidBy
  <2> QED
    BY <2>7, <2>8
<1> QED
  BY <1>5, <1>6

\* buyPosition passes what the buyer pays on to the seller.
LEMMA SaleIsPaid ==
    ASSUME TypeOK, NEW sender \in Users, NEW sellOrder \in SellOrders, NEW tip \in Nat,
           NEW value \in Nat, NEW call,
           call = [op |-> "buyPosition", sender |-> sender, sellOrder |-> sellOrder,
                   tipAmount |-> tip, value |-> value],
           BuyEffects(call), NEW a \in Assets
    PROVE  PaidBy(Transfers(call), a)
<1>1. UNCHANGED LiveContracts /\ withdrawableFees'[a] = withdrawableFees[a]
  BY DEF BuyEffects, contractVars, LiveContracts
<1>2. /\ sellOrder.maker \in Users /\ sellOrder.maker \in Accounts
      /\ sellOrder.asset \in Assets /\ sellOrder.price \in Nat
      /\ sellOrder.maker # Protocol /\ WETH \in Assets
  BY SellOrderTypes, AccountsAssumption, AssetsAssumption
<1>3. In \in {In, Out} /\ Out \in {In, Out}
  OBVIOUS
<1>4. CASE value > 0
  <2>1. PICK p : p = Wrap(sender, value)
    OBVIOUS
  <2>2. PICK q : q = Push(WETH, sellOrder.maker, value)
    OBVIOUS
  <2>3. /\ p \in Payments /\ Due(p, a, Out) = 0
        /\ Due(p, a, In) = IF a = WETH THEN value ELSE 0
    BY <2>1, WrapDue
  <2>4. /\ q \in Payments /\ Due(q, a, In) = 0
        /\ Due(q, a, Out) = IF a = WETH THEN value ELSE 0
    BY <1>2, <2>2, PushDue
  <2>5. Transfers(call) = <<p, q>>
    BY <1>4, <2>1, <2>2 DEF Transfers, BuyTransfers
  <2>6. PICK todo : todo = <<p, q>>
    OBVIOUS
  <2>7. todo \in Todos /\ Len(todo) = 2 /\ todo[1] = p /\ todo[2] = q
    <3>1. PICK E : E = Payments \cup TokenMoves
      OBVIOUS
    <3>2. p \in E /\ q \in E
      BY <2>3, <2>4, <3>1
    <3>3. todo \in Seq(E) /\ Len(todo) = 2 /\ todo[1] = p /\ todo[2] = q
      BY <2>6, <3>2
    <3>4. todo \in Seq(E) /\ Len(todo) <= 2
      BY <3>3
    <3>5. todo \in Todos
      BY <3>1, <3>4 DEF Todos
    <3> QED
      BY <3>3, <3>5
  <2>8. /\ DueOf(todo, a, In) = Due(todo[1], a, In) + Due(todo[2], a, In)
        /\ DueOf(todo, a, Out) = Due(todo[1], a, Out) + Due(todo[2], a, Out)
    BY <1>3, <2>7, DueOfEntries
  <2>9. DueOf(todo, a, Out) <= DueOf(todo, a, In)
    BY <2>3, <2>4, <2>7, <2>8
  <2> QED
    BY <1>1, <2>5, <2>6, <2>7, <2>9, NothingToPay
<1>5. CASE ~(value > 0)
  <2>1. PICK price \in Nat : price = sellOrder.price + tip
    BY <1>2
  <2>2. PICK p : p = Pull(sellOrder.asset, sender, sellOrder.maker, price)
    OBVIOUS
  <2>3. p \in Payments /\ Due(p, a, In) = 0 /\ Due(p, a, Out) = 0
    BY <1>2, <2>2, PullDue
  <2>4. /\ UnlessNothing(p) \in Todos
        /\ DueOf(UnlessNothing(p), a, In) = 0
        /\ DueOf(UnlessNothing(p), a, Out) = 0
    BY <1>3, <2>3, PaymentDue
  <2>5. Transfers(call) = UnlessNothing(p)
    BY <1>5, <2>1, <2>2 DEF Transfers, BuyTransfers
  <2> QED
    BY <1>1, <2>4, <2>5, NothingToPay
<1> QED
  BY <1>4, <1>5

\* transferPosition pays nothing.
LEMMA GiftIsPaid ==
    ASSUME TypeOK, NEW sender \in Users, NEW order \in Orders, NEW isBull \in BOOLEAN,
           NEW recipient \in Accounts, NEW call,
           call = [op |-> "transferPosition", sender |-> sender, order |-> order,
                   isBull |-> isBull, recipient |-> recipient],
           TransferPosition(sender, order, isBull, recipient), NEW a \in Assets
    PROVE  PaidBy(Transfers(call), a)
<1>1. UNCHANGED LiveContracts /\ withdrawableFees'[a] = withdrawableFees[a]
  BY DEF TransferPosition, contractVars, LiveContracts
<1>2. In \in {In, Out} /\ Out \in {In, Out} /\ <<>> \in Todos /\ Len(<<>>) = 0
  BY EmptySeq DEF Todos
<1>3. DueOf(<<>>, a, In) = 0 /\ DueOf(<<>>, a, Out) = 0
  BY <1>2, DueOfEntries
<1>4. Transfers(call) = <<>>
  BY DEF Transfers
<1> QED
  BY <1>1, <1>2, <1>3, <1>4, NothingToPay

\* withdrawFees sends out the fees it takes off the books.
LEMMA WithdrawalIsPaid ==
    ASSUME TypeOK, NEW sender \in Users, NEW asset \in Assets, NEW recipient \in Accounts,
           NEW call,
           call = [op |-> "withdrawFees", sender |-> sender, asset |-> asset,
                   recipient |-> recipient],
           WithdrawEffects(call), NEW a \in Assets
    PROVE  PaidBy(Transfers(call), a)
<1>1. UNCHANGED LiveContracts /\ withdrawableFees' = FeesCleared(asset)
  BY DEF WithdrawEffects, contractVars, LiveContracts
<1>2. PICK fees : fees = withdrawableFees[asset]
  OBVIOUS
<1>3. /\ fees \in Nat /\ withdrawableFees[a] \in Nat
      /\ withdrawableFees'[a] = IF a = asset THEN 0 ELSE withdrawableFees[a]
  BY <1>1, <1>2, AssetsAssumption DEF FeesCleared, TypeOK, ProtocolTypeOK
<1>4. Locked(a) \in Nat /\ Locked(a)' = Locked(a)
  BY <1>1, LockedType
<1>5. In \in {In, Out} /\ Out \in {In, Out}
  OBVIOUS
<1>6. PICK p : p = Push(asset, recipient, fees)
  OBVIOUS
<1>7. /\ p \in Payments /\ Due(p, a, In) = 0
      /\ Due(p, a, Out) = IF a = asset THEN fees ELSE 0
  BY <1>3, <1>6, PushDue
<1>8. p \in Payments \cup TokenMoves
  BY <1>7
<1>9. /\ <<p>> \in Todos
      /\ DueOf(<<p>>, a, In) = Due(p, a, In) /\ DueOf(<<p>>, a, Out) = Due(p, a, Out)
  BY <1>5, <1>8, OneDue
<1>10. Transfers(call) = <<p>>
  BY <1>2, <1>6 DEF Transfers
<1> QED
  <2>1. CASE a = asset
    BY <1>2, <1>3, <1>4, <1>7, <1>9, <1>10, <2>1 DEF PaidBy
  <2>2. CASE a # asset
    BY <1>3, <1>4, <1>7, <1>9, <1>10, <2>2 DEF PaidBy
  <2> QED
    BY <2>1, <2>2

\* Whatever a call stores, its external calls make good.
LEMMA EffectsArePaid ==
    ASSUME TypeOK, OutcomesInOrder, NEW call \in ACall, Effects(call), NEW a \in Assets
    PROVE  PaidBy(Transfers(call), a)
<1>1. CallCases(call)
  BY EffectsCases
<1> QED
  BY <1>1, MatchIsPaid, SettlementIsPaid, ReclaimIsPaid, SaleIsPaid, GiftIsPaid,
     WithdrawalIsPaid
     DEF CallCases

------------------------------------------------------------------------------
(* External calls.                                                           *)

\* An external call moves what it pays, leaves the ledgers well-typed, and touches
\* nothing the protocol stores.
LEMMA PerformingPays ==
    ASSUME TypeOK, NEW t \in Payments \cup TokenMoves, Perform(t)
    PROVE  /\ UNCHANGED protocolVars
           /\ TokenTypeOK'
           /\ \A a \in Assets :
                 balanceOf'[a][Protocol] + Due(t, a, Out)
                     >= balanceOf[a][Protocol] + Due(t, a, In)
<1>1. UNCHANGED protocolVars
  BY DEF Perform
<1>2. /\ Protocol \in Accounts /\ Protocol \notin Users /\ Users \subseteq Accounts
      /\ WETH \in Assets /\ balanceOf \in Balances /\ allowance \in Allowances
      /\ ether \in [Users -> Nat]
  BY AccountsAssumption, AssetsAssumption
     DEF Accounts, TypeOK, TokenTypeOK, Balances, Allowances
<1>3. \A a \in Assets : balanceOf[a][Protocol] \in Nat
  BY <1>2 DEF Balances
<1>4. ASSUME t.kind # "nft", t \in Payments, balanceOf' \in Balances,
             allowance' \in Allowances, ether' \in [Users -> Nat]
      PROVE  TokenTypeOK' /\ \A a \in Assets : balanceOf'[a][Protocol] \in Nat
  <2>1. UNCHANGED erc721Vars
    BY <1>4 DEF Perform
  <2> QED
    BY <1>2, <1>4, <2>1 DEF erc721Vars, TypeOK, TokenTypeOK, Balances, Allowances
<1>5. CASE t \in [kind : {"pull"}, asset : Assets, from : Users, to : Accounts, n : Nat]
  <2>1. PICK asset \in Assets, from \in Users, to \in Accounts, n \in Nat :
           t = Pull(asset, from, to, n)
    BY <1>5 DEF Pull
  <2>2. /\ CanPull(balanceOf, allowance, asset, from, n)
        /\ balanceOf' = Moved(balanceOf, asset, from, to, n)
        /\ allowance' = Spent(allowance, asset, from, n)
        /\ UNCHANGED ether
    BY <2>1 DEF Perform, Pays, Pull
  <2>3. balanceOf' \in Balances /\ allowance' \in Allowances
    BY <1>2, <2>2, MovedType, SpentType DEF CanPull
  <2>4. t \in Payments /\ t.kind # "nft"
    BY <1>5 DEF Payments
  <2>5. TokenTypeOK' /\ \A a \in Assets : balanceOf'[a][Protocol] \in Nat
    BY <1>2, <1>4, <2>2, <2>3, <2>4
  <2>6. ASSUME NEW a \in Assets
        PROVE  balanceOf'[a][Protocol] + Due(t, a, Out)
                   >= balanceOf[a][Protocol] + Due(t, a, In)
    <3>1. /\ Due(t, a, Out) = 0
          /\ Due(t, a, In) = IF a = asset /\ to = Protocol THEN n ELSE 0
      BY <2>1, PullDue
    <3>2. CASE to = Protocol
      <4>1. balanceOf'[a][Protocol] = IF a = asset THEN balanceOf[a][Protocol] + n
                                      ELSE balanceOf[a][Protocol]
        BY <1>2, <2>2, <3>2, PaidIn
      <4> QED
        BY <1>3, <3>1, <3>2, <4>1
    <3>3. CASE to # Protocol
      <4>1. balanceOf'[a][Protocol] = balanceOf[a][Protocol]
        BY <1>2, <2>2, <3>3, PaidByUser
      <4> QED
        BY <1>3, <3>1, <3>3, <4>1
    <3> QED
      BY <3>2, <3>3
  <2> QED
    BY <1>1, <2>5, <2>6
<1>6. CASE t \in [kind : {"push"}, asset : Assets, from : {Protocol}, to : Accounts, n : Nat]
  <2>1. PICK asset \in Assets, to \in Accounts, n \in Nat : t = Push(asset, to, n)
    BY <1>6 DEF Push
  <2>2. /\ balanceOf[asset][Protocol] >= n
        /\ balanceOf' = Moved(balanceOf, asset, Protocol, to, n)
        /\ UNCHANGED <<allowance, ether>>
    BY <2>1 DEF Perform, Pays, Push
  <2>3. balanceOf' \in Balances
    BY <1>2, <2>2, MovedType
  <2>4. t \in Payments /\ t.kind # "nft"
    BY <1>6 DEF Payments
  <2>5. TokenTypeOK' /\ \A a \in Assets : balanceOf'[a][Protocol] \in Nat
    BY <1>2, <1>4, <2>2, <2>3, <2>4
  <2>6. ASSUME NEW a \in Assets
        PROVE  balanceOf'[a][Protocol] + Due(t, a, Out)
                   >= balanceOf[a][Protocol] + Due(t, a, In)
    <3>1. Due(t, a, In) = 0 /\ Due(t, a, Out) = IF a = asset THEN n ELSE 0
      BY <2>1, PushDue
    <3>2. balanceOf'[a][Protocol] = IF a = asset /\ to # Protocol
                                    THEN balanceOf[a][Protocol] - n
                                    ELSE balanceOf[a][Protocol]
      BY <1>2, <2>2, PaidOut
    <3> QED
      BY <1>3, <2>5, <3>1, <3>2
  <2> QED
    BY <1>1, <2>5, <2>6
<1>7. CASE t \in [kind : {"wrap"}, asset : {WETH}, from : Users, to : {Protocol}, n : Nat]
  <2>1. PICK from \in Users, n \in Nat : t = Wrap(from, n)
    BY <1>7 DEF Wrap
  <2>2. /\ ether[from] >= n /\ ether' = [ether EXCEPT ![from] = @ - n]
        /\ balanceOf' = Minted(balanceOf, WETH, Protocol, n)
        /\ UNCHANGED allowance
    BY <2>1 DEF Perform, Pays, Wrap
  <2>3. balanceOf' \in Balances /\ ether' \in [Users -> Nat]
    BY <1>2, <2>2, MintedType
  <2>4. t \in Payments /\ t.kind # "nft"
    BY <1>7 DEF Payments
  <2>5. TokenTypeOK' /\ \A a \in Assets : balanceOf'[a][Protocol] \in Nat
    BY <1>2, <1>4, <2>2, <2>3, <2>4
  <2>6. ASSUME NEW a \in Assets
        PROVE  balanceOf'[a][Protocol] + Due(t, a, Out)
                   >= balanceOf[a][Protocol] + Due(t, a, In)
    <3>1. Due(t, a, Out) = 0 /\ Due(t, a, In) = IF a = WETH THEN n ELSE 0
      BY <2>1, WrapDue
    <3>2. balanceOf'[a][Protocol] = IF a = WETH THEN balanceOf[a][Protocol] + n
                                    ELSE balanceOf[a][Protocol]
      BY <1>2, <2>2, MintedTo
    <3> QED
      BY <1>3, <3>1, <3>2
  <2> QED
    BY <1>1, <2>5, <2>6
<1>8. CASE t \in TokenMoves
  <2>1. PICK collection \in Collections, from \in Accounts, to \in Accounts, id \in Nat :
           t = MoveNFT(collection, from, to, id)
    BY <1>8 DEF MoveNFT, TokenMoves
  <2>2. /\ SafeTransferNFT(collection, from, to, id)
        /\ UNCHANGED <<erc20Vars, isApprovedForAll, shouldBlock>>
    BY <2>1 DEF Perform, Pays, MoveNFT
  <2>3. ownerOf' = [ownerOf EXCEPT ![collection][id] = to]
    BY <2>2 DEF SafeTransferNFT
  <2>4. ownerOf' \in [Collections -> [TokenIds -> Accounts]]
    BY <2>3 DEF TypeOK, TokenTypeOK
  <2>5. TokenTypeOK'
    BY <2>2, <2>4 DEF erc20Vars, TypeOK, TokenTypeOK
  <2>6. ASSUME NEW a \in Assets
        PROVE  balanceOf'[a][Protocol] + Due(t, a, Out)
                   >= balanceOf[a][Protocol] + Due(t, a, In)
    <3>1. Due(t, a, In) = 0 /\ Due(t, a, Out) = 0
      BY <2>1, NFTDue
    <3> QED
      BY <1>3, <2>2, <3>1 DEF erc20Vars
  <2> QED
    BY <1>1, <2>5, <2>6
<1> QED
  BY <1>5, <1>6, <1>7, <1>8 DEF Payments

------------------------------------------------------------------------------
(* Solvency in the middle of transactions.                                   *)

\* What the calls in progress owe is a number.
LEMMA OwedByType ==
    ASSUME NEW calls \in Seq(Frame), NEW a \in Assets, NEW kinds \in {In, Out}
    PROVE  OwedBy(calls, a, kinds) \in Nat
<1>1. CASE calls = <<>>
  BY <1>1, OwedByNone
<1>2. CASE calls # <<>>
  <2>1. PICK outer \in Seq(Frame), last \in Frame : calls = Append(outer, last)
    BY <1>2, SequenceEmptyOrAppend
  <2>2. /\ OwedBy(outer, a, kinds) \in Nat /\ DueOf(last.todo, a, kinds) \in Nat
        /\ OwedBy(Append(outer, last), a, kinds)
               = OwedBy(outer, a, kinds) + DueOf(last.todo, a, kinds)
    BY OwedByAppend
  <2> QED
    BY <2>1, <2>2
<1> QED
  BY <1>1, <1>2

\* An asset is covered, with what the given calls in progress collect and pay.
CoveredWith(calls, a) ==
    balanceOf[a][Protocol] + OwedBy(calls, a, In)
        >= withdrawableFees[a] + Locked(a) + OwedBy(calls, a, Out)

\* What every step keeps while a transaction runs.
StateInv ==
    /\ TypeOK
    /\ OutcomesInOrder
    /\ frames \in Seq(Frame)
    /\ SolventThroughoutCalls

\* Solvency throughout, in terms of the calls in progress.
LEMMA SolventReading ==
    SolventThroughoutCalls <=> \A a \in Assets : CoveredWith(frames, a)
BY DEF SolventThroughoutCalls, CoveredWith, Outstanding, OwedBy, In, Out

\* The amounts in it are numbers.
LEMMA CoverTypes ==
    ASSUME TypeOK, NEW a \in Assets
    PROVE  /\ balanceOf[a][Protocol] \in Nat /\ withdrawableFees[a] \in Nat
           /\ Locked(a) \in Nat
<1>1. Protocol \in Accounts
  BY DEF Accounts
<1> QED
  BY <1>1, AmountTypes, LockedType

\* They are after a step as well.
LEMMA CoverTypesAfter ==
    TypeOK' => \A a \in Assets : /\ balanceOf'[a][Protocol] \in Nat
                                /\ withdrawableFees'[a] \in Nat /\ Locked(a)' \in Nat
<1>1. TypeOK => \A a \in Assets : /\ balanceOf[a][Protocol] \in Nat
                                  /\ withdrawableFees[a] \in Nat /\ Locked(a) \in Nat
  BY CoverTypes
<1>2. TypeOK' => (\A a \in Assets : /\ balanceOf[a][Protocol] \in Nat
                                    /\ withdrawableFees[a] \in Nat /\ Locked(a) \in Nat)'
  BY <1>1, PTL
<1> QED
  BY <1>2

\* Without calls in progress it is the solvency of BvbProtocol.
LEMMA SolventBetweenCalls ==
    ASSUME TypeOK, frames = <<>>
    PROVE  SolventThroughoutCalls <=> Solvent
<1>1. ASSUME NEW a \in Assets
      PROVE  CoveredWith(frames, a)
                 <=> balanceOf[a][Protocol] >= withdrawableFees[a] + Locked(a)
  <2>1. OwedBy(frames, a, In) = 0 /\ OwedBy(frames, a, Out) = 0
    BY OwedByNone
  <2> QED
    BY <2>1, CoverTypes DEF CoveredWith
<1> QED
  BY <1>1, SolventReading DEF Solvent

\* So a solvent state between transactions is covered.
LEMMA SolventWithoutCalls == TypeOK /\ frames = <<>> /\ Solvent => SolventThroughoutCalls
BY SolventBetweenCalls

\* A call that begins is covered by its external calls.
LEMMA BeginKeepsState ==
    ASSUME StateInv, NEW call \in ACall, Begin(call)
    PROVE  StateInv' /\ now' = now
<1>1. /\ TypeOK /\ OutcomesInOrder /\ frames \in Seq(Frame)
      /\ \A a \in Assets : CoveredWith(frames, a)
  BY SolventReading DEF StateInv
<1>2. Effects(call)
  BY DEF Begin
<1>3. TypeOK' /\ OutcomesInOrder' /\ UNCHANGED <<now, tokenVars>>
  BY <1>1, <1>2, EffectsType
<1>4. PICK new : new = [call |-> call, todo |-> Transfers(call), control |-> NoOne]
  OBVIOUS
<1>5. frames' = Append(frames, new)
  BY <1>4 DEF Begin
<1>6. new \in Frame
  <2>1. Transfers(call) \in Todos
    <3>1. WETH \in Assets
      BY AssetsAssumption
    <3>2. PaidBy(Transfers(call), WETH)
      BY <1>1, <1>2, <3>1, EffectsArePaid
    <3> QED
      BY <3>2 DEF PaidBy
  <2> QED
    BY <1>4, <2>1 DEF Frame
<1>7. frames' \in Seq(Frame)
  BY <1>1, <1>5, <1>6, AppendProperties
<1>8. ASSUME NEW a \in Assets PROVE CoveredWith(frames, a)'
  <2>1. /\ balanceOf[a][Protocol] \in Nat /\ withdrawableFees[a] \in Nat
        /\ Locked(a) \in Nat
    BY <1>1, CoverTypes
  <2>2. withdrawableFees'[a] \in Nat /\ Locked(a)' \in Nat
    BY <1>3, CoverTypesAfter
  <2>3. balanceOf' = balanceOf
    BY <1>3 DEF tokenVars
  <2>4. PaidBy(new.todo, a)
    BY <1>1, <1>2, <1>4, EffectsArePaid
  <2>5. In \in {In, Out} /\ Out \in {In, Out}
    OBVIOUS
  <2>6. /\ OwedBy(frames, a, In) \in Nat /\ DueOf(new.todo, a, In) \in Nat
        /\ OwedBy(frames', a, In) = OwedBy(frames, a, In) + DueOf(new.todo, a, In)
    BY <1>1, <1>5, <1>6, <2>5, OwedByAppend
  <2>7. /\ OwedBy(frames, a, Out) \in Nat /\ DueOf(new.todo, a, Out) \in Nat
        /\ OwedBy(frames', a, Out) = OwedBy(frames, a, Out) + DueOf(new.todo, a, Out)
    BY <1>1, <1>5, <1>6, <2>5, OwedByAppend
  <2>8. CoveredWith(frames, a)
    BY <1>1
  <2>9. balanceOf'[a][Protocol] + OwedBy(frames', a, In)
            >= withdrawableFees'[a] + Locked(a)' + OwedBy(frames', a, Out)
    BY <2>1, <2>2, <2>3, <2>4, <2>6, <2>7, <2>8 DEF PaidBy, CoveredWith
  <2> QED
    BY <2>9 DEF CoveredWith
<1>9. SolventThroughoutCalls'
  <2>1. (\A a \in Assets : CoveredWith(frames, a))'
    BY <1>8
  <2> QED
    BY <2>1, SolventReading, PTL
<1> QED
  BY <1>3, <1>7, <1>9 DEF StateInv

\* An external call pays what was owed for it, and the call has it behind it.
LEMMA InteractKeepsState ==
    ASSUME StateInv, Interact
    PROVE  StateInv' /\ now' = now
<1>1. /\ TypeOK /\ OutcomesInOrder /\ frames \in Seq(Frame) /\ frames # <<>>
      /\ \A a \in Assets : CoveredWith(frames, a)
  BY SolventReading DEF StateInv, Interact
<1>2. PICK outer \in Seq(Frame) :
         /\ Innermost \in Frame
         /\ frames = Append(outer, Innermost)
         /\ Len(frames) = Len(outer) + 1
         /\ SubSeq(frames, 1, Len(frames) - 1) = outer
  BY <1>1, InnermostIsLast
<1>3. PICK last \in Frame : last = Innermost
  BY <1>2
<1>4. last.todo \in Todos /\ last.todo # <<>> /\ Perform(last.todo[1])
  BY <1>3 DEF Interact, Frame
<1>5. PICK todo \in Todos : todo = last.todo
  BY <1>4
<1>6. In \in {In, Out} /\ Out \in {In, Out}
  OBVIOUS
<1>7. Tail(todo) \in Todos /\ todo[1] \in Payments \cup TokenMoves
  <2>1. WETH \in Assets
    BY AssetsAssumption
  <2> QED
    BY <1>4, <1>5, <1>6, <2>1, DueOfTail
<1>8. PICK t \in Payments \cup TokenMoves : t = todo[1]
  BY <1>7
<1>9. PICK rest \in Todos : rest = Tail(todo)
  BY <1>7
<1>10. PICK new : new = [call |-> last.call, todo |-> rest, control |-> Notified(t)]
  OBVIOUS
<1>11. new \in Frame
  <2>1. Notified(t) \in Wallets \cup {NoOne}
    BY DEF Notified
  <2>2. last.call \in ACall
    BY DEF Frame
  <2> QED
    BY <1>10, <2>1, <2>2 DEF Frame
<1>12. frames' = Append(outer, new)
  <2>1. PICK n : n = Len(frames)
    OBVIOUS
  <2>2. frames[n] = last
    BY <1>3, <2>1 DEF Innermost
  <2>3. frames' = [frames EXCEPT ![n] = new]
    <3>1. frames' = [frames EXCEPT ![n] = [call |-> @.call, todo |-> Tail(@.todo),
                                           control |-> Notified(@.todo[1])]]
      BY <2>1 DEF Interact
    <3>2. [call |-> last.call, todo |-> Tail(last.todo), control |-> Notified(last.todo[1])]
              = new
      BY <1>5, <1>8, <1>9, <1>10
    <3> QED
      BY <2>2, <3>1, <3>2
  <2> QED
    BY <1>2, <1>3, <1>11, <2>1, <2>3, LastReplaced
<1>13. frames' \in Seq(Frame)
  BY <1>11, <1>12, AppendProperties
<1>14. Perform(t)
  BY <1>4, <1>5, <1>8
<1>15. /\ UNCHANGED protocolVars /\ TokenTypeOK'
       /\ \A a \in Assets : balanceOf'[a][Protocol] + Due(t, a, Out)
                                >= balanceOf[a][Protocol] + Due(t, a, In)
  BY <1>1, <1>14, PerformingPays
<1>16. TypeOK' /\ OutcomesInOrder' /\ now' = now
  BY <1>1, <1>15 DEF TypeOK, ProtocolTypeOK, OutcomesInOrder, protocolVars
<1>17. ASSUME NEW a \in Assets PROVE CoveredWith(frames, a)'
  <2>1. /\ balanceOf[a][Protocol] \in Nat /\ withdrawableFees[a] \in Nat
        /\ Locked(a) \in Nat /\ balanceOf'[a][Protocol] \in Nat
    BY <1>1, <1>16, CoverTypes, CoverTypesAfter
  <2>2. withdrawableFees' = withdrawableFees /\ Locked(a)' = Locked(a)
    <3>1. UNCHANGED LiveContracts
      BY <1>15 DEF protocolVars, LiveContracts
    <3> QED
      BY <1>1, <1>15, <3>1, LockedType DEF protocolVars
  <2>3. ASSUME NEW kinds \in {In, Out}
        PROVE  /\ OwedBy(outer, a, kinds) \in Nat /\ DueOf(rest, a, kinds) \in Nat
               /\ Due(t, a, kinds) \in Nat
               /\ OwedBy(frames, a, kinds)
                      = OwedBy(outer, a, kinds) + Due(t, a, kinds) + DueOf(rest, a, kinds)
               /\ OwedBy(frames', a, kinds)
                      = OwedBy(outer, a, kinds) + DueOf(rest, a, kinds)
    <3>1. Due(t, a, kinds) \in Nat
      BY DueType
    <3>2. /\ DueOf(Tail(todo), a, kinds) \in Nat
          /\ DueOf(todo, a, kinds) = Due(todo[1], a, kinds) + DueOf(Tail(todo), a, kinds)
      BY <1>4, <1>5, DueOfTail
    <3>3. /\ OwedBy(outer, a, kinds) \in Nat
          /\ OwedBy(Append(outer, last), a, kinds)
                 = OwedBy(outer, a, kinds) + DueOf(last.todo, a, kinds)
      BY OwedByAppend
    <3>4. OwedBy(Append(outer, new), a, kinds)
              = OwedBy(outer, a, kinds) + DueOf(new.todo, a, kinds)
      BY <1>11, OwedByAppend
    <3>5. new.todo = rest
      BY <1>10
    <3>6. /\ DueOf(rest, a, kinds) \in Nat
          /\ DueOf(todo, a, kinds) = Due(t, a, kinds) + DueOf(rest, a, kinds)
      BY <1>8, <1>9, <3>2
    <3>7. OwedBy(frames, a, kinds) = OwedBy(outer, a, kinds) + DueOf(todo, a, kinds)
      BY <1>2, <1>3, <1>5, <3>3
    <3>8. OwedBy(frames', a, kinds) = OwedBy(outer, a, kinds) + DueOf(rest, a, kinds)
      BY <1>12, <3>4, <3>5
    <3> QED
      BY <3>1, <3>3, <3>6, <3>7, <3>8
  <2>4. balanceOf'[a][Protocol] + Due(t, a, Out) >= balanceOf[a][Protocol] + Due(t, a, In)
    BY <1>15
  <2>5. CoveredWith(frames, a)
    BY <1>1
  <2>6. /\ OwedBy(outer, a, In) \in Nat /\ DueOf(rest, a, In) \in Nat
        /\ Due(t, a, In) \in Nat
        /\ OwedBy(frames, a, In)
               = OwedBy(outer, a, In) + Due(t, a, In) + DueOf(rest, a, In)
        /\ OwedBy(frames', a, In) = OwedBy(outer, a, In) + DueOf(rest, a, In)
    BY <1>6, <2>3
  <2>7. /\ OwedBy(outer, a, Out) \in Nat /\ DueOf(rest, a, Out) \in Nat
        /\ Due(t, a, Out) \in Nat
        /\ OwedBy(frames, a, Out)
               = OwedBy(outer, a, Out) + Due(t, a, Out) + DueOf(rest, a, Out)
        /\ OwedBy(frames', a, Out) = OwedBy(outer, a, Out) + DueOf(rest, a, Out)
    BY <1>6, <2>3
  <2>8. balanceOf'[a][Protocol] + OwedBy(frames', a, In)
            >= withdrawableFees'[a] + Locked(a)' + OwedBy(frames', a, Out)
    <3>1. PICK held \in Nat, heldAfter \in Nat, claims \in Nat :
             /\ held = balanceOf[a][Protocol] /\ heldAfter = balanceOf'[a][Protocol]
             /\ claims = withdrawableFees[a] + Locked(a)
      BY <2>1
    <3>2. PICK outerIn \in Nat, restIn \in Nat, dueIn \in Nat :
             /\ OwedBy(frames, a, In) = outerIn + dueIn + restIn
             /\ OwedBy(frames', a, In) = outerIn + restIn
             /\ dueIn = Due(t, a, In)
      BY <2>6
    <3>3. PICK outerOut \in Nat, restOut \in Nat, dueOut \in Nat :
             /\ OwedBy(frames, a, Out) = outerOut + dueOut + restOut
             /\ OwedBy(frames', a, Out) = outerOut + restOut
             /\ dueOut = Due(t, a, Out)
      BY <2>7
    <3>4. held + (outerIn + dueIn + restIn) >= claims + (outerOut + dueOut + restOut)
      BY <2>5, <3>1, <3>2, <3>3 DEF CoveredWith
    <3>5. heldAfter + dueOut >= held + dueIn
      BY <2>4, <3>1, <3>2, <3>3
    <3>6. heldAfter + (outerIn + restIn) >= claims + (outerOut + restOut)
      BY <3>4, <3>5
    <3> QED
      BY <2>2, <3>1, <3>2, <3>3, <3>6
  <2> QED
    BY <2>8 DEF CoveredWith
<1>18. SolventThroughoutCalls'
  <2>1. (\A a \in Assets : CoveredWith(frames, a))'
    BY <1>17
  <2> QED
    BY <2>1, SolventReading, PTL
<1> QED
  BY <1>13, <1>16, <1>18 DEF StateInv

\* A step that moves no money of the protocol and leaves what is owed as it is.
LEMMA CoverStays ==
    ASSUME StateInv, TypeOK', OutcomesInOrder', frames' \in Seq(Frame),
           UNCHANGED <<LiveContracts, withdrawableFees>>,
           \A a \in Assets : /\ balanceOf'[a][Protocol] >= balanceOf[a][Protocol]
                             /\ OwedBy(frames', a, In) = OwedBy(frames, a, In)
                             /\ OwedBy(frames', a, Out) = OwedBy(frames, a, Out)
    PROVE  StateInv'
<1>1. /\ TypeOK /\ frames \in Seq(Frame) /\ \A a \in Assets : CoveredWith(frames, a)
  BY SolventReading DEF StateInv
<1>2. ASSUME NEW a \in Assets PROVE CoveredWith(frames, a)'
  <2>1. /\ balanceOf[a][Protocol] \in Nat /\ withdrawableFees[a] \in Nat
        /\ Locked(a) \in Nat /\ balanceOf'[a][Protocol] \in Nat
    BY <1>1, CoverTypes, CoverTypesAfter
  <2>2. withdrawableFees' = withdrawableFees /\ Locked(a)' = Locked(a)
    BY <1>1, LockedType
  <2>3. OwedBy(frames, a, In) \in Nat /\ OwedBy(frames, a, Out) \in Nat
    <3>1. In \in {In, Out} /\ Out \in {In, Out}
      OBVIOUS
    <3> QED
      BY <1>1, <3>1, OwedByType
  <2>4. CoveredWith(frames, a)
    BY <1>1
  <2>5. balanceOf'[a][Protocol] + OwedBy(frames', a, In)
            >= withdrawableFees'[a] + Locked(a)' + OwedBy(frames', a, Out)
    BY <2>1, <2>2, <2>3, <2>4 DEF CoveredWith
  <2> QED
    BY <2>5 DEF CoveredWith
<1>3. SolventThroughoutCalls'
  <2>1. (\A a \in Assets : CoveredWith(frames, a))'
    BY <1>2
  <2> QED
    BY <2>1, SolventReading, PTL
<1> QED
  BY <1>3 DEF StateInv

\* A step that changes nothing but which wallet runs.
LEMMA NothingMoves ==
    ASSUME StateInv, UNCHANGED vars, frames' \in Seq(Frame),
           \A a \in Assets : /\ OwedBy(frames', a, In) = OwedBy(frames, a, In)
                             /\ OwedBy(frames', a, Out) = OwedBy(frames, a, Out)
    PROVE  StateInv' /\ now' = now
<1>1. TypeOK /\ OutcomesInOrder
  BY DEF StateInv
<1>2. TypeOK' /\ OutcomesInOrder'
  BY <1>1, TypeStep, OutcomesStep
<1>3. UNCHANGED <<now, LiveContracts, withdrawableFees, balanceOf>>
  BY DEF vars, protocolVars, tokenVars, LiveContracts
<1>4. \A a \in Assets : balanceOf'[a][Protocol] >= balanceOf[a][Protocol]
  <2> SUFFICES ASSUME NEW a \in Assets
               PROVE  balanceOf'[a][Protocol] >= balanceOf[a][Protocol]
    OBVIOUS
  <2>1. balanceOf[a][Protocol] \in Nat
    BY <1>1, CoverTypes
  <2> QED
    BY <1>3, <2>1
<1> QED
  BY <1>2, <1>3, <1>4, CoverStays

\* The wallet that ran has given control back.
LEMMA ReturnKeepsState ==
    ASSUME StateInv, Return
    PROVE  StateInv' /\ now' = now
<1>1. frames \in Seq(Frame) /\ frames # <<>> /\ UNCHANGED vars
  BY DEF StateInv, Return
<1>2. PICK outer \in Seq(Frame) :
         /\ Innermost \in Frame
         /\ frames = Append(outer, Innermost)
  BY <1>1, InnermostIsLast
<1>3. PICK last \in Frame : last = Innermost
  BY <1>2
<1>4. PICK new : new = [last EXCEPT !.control = NoOne]
  OBVIOUS
<1>5. new \in Frame /\ new.todo = last.todo
  BY <1>4 DEF Frame
<1>6. frames' = Append(outer, new)
  <2>1. PICK n : n = Len(frames)
    OBVIOUS
  <2>2. frames[n] = last
    BY <1>3, <2>1 DEF Innermost
  <2>3. frames' = [frames EXCEPT ![n].control = NoOne]
    BY <2>1 DEF Return
  <2>4. frames' = [frames EXCEPT ![n] = new]
    BY <1>4, <2>2, <2>3
  <2> QED
    BY <1>2, <1>3, <1>5, <2>1, <2>4, LastReplaced
<1>7. frames' \in Seq(Frame)
  BY <1>5, <1>6, AppendProperties
<1>8. ASSUME NEW a \in Assets, NEW kinds \in {In, Out}
      PROVE  OwedBy(frames', a, kinds) = OwedBy(frames, a, kinds)
  <2>1. OwedBy(Append(outer, last), a, kinds)
            = OwedBy(outer, a, kinds) + DueOf(last.todo, a, kinds)
    BY OwedByAppend
  <2>2. OwedBy(Append(outer, new), a, kinds)
            = OwedBy(outer, a, kinds) + DueOf(new.todo, a, kinds)
    BY <1>5, OwedByAppend
  <2> QED
    BY <1>2, <1>3, <1>5, <1>6, <2>1, <2>2
<1>9. \A a \in Assets : /\ OwedBy(frames', a, In) = OwedBy(frames, a, In)
                        /\ OwedBy(frames', a, Out) = OwedBy(frames, a, Out)
  <2>1. In \in {In, Out} /\ Out \in {In, Out}
    OBVIOUS
  <2> QED
    BY <1>8, <2>1
<1> QED
  BY <1>1, <1>7, <1>9, NothingMoves

\* A call that ends owes nothing any more.
LEMMA LeaveKeepsState ==
    ASSUME StateInv, Leave
    PROVE  StateInv' /\ now' = now
<1>1. frames \in Seq(Frame) /\ frames # <<>> /\ UNCHANGED vars
  BY DEF StateInv, Leave
<1>2. PICK outer \in Seq(Frame) :
         /\ Innermost \in Frame
         /\ frames = Append(outer, Innermost)
         /\ SubSeq(frames, 1, Len(frames) - 1) = outer
  BY <1>1, InnermostIsLast
<1>3. PICK last \in Frame : last = Innermost
  BY <1>2
<1>4. frames' = outer /\ last.todo = <<>>
  BY <1>2, <1>3 DEF Leave
<1>5. ASSUME NEW a \in Assets, NEW kinds \in {In, Out}
      PROVE  OwedBy(frames', a, kinds) = OwedBy(frames, a, kinds)
  <2>1. /\ OwedBy(outer, a, kinds) \in Nat
        /\ OwedBy(Append(outer, last), a, kinds)
               = OwedBy(outer, a, kinds) + DueOf(last.todo, a, kinds)
    BY OwedByAppend
  <2>2. <<>> \in Todos /\ Len(<<>>) = 0
    BY EmptySeq DEF Todos
  <2>3. DueOf(<<>>, a, kinds) = 0
    BY <2>2, DueOfEntries
  <2> QED
    BY <1>2, <1>3, <1>4, <2>1, <2>3
<1>6. \A a \in Assets : /\ OwedBy(frames', a, In) = OwedBy(frames, a, In)
                        /\ OwedBy(frames', a, Out) = OwedBy(frames, a, Out)
  <2>1. In \in {In, Out} /\ Out \in {In, Out}
    OBVIOUS
  <2> QED
    BY <1>5, <2>1
<1> QED
  BY <1>1, <1>2, <1>4, <1>6, NothingMoves

\* The functions without external calls touch neither the fees nor the tokens.
LEMMA UnguardedCallsMoveNothing ==
    ASSUME NEW senders \in SUBSET Users, UnguardedCalls(senders)
    PROVE  Next /\ UNCHANGED <<now, contractVars, withdrawableFees, balanceOf>>
<1>1. OrderNext \/ SellOrderNext \/ NonceNext \/ OwnerNext
  <2>1. PICK sender \in senders :
           \/ \E order \in Orders : CancelOrder(sender, order)
           \/ \E sellOrder \in SellOrders : CancelSellOrder(sender, sellOrder)
           \/ /\ sender \in Revokers
              /\ \E nonce \in Nonces : \/ SetMinimumValidNonce(sender, nonce)
                                       \/ SetMinimumValidNonceSell(sender, nonce)
           \/ \E collection \in Collections, allowed \in BOOLEAN :
                  SetAllowedCollection(sender, collection, allowed)
           \/ \E asset \in Assets, allowed \in BOOLEAN : SetAllowedAsset(sender, asset, allowed)
           \/ \E rate \in FeeRates : SetFee(sender, rate)
           \/ \E successor \in Successors : TransferOwnership(sender, successor)
           \/ RenounceOwnership(sender)
    BY DEF UnguardedCalls
  <2>2. sender \in Users
    OBVIOUS
  <2>3. CASE \E order \in Orders : CancelOrder(sender, order)
    BY <2>2, <2>3 DEF OrderNext, OrderCallsBy
  <2>4. CASE \E sellOrder \in SellOrders : CancelSellOrder(sender, sellOrder)
    BY <2>2, <2>4 DEF SellOrderNext, SellOrderCallsBy
  <2>5. CASE /\ sender \in Revokers
             /\ \E nonce \in Nonces : \/ SetMinimumValidNonce(sender, nonce)
                                      \/ SetMinimumValidNonceSell(sender, nonce)
    BY <2>5 DEF NonceNext, NonceCallsBy
  <2>6. ASSUME ~(\E order \in Orders : CancelOrder(sender, order)),
               ~(\E sellOrder \in SellOrders : CancelSellOrder(sender, sellOrder)),
               ~(/\ sender \in Revokers
                 /\ \E nonce \in Nonces : \/ SetMinimumValidNonce(sender, nonce)
                                          \/ SetMinimumValidNonceSell(sender, nonce))
        PROVE  OwnerNext
    BY <2>1, <2>2, <2>6 DEF OwnerNext, OwnerCallsBy
  <2> QED
    BY <2>3, <2>4, <2>5, <2>6
<1>2. UNCHANGED <<now, contractVars, withdrawableFees, balanceOf>>
  BY DEF UnguardedCalls, CancelOrder, CancelSellOrder, SetMinimumValidNonce,
         SetMinimumValidNonceSell, SetAllowedCollection, SetAllowedAsset, SetFee,
         TransferOwnership, RenounceOwnership, contractVars, positionVars, revocationVars,
         tokenVars, erc20Vars
<1> QED
  BY <1>1, <1>2 DEF Next

\* Blocks, and what users do between calls or in callbacks without entering a call.
Quiet(senders) == Tick \/ CallsWithoutInteraction(senders)

\* None of it takes money from the protocol or changes what it owes.
LEMMA QuietStepsTakeNothing ==
    ASSUME TypeOK, NEW senders \in SUBSET Users, Quiet(senders)
    PROVE  /\ Next
           /\ UNCHANGED <<LiveContracts, withdrawableFees>>
           /\ \A a \in Assets : balanceOf'[a][Protocol] >= balanceOf[a][Protocol]
<1>1. \A a \in Assets : balanceOf[a][Protocol] \in Nat
  BY CoverTypes
<1>2. CASE Tick
  <2>1. UNCHANGED <<contractVars, withdrawableFees, balanceOf>>
    BY <1>2 DEF Tick, ownerVars, tokenVars, erc20Vars
  <2> QED
    BY <1>1, <1>2, <2>1 DEF Next, LiveContracts, contractVars
<1>3. CASE UnguardedCalls(senders)
  <2>1. Next /\ UNCHANGED <<now, contractVars, withdrawableFees, balanceOf>>
    BY <1>3, UnguardedCallsMoveNothing
  <2> QED
    BY <1>1, <2>1 DEF LiveContracts, contractVars
<1>4. ASSUME TokenCallsBy(senders \cap Holders, senders \cap Holders \cap Wallets),
             UNCHANGED protocolVars
      PROVE  /\ Next
             /\ UNCHANGED <<LiveContracts, withdrawableFees>>
             /\ \A a \in Assets : balanceOf'[a][Protocol] >= balanceOf[a][Protocol]
  <2>1. TokenNext
    BY <1>4 DEF TokenNext, TokenCallsBy
  <2>2. TokenCalls
    BY <1>4, <2>1 DEF TokenCalls
  <2>3. \A a \in Assets : balanceOf'[a][Protocol] >= balanceOf[a][Protocol]
    BY <2>2, HoldersSpendTheirOwn
  <2> QED
    BY <1>4, <2>2, <2>3 DEF Next, LiveContracts, protocolVars
<1> QED
  BY <1>2, <1>3, <1>4 DEF Quiet, CallsWithoutInteraction

\* So they keep the state good.
LEMMA QuietStepsKeepState ==
    ASSUME StateInv, NEW senders \in SUBSET Users, Quiet(senders), UNCHANGED frames
    PROVE  StateInv'
<1>1. TypeOK /\ OutcomesInOrder /\ frames \in Seq(Frame)
  BY DEF StateInv
<1>2. /\ Next
      /\ UNCHANGED <<LiveContracts, withdrawableFees>>
      /\ \A a \in Assets : balanceOf'[a][Protocol] >= balanceOf[a][Protocol]
  BY <1>1, QuietStepsTakeNothing
<1>3. TypeOK' /\ OutcomesInOrder'
  BY <1>1, <1>2, TypeStep, OutcomesStep
<1> QED
  BY <1>1, <1>2, <1>3, CoverStays

------------------------------------------------------------------------------
(* The calls that are made.                                                  *)

\* What users and wallets call is a call.
LEMMA CallsAreTyped ==
    ASSUME TypeOK, NEW senders \in SUBSET Users
    PROVE  CallsOf(senders) \subseteq ACall
<1> SUFFICES ASSUME NEW call \in CallsOf(senders) PROVE call \in ACall
  OBVIOUS
<1>1. Takers \subseteq Users /\ Recipients \subseteq Accounts
  BY CallsAssumption
<1>2. CASE call \in MatchCalls(senders \cap Takers)
  <2>1. PICK sender \in senders \cap Takers, order \in Orders :
           \E value \in {0, TakerPrice(order)} :
               call = [op |-> "matchOrder", sender |-> sender, order |-> order,
                       value |-> value]
    BY <1>2 DEF MatchCalls
  <2>2. TakerPrice(order) \in Nat
    BY ValueTypes
  <2> QED
    BY <2>1, <2>2 DEF ACall
<1>3. CASE call \in BuyCalls(senders \cap Takers)
  <2>1. PICK sender \in senders \cap Takers, sellOrder \in SellOrders, tip \in Tips :
           \E value \in {0, sellOrder.price + tip} :
               call = [op |-> "buyPosition", sender |-> sender, sellOrder |-> sellOrder,
                       tipAmount |-> tip, value |-> value]
    BY <1>3 DEF BuyCalls
  <2>2. sellOrder.price + tip \in Nat /\ tip \in Nat
    BY ValueTypes
  <2> QED
    BY <2>1, <2>2 DEF ACall
<1>4. CASE call \in SettleCalls(senders)
  BY <1>4 DEF SettleCalls, ACall
<1>5. CASE call \in ReclaimCalls
  BY <1>5 DEF ReclaimCalls, ACall
<1>6. CASE call \in TransferCalls(senders)
  BY <1>1, <1>6 DEF TransferCalls, ACall
<1>7. CASE call \in WithdrawCalls(senders)
  BY <1>1, <1>7 DEF WithdrawCalls, ACall
<1> QED
  BY <1>2, <1>3, <1>4, <1>5, <1>6, <1>7 DEF CallsOf

\* A batch consists of calls its sender could make alone.
LEMMA BatchedCallsAreCalls ==
    ASSUME NEW group \in BatchGroups
    PROVE  group \subseteq CallsOf(Users)
<1>1. Takers \subseteq Users
  BY CallsAssumption
<1>2. CASE \E sender \in Takers :
               group = {call \in MatchCalls({sender}) : call.value = 0}
  <2>1. PICK sender \in Takers : group = {call \in MatchCalls({sender}) : call.value = 0}
    BY <1>2
  <2>2. MatchCalls({sender}) \subseteq MatchCalls(Users \cap Takers)
    BY <1>1 DEF MatchCalls
  <2> QED
    BY <2>1, <2>2 DEF CallsOf
<1>3. CASE \E sender \in Users : group = SettleCalls({sender})
  <2>1. PICK sender \in Users : group = SettleCalls({sender})
    BY <1>3
  <2>2. SettleCalls({sender}) \subseteq SettleCalls(Users)
    BY DEF SettleCalls
  <2> QED
    BY <2>1, <2>2 DEF CallsOf
<1>4. CASE group = ReclaimCalls
  BY <1>4 DEF CallsOf
<1> QED
  BY <1>2, <1>3, <1>4 DEF BatchGroups

\* A transaction is a list of calls.
LEMMA RequestsAreTyped ==
    ASSUME TypeOK, NEW calls \in Requests
    PROVE  calls \in Seq(ACall) /\ calls[1] \in ACall
<1>1. CallsOf(Users) \subseteq ACall
  BY CallsAreTyped
<1>2. CASE \E call \in CallsOf(Users) : calls = <<call>>
  BY <1>1, <1>2
<1>3. CASE \E n \in 2 .. MaxBatch : \E group \in BatchGroups : calls \in [1 .. n -> group]
  <2>1. PICK n \in 2 .. MaxBatch, group \in BatchGroups : calls \in [1 .. n -> group]
    BY <1>3
  <2>2. group \subseteq ACall
    BY <1>1, BatchedCallsAreCalls
  <2>3. n \in Nat /\ 1 \in 1 .. n
    BY <2>1, CallbacksAssumption
  <2>4. calls \in [1 .. n -> ACall]
    BY <2>1, <2>2
  <2> QED
    BY <2>3, <2>4, SeqDef
<1> QED
  BY <1>2, <1>3 DEF Requests

\* Only wallets run in the middle of a call.
LEMMA WalletsRun ==
    ASSUME frames \in Seq(Frame)
    PROVE  Running \subseteq Wallets /\ Running \subseteq Users
<1>1. Wallets \subseteq Users
  BY AccountsAssumption
<1>2. CASE frames = <<>>
  BY <1>2 DEF Running
<1>3. CASE frames # <<>>
  <2>1. PICK last \in Frame : last = Innermost
    BY <1>3, InnermostIsLast
  <2>2. last.control \in Wallets \cup {NoOne}
    BY DEF Frame
  <2>3. Warned(last.todo[1]) \subseteq Wallets
    BY DEF Warned
  <2>4. CASE last.control # NoOne
    <3>1. Running = {last.control}
      BY <1>3, <2>1, <2>4 DEF Running
    <3> QED
      BY <1>1, <2>2, <2>4, <3>1
  <2>5. CASE last.control = NoOne /\ last.todo # <<>>
    <3>1. Running = Warned(last.todo[1])
      BY <1>3, <2>1, <2>5 DEF Running
    <3> QED
      BY <1>1, <2>3, <3>1
  <2>6. CASE last.control = NoOne /\ last.todo = <<>>
    <3>1. Running = {}
      BY <1>3, <2>1, <2>6 DEF Running
    <3> QED
      BY <3>1
  <2> QED
    BY <2>4, <2>5, <2>6
<1> QED
  BY <1>2, <1>3

------------------------------------------------------------------------------
(* What a revert restores.                                                   *)

\* Solvency of the stored state.
StoredSolvent ==
    \A a \in Assets :
        stored.balanceOf[a][Protocol]
            >= stored.withdrawableFees[a]
               + Escrow({order \in stored.matchedOrders
                                      \ (stored.settledContracts \cup stored.reclaimedContracts) :
                             order.asset = a})

\* The storage that the last transaction left is a state between calls as good as any.
StorageInv ==
    /\ Atomic!TypeOK
    /\ Atomic!OutcomesInOrder
    /\ stored.now = now
    /\ StoredSolvent

\* It is when it is the state between two transactions.
LEMMA StoredIsGood ==
    StateInv /\ frames = <<>> /\ stored = Storage => StorageInv
<1> SUFFICES ASSUME StateInv, frames = <<>>, stored = Storage PROVE StorageInv
  OBVIOUS
<1>1. TypeOK /\ OutcomesInOrder /\ Solvent
  BY SolventBetweenCalls DEF StateInv
<1>2. /\ stored.now = now /\ stored.owner = owner /\ stored.fee = fee
      /\ stored.allowedAsset = allowedAsset /\ stored.allowedCollection = allowedCollection
      /\ stored.withdrawableFees = withdrawableFees /\ stored.matchedOrders = matchedOrders
      /\ stored.bulls = bulls /\ stored.bears = bears
      /\ stored.settledContracts = settledContracts
      /\ stored.reclaimedContracts = reclaimedContracts
      /\ stored.claimableTokenId = claimableTokenId
      /\ stored.canceledOrders = canceledOrders
      /\ stored.canceledSellOrders = canceledSellOrders
      /\ stored.boughtSellOrders = boughtSellOrders
      /\ stored.minimumValidNonce = minimumValidNonce
      /\ stored.minimumValidNonceSell = minimumValidNonceSell
      /\ stored.balanceOf = balanceOf /\ stored.allowance = allowance
      /\ stored.ether = ether /\ stored.ownerOf = ownerOf
      /\ stored.isApprovedForAll = isApprovedForAll /\ stored.shouldBlock = shouldBlock
  BY DEF Storage
<1>3. Atomic!TypeOK
  BY <1>1, <1>2
     DEF TypeOK, TokenTypeOK, ProtocolTypeOK, Accounts,
         Atomic!TypeOK, Atomic!TokenTypeOK, Atomic!ProtocolTypeOK, Atomic!Accounts
<1>4. Atomic!OutcomesInOrder
  BY <1>1, <1>2 DEF OutcomesInOrder, Atomic!OutcomesInOrder
<1>5. StoredSolvent
  BY <1>1, <1>2 DEF Solvent, Locked, LiveContracts, StoredSolvent
<1> QED
  BY <1>2, <1>3, <1>4, <1>5 DEF StorageInv

\* A transaction does not touch it before it ends.
LEMMA StorageStays ==
    ASSUME StorageInv, UNCHANGED <<stored, now>>
    PROVE  StorageInv'
BY DEF StorageInv, StoredSolvent, Atomic!TypeOK, Atomic!OutcomesInOrder, Atomic!TokenTypeOK,
       Atomic!ProtocolTypeOK, Atomic!Accounts, Escrow

\* A revert brings it back.
LEMMA RevertRestoresState ==
    ASSUME StorageInv, Revert
    PROVE  StateInv' /\ StorageInv'
<1>1. /\ now' = stored.now /\ owner' = stored.owner /\ fee' = stored.fee
      /\ allowedAsset' = stored.allowedAsset /\ allowedCollection' = stored.allowedCollection
      /\ withdrawableFees' = stored.withdrawableFees /\ matchedOrders' = stored.matchedOrders
      /\ bulls' = stored.bulls /\ bears' = stored.bears
      /\ settledContracts' = stored.settledContracts
      /\ reclaimedContracts' = stored.reclaimedContracts
      /\ claimableTokenId' = stored.claimableTokenId
      /\ canceledOrders' = stored.canceledOrders
      /\ canceledSellOrders' = stored.canceledSellOrders
      /\ boughtSellOrders' = stored.boughtSellOrders
      /\ minimumValidNonce' = stored.minimumValidNonce
      /\ minimumValidNonceSell' = stored.minimumValidNonceSell
      /\ balanceOf' = stored.balanceOf /\ allowance' = stored.allowance
      /\ ether' = stored.ether /\ ownerOf' = stored.ownerOf
      /\ isApprovedForAll' = stored.isApprovedForAll /\ shouldBlock' = stored.shouldBlock
      /\ frames' = <<>> /\ UNCHANGED <<stored, now>>
  BY DEF Revert, StorageInv
<1>2. Atomic!TypeOK /\ Atomic!OutcomesInOrder /\ StoredSolvent
  BY DEF StorageInv
<1>3. TypeOK'
  BY <1>1, <1>2
     DEF TypeOK, TokenTypeOK, ProtocolTypeOK, Accounts,
         Atomic!TypeOK, Atomic!TokenTypeOK, Atomic!ProtocolTypeOK, Atomic!Accounts
<1>4. OutcomesInOrder'
  BY <1>1, <1>2 DEF OutcomesInOrder, Atomic!OutcomesInOrder
<1>5. Solvent'
  BY <1>1, <1>2 DEF Solvent, Locked, LiveContracts, StoredSolvent
<1>6. SolventThroughoutCalls'
  <2>1. (TypeOK /\ frames = <<>> /\ Solvent)'
    BY <1>1, <1>3, <1>5
  <2> QED
    BY <2>1, SolventWithoutCalls, PTL
<1>7. frames' \in Seq(Frame)
  BY <1>1, EmptySeq
<1>8. StateInv'
  BY <1>3, <1>4, <1>6, <1>7 DEF StateInv
<1> QED
  BY <1>1, <1>8, StorageStays

------------------------------------------------------------------------------
(* The invariant of the machine.                                             *)

\* The transaction that runs is a list of calls, and without one no call is in progress.
RequestInv ==
    /\ request \in Seq(ACall)
    /\ position \in Nat
    /\ Idle => frames = <<>>

CallsInv == StateInv /\ StorageInv /\ RequestInv

\* It holds when the protocol has been deployed.
LEMMA CallsInvHoldsFirst == CallsInit => CallsInv
<1> SUFFICES ASSUME CallsInit PROVE CallsInv
  OBVIOUS
<1>1. Init /\ request = <<>> /\ position = 0 /\ frames = <<>> /\ stored = Storage
  BY DEF CallsInit
<1>2. TypeOK /\ Solvent
  BY <1>1, InitType, InitialSolvency
<1>3. OutcomesInOrder
  BY <1>1 DEF Init, OutcomesInOrder
<1>4. frames \in Seq(Frame) /\ request \in Seq(ACall)
  BY <1>1, EmptySeq
<1>5. StateInv
  BY <1>1, <1>2, <1>3, <1>4, SolventWithoutCalls DEF StateInv
<1>6. StorageInv
  BY <1>1, <1>5, StoredIsGood
<1>7. RequestInv
  BY <1>1, <1>4 DEF RequestInv
<1> QED
  BY <1>5, <1>6, <1>7 DEF CallsInv

\* Between transactions.
LEMMA WaitingKeepsInv ==
    ASSUME CallsInv, BetweenCalls
    PROVE  CallsInv'
<1>1. /\ StateInv /\ RequestInv /\ frames = <<>>
      /\ UNCHANGED <<request, position, frames>>
  BY DEF CallsInv, RequestInv, BetweenCalls
<1>2. StateInv'
  <2>1. Quiet(Users) /\ Users \in SUBSET Users
    BY DEF Quiet, BetweenCalls
  <2> QED
    BY <1>1, <2>1, QuietStepsKeepState
<1>3. StorageInv'
  <2>1. (StateInv /\ frames = <<>> /\ stored = Storage)'
    BY <1>1, <1>2 DEF BetweenCalls
  <2> QED
    BY <2>1, StoredIsGood, PTL
<1>4. RequestInv'
  BY <1>1 DEF RequestInv, Idle
<1> QED
  BY <1>2, <1>3, <1>4 DEF CallsInv

\* A transaction that begins.
LEMMA SubmittingKeepsInv ==
    ASSUME CallsInv, NEW calls \in Requests, Submit(calls)
    PROVE  CallsInv'
<1>1. StateInv /\ StorageInv /\ TypeOK
  BY DEF CallsInv, StateInv
<1>2. calls \in Seq(ACall) /\ calls[1] \in ACall
  BY <1>1, RequestsAreTyped
<1>3. PICK call \in ACall : call = calls[1]
  BY <1>2
<1>4. Begin(call) /\ request' = calls /\ position' = 1 /\ stored' = stored
  BY <1>3 DEF Submit
<1>5. StateInv' /\ now' = now
  BY <1>1, <1>4, BeginKeepsState
<1>6. StorageInv'
  BY <1>1, <1>4, <1>5, StorageStays
<1>7. calls # <<>>
  <2>1. Len(calls) >= 1
    BY RequestsAreCalls DEF IsRequest
  <2> QED
    BY <1>2, <2>1, EmptySeq
<1>8. RequestInv'
  BY <1>2, <1>4, <1>7 DEF RequestInv, Idle
<1> QED
  BY <1>5, <1>6, <1>8 DEF CallsInv

\* A step in the middle of one, which leaves the request as it is.
LEMMA RunningKeepsInv ==
    ASSUME CallsInv, StateInv', now' = now, ~Idle, position' \in Nat,
           UNCHANGED <<request, stored>>
    PROVE  CallsInv'
<1>1. StorageInv'
  BY StorageStays DEF CallsInv
<1>2. RequestInv'
  BY DEF CallsInv, RequestInv, Idle
<1> QED
  BY <1>1, <1>2 DEF CallsInv

\* What a wallet does in the middle of a call.
LEMMA CallingBackKeepsInv ==
    ASSUME CallsInv, Callback
    PROVE  CallsInv'
<1>1. /\ StateInv /\ TypeOK /\ frames \in Seq(Frame) /\ position \in Nat
      /\ UNCHANGED <<request, position, stored>>
  BY DEF CallsInv, StateInv, RequestInv, Callback
<1>2. PICK wallet \in Running :
         \/ CallsWithoutInteraction({wallet}) /\ UNCHANGED <<entered, frames>>
         \/ \E call \in CallsOf({wallet}) : Begin(call)
  BY DEF Callback
<1>3. {wallet} \in SUBSET Users
  BY <1>1, WalletsRun
<1>4. ~Idle
  <2>1. frames # <<>>
    BY DEF Running
  <2> QED
    BY <2>1 DEF CallsInv, RequestInv
<1>5. StateInv' /\ now' = now
  <2>1. CASE CallsWithoutInteraction({wallet}) /\ UNCHANGED <<entered, frames>>
    <3>1. StateInv'
      BY <1>1, <1>3, <2>1, QuietStepsKeepState DEF Quiet
    <3>2. now' = now
      <4>1. CASE UnguardedCalls({wallet})
        BY <1>3, <4>1, UnguardedCallsMoveNothing
      <4>2. CASE UNCHANGED protocolVars
        BY <4>2 DEF protocolVars
      <4> QED
        BY <2>1, <4>1, <4>2 DEF CallsWithoutInteraction
    <3> QED
      BY <3>1, <3>2
  <2>2. CASE \E call \in CallsOf({wallet}) : Begin(call)
    <3>1. PICK call \in CallsOf({wallet}) : Begin(call)
      BY <2>2
    <3>2. call \in ACall
      BY <1>1, <1>3, CallsAreTyped
    <3> QED
      BY <1>1, <3>1, <3>2, BeginKeepsState
  <2> QED
    BY <1>2, <2>1, <2>2
<1> QED
  BY <1>1, <1>4, <1>5, RunningKeepsInv

\* The next call of a batch.
LEMMA ContinuingKeepsInv ==
    ASSUME CallsInv, BeginNext
    PROVE  CallsInv'
<1>1. /\ StateInv /\ request \in Seq(ACall) /\ position \in Nat
      /\ position < Len(request) /\ position' = position + 1
      /\ UNCHANGED <<request, stored>>
  BY DEF CallsInv, RequestInv, BeginNext
<1>2. request[position + 1] \in ACall /\ request # <<>>
  <2>1. PICK n \in Nat : n = Len(request)
    BY <1>1, LenProperties
  <2>2. position + 1 \in 1 .. Len(request) /\ n # 0
    BY <1>1, <2>1
  <2> QED
    BY <1>1, <2>1, <2>2, ElementOfSeq, EmptySeq
<1>3. PICK call \in ACall : call = request[position + 1]
  BY <1>2
<1>4. Begin(call)
  BY <1>3 DEF BeginNext
<1>5. StateInv' /\ now' = now
  BY <1>1, <1>4, BeginKeepsState
<1>6. ~Idle /\ position' \in Nat
  BY <1>1, <1>2 DEF Idle
<1> QED
  BY <1>1, <1>5, <1>6, RunningKeepsInv

\* An external call, and the return from one.
LEMMA InteractingKeepsInv ==
    ASSUME CallsInv, Interact \/ Return
    PROVE  CallsInv'
<1>1. StateInv /\ frames # <<>> /\ UNCHANGED <<request, position, stored>>
  BY DEF CallsInv, Interact, Return
<1>2. StateInv' /\ now' = now
  BY <1>1, InteractKeepsState, ReturnKeepsState
<1>3. ~Idle /\ position' \in Nat
  BY <1>1 DEF CallsInv, RequestInv
<1> QED
  BY <1>1, <1>2, <1>3, RunningKeepsInv

\* The end of a call, and of the transaction when it was the last one.
LEMMA LeavingKeepsInv ==
    ASSUME CallsInv, Leave
    PROVE  CallsInv'
<1>1. /\ StateInv /\ frames \in Seq(Frame) /\ frames # <<>> /\ ~Idle
  BY DEF CallsInv, RequestInv, StateInv, Leave
<1>2. StateInv' /\ now' = now
  BY <1>1, LeaveKeepsState
<1>3. CASE Len(frames) = 1 /\ position = Len(request)
  <2>1. request' = <<>> /\ position' = 0 /\ stored' = Storage'
    <3>1. request' = <<>> /\ position' = 0 /\ stored' = Storage
      BY <1>3 DEF Leave
    <3>2. Storage' = Storage
      BY DEF Leave, Storage, vars, protocolVars, ownerVars, contractVars, positionVars,
             revocationVars, tokenVars, erc20Vars, erc721Vars
    <3> QED
      BY <3>1, <3>2
  <2>2. frames' = <<>>
    <3>1. PICK outer \in Seq(Frame) :
             /\ Len(frames) = Len(outer) + 1
             /\ SubSeq(frames, 1, Len(frames) - 1) = outer
      BY <1>1, InnermostIsLast
    <3>2. PICK n \in Nat : n = Len(outer)
      BY LenProperties
    <3>3. n = 0
      BY <1>3, <3>1, <3>2
    <3>4. outer = <<>>
      BY <3>2, <3>3, EmptySeq
    <3> QED
      BY <3>1, <3>4 DEF Leave
  <2>3. StorageInv'
    <3>1. (StateInv /\ frames = <<>> /\ stored = Storage)'
      BY <1>2, <2>1, <2>2
    <3> QED
      BY <3>1, StoredIsGood, PTL
  <2>4. RequestInv'
    BY <2>1, <2>2, EmptySeq DEF RequestInv
  <2> QED
    BY <1>2, <2>3, <2>4 DEF CallsInv
<1>4. CASE ~(Len(frames) = 1 /\ position = Len(request))
  <2>1. UNCHANGED <<request, position, stored>>
    BY <1>4 DEF Leave
  <2>2. position' \in Nat
    BY <2>1 DEF CallsInv, RequestInv
  <2> QED
    BY <1>1, <1>2, <2>1, <2>2, RunningKeepsInv
<1> QED
  BY <1>3, <1>4

\* A revert.
LEMMA RevertingKeepsInv ==
    ASSUME CallsInv, Revert
    PROVE  CallsInv'
<1>1. StateInv' /\ StorageInv'
  BY RevertRestoresState DEF CallsInv
<1>2. RequestInv'
  BY EmptySeq DEF Revert, RequestInv
<1> QED
  BY <1>1, <1>2 DEF CallsInv

\* Every step keeps it.
LEMMA CallsInvIsInductive == CallsInv /\ [CallsNext]_<<vars, callVars>> => CallsInv'
<1> SUFFICES ASSUME CallsInv, [CallsNext]_<<vars, callVars>> PROVE CallsInv'
  OBVIOUS
<1>1. CASE BetweenCalls
  BY <1>1, WaitingKeepsInv
<1>2. ASSUME NEW calls \in Requests, Submit(calls) PROVE CallsInv'
  BY <1>2, SubmittingKeepsInv
<1>3. CASE Callback
  BY <1>3, CallingBackKeepsInv
<1>4. CASE Proceed
  BY <1>4, ContinuingKeepsInv, InteractingKeepsInv, LeavingKeepsInv, RevertingKeepsInv
     DEF Proceed
<1>5. CASE UNCHANGED <<vars, callVars>>
  <2>1. /\ StateInv /\ frames \in Seq(Frame) /\ UNCHANGED vars
        /\ UNCHANGED <<request, position, frames, stored>>
    BY <1>5 DEF CallsInv, StateInv, callVars
  <2>2. /\ frames' \in Seq(Frame)
        /\ \A a \in Assets : /\ OwedBy(frames', a, In) = OwedBy(frames, a, In)
                             /\ OwedBy(frames', a, Out) = OwedBy(frames, a, Out)
    BY <2>1
  <2>3. StateInv' /\ now' = now
    BY <2>1, <2>2, NothingMoves
  <2>4. StorageInv'
    BY <2>1, <2>3, StorageStays DEF CallsInv
  <2>5. RequestInv'
    BY <2>1 DEF CallsInv, RequestInv, Idle
  <2> QED
    BY <2>3, <2>4, <2>5 DEF CallsInv
<1> QED
  BY <1>1, <1>2, <1>3, <1>4, <1>5 DEF CallsNext

\* A contract goes through its life in order at every point of a transaction: a call
\* stores its outcome before it lets other code run, so that no call made in the middle
\* finds a contract between two phases.
THEOREM OutcomesInOrderWhileCallsRun == CallsSpec => [](TypeOK /\ OutcomesInOrder)
<1>1. CallsInv => TypeOK /\ OutcomesInOrder
  BY DEF CallsInv, StateInv
<1> QED
  BY <1>1, CallsInvHoldsFirst, CallsInvIsInductive, PTL DEF CallsSpec

\* The protocol stays solvent in the middle of transactions as well: whatever wallets
\* do when an external call reaches them, a withdrawal that runs before another call
\* has paid takes nothing but booked fees, and a revert brings back a covered state.
THEOREM SolventWhileCallsRun == CallsSpec => []SolventThroughoutCalls
<1>1. CallsInv => SolventThroughoutCalls
  BY DEF CallsInv, StateInv
<1> QED
  BY <1>1, CallsInvHoldsFirst, CallsInvIsInductive, PTL DEF CallsSpec
==============================================================================
