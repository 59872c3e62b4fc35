---------------------------- MODULE EventManager ----------------------------
(***************************************************************************)
(* The on-chain broker of one publisher: the Solidity contract             *)
(* pubsub-onchain/PubSub/EventManager.sol.                                 *)
(*                                                                         *)
(* A transaction is atomic with respect to other transactions, but a       *)
(* notification hands control to the subscribers, which may call back into *)
(* the contract before they return.  The model therefore runs              *)
(* notifySubscribers one external call at a time and lets every function   *)
(* of the contract be entered while a subscriber holds control.  A failed  *)
(* require is an action that is not enabled; a revert of something that    *)
(* has already changed state restores the state saved when the reverted    *)
(* call began.                                                             *)
(***************************************************************************)
EXTENDS Integers, Sequences, FiniteSets, Functions

CONSTANTS
    Addr,          \* account addresses
    Contract,      \* the addresses that hold code
    Owner,         \* the constructor's argument: the registering publisher
    MinDepositWei, FinishingGas, \* m_minDepositWei, FINISHING_COST_GAS
    InitIncentiveWei, InitPerSubLimitGas, \* initial m_incentiveWei, m_perSubLimitGas
    CheckGas,      \* gas the EVM charges between the two reads of gasleft()
    CallGas,       \* gas the EVM charges the caller for one external call
    Deposits,      \* values msg.value takes
    Incentives, GasLimits, NewPublishers, \* arguments of the owner's calls
    GasPrices, TxGas,            \* tx.gasprice and the gas left at the check
    MaxWei, MaxEvents, MaxNested \* bounds: Wei held, publications, re-entries

ASSUME EventManagerAssumption ==
    /\ IsFiniteSet(Addr)
    /\ Contract \subseteq Addr /\ NewPublishers \subseteq Addr /\ Owner \in Addr
    /\ {MinDepositWei, FinishingGas, InitIncentiveWei, InitPerSubLimitGas,
        CheckGas, CallGas, MaxWei, MaxEvents, MaxNested} \subseteq Nat
    /\ Deposits \subseteq Nat /\ Incentives \subseteq Nat
    /\ GasLimits \subseteq Nat /\ GasPrices \subseteq Nat /\ TxGas \subseteq Nat

VARIABLES
    store,     \* the contract's storage, its Wei and the events it emitted
    pc,        \* "idle", "loop" (between subscribers) or "calling" (in onNotify)
    frame,     \* the locals of notifyOnChainSubscribers
    txStart,   \* what a revert of the transaction restores
    callStart, \* what a revert of the running onNotify restores
    outcome    \* how the publication that just ended did so, else "none"

vars == <<store, pc, frame, txStart, callStart, outcome>>

NoFrame == [i |-> 0, numSubscribers |-> 0, incentPerSubWei |-> 0, fairLimitGas |-> 0,
            gasPriceWei |-> 0, compensateWei |-> 0, limitGas |-> 0,
            nested |-> 0, awarded |-> 0]

Deployed == [subscriberAddrs |-> <<>>,
             subscriberMap   |-> [a \in Addr |-> [init |-> FALSE, balanceWei |-> 0]],
             publishers      |-> {Owner},
             entranceLock    |-> FALSE,
             incentiveWei    |-> InitIncentiveWei,
             perSubLimitGas  |-> InitPerSubLimitGas,
             ethWei          |-> 0,
             emitted         |-> 0]

Init ==
    /\ store = Deployed
    /\ pc = "idle" /\ frame = NoFrame
    /\ txStart = Deployed /\ callStart = Deployed
    /\ outcome = "none"
-----------------------------------------------------------------------------
(* Control of a call.                                                      *)

\* A function runs as a transaction of its own, or from inside onNotify.
CanCall ==
    \/ pc = "idle"
    \/ pc = "calling" /\ frame.nested < MaxNested

Entered ==
    /\ frame' = IF pc = "calling" THEN [frame EXCEPT !.nested = @ + 1] ELSE frame
    /\ outcome' = "none"
    /\ UNCHANGED <<pc, txStart, callStart>>

\* The transaction ends: its frame is gone.
Return(o) ==
    /\ pc' = "idle" /\ frame' = NoFrame
    /\ txStart' = Deployed /\ callStart' = Deployed
    /\ outcome' = o

\* An uncaught failure undoes everything since the transaction began.
Revert(o) == store' = txStart /\ Return(o)
-----------------------------------------------------------------------------
(* The functions other than notifySubscribers.                             *)

NotAdded(a) == ~store.subscriberMap[a].init

AddSubscriber(a, v) ==
    /\ CanCall
    /\ NotAdded(a)
    /\ v >= MinDepositWei
    /\ store.ethWei + v <= MaxWei
    /\ store' = [store EXCEPT
                    !.subscriberAddrs = Append(@, a),
                    !.subscriberMap[a] = [init |-> TRUE, balanceWei |-> v],
                    !.ethWei = @ + v]
    /\ Entered

AddedUnchecked(a) == TRUE \* defect: a deposit to an account that does not exist
Added(a) == store.subscriberMap[a].init

SubscriberAddBalance(a, v) ==
    /\ CanCall
    /\ Added(a)
    /\ store.ethWei + v <= MaxWei
    /\ store' = [store EXCEPT !.subscriberMap[a].balanceWei = @ + v,
                              !.ethWei = @ + v]
    /\ Entered

UpdateIncentive(sender, v) ==
    /\ CanCall
    /\ sender = Owner
    /\ store' = [store EXCEPT !.incentiveWei = v]
    /\ Entered

AddPublisher(sender, p) ==
    /\ CanCall
    /\ sender = Owner
    /\ store' = [store EXCEPT !.publishers = @ \cup {p}]
    /\ Entered

SetPerSubscriberLimitGas(sender, g) ==
    /\ CanCall
    /\ sender = Owner
    /\ store' = [store EXCEPT !.perSubLimitGas = g]
    /\ Entered
-----------------------------------------------------------------------------
(* notifySubscribers and its loop.                                         *)

NumSubscribers == Len(store.subscriberAddrs)

MayNotify(sender) ==
    /\ CanCall
    /\ ~store.entranceLock
    /\ sender \in store.publishers
    /\ store.emitted < MaxEvents

\* Without subscribers the lock is taken and released, and the event emitted.
NotifyNobody(sender) ==
    /\ MayNotify(sender)
    /\ NumSubscribers = 0
    /\ store' = [store EXCEPT !.emitted = @ + 1]
    /\ Entered

IncentPerSubUndivided == store.incentiveWei \* defect: every subscriber pays it all
IncentPerSub == store.incentiveWei \div NumSubscribers

\* The locals of notifyOnChainSubscribers; gas is what gasleft() first reads.
OpenFrame(price, gas) ==
    [NoFrame EXCEPT
        !.i = 1,
        !.numSubscribers  = NumSubscribers,
        !.incentPerSubWei = IncentPerSub,
        !.fairLimitGas    = (gas - CheckGas - FinishingGas) \div NumSubscribers,
        !.gasPriceWei     = IF price = 0 THEN 1 ELSE price]

BeginNotify(sender, price, gas) ==
    /\ MayNotify(sender)
    /\ NumSubscribers > 0
    /\ gas >= store.perSubLimitGas * NumSubscribers + FinishingGas
    /\ gas >= CheckGas + FinishingGas
    /\ store' = [store EXCEPT !.entranceLock = TRUE]
    /\ pc' = "loop"
    /\ frame' = OpenFrame(price, gas)
    /\ txStart' = store
    /\ outcome' = "none"
    /\ UNCHANGED callStart

Callee == store.subscriberAddrs[frame.i]
CalleeWei == store.subscriberMap[Callee].balanceWei
InLoop == pc = "loop" /\ frame.i <= frame.numSubscribers

StuckIndex == frame.i \* defect: the loop goes on without counting
NextIndex == frame.i + 1

\* A subscriber whose balance does not exceed the incentive is passed over.
SkipSubscriber ==
    /\ InLoop
    /\ CalleeWei <= frame.incentPerSubWei
    /\ frame' = [frame EXCEPT !.i = NextIndex]
    /\ UNCHANGED <<store, pc, txStart, callStart, outcome>>

PayableGas == (CalleeWei - frame.incentPerSubWei) \div frame.gasPriceWei

CallSubscriber ==
    /\ InLoop
    /\ CalleeWei > frame.incentPerSubWei
    /\ Callee \in Contract
    /\ pc' = "calling"
    /\ frame' = [frame EXCEPT
                    !.limitGas = IF PayableGas > frame.fairLimitGas
                                 THEN frame.fairLimitGas ELSE PayableGas,
                    !.nested = 0]
    /\ callStart' = store
    /\ UNCHANGED <<store, txStart, outcome>>

\* The compiler checks that the callee has code before the call; that check is
\* outside what try/catch catches.
CallWithoutCode ==
    /\ InLoop
    /\ CalleeWei > frame.incentPerSubWei
    /\ Callee \notin Contract
    /\ Revert("noCode")

UsedGas == CallGas .. (CallGas + frame.limitGas)

LatestSubscriber(s) == s.subscriberAddrs[Len(s.subscriberAddrs)] \* defect: wrong account
Charged(s) == s.subscriberAddrs[frame.i]

Underflows(cost, balance) == cost > balance

LastCostOnly(cost) == cost \* defect: '=' for '+='
Compensate(cost) == frame.compensateWei + cost

\* The subscriber's account is charged in s, the state the call left; the
\* checked subtraction reverts when the balance does not cover the cost.
Charge(s, award, used, panic) ==
    LET a    == Charged(s)
        cost == award * frame.incentPerSubWei + used * frame.gasPriceWei
    IN  IF Underflows(cost, s.subscriberMap[a].balanceWei)
        THEN Revert(panic)
        ELSE /\ store' = [s EXCEPT !.subscriberMap[a].balanceWei = @ - cost]
             /\ pc' = "loop"
             /\ frame' = [frame EXCEPT !.i = NextIndex,
                                       !.compensateWei = Compensate(cost),
                                       !.awarded = @ + award,
                                       !.limitGas = 0, !.nested = 0]
             /\ callStart' = Deployed
             /\ UNCHANGED <<txStart, outcome>>

OnNotifyReturns(used) ==
    /\ pc = "calling"
    /\ used \in UsedGas
    /\ Charge(store, 1, used, "panic")

\* The failed call's own effects are undone, then its gas is charged.
OnNotifyFails(used) ==
    /\ pc = "calling"
    /\ used \in UsedGas
    /\ Charge(callStart, 0, used, "panicOnFailure")

LockReleased == FALSE

\* Reimburse tx.origin, release the lock, emit the event.
FinishNotify ==
    /\ pc = "loop"
    /\ frame.i > frame.numSubscribers
    /\ IF frame.compensateWei > store.ethWei
       THEN Revert("transferFailed")
       ELSE /\ store' = [store EXCEPT !.ethWei = @ - frame.compensateWei,
                                      !.entranceLock = LockReleased,
                                      !.emitted = @ + 1]
            /\ Return("committed")

\* The transaction's gas may run out at any point.
OutOfGas ==
    /\ pc # "idle"
    /\ Revert("outOfGas")
-----------------------------------------------------------------------------
External ==
    \/ \E a \in Addr, v \in Deposits : AddSubscriber(a, v) \/ SubscriberAddBalance(a, v)
    \/ \E s \in Addr, v \in Incentives : UpdateIncentive(s, v)
    \/ \E s \in Addr, p \in NewPublishers : AddPublisher(s, p)
    \/ \E s \in Addr, g \in GasLimits : SetPerSubscriberLimitGas(s, g)
    \/ \E s \in Addr : NotifyNobody(s)
    \/ \E s \in Addr, price \in GasPrices, gas \in TxGas : BeginNotify(s, price, gas)

\* What the EVM itself does next while a notification runs.
Advance ==
    \/ SkipSubscriber \/ CallSubscriber \/ CallWithoutCode \/ FinishNotify
    \/ \E used \in UsedGas : OnNotifyReturns(used) \/ OnNotifyFails(used)

Next == External \/ Advance \/ OutOfGas

Spec == Init /\ [][Next]_vars

\* The EVM runs a transaction to its end: a subscriber's gas is bounded, so its
\* call returns, and nothing but the transaction runs meanwhile.
FairSpec == Spec /\ WF_vars(Advance)
-----------------------------------------------------------------------------
(* Properties.                                                             *)

Storage ==
    [subscriberAddrs : Seq(Addr),
     subscriberMap   : [Addr -> [init : BOOLEAN, balanceWei : Nat]],
     publishers      : SUBSET Addr,
     entranceLock    : BOOLEAN,
     incentiveWei    : Nat,
     perSubLimitGas  : Nat,
     ethWei          : Nat,
     emitted         : Nat]

Frames ==
    [i : Nat, numSubscribers : Nat, incentPerSubWei : Nat, fairLimitGas : Nat,
     gasPriceWei : Nat, compensateWei : Nat, limitGas : Nat, nested : Nat,
     awarded : Nat]

\* Every variable keeps its type: no unsigned quantity of the contract goes below zero.
TypeOK ==
    /\ store \in Storage /\ txStart \in Storage /\ callStart \in Storage
    /\ pc \in {"idle", "loop", "calling"}
    /\ frame \in Frames
    /\ outcome \in {"none", "committed", "outOfGas", "noCode",
                    "panic", "panicOnFailure", "transferFailed"}

ListedOnce(s) ==
    /\ \A j, k \in DOMAIN s.subscriberAddrs :
          s.subscriberAddrs[j] = s.subscriberAddrs[k] => j = k
    /\ \A a \in Addr :
          s.subscriberMap[a].init <=> \E j \in DOMAIN s.subscriberAddrs : s.subscriberAddrs[j] = a

\* m_subscriberAddrs and m_subscriberMap agree: the array lists every initialised
\* account exactly once, so no notification calls or charges one account twice.
SubscribersListedOnce == ListedOnce(store)

\* The entrance lock is engaged exactly while a notification runs; whichever way
\* the notification ends, it is released.
LockedWhileNotifying == store.entranceLock <=> pc # "idle"

\* One publication awards at most the incentive that was set when it began, even
\* if subscribers join or the owner changes the incentive while it runs.
IncentiveBounded ==
    frame.awarded * frame.incentPerSubWei <= txStart.incentiveWei

\* The inductive invariant behind the three invariants above: also the saved
\* states are consistent, and the frame is the one the saved state opened.
FrameOK ==
    /\ frame.numSubscribers > 0 /\ frame.gasPriceWei > 0
    /\ frame.numSubscribers = Len(txStart.subscriberAddrs)
    /\ frame.incentPerSubWei = txStart.incentiveWei \div frame.numSubscribers
    /\ frame.i > frame.awarded /\ frame.i <= frame.numSubscribers + 1
    /\ frame.numSubscribers <= Len(store.subscriberAddrs)

IndInv ==
    /\ TypeOK
    /\ SubscribersListedOnce /\ ListedOnce(txStart) /\ ListedOnce(callStart)
    /\ LockedWhileNotifying /\ ~txStart.entranceLock
    /\ pc = "idle" => frame = NoFrame /\ txStart = Deployed
    /\ pc # "idle" => FrameOK
    /\ pc = "calling" =>
          /\ frame.i <= frame.numSubscribers
          /\ callStart.entranceLock
          /\ frame.numSubscribers <= Len(callStart.subscriberAddrs)

\* A step lowers the balance of an account only if it settles that account's own
\* onNotify call, or undoes a transaction or call that had raised it.
OnlyCalleeIsCharged ==
    [][\A a \in Addr :
          store'.subscriberMap[a].balanceWei < store.subscriberMap[a].balanceWei
          => \/ pc = "calling" /\ a = Callee
             \/ pc = "calling" /\ store'.subscriberMap[a] = callStart.subscriberMap[a]
             \/ store'.subscriberMap[a] = txStart.subscriberMap[a]]_vars

Balances(s) == [a \in {b \in Addr : s.subscriberMap[b].init} |-> s.subscriberMap[a].balanceWei]

Backs(s, charged) == s.ethWei = SumFunction(Balances(s)) + charged

\* The Wei held are exactly the subscribers' balances plus what the running
\* notification has charged and not yet paid to tx.origin.
Solvent == Backs(store, frame.compensateWei)

\* Between transactions the ledger shows the storage; during a notification it
\* still shows the state in which the notification began.
Committed == IF pc = "idle" THEN store ELSE txStart

Ledger == INSTANCE PubSubLedger WITH
    accounts  <- Balances(Committed),
    vault     <- Committed.ethWei,
    published <- Committed.emitted

\* The re-entrant notification loop implements the atomic ledger.
ImplementsLedger == Ledger!Spec

\* The inductive part of Solvent, OnlyCalleeIsCharged and ImplementsLedger: what a
\* revert may restore is backed as well, and inside a transaction nobody is
\* dropped, nothing is published and the list only grows.
Continues(s) ==
    /\ s.emitted = txStart.emitted
    /\ \A a \in Addr : txStart.subscriberMap[a].init => s.subscriberMap[a].init

EmptyUnlessAdded(s) ==
    \A a \in Addr : ~s.subscriberMap[a].init => s.subscriberMap[a].balanceWei = 0

LedgerInv ==
    /\ EmptyUnlessAdded(store) /\ EmptyUnlessAdded(txStart) /\ EmptyUnlessAdded(callStart)
    /\ Solvent /\ Backs(txStart, 0)
    /\ pc # "idle" => Continues(store)
    /\ pc = "calling" =>
          /\ Backs(callStart, frame.compensateWei) /\ Continues(callStart)
          /\ \A j \in 1..frame.numSubscribers :
                store.subscriberAddrs[j] = callStart.subscriberAddrs[j]

\* At most this many steps of its own are left to the running notification: two for
\* each subscriber still to come, its call and its settlement, and one to finish.
StepsLeft ==
    IF pc = "idle" THEN 0
    ELSE 2 * (frame.numSubscribers + 1 - frame.i) + (IF pc = "loop" THEN 1 ELSE 0)

\* The measure behind NotifyTerminates: StepsLeft is a natural number that every step
\* of a running notification lowers, but for a re-entered function, which leaves it
\* alone and uses up one of the re-entries a call's gas allows.
NotifyProgresses ==
    [][pc # "idle" =>
          \/ StepsLeft' \in Nat /\ StepsLeft' < StepsLeft
          \/ /\ pc = "calling" /\ StepsLeft' = StepsLeft
             /\ frame'.nested = frame.nested + 1 /\ frame'.nested <= MaxNested]_vars

\* A notification that has begun ends, committed or undone.
NotifyTerminates == (pc # "idle") ~> (pc = "idle")

\* What the catch block's comment promises (EventManager.sol, lines 125-127): a
\* subscriber that fails is charged for its gas and the next one is notified.
FailureIsAbsorbed == outcome # "panicOnFailure"
=============================================================================
