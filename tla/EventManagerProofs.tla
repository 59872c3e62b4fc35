------------------------- MODULE EventManagerProofs -------------------------
(* Proofs about EventManager, for every set of accounts and every value of  *)
(* its constants.                                                           *)
EXTENDS EventManager, FiniteSetTheorems, WellFoundedInduction, TLAPS

\* Dividing the incentive among n subscribers never hands out more than it.
LEMMA ShareBounded ==
    ASSUME NEW v \in Nat, NEW n \in Nat, n > 0, NEW k \in Nat, k <= n
    PROVE  /\ v \div n \in Nat
           /\ k * (v \div n) <= v
<1>1. v \div n \in Nat /\ n * (v \div n) <= v
  BY SMT
<1>2. k * (v \div n) <= n * (v \div n)
  BY <1>1, SMT
<1>. QED
  BY <1>1, <1>2, SMT

\* The deployed contract is consistent and unlocked.
LEMMA DeployedOK == Deployed \in Storage /\ ListedOnce(Deployed) /\ ~Deployed.entranceLock
  BY EventManagerAssumption DEF Deployed, Storage, ListedOnce

\* The invariant holds after deployment.
LEMMA InitOK == Init => IndInv
  BY DeployedOK DEF Init, IndInv, TypeOK, NoFrame, Frames, SubscribersListedOnce,
     LockedWhileNotifying, Deployed

Outcomes == {"none", "committed", "outOfGas", "noCode",
             "panic", "panicOnFailure", "transferFailed"}

\* A revert leads back to a consistent idle state.
LEMMA RevertOK ==
    ASSUME IndInv, NEW o \in Outcomes, Revert(o)
    PROVE  IndInv'
  BY DeployedOK DEF IndInv, TypeOK, Revert, Return, Outcomes, NoFrame, Frames,
     SubscribersListedOnce, LockedWhileNotifying, ListedOnce

\* A function entered from outside or from a subscriber keeps the invariant if it
\* leaves the lock alone and keeps the listed accounts consistent.
LEMMA EnteredOK ==
    ASSUME IndInv, CanCall, Entered,
           store' \in Storage, ListedOnce(store'),
           store'.entranceLock = store.entranceLock,
           Len(store'.subscriberAddrs) >= Len(store.subscriberAddrs)
    PROVE  IndInv'
<1>0. frame \in Frames
  BY DEF IndInv, TypeOK
<1>a. frame' \in Frames
  <2>1. CASE pc = "calling"
    BY SMTT(30), <2>1, <1>0 DEF Entered, Frames
  <2>2. CASE pc # "calling"
    BY <2>2, <1>0 DEF Entered
  <2>. QED
    BY <2>1, <2>2
<1>1. TypeOK'
  BY <1>a DEF IndInv, TypeOK, Entered
<1>b. pc = "calling" => /\ frame'.numSubscribers = frame.numSubscribers
                        /\ frame'.gasPriceWei = frame.gasPriceWei
                        /\ frame'.incentPerSubWei = frame.incentPerSubWei
                        /\ frame'.i = frame.i
                        /\ frame'.awarded = frame.awarded
  BY <1>0 DEF Entered, Frames
<1>c. /\ Len(store.subscriberAddrs) \in Nat /\ Len(store'.subscriberAddrs) \in Nat
      /\ frame.numSubscribers \in Nat
  <2>1. store \in Storage
    BY DEF IndInv, TypeOK
  <2>2. store.subscriberAddrs \in Seq(Addr) /\ store'.subscriberAddrs \in Seq(Addr)
    BY <2>1 DEF Storage
  <2>. QED
    BY <2>2, <1>0 DEF Frames
<1>d. pc = "calling" => FrameOK /\ txStart' = txStart
  BY DEF IndInv, Entered
<1>e. pc = "calling" => frame.numSubscribers <= Len(store'.subscriberAddrs)
  BY <1>c, <1>d DEF FrameOK
<1>2. pc = "calling" => FrameOK'
  BY <1>b, <1>d, <1>e, Zenon DEF FrameOK
<1>3. (pc # "idle" => FrameOK)'
  BY <1>2 DEF Entered, CanCall
<1>. QED
  BY <1>1, <1>3 DEF IndInv, TypeOK, Entered, Frames, CanCall, ListedOnce,
     SubscribersListedOnce, LockedWhileNotifying

\* Appending a new account keeps the list free of duplicates.
LEMMA AddSubscriberOK ==
    ASSUME IndInv, NEW a \in Addr, NEW v \in Deposits, AddSubscriber(a, v)
    PROVE  IndInv'
<1> DEFINE addrs == store.subscriberAddrs
           acct == [init |-> TRUE, balanceWei |-> v]
<1>1. v \in Nat /\ store \in Storage /\ addrs \in Seq(Addr)
  BY EventManagerAssumption DEF IndInv, TypeOK, Storage
<1>2. /\ store'.subscriberAddrs = Append(addrs, a)
      /\ store'.subscriberMap = [store.subscriberMap EXCEPT ![a] = acct]
      /\ store'.entranceLock = store.entranceLock
  BY <1>1 DEF AddSubscriber, Storage
<1>3. store' \in Storage
  <2>1. /\ Append(addrs, a) \in Seq(Addr)
        /\ [store.subscriberMap EXCEPT ![a] = acct]
              \in [Addr -> [init : BOOLEAN, balanceWei : Nat]]
        /\ store.ethWei + v \in Nat
    BY <1>1 DEF Storage
  <2>. QED
    BY <2>1, <1>1 DEF AddSubscriber, Storage
<1>4. /\ DOMAIN store'.subscriberAddrs = 1 .. (Len(addrs) + 1)
      /\ store'.subscriberAddrs[Len(addrs) + 1] = a
      /\ \A j \in 1 .. Len(addrs) : store'.subscriberAddrs[j] = addrs[j]
      /\ Len(store'.subscriberAddrs) = Len(addrs) + 1
      /\ DOMAIN addrs = 1 .. Len(addrs) /\ Len(addrs) \in Nat
  BY <1>1, <1>2
<1>5. \A j \in DOMAIN addrs : addrs[j] # a
  BY DEF IndInv, SubscribersListedOnce, ListedOnce, AddSubscriber, NotAdded
<1>6. ListedOnce(store')
  <2>1. \A j, k \in DOMAIN store'.subscriberAddrs :
           store'.subscriberAddrs[j] = store'.subscriberAddrs[k] => j = k
    BY SMTT(30), <1>4, <1>5 DEF IndInv, SubscribersListedOnce, ListedOnce
  <2>2. ASSUME NEW b \in Addr
        PROVE  store'.subscriberMap[b].init <=>
                  \E j \in DOMAIN store'.subscriberAddrs : store'.subscriberAddrs[j] = b
    <3>1. CASE b = a
      BY <3>1, <1>1, <1>2, <1>4 DEF Storage
    <3>2. CASE b # a
      <4>1. store'.subscriberMap[b] = store.subscriberMap[b]
        BY <3>2, <1>1, <1>2 DEF Storage
      <4>2. store.subscriberMap[b].init <=> \E j \in DOMAIN addrs : addrs[j] = b
        BY DEF IndInv, SubscribersListedOnce, ListedOnce
      <4>. QED
        BY SMTT(30), <3>2, <4>1, <4>2, <1>4
    <3>. QED
      BY <3>1, <3>2
  <2>. QED
    BY <2>1, <2>2 DEF ListedOnce
<1>. QED
  BY <1>2, <1>3, <1>4, <1>6, EnteredOK DEF AddSubscriber

\* The other functions leave the list and the init flags alone.
LEMMA SettersOK ==
    ASSUME IndInv,
           \/ \E a \in Addr, v \in Deposits : SubscriberAddBalance(a, v)
           \/ \E s \in Addr, v \in Incentives : UpdateIncentive(s, v)
           \/ \E s \in Addr, p \in NewPublishers : AddPublisher(s, p)
           \/ \E s \in Addr, g \in GasLimits : SetPerSubscriberLimitGas(s, g)
           \/ \E s \in Addr : NotifyNobody(s)
    PROVE  IndInv'
<1> DEFINE Harmless ==
      /\ store' \in Storage
      /\ store'.entranceLock = store.entranceLock
      /\ store'.subscriberAddrs = store.subscriberAddrs
      /\ \A b \in Addr : store'.subscriberMap[b].init = store.subscriberMap[b].init
      /\ CanCall /\ Entered
<1>1. Harmless
  <2>1. ASSUME NEW a \in Addr, NEW v \in Deposits, SubscriberAddBalance(a, v)
        PROVE  Harmless
    <3>1. v \in Nat /\ store \in Storage
      BY EventManagerAssumption DEF IndInv, TypeOK
    <3>2. /\ store.subscriberMap \in [Addr -> [init : BOOLEAN, balanceWei : Nat]]
          /\ store.ethWei + v \in Nat
      BY <3>1 DEF Storage
    <3> DEFINE m == [store.subscriberMap EXCEPT ![a].balanceWei = @ + v]
    <3>3. /\ m \in [Addr -> [init : BOOLEAN, balanceWei : Nat]]
          /\ \A b \in Addr : m[b].init = store.subscriberMap[b].init
      BY <3>1, <3>2
    <3>4. /\ store'.subscriberMap = m
          /\ store'.entranceLock = store.entranceLock
          /\ store'.subscriberAddrs = store.subscriberAddrs
          /\ store' \in Storage
      BY <2>1, <3>1, <3>2, <3>3 DEF Storage, SubscriberAddBalance
    <3>. QED
      BY <2>1, <3>3, <3>4 DEF SubscriberAddBalance
  <2>2. ASSUME NEW s \in Addr, NEW v \in Incentives, UpdateIncentive(s, v)
        PROVE  Harmless
    BY <2>2, EventManagerAssumption DEF IndInv, TypeOK, Storage, UpdateIncentive
  <2>3. ASSUME NEW s \in Addr, NEW p \in NewPublishers, AddPublisher(s, p)
        PROVE  Harmless
    BY <2>3, EventManagerAssumption DEF IndInv, TypeOK, Storage, AddPublisher
  <2>4. ASSUME NEW s \in Addr, NEW g \in GasLimits, SetPerSubscriberLimitGas(s, g)
        PROVE  Harmless
    BY <2>4, EventManagerAssumption DEF IndInv, TypeOK, Storage, SetPerSubscriberLimitGas
  <2>5. ASSUME NEW s \in Addr, NotifyNobody(s)
        PROVE  Harmless
    <3>1. store \in Storage
      BY DEF IndInv, TypeOK
    <3>. QED
      BY SMTT(30), <2>5, <3>1 DEF Storage, NotifyNobody, MayNotify
  <2>. QED
    BY <2>1, <2>2, <2>3, <2>4, <2>5
<1>2. ListedOnce(store')
  BY <1>1 DEF IndInv, SubscribersListedOnce, ListedOnce
<1>3. Len(store'.subscriberAddrs) >= Len(store.subscriberAddrs)
  BY <1>1 DEF IndInv, TypeOK, Storage
<1>. QED
  BY <1>1, <1>2, <1>3, EnteredOK

\* Opening a notification takes the lock and fixes the locals of the loop.
LEMMA BeginNotifyOK ==
    ASSUME IndInv, NEW s \in Addr, NEW price \in GasPrices, NEW gas \in TxGas,
           BeginNotify(s, price, gas)
    PROVE  IndInv'
<1> DEFINE n == Len(store.subscriberAddrs)
<1>1. /\ store \in Storage /\ price \in Nat /\ gas \in Nat
      /\ CheckGas \in Nat /\ FinishingGas \in Nat
  BY EventManagerAssumption DEF IndInv, TypeOK
<1>2. n \in Nat /\ n > 0 /\ store.incentiveWei \in Nat
  <2>1. store.subscriberAddrs \in Seq(Addr) /\ store.incentiveWei \in Nat
    BY <1>1 DEF Storage
  <2>. QED
    BY <2>1 DEF BeginNotify, NumSubscribers
<1>3. /\ store.incentiveWei \div n \in Nat
      /\ (gas - CheckGas - FinishingGas) \div n \in Nat
  <2>1. gas - CheckGas - FinishingGas \in Nat
    BY <1>1 DEF BeginNotify
  <2>. QED
    BY <2>1, <1>2, ShareBounded
<1>4. /\ frame' \in Frames
      /\ frame'.numSubscribers = n /\ frame'.incentPerSubWei = store.incentiveWei \div n
      /\ frame'.i = 1 /\ frame'.awarded = 0 /\ frame'.gasPriceWei > 0
  <2>1. (IF price = 0 THEN 1 ELSE price) \in Nat \ {0}
    BY <1>1
  <2>. QED
    <3> DEFINE p == IF price = 0 THEN 1 ELSE price
               q == store.incentiveWei \div n
               g == (gas - CheckGas - FinishingGas) \div n
    <3>1. frame' = [i |-> 1, numSubscribers |-> n, incentPerSubWei |-> q, fairLimitGas |-> g,
                    gasPriceWei |-> p, compensateWei |-> 0, limitGas |-> 0,
                    nested |-> 0, awarded |-> 0]
      BY DEF BeginNotify, OpenFrame, NoFrame, NumSubscribers, IncentPerSub
    <3>2. p \in Nat /\ p > 0 /\ q \in Nat /\ g \in Nat /\ n \in Nat
      BY <1>2, <1>3, <2>1
    <3>. HIDE DEF p, q, g, n
    <3>3. frame' \in Frames /\ frame'.gasPriceWei > 0
      BY <3>1, <3>2 DEF Frames
    <3>4. /\ frame'.numSubscribers = n /\ frame'.incentPerSubWei = q
          /\ frame'.i = 1 /\ frame'.awarded = 0
      BY <3>1
    <3>. QED
      BY <3>3, <3>4 DEF q
<1>5. /\ store' \in Storage /\ store'.entranceLock
      /\ store'.subscriberAddrs = store.subscriberAddrs
      /\ store'.subscriberMap = store.subscriberMap
  BY <1>1 DEF BeginNotify, Storage
<1>6. txStart' = store /\ callStart' = callStart /\ pc' = "loop" /\ outcome' = "none"
  BY DEF BeginNotify
<1>7. ~store.entranceLock
  BY DEF BeginNotify, MayNotify
<1>8. FrameOK'
  BY <1>2, <1>4, <1>5, <1>6 DEF FrameOK
<1>9. TypeOK'
  BY <1>1, <1>4, <1>5, <1>6 DEF IndInv, TypeOK
<1>. QED
  BY <1>5, <1>6, <1>7, <1>8, <1>9
     DEF IndInv, SubscribersListedOnce, ListedOnce, LockedWhileNotifying

\* Moving to the next subscriber without a call.
LEMMA SkipOK ==
    ASSUME IndInv, SkipSubscriber
    PROVE  IndInv'
<1>1. frame \in Frames /\ FrameOK /\ pc = "loop"
  BY DEF IndInv, TypeOK, SkipSubscriber, InLoop
<1>2. /\ frame' \in Frames
      /\ frame'.i = frame.i + 1 /\ frame'.awarded = frame.awarded
      /\ frame'.numSubscribers = frame.numSubscribers
      /\ frame'.incentPerSubWei = frame.incentPerSubWei
      /\ frame'.gasPriceWei = frame.gasPriceWei
  BY <1>1 DEF SkipSubscriber, Frames, NextIndex
<1>3. /\ frame.i \in Nat /\ frame.awarded \in Nat /\ frame.numSubscribers \in Nat
      /\ frame.i <= frame.numSubscribers
  BY <1>1 DEF Frames, SkipSubscriber, InLoop
<1>4. UNCHANGED <<store, pc, txStart, callStart, outcome>>
  BY DEF SkipSubscriber
<1>5. FrameOK'
  BY <1>1, <1>2, <1>3, <1>4 DEF FrameOK
<1>. QED
  BY <1>1, <1>2, <1>4, <1>5 DEF IndInv, TypeOK, SubscribersListedOnce, ListedOnce,
     LockedWhileNotifying

\* Calling a subscriber saves the state a failing call is undone to.
LEMMA CallOK ==
    ASSUME IndInv, CallSubscriber
    PROVE  IndInv'
<1>1. frame \in Frames /\ FrameOK /\ pc = "loop" /\ store \in Storage
  BY DEF IndInv, TypeOK, CallSubscriber, InLoop
<1>2. /\ frame.i \in Nat /\ frame.numSubscribers \in Nat /\ frame.gasPriceWei \in Nat
      /\ frame.incentPerSubWei \in Nat /\ frame.fairLimitGas \in Nat
      /\ frame.i <= frame.numSubscribers /\ frame.i > 0 /\ frame.gasPriceWei > 0
  BY <1>1 DEF Frames, FrameOK, CallSubscriber, InLoop
<1>3. CalleeWei \in Nat /\ CalleeWei > frame.incentPerSubWei
  <2>1. /\ store.subscriberAddrs \in Seq(Addr)
        /\ store.subscriberMap \in [Addr -> [init : BOOLEAN, balanceWei : Nat]]
    BY <1>1 DEF Storage
  <2>2. frame.i \in 1 .. Len(store.subscriberAddrs)
    BY <2>1, <1>1, <1>2 DEF FrameOK
  <2>3. Callee \in Addr
    BY <2>1, <2>2 DEF Callee
  <2>. QED
    BY <2>1, <2>3 DEF CalleeWei, CallSubscriber
<1>4. PayableGas \in Nat
  <2>1. CalleeWei - frame.incentPerSubWei \in Nat
    BY <1>2, <1>3
  <2>. QED
    BY <2>1, <1>2, ShareBounded DEF PayableGas
<1>5. /\ frame' \in Frames
      /\ frame'.i = frame.i /\ frame'.awarded = frame.awarded
      /\ frame'.numSubscribers = frame.numSubscribers
      /\ frame'.incentPerSubWei = frame.incentPerSubWei
      /\ frame'.gasPriceWei = frame.gasPriceWei
  BY <1>1, <1>2, <1>4 DEF CallSubscriber, Frames
<1>6. /\ UNCHANGED <<store, txStart, outcome>>
      /\ pc' = "calling" /\ callStart' = store
  BY DEF CallSubscriber
<1>7. FrameOK'
  BY <1>1, <1>5, <1>6, Zenon DEF FrameOK
<1>8. store.entranceLock /\ frame.numSubscribers <= Len(store.subscriberAddrs)
  BY <1>1 DEF IndInv, LockedWhileNotifying, FrameOK
<1>9. TypeOK'
  BY <1>1, <1>5, <1>6 DEF IndInv, TypeOK
<1>. QED
  BY <1>2, <1>5, <1>6, <1>7, <1>8, <1>9
     DEF IndInv, SubscribersListedOnce, ListedOnce, LockedWhileNotifying

\* Settling a call on state s, which is the current one or the one before the call.
LEMMA ChargeOK ==
    ASSUME IndInv, pc = "calling",
           NEW s, s = store \/ s = callStart,
           NEW award \in {0, 1}, NEW used \in Nat, NEW panic \in Outcomes,
           Charge(s, award, used, panic)
    PROVE  IndInv'
<1> DEFINE a == s.subscriberAddrs[frame.i]
           cost == award * frame.incentPerSubWei + used * frame.gasPriceWei
           wei == s.subscriberMap[a].balanceWei
<1>1. /\ frame \in Frames /\ FrameOK /\ s \in Storage /\ ListedOnce(s)
      /\ s.entranceLock /\ frame.numSubscribers <= Len(s.subscriberAddrs)
      /\ frame.i <= frame.numSubscribers
  BY DEF IndInv, TypeOK, SubscribersListedOnce, LockedWhileNotifying, FrameOK
<1>2. /\ frame.i \in Nat /\ frame.numSubscribers \in Nat /\ frame.gasPriceWei \in Nat
      /\ frame.incentPerSubWei \in Nat /\ frame.awarded \in Nat
      /\ frame.compensateWei \in Nat /\ frame.i > frame.awarded
  BY <1>1 DEF Frames, FrameOK
<1>3. /\ s.subscriberAddrs \in Seq(Addr)
      /\ s.subscriberMap \in [Addr -> [init : BOOLEAN, balanceWei : Nat]]
  BY <1>1 DEF Storage
<1>4. a \in Addr /\ wei \in Nat
  <2>1. frame.i \in 1 .. Len(s.subscriberAddrs)
    BY <1>1, <1>2, <1>3
  <2>2. a \in Addr
    BY <2>1, <1>3
  <2>. QED
    BY <2>2, <1>3
<1>5. cost \in Nat
  <2>1. used * frame.gasPriceWei \in Nat
    BY <1>2
  <2>2. award * frame.incentPerSubWei \in Nat
    BY <1>2
  <2>. QED
    BY <2>1, <2>2
<1>6. CASE cost > wei
  BY <1>6, RevertOK DEF Charge, Charged, Underflows
<1>7. CASE ~(cost > wei)
  <2> DEFINE m == [s.subscriberMap EXCEPT ![a].balanceWei = @ - cost]
  <2>1. /\ store' = [s EXCEPT !.subscriberMap[a].balanceWei = @ - cost]
        /\ pc' = "loop"
        /\ frame' = [frame EXCEPT !.i = NextIndex,
                                  !.compensateWei = Compensate(cost),
                                  !.awarded = @ + award,
                                  !.limitGas = 0, !.nested = 0]
        /\ callStart' = Deployed
        /\ UNCHANGED <<txStart, outcome>>
    BY <1>7 DEF Charge, Charged, Underflows
  <2>2. /\ m \in [Addr -> [init : BOOLEAN, balanceWei : Nat]]
        /\ \A b \in Addr : m[b].init = s.subscriberMap[b].init
    <3>1. wei - cost \in Nat
      BY <1>4, <1>5, <1>7
    <3>. QED
      BY <3>1, <1>3, <1>4
  <2>3. /\ store' \in Storage /\ store'.subscriberMap = m
        /\ store'.subscriberAddrs = s.subscriberAddrs
        /\ store'.entranceLock = s.entranceLock
    BY <2>1, <2>2, <1>1 DEF Storage
  <2>4. ListedOnce(store')
    <3>1. \A b \in Addr : store'.subscriberMap[b].init = s.subscriberMap[b].init
      BY <2>2, <2>3
    <3>2. store'.subscriberAddrs = s.subscriberAddrs /\ ListedOnce(s)
      BY <2>3, <1>1
    <3>. HIDE DEF m, a, cost, wei
    <3>. QED
      BY <3>1, <3>2, SMT DEF ListedOnce
  <2>5. /\ frame' \in Frames
        /\ frame'.i = frame.i + 1 /\ frame'.awarded = frame.awarded + award
        /\ frame'.numSubscribers = frame.numSubscribers
        /\ frame'.incentPerSubWei = frame.incentPerSubWei
        /\ frame'.gasPriceWei = frame.gasPriceWei
    <3>1. /\ frame.i + 1 \in Nat /\ frame.awarded + award \in Nat
          /\ frame.compensateWei + cost \in Nat
      BY <1>2, <1>5
    <3>. HIDE DEF cost
    <3>. QED
      BY <3>1, <2>1, <1>1 DEF Frames, NextIndex, Compensate
  <2>6. FrameOK'
    <3>1. frame'.i > frame'.awarded /\ frame'.i <= frame'.numSubscribers + 1
      BY <2>5, <1>1, <1>2
    <3>. QED
      BY <3>1, <2>1, <2>3, <2>5, <1>1, Zenon DEF FrameOK
  <2>7. TypeOK'
    BY <2>1, <2>3, <2>5, DeployedOK DEF IndInv, TypeOK
  <2>8. ListedOnce(txStart)' /\ ListedOnce(callStart)' /\ ~txStart'.entranceLock
    BY <2>1, DeployedOK, Zenon DEF IndInv
  <2>9. SubscribersListedOnce' /\ LockedWhileNotifying'
    BY <2>1, <2>3, <2>4, <1>1 DEF SubscribersListedOnce, LockedWhileNotifying
  <2>10. pc' # "idle" /\ pc' # "calling"
    BY <2>1
  <2>. QED
    BY <2>6, <2>7, <2>8, <2>9, <2>10, Zenon DEF IndInv
<1>. QED
  BY <1>6, <1>7

\* The end of the loop releases the lock, or reverts.
LEMMA FinishOK ==
    ASSUME IndInv, FinishNotify
    PROVE  IndInv'
<1>1. CASE frame.compensateWei > store.ethWei
  BY <1>1, RevertOK DEF FinishNotify, Outcomes
<1>2. CASE ~(frame.compensateWei > store.ethWei)
  <2>1. store \in Storage /\ frame \in Frames
    BY DEF IndInv, TypeOK
  <2>2. store.ethWei - frame.compensateWei \in Nat
    BY <2>1, <1>2 DEF Storage, Frames
  <2>3. /\ store' \in Storage /\ ~store'.entranceLock
        /\ store'.subscriberAddrs = store.subscriberAddrs
        /\ store'.subscriberMap = store.subscriberMap
        /\ pc' = "idle" /\ frame' = NoFrame
        /\ txStart' = Deployed /\ callStart' = Deployed /\ outcome' = "committed"
    <3>1. /\ store' = [store EXCEPT !.ethWei = @ - frame.compensateWei,
                                    !.entranceLock = FALSE, !.emitted = @ + 1]
          /\ Return("committed")
      BY <1>2 DEF FinishNotify, LockReleased
    <3>2. store.emitted + 1 \in Nat
      BY <2>1 DEF Storage
    <3>. QED
      BY <3>1, <3>2, <2>1, <2>2 DEF Return, Storage
  <2>4. NoFrame \in Frames
    BY DEF NoFrame, Frames
  <2>. QED
    BY <2>3, <2>4, DeployedOK DEF IndInv, TypeOK, SubscribersListedOnce, ListedOnce,
       LockedWhileNotifying
<1>. QED
  BY <1>1, <1>2

\* Every step keeps the invariant: one case per action of Next.
LEMMA StepOK == IndInv /\ [Next]_vars => IndInv'
<1> SUFFICES ASSUME IndInv, [Next]_vars PROVE IndInv'
  OBVIOUS
<1>0. UsedGas \subseteq Nat
  <2>1. frame.limitGas \in Nat /\ CallGas \in Nat
    BY EventManagerAssumption DEF IndInv, TypeOK, Frames
  <2>. QED
    BY <2>1 DEF UsedGas
<1>1. CASE External
  BY <1>1, AddSubscriberOK, SettersOK, BeginNotifyOK DEF External
<1>2. CASE SkipSubscriber \/ CallSubscriber \/ FinishNotify
  BY <1>2, SkipOK, CallOK, FinishOK
<1>3. CASE CallWithoutCode \/ OutOfGas
  BY <1>3, RevertOK DEF CallWithoutCode, OutOfGas, Outcomes
<1>4. ASSUME NEW used \in UsedGas, OnNotifyReturns(used)
      PROVE  IndInv'
  BY <1>0, <1>4, ChargeOK DEF OnNotifyReturns, Outcomes
<1>5. ASSUME NEW used \in UsedGas, OnNotifyFails(used)
      PROVE  IndInv'
  BY <1>0, <1>5, ChargeOK DEF OnNotifyFails, Outcomes
<1>6. CASE UNCHANGED vars
  BY <1>6 DEF vars, IndInv, TypeOK, SubscribersListedOnce, ListedOnce,
     LockedWhileNotifying, FrameOK
<1>. QED
  BY <1>1, <1>2, <1>3, <1>4, <1>5, <1>6 DEF Next, Advance

\* The inductive invariant holds in every execution.
LEMMA AlwaysIndInv == Spec => []IndInv
  BY InitOK, StepOK, PTL DEF Spec

\* No unsigned quantity of the contract leaves its range in any execution.
THEOREM TypeCorrect == Spec => []TypeOK
<1>1. IndInv => TypeOK
  BY DEF IndInv
<1>. QED
  BY <1>1, AlwaysIndInv, PTL

\* The subscriber array lists every initialised account exactly once, whatever
\* subscribers do while they are being notified.
THEOREM ListedOnceAlways == Spec => []SubscribersListedOnce
<1>1. IndInv => SubscribersListedOnce
  BY DEF IndInv
<1>. QED
  BY <1>1, AlwaysIndInv, PTL

\* The entrance lock is engaged exactly while a notification runs.
THEOREM LockAlways == Spec => []LockedWhileNotifying
<1>1. IndInv => LockedWhileNotifying
  BY DEF IndInv
<1>. QED
  BY <1>1, AlwaysIndInv, PTL

\* A publication never awards more than the incentive set when it began.
THEOREM IncentiveAlwaysBounded == Spec => []IncentiveBounded
<1>1. IndInv => IncentiveBounded
  <2> SUFFICES ASSUME IndInv PROVE IncentiveBounded
    OBVIOUS
  <2>1. frame \in Frames /\ txStart \in Storage
    BY DEF IndInv, TypeOK
  <2>2. txStart.incentiveWei \in Nat /\ frame.awarded \in Nat
        /\ frame.numSubscribers \in Nat /\ frame.i \in Nat
    BY <2>1 DEF Frames, Storage
  <2>3. CASE pc = "idle"
    BY <2>3, <2>2 DEF IndInv, NoFrame, IncentiveBounded
  <2>4. CASE pc # "idle"
    <3>1. FrameOK
      BY <2>4 DEF IndInv
    <3>2. frame.awarded <= frame.numSubscribers
      BY <3>1, <2>2 DEF FrameOK
    <3>. QED
      BY <3>1, <3>2, <2>2, ShareBounded DEF FrameOK, IncentiveBounded
  <2>. QED
    BY <2>3, <2>4
<1>. QED
  BY <1>1, AlwaysIndInv, PTL
-----------------------------------------------------------------------------
(***************************************************************************)
(* Sums over accounts.  SumFunction is a fold, that is a recursive         *)
(* function on the subsets of the domain; a least counterexample takes the *)
(* place of induction, for which the provers have no rule to instantiate.  *)
(***************************************************************************)
\* A non-empty set of naturals has a least element.
LEMMA Least ==
    ASSUME NEW K \in SUBSET Nat, K # {}
    PROVE  \E k \in K : \A m \in K : k <= m
<1> DEFINE R == {p \in Nat \X Nat : p[1] < p[2]}
<1>1. IsWellFoundedOn(R, Nat)
  BY NatLessThanWellFounded DEF OpToRel
<1>2. PICK k \in K : \A m \in K : <<m, k>> \notin R
  <2> HIDE DEF R
  <2>. QED
    BY <1>1, WFMin
<1>3. \A m \in K : ~(m < k)
  BY <1>2
<1>. QED
  BY <1>3

\* The smallest of the subsets in which a finite set is bad has no smaller bad one.
LEMMA SmallestSubset ==
    ASSUME NEW T, IsFiniteSet(T), NEW Bad \in SUBSET (SUBSET T), Bad # {}
    PROVE  \E s \in Bad : \A x \in s : s \ {x} \notin Bad
<1> DEFINE K == {Cardinality(s) : s \in Bad}
<1>1. \A s \in Bad : IsFiniteSet(s) /\ Cardinality(s) \in Nat
  BY FS_Subset, FS_CardinalityType
<1>2. PICK s \in Bad : \A m \in K : Cardinality(s) <= m
  <2>1. K \in SUBSET Nat /\ K # {}
    BY <1>1
  <2>2. PICK k \in K : \A m \in K : k <= m
    BY <2>1, Least, Zenon
  <2>. QED
    BY <2>2
<1>3. ASSUME NEW x \in s, s \ {x} \in Bad
      PROVE  FALSE
  <2>1. Cardinality(s \ {x}) = Cardinality(s) - 1
    BY <1>1, FS_RemoveElement
  <2>2. Cardinality(s) <= Cardinality(s \ {x})
    BY <1>2, <1>3
  <2>. QED
    BY <1>1, <2>1, <2>2
<1>. QED
  BY <1>3

Pick(s) == CHOOSE x \in s : TRUE

\* One unfolding of the fold over the subset s.
Unfolded(f, g, s) == IF s = {} THEN 0 ELSE f[Pick(s)] + g[s \ {Pick(s)}]

\* The function that the fold computes: the sum of f over every subset of T.
Sums(f, T) == CHOOSE g : g = [s \in SUBSET T |-> Unfolded(f, g, s)]

\* The library's sum is the value of that function at T.
LEMMA SumIsFold ==
    ASSUME NEW f, NEW T
    PROVE  SumFunctionOnSet(f, T) = Sums(f, T)[T]
  BY Zenon DEF SumFunctionOnSet, FoldFunctionOnSet, MapThenFoldSet, Sums, Unfolded, Pick

\* A set without its picked element has one element less.
LEMMA PickRemoved ==
    ASSUME NEW s, IsFiniteSet(s), s # {}
    PROVE  /\ Pick(s) \in s
           /\ Cardinality(s) \in Nat
           /\ Cardinality(s \ {Pick(s)}) = Cardinality(s) - 1
<1>1. Pick(s) \in s
  BY DEF Pick
<1>. QED
  BY <1>1, FS_RemoveElement, FS_CardinalityType, Zenon

\* The subsets of T with at most k elements, and a fold over them.
Small(T, k) == {s \in SUBSET T : Cardinality(s) <= k}
FoldsUpTo(f, T, k, g) ==
    g \in [Small(T, k) -> Nat] /\ \A s \in Small(T, k) : g[s] = Unfolded(f, g, s)

\* Such a fold exists for every k.
LEMMA SmallFolds ==
    ASSUME NEW T, IsFiniteSet(T), NEW f, \A x \in T : f[x] \in Nat, NEW n \in Nat
    PROVE  \E g : FoldsUpTo(f, T, n, g)
<1> DEFINE K == {k \in Nat : ~\E g : FoldsUpTo(f, T, k, g)}
<1> SUFFICES ASSUME n \in K PROVE FALSE
  OBVIOUS
<1>1. PICK k \in K : \A m \in K : k <= m
  <2>1. K \in SUBSET Nat /\ K # {}
    OBVIOUS
  <2> HIDE DEF K
  <2>. QED
    BY <2>1, Least
<1>2. \A s \in SUBSET T : IsFiniteSet(s) /\ Cardinality(s) \in Nat
  BY FS_Subset, FS_CardinalityType
<1>3. CASE k = 0
  <2> DEFINE g == [s \in Small(T, k) |-> 0]
  <2>1. \A s \in Small(T, k) : s = {}
    <3> SUFFICES ASSUME NEW s \in Small(T, k) PROVE s = {}
      OBVIOUS
    <3>1. Cardinality(s) = 0
      BY <1>2, <1>3 DEF Small
    <3>. QED
      BY <3>1, <1>2, FS_EmptySet DEF Small
  <2>2. FoldsUpTo(f, T, k, g)
    BY <2>1 DEF FoldsUpTo, Unfolded
  <2>. QED
    BY <2>2
<1>4. CASE k # 0
  <2>1. k - 1 \in Nat /\ k - 1 \notin K
    BY <1>1, <1>4
  <2>2. PICK h : FoldsUpTo(f, T, k - 1, h)
    BY <2>1
  <2> DEFINE g == [s \in Small(T, k) |-> Unfolded(f, h, s)]
  <2>3. \A s \in Small(T, k - 1) : s \in Small(T, k) /\ h[s] \in Nat /\ h[s] = g[s]
    <3>1. \A s \in Small(T, k - 1) : s \in Small(T, k)
      BY <1>2, <2>1 DEF Small
    <3>2. \A s \in Small(T, k - 1) : h[s] \in Nat /\ h[s] = Unfolded(f, h, s)
      BY <2>2 DEF FoldsUpTo
    <3>. QED
      BY <3>1, <3>2
  <2>4. \A s \in Small(T, k) : s # {} => Pick(s) \in T /\ s \ {Pick(s)} \in Small(T, k - 1)
    <3> SUFFICES ASSUME NEW s \in Small(T, k), s # {}
                 PROVE  Pick(s) \in T /\ s \ {Pick(s)} \in Small(T, k - 1)
      OBVIOUS
    <3>1. s \in SUBSET T /\ Cardinality(s) <= k /\ IsFiniteSet(s)
      BY <1>2 DEF Small
    <3>2. /\ Pick(s) \in s /\ Cardinality(s) \in Nat
          /\ Cardinality(s \ {Pick(s)}) = Cardinality(s) - 1
      BY <3>1, PickRemoved
    <3>3. Cardinality(s \ {Pick(s)}) <= k - 1
      BY <3>1, <3>2
    <3>. QED
      BY <3>1, <3>2, <3>3 DEF Small
  <2>5. ASSUME NEW s \in Small(T, k)
        PROVE  g[s] \in Nat /\ g[s] = Unfolded(f, g, s)
    <3>1. g[s] = Unfolded(f, h, s)
      OBVIOUS
    <3>2. CASE s = {}
      BY <3>1, <3>2 DEF Unfolded
    <3>3. CASE s # {}
      <4>1. /\ h[s \ {Pick(s)}] = g[s \ {Pick(s)}]
            /\ h[s \ {Pick(s)}] \in Nat /\ f[Pick(s)] \in Nat
        BY <3>3, <2>3, <2>4
      <4> HIDE DEF g
      <4>. QED
        BY <3>1, <3>3, <4>1 DEF Unfolded
    <3>. QED
      BY <3>2, <3>3
  <2>6. FoldsUpTo(f, T, k, g)
    <3>1. g \in [Small(T, k) -> Nat]
      BY <2>5
    <3> HIDE DEF g
    <3>. QED
      BY <3>1, <2>5 DEF FoldsUpTo
  <2>. QED
    BY <2>6
<1>. QED
  BY <1>3, <1>4

\* Sums(f, T) is a fold: its defining equation has a solution.
LEMMA SumsUnfold ==
    ASSUME NEW T, IsFiniteSet(T), NEW f, \A x \in T : f[x] \in Nat
    PROVE  \A s \in SUBSET T : Sums(f, T)[s] = Unfolded(f, Sums(f, T), s)
<1> DEFINE n == Cardinality(T)
<1>1. n \in Nat
  BY FS_CardinalityType
<1>2. Small(T, n) = SUBSET T
  <2>1. \A s \in SUBSET T : Cardinality(s) <= n
    BY FS_Subset
  <2>. QED
    BY <2>1 DEF Small
<1>3. PICK g : FoldsUpTo(f, T, n, g)
  BY <1>1, SmallFolds
<1>4. g = [s \in SUBSET T |-> Unfolded(f, g, s)]
  <2>1. g \in [SUBSET T -> Nat] /\ \A s \in SUBSET T : g[s] = Unfolded(f, g, s)
    BY <1>2, <1>3 DEF FoldsUpTo
  <2>. QED
    BY <2>1
<1>5. Sums(f, T) = [s \in SUBSET T |-> Unfolded(f, Sums(f, T), s)]
  BY <1>4 DEF Sums
<1>. QED
  BY <1>5

\* A sum of naturals is a natural, and only depends on what is added up.
LEMMA SumsAgree ==
    ASSUME NEW T, IsFiniteSet(T), NEW f, \A x \in T : f[x] \in Nat,
           NEW S \in SUBSET T, NEW h, \A x \in S : h[x] = f[x]
    PROVE  \A s \in SUBSET S : Sums(f, T)[s] \in Nat /\ Sums(h, S)[s] = Sums(f, T)[s]
<1> DEFINE A == Sums(f, T)
           B == Sums(h, S)
           Bad == {s \in SUBSET S : ~(A[s] \in Nat /\ B[s] = A[s])}
<1>0. IsFiniteSet(S)
  BY FS_Subset
<1>1. \A s \in SUBSET S : A[s] = Unfolded(f, A, s) /\ B[s] = Unfolded(h, B, s)
  BY <1>0, SumsUnfold
<1> SUFFICES ASSUME Bad # {} PROVE FALSE
  OBVIOUS
<1>2. PICK s \in Bad : \A x \in s : s \ {x} \notin Bad
  BY <1>0, SmallestSubset
<1> HIDE DEF A, B
<1>3. CASE s = {}
  <2>1. A[s] = 0 /\ B[s] = 0
    BY <1>1, <1>3 DEF Unfolded
  <2>. QED
    BY <1>2, <2>1
<1>4. CASE s # {}
  <2>1. Pick(s) \in s
    BY <1>4 DEF Pick
  <2>2. /\ A[s \ {Pick(s)}] \in Nat /\ B[s \ {Pick(s)}] = A[s \ {Pick(s)}]
        /\ f[Pick(s)] \in Nat /\ h[Pick(s)] = f[Pick(s)]
    BY <2>1, <1>2
  <2>3. /\ A[s] = f[Pick(s)] + A[s \ {Pick(s)}]
        /\ B[s] = h[Pick(s)] + B[s \ {Pick(s)}]
    BY <1>1, <1>2, <1>4 DEF Unfolded
  <2>. QED
    BY <1>2, <2>2, <2>3
<1>. QED
  BY <1>3, <1>4

\* Any element can be taken out of a sum, not only the picked one.
LEMMA SumsRemove ==
    ASSUME NEW T, IsFiniteSet(T), NEW f, \A x \in T : f[x] \in Nat
    PROVE  \A s \in SUBSET T : \A x \in s :
              Sums(f, T)[s] = f[x] + Sums(f, T)[s \ {x}]
<1> DEFINE A == Sums(f, T)
           Bad == {s \in SUBSET T : ~\A x \in s : A[s] = f[x] + A[s \ {x}]}
<1>1. \A s \in SUBSET T : A[s] = Unfolded(f, A, s) /\ A[s] \in Nat
  BY SumsUnfold, SumsAgree
<1> SUFFICES ASSUME Bad # {} PROVE FALSE
  OBVIOUS
<1>2. PICK s \in Bad : \A x \in s : s \ {x} \notin Bad
  BY SmallestSubset
<1>3. PICK x \in s : A[s] # f[x] + A[s \ {x}]
  BY <1>2
<1> HIDE DEF A
<1> DEFINE c == Pick(s)
           rest == (s \ {c}) \ {x}
<1>4. c \in s
  BY <1>3 DEF Pick
<1>5. A[s] = f[c] + A[s \ {c}]
  BY <1>1, <1>2, <1>4 DEF Unfolded
<1>6. x # c
  BY <1>3, <1>5
<1>7. /\ A[s \ {c}] = f[x] + A[rest]
      /\ A[s \ {x}] = f[c] + A[rest]
  <2>1. s \ {c} \notin Bad /\ s \ {x} \notin Bad /\ x \in s \ {c} /\ c \in s \ {x}
    BY <1>2, <1>4, <1>6
  <2>2. s \ {c} \in SUBSET T /\ s \ {x} \in SUBSET T /\ (s \ {x}) \ {c} = rest
    BY <1>2
  <2>. QED
    BY <2>1, <2>2
<1>8. f[x] \in Nat /\ f[c] \in Nat /\ A[rest] \in Nat
  BY <1>1, <1>2, <1>4
<1> HIDE DEF c, rest
<1>. QED
  BY <1>3, <1>5, <1>7, <1>8

\* The sum of naturals over a finite domain is a natural; over none it is 0.
LEMMA SumNat ==
    ASSUME NEW f, IsFiniteSet(DOMAIN f), \A x \in DOMAIN f : f[x] \in Nat
    PROVE  SumFunction(f) \in Nat /\ (DOMAIN f = {} => SumFunction(f) = 0)
<1>1. SumFunction(f) = Sums(f, DOMAIN f)[DOMAIN f]
  BY SumIsFold DEF SumFunction
<1>2. Sums(f, DOMAIN f)[DOMAIN f] \in Nat
  BY SumsAgree
<1>3. Sums(f, DOMAIN f)[DOMAIN f] = Unfolded(f, Sums(f, DOMAIN f), DOMAIN f)
  BY SumsUnfold
<1>. QED
  BY <1>1, <1>2, <1>3 DEF Unfolded

\* When f and h agree but for a, their sums differ by what they are worth at a.
LEMMA SumChanges ==
    ASSUME NEW f, IsFiniteSet(DOMAIN f), \A x \in DOMAIN f : f[x] \in Nat,
           NEW h, IsFiniteSet(DOMAIN h), \A x \in DOMAIN h : h[x] \in Nat,
           NEW a \in DOMAIN h, DOMAIN f \ {a} = DOMAIN h \ {a},
           \A x \in DOMAIN h \ {a} : h[x] = f[x]
    PROVE  SumFunction(h) = SumFunction(f) + h[a] - (IF a \in DOMAIN f THEN f[a] ELSE 0)
<1> DEFINE F == DOMAIN f
           H == DOMAIN h
           S == H \ {a}
<1>1. SumFunction(h) = Sums(h, H)[H] /\ SumFunction(f) = Sums(f, F)[F]
  BY SumIsFold DEF SumFunction
<1>2. Sums(h, H)[H] = h[a] + Sums(h, H)[S]
  BY SumsRemove
<1>3. Sums(f, F)[F] = (IF a \in F THEN f[a] ELSE 0) + Sums(f, F)[S]
  <2>1. CASE a \in F
    BY <2>1, SumsRemove
  <2>2. CASE a \notin F
    <3>1. F = S
      BY <2>2
    <3>2. Sums(f, F)[F] \in Nat
      BY SumsAgree
    <3>. QED
      BY <2>2, <3>1, <3>2
  <2>. QED
    BY <2>1, <2>2
<1>4. Sums(h, H)[S] \in Nat /\ Sums(f, F)[S] = Sums(h, H)[S]
  <2>1. S \in SUBSET H /\ S \in SUBSET F
    OBVIOUS
  <2>2. Sums(h, H)[S] \in Nat /\ Sums(h, S)[S] = Sums(h, H)[S]
    BY <2>1, SumsAgree
  <2>3. Sums(h, S)[S] = Sums(f, F)[S]
    BY <2>1, SumsAgree
  <2>. QED
    BY <2>2, <2>3
<1>5. h[a] \in Nat /\ (a \in F => f[a] \in Nat)
  OBVIOUS
<1>. QED
  BY <1>1, <1>2, <1>3, <1>4, <1>5
-----------------------------------------------------------------------------
(***************************************************************************)
(* What the storage owes its subscribers.                                  *)
(***************************************************************************)
\* The accounts of a storage are finitely many naturals.
LEMMA BalancesNat ==
    ASSUME NEW s \in Storage
    PROVE  /\ DOMAIN Balances(s) = {b \in Addr : s.subscriberMap[b].init}
           /\ IsFiniteSet(DOMAIN Balances(s))
           /\ \A a \in DOMAIN Balances(s) :
                 Balances(s)[a] = s.subscriberMap[a].balanceWei /\ Balances(s)[a] \in Nat
           /\ SumFunction(Balances(s)) \in Nat
<1>1. DOMAIN Balances(s) = {b \in Addr : s.subscriberMap[b].init}
  BY DEF Balances
<1>2. IsFiniteSet(DOMAIN Balances(s))
  BY <1>1, FS_Subset, EventManagerAssumption
<1>3. s.subscriberMap \in [Addr -> [init : BOOLEAN, balanceWei : Nat]]
  BY DEF Storage
<1>4. \A a \in DOMAIN Balances(s) :
         Balances(s)[a] = s.subscriberMap[a].balanceWei /\ Balances(s)[a] \in Nat
  BY <1>3 DEF Balances
<1>. QED
  BY <1>1, <1>2, <1>4, SumNat

\* One account's change is the change of the sum.
LEMMA OneAccount ==
    ASSUME NEW s \in Storage, NEW t \in Storage, EmptyUnlessAdded(s),
           NEW a \in Addr, t.subscriberMap[a].init,
           \A b \in Addr \ {a} : t.subscriberMap[b] = s.subscriberMap[b]
    PROVE  SumFunction(Balances(t)) = SumFunction(Balances(s))
              + t.subscriberMap[a].balanceWei - s.subscriberMap[a].balanceWei
<1> DEFINE f == Balances(s)
           h == Balances(t)
<1>1. a \in DOMAIN h
  BY BalancesNat
<1>2. DOMAIN f \ {a} = DOMAIN h \ {a}
  BY BalancesNat
<1>3. \A x \in DOMAIN h \ {a} : h[x] = f[x]
  BY <1>2 DEF Balances
<1>4. SumFunction(h) = SumFunction(f) + h[a] - (IF a \in DOMAIN f THEN f[a] ELSE 0)
  <2>1. /\ IsFiniteSet(DOMAIN f) /\ \A x \in DOMAIN f : f[x] \in Nat
        /\ IsFiniteSet(DOMAIN h) /\ \A x \in DOMAIN h : h[x] \in Nat
    BY BalancesNat
  <2> HIDE DEF f, h
  <2>. QED
    BY <1>1, <1>2, <1>3, <2>1, SumChanges
<1>5. h[a] = t.subscriberMap[a].balanceWei
  BY <1>1, BalancesNat
<1>6. (IF a \in DOMAIN f THEN f[a] ELSE 0) = s.subscriberMap[a].balanceWei
  BY BalancesNat DEF EmptyUnlessAdded
<1>. QED
  BY <1>4, <1>5, <1>6

\* s and t list the same accounts with the same balances and hold the same Wei.
SameAccounts(s, t) ==
    /\ t.subscriberMap = s.subscriberMap
    /\ t.subscriberAddrs = s.subscriberAddrs
    /\ t.ethWei = s.ethWei

\* The functions of the owner, and a publication that is opened, leave every account alone.
LEMMA SettersAccounts ==
    ASSUME IndInv,
           \/ \E s \in Addr, v \in Incentives : UpdateIncentive(s, v)
           \/ \E s \in Addr, p \in NewPublishers : AddPublisher(s, p)
           \/ \E s \in Addr, g \in GasLimits : SetPerSubscriberLimitGas(s, g)
    PROVE  SameAccounts(store, store') /\ store'.emitted = store.emitted /\ Entered
<1>1. store \in Storage
  BY DEF IndInv, TypeOK
<1>. QED
  BY <1>1 DEF SameAccounts, Storage, UpdateIncentive, AddPublisher, SetPerSubscriberLimitGas

\* A publication without subscribers only counts; it is not entered from onNotify.
LEMMA NobodyAccounts ==
    ASSUME IndInv, NEW s \in Addr, NotifyNobody(s)
    PROVE  SameAccounts(store, store') /\ store'.emitted = store.emitted + 1
           /\ Entered /\ pc = "idle"
<1>1. store \in Storage
  BY DEF IndInv, TypeOK
<1>. QED
  BY <1>1 DEF SameAccounts, Storage, NotifyNobody, MayNotify, IndInv, LockedWhileNotifying

\* Opening a publication saves the storage and leaves every account alone.
LEMMA BeginAccounts ==
    ASSUME IndInv, NEW s \in Addr, NEW price \in GasPrices, NEW gas \in TxGas,
           BeginNotify(s, price, gas)
    PROVE  /\ SameAccounts(store, store') /\ store'.emitted = store.emitted
           /\ pc = "idle" /\ pc' = "loop" /\ txStart' = store /\ callStart' = callStart
           /\ frame'.compensateWei = 0
<1>1. store \in Storage
  BY DEF IndInv, TypeOK
<1>2. frame'.compensateWei = 0
  BY DEF BeginNotify, OpenFrame, NoFrame
<1>. QED
  BY <1>1, <1>2 DEF SameAccounts, Storage, BeginNotify, MayNotify, IndInv, LockedWhileNotifying

\* A deposit, with which an account is added or raised.
LEMMA DepositAccounts ==
    ASSUME IndInv, LedgerInv, NEW a \in Addr, NEW v \in Deposits,
           AddSubscriber(a, v) \/ SubscriberAddBalance(a, v)
    PROVE  /\ v \in Nat /\ Entered
           /\ \A b \in Addr \ {a} : store'.subscriberMap[b] = store.subscriberMap[b]
           /\ store'.subscriberMap[a].init
           /\ store'.subscriberMap[a].balanceWei = store.subscriberMap[a].balanceWei + v
           /\ store'.ethWei = store.ethWei + v
           /\ store'.emitted = store.emitted
           /\ \A j \in 1 .. Len(store.subscriberAddrs) :
                 store'.subscriberAddrs[j] = store.subscriberAddrs[j]
<1>1. v \in Nat /\ store \in Storage /\ EmptyUnlessAdded(store)
  BY EventManagerAssumption DEF IndInv, TypeOK, LedgerInv
<1>2. /\ store.subscriberMap \in [Addr -> [init : BOOLEAN, balanceWei : Nat]]
      /\ store.subscriberAddrs \in Seq(Addr)
  BY <1>1 DEF Storage
<1>3. CASE AddSubscriber(a, v)
  <2>1. /\ store'.subscriberMap =
              [store.subscriberMap EXCEPT ![a] = [init |-> TRUE, balanceWei |-> v]]
        /\ store'.ethWei = store.ethWei + v /\ store'.emitted = store.emitted
        /\ store'.subscriberAddrs = Append(store.subscriberAddrs, a) /\ Entered
    BY <1>1, <1>3 DEF AddSubscriber, Storage
  <2>2. store.subscriberMap[a].balanceWei = 0
    BY <1>1, <1>3 DEF EmptyUnlessAdded, AddSubscriber, NotAdded
  <2>3. store'.subscriberMap[a] = [init |-> TRUE, balanceWei |-> v]
    BY <2>1, <1>2
  <2>4. \A b \in Addr \ {a} : store'.subscriberMap[b] = store.subscriberMap[b]
    BY <2>1, <1>2
  <2>5. \A j \in 1 .. Len(store.subscriberAddrs) :
           store'.subscriberAddrs[j] = store.subscriberAddrs[j]
    BY <2>1, <1>2
  <2>. QED
    BY <1>1, <2>1, <2>2, <2>3, <2>4, <2>5
<1>4. CASE SubscriberAddBalance(a, v)
  <2>1. /\ store'.subscriberMap = [store.subscriberMap EXCEPT ![a].balanceWei = @ + v]
        /\ store'.ethWei = store.ethWei + v /\ store'.emitted = store.emitted
        /\ store'.subscriberAddrs = store.subscriberAddrs /\ Entered
    BY <1>1, <1>4 DEF SubscriberAddBalance, Storage
  <2>2. store.subscriberMap[a].init
    BY <1>4 DEF SubscriberAddBalance, Added
  <2>3. /\ store'.subscriberMap[a].init = store.subscriberMap[a].init
        /\ store'.subscriberMap[a].balanceWei = store.subscriberMap[a].balanceWei + v
        /\ \A b \in Addr \ {a} : store'.subscriberMap[b] = store.subscriberMap[b]
    BY <2>1, <1>2
  <2>. QED
    BY <1>1, <2>1, <2>2, <2>3
<1>. QED
  BY <1>3, <1>4

\* Settling a call charges the called account of s and nobody else, or reverts.
ChargedTo(s, a, cost) ==
    /\ a = s.subscriberAddrs[frame.i] /\ a \in Addr /\ cost \in Nat
    /\ s.subscriberMap[a].init
    /\ store'.subscriberMap[a].init
    /\ store'.subscriberMap[a].balanceWei = s.subscriberMap[a].balanceWei - cost
    /\ \A b \in Addr \ {a} : store'.subscriberMap[b] = s.subscriberMap[b]
    /\ store'.ethWei = s.ethWei /\ store'.emitted = s.emitted
    /\ frame'.compensateWei = frame.compensateWei + cost
    /\ pc' = "loop" /\ txStart' = txStart /\ callStart' = Deployed

\* Charge either reverts or charges the called account.
LEMMA ChargeAccounts ==
    ASSUME IndInv, pc = "calling", NEW s, s = store \/ s = callStart,
           NEW award \in {0, 1}, NEW used \in Nat, NEW panic,
           Charge(s, award, used, panic)
    PROVE  Revert(panic) \/ \E a, cost : ChargedTo(s, a, cost)
<1> DEFINE a == s.subscriberAddrs[frame.i]
           cost == award * frame.incentPerSubWei + used * frame.gasPriceWei
           wei == s.subscriberMap[a].balanceWei
<1>1. /\ frame \in Frames /\ FrameOK /\ s \in Storage /\ ListedOnce(s)
      /\ frame.numSubscribers <= Len(s.subscriberAddrs)
      /\ frame.i <= frame.numSubscribers
  BY DEF IndInv, TypeOK, SubscribersListedOnce, FrameOK
<1>2. /\ frame.i \in Nat /\ frame.numSubscribers \in Nat /\ frame.gasPriceWei \in Nat
      /\ frame.incentPerSubWei \in Nat /\ frame.awarded \in Nat /\ frame.i > frame.awarded
  BY <1>1 DEF Frames, FrameOK
<1>3. /\ s.subscriberAddrs \in Seq(Addr)
      /\ s.subscriberMap \in [Addr -> [init : BOOLEAN, balanceWei : Nat]]
  BY <1>1 DEF Storage
<1>4. frame.i \in DOMAIN s.subscriberAddrs /\ a \in Addr
  BY <1>1, <1>2, <1>3
<1>5. s.subscriberMap[a].init
  BY <1>1, <1>4 DEF ListedOnce
<1>6. cost \in Nat
  <2>1. used * frame.gasPriceWei \in Nat
    BY <1>2
  <2>2. award * frame.incentPerSubWei \in Nat
    BY <1>2
  <2>. QED
    BY <2>1, <2>2
<1>7. CASE cost > wei
  BY <1>7 DEF Charge, Charged, Underflows
<1>8. CASE ~(cost > wei)
  <2>1. /\ store' = [s EXCEPT !.subscriberMap[a].balanceWei = @ - cost]
        /\ pc' = "loop" /\ frame'.compensateWei = frame.compensateWei + cost
        /\ callStart' = Deployed /\ txStart' = txStart
    BY <1>1, <1>8 DEF Charge, Charged, Underflows, Frames, Compensate
  <2>2. /\ store'.subscriberMap = [s.subscriberMap EXCEPT ![a].balanceWei = @ - cost]
        /\ store'.ethWei = s.ethWei /\ store'.emitted = s.emitted
    BY <2>1, <1>1 DEF Storage
  <2>3. /\ store'.subscriberMap[a].init = s.subscriberMap[a].init
        /\ store'.subscriberMap[a].balanceWei = s.subscriberMap[a].balanceWei - cost
        /\ \A b \in Addr \ {a} : store'.subscriberMap[b] = s.subscriberMap[b]
    BY <2>2, <1>3, <1>4
  <2>4. ChargedTo(s, a, cost)
    BY <2>1, <2>2, <2>3, <1>4, <1>5, <1>6 DEF ChargedTo
  <2>. QED
    BY <2>4
<1>. QED
  BY <1>7, <1>8

\* Equal accounts are backed by equal Wei.
LEMMA SameBacks ==
    ASSUME NEW s, NEW t, SameAccounts(s, t)
    PROVE  /\ Balances(t) = Balances(s)
           /\ EmptyUnlessAdded(t) <=> EmptyUnlessAdded(s)
           /\ \A c : Backs(t, c) <=> Backs(s, c)
  BY DEF SameAccounts, Balances, Backs, EmptyUnlessAdded

\* A freshly deployed contract owes nobody anything.
LEMMA DeployedBacks == EmptyUnlessAdded(Deployed) /\ Backs(Deployed, 0)
<1>1. DOMAIN Balances(Deployed) = {}
  BY DEF Balances, Deployed
<1>2. SumFunction(Balances(Deployed)) = 0
  BY <1>1, DeployedOK, BalancesNat, SumNat
<1>. QED
  BY <1>2 DEF EmptyUnlessAdded, Backs, Deployed

\* The ledger's invariant holds after deployment.
LEMMA InitLedger == Init => LedgerInv
  BY DeployedBacks DEF Init, LedgerInv, Solvent, NoFrame

\* A function that is entered keeps the ledger if the storage stays backed.
LEMMA EnteredLedger ==
    ASSUME IndInv, LedgerInv, Entered,
           EmptyUnlessAdded(store'), Backs(store', frame.compensateWei),
           pc # "idle" =>
              /\ store'.emitted = store.emitted
              /\ \A a \in Addr : store.subscriberMap[a].init => store'.subscriberMap[a].init
              /\ \A j \in 1 .. Len(store.subscriberAddrs) :
                    store'.subscriberAddrs[j] = store.subscriberAddrs[j]
    PROVE  LedgerInv'
<1>1. frame \in Frames /\ store \in Storage
  BY DEF IndInv, TypeOK
<1>2. frame'.compensateWei = frame.compensateWei /\ frame'.numSubscribers = frame.numSubscribers
  BY <1>1 DEF Entered, Frames
<1>3. Solvent'
  BY <1>2 DEF Solvent, Backs, Balances
<1>4. (pc # "idle" => Continues(store))'
  BY DEF LedgerInv, Continues, Entered
<1>5. ASSUME pc = "calling", NEW j \in 1 .. frame.numSubscribers
      PROVE  store'.subscriberAddrs[j] = callStart.subscriberAddrs[j]
  <2>1. frame.numSubscribers <= Len(store.subscriberAddrs)
    BY <1>5 DEF IndInv, FrameOK
  <2>2. frame.numSubscribers \in Nat /\ Len(store.subscriberAddrs) \in Nat
    BY <1>1 DEF Frames, Storage
  <2>3. j \in 1 .. Len(store.subscriberAddrs)
    BY <2>1, <2>2
  <2>. QED
    BY <1>5, <2>3 DEF LedgerInv
<1>6. (pc = "calling" =>
          /\ Backs(callStart, frame.compensateWei) /\ Continues(callStart)
          /\ \A j \in 1..frame.numSubscribers :
                store.subscriberAddrs[j] = callStart.subscriberAddrs[j])'
  <2>1. pc' = pc /\ callStart' = callStart /\ txStart' = txStart
    BY DEF Entered
  <2>2. pc = "calling" => Backs(callStart, frame.compensateWei) /\ Continues(callStart)
    BY DEF LedgerInv
  <2>3. (Continues(callStart))' <=> Continues(callStart)
    BY <2>1 DEF Continues
  <2>4. (Backs(callStart, frame.compensateWei))' <=> Backs(callStart, frame.compensateWei)
    BY <2>1, <1>2 DEF Backs, Balances
  <2>. QED
    BY <1>2, <1>5, <2>1, <2>2, <2>3, <2>4
<1>7. (EmptyUnlessAdded(txStart) /\ EmptyUnlessAdded(callStart) /\ Backs(txStart, 0))'
  BY DEF LedgerInv, Entered, EmptyUnlessAdded, Backs, Balances
<1>8. (EmptyUnlessAdded(store))'
  BY DEF EmptyUnlessAdded
<1>. QED
  BY <1>3, <1>4, <1>6, <1>7, <1>8 DEF LedgerInv

\* A deposit raises what is held by what is owed.
LEMMA DepositLedger ==
    ASSUME IndInv, IndInv', LedgerInv, NEW a \in Addr, NEW v \in Deposits,
           AddSubscriber(a, v) \/ SubscriberAddBalance(a, v)
    PROVE  LedgerInv'
<1>1. store \in Storage /\ store' \in Storage /\ EmptyUnlessAdded(store) /\ frame \in Frames
  BY DEF IndInv, TypeOK, LedgerInv
<1>2. /\ v \in Nat /\ Entered
      /\ \A b \in Addr \ {a} : store'.subscriberMap[b] = store.subscriberMap[b]
      /\ store'.subscriberMap[a].init
      /\ store'.subscriberMap[a].balanceWei = store.subscriberMap[a].balanceWei + v
      /\ store'.ethWei = store.ethWei + v
      /\ store'.emitted = store.emitted
      /\ \A j \in 1 .. Len(store.subscriberAddrs) :
            store'.subscriberAddrs[j] = store.subscriberAddrs[j]
  BY DepositAccounts
<1>3. SumFunction(Balances(store')) = SumFunction(Balances(store))
         + store'.subscriberMap[a].balanceWei - store.subscriberMap[a].balanceWei
  BY <1>1, <1>2, OneAccount
<1>4. /\ store.subscriberMap[a].balanceWei \in Nat /\ frame.compensateWei \in Nat
      /\ SumFunction(Balances(store)) \in Nat
  BY <1>1, BalancesNat DEF Storage, Frames
<1>5. Backs(store', frame.compensateWei)
  BY <1>2, <1>3, <1>4 DEF LedgerInv, Solvent, Backs
<1>6. EmptyUnlessAdded(store')
  BY <1>1, <1>2 DEF EmptyUnlessAdded
<1>7. \A b \in Addr : store.subscriberMap[b].init => store'.subscriberMap[b].init
  BY <1>2
<1>. QED
  BY <1>2, <1>5, <1>6, <1>7, EnteredLedger

\* The other functions of the contract leave the accounts alone.
LEMMA OthersLedger ==
    ASSUME IndInv, LedgerInv, Entered, SameAccounts(store, store'),
           pc = "idle" \/ store'.emitted = store.emitted
    PROVE  LedgerInv'
<1>1. EmptyUnlessAdded(store') /\ Backs(store', frame.compensateWei)
  BY SameBacks DEF LedgerInv, Solvent
<1>. QED
  BY <1>1, EnteredLedger DEF SameAccounts

\* A revert restores a backed storage, and nothing is charged any more.
LEMMA RevertLedger ==
    ASSUME IndInv, LedgerInv, NEW o, Revert(o)
    PROVE  LedgerInv'
<1>1. /\ store' = txStart /\ pc' = "idle" /\ frame'.compensateWei = 0
      /\ txStart' = Deployed /\ callStart' = Deployed
  BY DEF Revert, Return, NoFrame
<1>2. (EmptyUnlessAdded(store))' /\ Solvent'
  BY <1>1 DEF LedgerInv, Solvent, Backs, Balances, EmptyUnlessAdded
<1>3. (EmptyUnlessAdded(txStart) /\ EmptyUnlessAdded(callStart) /\ Backs(txStart, 0))'
  BY <1>1, DeployedBacks DEF Backs, Balances, EmptyUnlessAdded
<1>. QED
  BY <1>1, <1>2, <1>3 DEF LedgerInv

\* The storage that an opened publication saves is backed.
LEMMA BeginLedger ==
    ASSUME IndInv, LedgerInv, NEW s \in Addr, NEW price \in GasPrices, NEW gas \in TxGas,
           BeginNotify(s, price, gas)
    PROVE  LedgerInv'
<1>1. /\ SameAccounts(store, store') /\ store'.emitted = store.emitted
      /\ pc = "idle" /\ pc' = "loop" /\ txStart' = store /\ callStart' = callStart
      /\ frame'.compensateWei = 0
  BY BeginAccounts
<1>2. frame.compensateWei = 0
  BY <1>1 DEF IndInv, NoFrame
<1>3. EmptyUnlessAdded(store') /\ Backs(store', 0) /\ Backs(store, 0) /\ EmptyUnlessAdded(store)
  BY <1>1, <1>2, SameBacks DEF LedgerInv, Solvent
<1>4. Solvent' /\ (Backs(txStart, 0))'
  BY <1>1, <1>3 DEF Solvent, Backs, Balances
<1>5. (EmptyUnlessAdded(store) /\ EmptyUnlessAdded(txStart) /\ EmptyUnlessAdded(callStart))'
  BY <1>1, <1>3 DEF LedgerInv, EmptyUnlessAdded
<1>6. (Continues(store))'
  BY <1>1 DEF Continues, SameAccounts
<1>. QED
  BY <1>1, <1>4, <1>5, <1>6 DEF LedgerInv

\* Passing over or calling a subscriber moves no Wei.
LEMMA LoopLedger ==
    ASSUME IndInv, LedgerInv, SkipSubscriber \/ CallSubscriber
    PROVE  LedgerInv'
<1>1. frame \in Frames
  BY DEF IndInv, TypeOK
<1>2. /\ store' = store /\ txStart' = txStart /\ pc = "loop"
      /\ frame'.compensateWei = frame.compensateWei
      /\ (pc' = "loop" /\ callStart' = callStart) \/ (pc' = "calling" /\ callStart' = store)
  BY <1>1 DEF SkipSubscriber, CallSubscriber, InLoop, Frames
<1>3. Solvent' /\ (Backs(txStart, 0))' /\ (Continues(store))'
  BY <1>2 DEF LedgerInv, Solvent, Backs, Balances, Continues
<1>4. (EmptyUnlessAdded(store) /\ EmptyUnlessAdded(txStart) /\ EmptyUnlessAdded(callStart))'
  BY <1>2 DEF LedgerInv, EmptyUnlessAdded
<1>5. pc' = "calling" => /\ (Backs(callStart, frame.compensateWei))' /\ (Continues(callStart))'
                         /\ callStart' = store'
  BY <1>2, <1>3 DEF Solvent, Backs, Balances, Continues
<1>. QED
  BY <1>3, <1>4, <1>5 DEF LedgerInv

\* What an account is charged is owed to tx.origin.
LEMMA ChargeLedger ==
    ASSUME IndInv, IndInv', LedgerInv, pc = "calling", NEW s, s = store \/ s = callStart,
           NEW a, NEW cost, ChargedTo(s, a, cost)
    PROVE  LedgerInv'
<1>1. /\ s \in Storage /\ store' \in Storage /\ frame \in Frames
      /\ EmptyUnlessAdded(s) /\ Backs(s, frame.compensateWei) /\ Continues(s)
  BY DEF IndInv, TypeOK, LedgerInv, Solvent
<1>2. SumFunction(Balances(store')) = SumFunction(Balances(s))
         + store'.subscriberMap[a].balanceWei - s.subscriberMap[a].balanceWei
  BY <1>1, OneAccount DEF ChargedTo
<1>3. /\ s.subscriberMap[a].balanceWei \in Nat /\ frame.compensateWei \in Nat
      /\ SumFunction(Balances(s)) \in Nat /\ cost \in Nat
  BY <1>1, BalancesNat DEF Storage, Frames, ChargedTo
<1>4. store'.ethWei = SumFunction(Balances(store')) + frame'.compensateWei
  BY <1>1, <1>2, <1>3 DEF Backs, ChargedTo
<1>5. Solvent'
  BY <1>4 DEF Solvent, Backs, Balances
<1>6. (EmptyUnlessAdded(store))'
  BY <1>1 DEF EmptyUnlessAdded, ChargedTo
<1>7. (EmptyUnlessAdded(txStart) /\ EmptyUnlessAdded(callStart) /\ Backs(txStart, 0))'
  BY DeployedBacks DEF LedgerInv, ChargedTo, EmptyUnlessAdded, Backs, Balances
<1>8. (Continues(store))'
  BY <1>1 DEF Continues, ChargedTo
<1>. QED
  BY <1>5, <1>6, <1>7, <1>8 DEF LedgerInv, ChargedTo

\* The origin is paid what was charged: what is left backs the balances.
LEMMA FinishLedger ==
    ASSUME IndInv, LedgerInv, FinishNotify
    PROVE  /\ LedgerInv'
           /\ \/ Revert("transferFailed")
              \/ /\ store'.subscriberMap = store.subscriberMap
                 /\ store'.emitted = store.emitted + 1 /\ pc' = "idle"
<1>1. CASE frame.compensateWei > store.ethWei
  BY <1>1, RevertLedger DEF FinishNotify
<1>2. CASE ~(frame.compensateWei > store.ethWei)
  <2>1. store \in Storage /\ frame \in Frames
    BY DEF IndInv, TypeOK
  <2>2. /\ store' = [store EXCEPT !.ethWei = @ - frame.compensateWei,
                                  !.entranceLock = LockReleased, !.emitted = @ + 1]
        /\ pc' = "idle" /\ frame'.compensateWei = 0
        /\ txStart' = Deployed /\ callStart' = Deployed
    BY <1>2 DEF FinishNotify, Return, NoFrame
  <2>3. /\ store'.subscriberMap = store.subscriberMap
        /\ store'.ethWei = store.ethWei - frame.compensateWei
        /\ store'.emitted = store.emitted + 1
    BY <2>1, <2>2 DEF Storage
  <2>4. Balances(store') = Balances(store)
    BY <2>3 DEF Balances
  <2>5. SumFunction(Balances(store)) \in Nat /\ frame.compensateWei \in Nat
    BY <2>1, BalancesNat DEF Frames
  <2>6. store'.ethWei = SumFunction(Balances(store')) + frame'.compensateWei
    BY <2>2, <2>3, <2>4, <2>5 DEF LedgerInv, Solvent, Backs
  <2>7. Solvent'
    BY <2>6 DEF Solvent, Backs, Balances
  <2>8. (EmptyUnlessAdded(store) /\ EmptyUnlessAdded(txStart) /\ EmptyUnlessAdded(callStart))'
    BY <2>2, <2>3, DeployedBacks DEF LedgerInv, EmptyUnlessAdded
  <2>9. (Backs(txStart, 0))'
    BY <2>2, DeployedBacks DEF Backs, Balances
  <2>. QED
    BY <2>2, <2>3, <2>7, <2>8, <2>9 DEF LedgerInv
<1>. QED
  BY <1>1, <1>2

\* What a step is, seen from the accounts: a deposit, a function or the opening of a
\* publication that leaves them alone, the loop, the settlement of a call, the end.
LEMMA StepKinds ==
    ASSUME IndInv, Next
    PROVE  \/ \E a \in Addr, v \in Deposits : AddSubscriber(a, v) \/ SubscriberAddBalance(a, v)
           \/ SameAccounts(store, store') /\ store'.emitted = store.emitted /\ Entered
           \/ SameAccounts(store, store') /\ store'.emitted = store.emitted + 1
              /\ Entered /\ pc = "idle"
           \/ \E s \in Addr, price \in GasPrices, gas \in TxGas : BeginNotify(s, price, gas)
           \/ SkipSubscriber \/ CallSubscriber
           \/ pc = "calling" /\ \E a, cost :
                 ChargedTo(store, a, cost) \/ ChargedTo(callStart, a, cost)
           \/ FinishNotify
           \/ pc # "idle" /\ \E o : Revert(o)
<1>0. \A used \in UsedGas : used \in Nat
  <2>1. frame.limitGas \in Nat /\ CallGas \in Nat
    BY EventManagerAssumption DEF IndInv, TypeOK, Frames
  <2>. QED
    BY <2>1 DEF UsedGas
<1>1. CASE External
  BY <1>1, SettersAccounts, NobodyAccounts DEF External
<1>2. CASE CallWithoutCode \/ OutOfGas
  BY <1>2 DEF CallWithoutCode, OutOfGas, InLoop
<1>3. ASSUME NEW used \in UsedGas, OnNotifyReturns(used) \/ OnNotifyFails(used)
      PROVE  /\ pc = "calling"
             /\ \/ \E a, cost : ChargedTo(store, a, cost) \/ ChargedTo(callStart, a, cost)
                \/ \E o : Revert(o)
  <2>1. CASE OnNotifyReturns(used)
    <3>1. pc = "calling" /\ Charge(store, 1, used, "panic")
      BY <2>1 DEF OnNotifyReturns
    <3>2. Revert("panic") \/ \E a, cost : ChargedTo(store, a, cost)
      BY <1>0, <3>1, ChargeAccounts
    <3>. QED
      BY <3>1, <3>2
  <2>2. CASE OnNotifyFails(used)
    <3>1. pc = "calling" /\ Charge(callStart, 0, used, "panicOnFailure")
      BY <2>2 DEF OnNotifyFails
    <3>2. Revert("panicOnFailure") \/ \E a, cost : ChargedTo(callStart, a, cost)
      BY <1>0, <3>1, ChargeAccounts
    <3>. QED
      BY <3>1, <3>2
  <2>. QED
    BY <1>3, <2>1, <2>2
<1>4. CASE SkipSubscriber \/ CallSubscriber \/ FinishNotify
  BY <1>4
<1>5. CASE \E used \in UsedGas : OnNotifyReturns(used) \/ OnNotifyFails(used)
  BY <1>3, <1>5
<1>. QED
  BY <1>1, <1>2, <1>4, <1>5 DEF Next, Advance

\* Every step keeps the ledger.
LEMMA StepLedger == IndInv /\ IndInv' /\ LedgerInv /\ [Next]_vars => LedgerInv'
<1> SUFFICES ASSUME IndInv, IndInv', LedgerInv, [Next]_vars PROVE LedgerInv'
  OBVIOUS
<1>1. CASE UNCHANGED vars
  BY <1>1 DEF vars, LedgerInv, Solvent, Backs, Balances, Continues, EmptyUnlessAdded
<1>2. CASE Next
  <2>1. CASE \E a \in Addr, v \in Deposits : AddSubscriber(a, v) \/ SubscriberAddBalance(a, v)
    BY <2>1, DepositLedger
  <2>2. CASE SameAccounts(store, store') /\ store'.emitted = store.emitted /\ Entered
    BY <2>2, OthersLedger
  <2>3. CASE SameAccounts(store, store') /\ store'.emitted = store.emitted + 1
             /\ Entered /\ pc = "idle"
    BY <2>3, OthersLedger
  <2>4. CASE \E s \in Addr, price \in GasPrices, gas \in TxGas : BeginNotify(s, price, gas)
    BY <2>4, BeginLedger
  <2>5. CASE SkipSubscriber \/ CallSubscriber
    BY <2>5, LoopLedger
  <2>6. CASE pc = "calling" /\ \E a, cost :
                ChargedTo(store, a, cost) \/ ChargedTo(callStart, a, cost)
    BY <2>6, ChargeLedger
  <2>7. CASE FinishNotify
    BY <2>7, FinishLedger
  <2>8. CASE pc # "idle" /\ \E o : Revert(o)
    BY <2>8, RevertLedger
  <2>. QED
    BY <1>2, StepKinds, <2>1, <2>2, <2>3, <2>4, <2>5, <2>6, <2>7, <2>8
<1>. QED
  BY <1>1, <1>2

\* The ledger's invariant holds in every execution.
LEMMA AlwaysLedger == Spec => [](IndInv /\ LedgerInv)
  BY InitOK, InitLedger, StepOK, StepLedger, PTL DEF Spec

\* For every set of accounts and whatever subscribers do while they are notified, the
\* contract holds exactly the subscribers' balances and what it still owes tx.origin.
THEOREM AlwaysSolvent == Spec => []Solvent
<1>1. LedgerInv => Solvent
  BY DEF LedgerInv
<1>. QED
  BY <1>1, AlwaysLedger, PTL

\* No step but the settlement of its own call, or the undoing of a deposit, lowers the
\* balance of an account.
THEOREM OnlyCalleeAlwaysCharged == Spec => OnlyCalleeIsCharged
<1> DEFINE Permitted(a) ==
      \/ pc = "calling" /\ a = Callee
      \/ pc = "calling" /\ store'.subscriberMap[a] = callStart.subscriberMap[a]
      \/ store'.subscriberMap[a] = txStart.subscriberMap[a]
<1>1. ASSUME IndInv, LedgerInv, Next, NEW a \in Addr,
             store'.subscriberMap[a].balanceWei < store.subscriberMap[a].balanceWei
      PROVE  Permitted(a)
  <2>0. /\ store \in Storage /\ frame \in Frames
        /\ store.subscriberMap \in [Addr -> [init : BOOLEAN, balanceWei : Nat]]
    BY <1>1 DEF IndInv, TypeOK, Storage
  <2>1. ~\E b \in Addr, v \in Deposits : AddSubscriber(b, v) \/ SubscriberAddBalance(b, v)
    <3> SUFFICES ASSUME NEW b \in Addr, NEW v \in Deposits,
                        AddSubscriber(b, v) \/ SubscriberAddBalance(b, v)
                 PROVE  ~(store'.subscriberMap[a].balanceWei < store.subscriberMap[a].balanceWei)
      BY <1>1
    <3>1. /\ v \in Nat
          /\ \A x \in Addr \ {b} : store'.subscriberMap[x] = store.subscriberMap[x]
          /\ store'.subscriberMap[b].balanceWei = store.subscriberMap[b].balanceWei + v
      BY <1>1, DepositAccounts
    <3>. QED
      BY <2>0, <3>1
  <2>2. store'.subscriberMap # store.subscriberMap
    BY <1>1, <2>0
  <2>3. CASE pc = "calling" /\ \E b, cost :
                ChargedTo(store, b, cost) \/ ChargedTo(callStart, b, cost)
    <3>1. PICK b, cost : ChargedTo(store, b, cost) \/ ChargedTo(callStart, b, cost)
      BY <2>3
    <3>2. b = Callee
      <4>1. frame.i \in 1 .. frame.numSubscribers
        BY <1>1, <2>0, <2>3 DEF IndInv, FrameOK, Frames
      <4>2. callStart.subscriberAddrs[frame.i] = store.subscriberAddrs[frame.i]
        BY <1>1, <2>3, <4>1 DEF LedgerInv
      <4>. QED
        BY <3>1, <4>2 DEF ChargedTo, Callee
    <3>3. CASE a = b
      BY <2>3, <3>2, <3>3
    <3>4. CASE a # b
      <4>1. store'.subscriberMap[a] = store.subscriberMap[a]
            \/ store'.subscriberMap[a] = callStart.subscriberMap[a]
        BY <3>1, <3>4 DEF ChargedTo
      <4>2. store'.subscriberMap[a] # store.subscriberMap[a]
        BY <1>1, <2>0
      <4>. QED
        BY <2>3, <4>1, <4>2
    <3>. QED
      BY <3>3, <3>4
  <2>4. CASE \E o : Revert(o)
    BY <2>4 DEF Revert
  <2>5. ~(SkipSubscriber \/ CallSubscriber)
    BY <2>2 DEF SkipSubscriber, CallSubscriber
  <2>6. ~SameAccounts(store, store')
    BY <2>2 DEF SameAccounts
  <2>7. ~\E s \in Addr, price \in GasPrices, gas \in TxGas : BeginNotify(s, price, gas)
    BY <1>1, <2>6, BeginAccounts
  <2>8. CASE FinishNotify
    <3>1. Revert("transferFailed")
      BY <1>1, <2>2, <2>8, FinishLedger
    <3>. QED
      BY <2>4, <3>1
  <2>. QED
    BY <1>1, <2>1, <2>3, <2>4, <2>5, <2>6, <2>7, <2>8, StepKinds
<1>2. IndInv /\ LedgerInv /\ [Next]_vars =>
         [\A a \in Addr :
            store'.subscriberMap[a].balanceWei < store.subscriberMap[a].balanceWei
            => Permitted(a)]_vars
  BY <1>1
<1>. QED
  BY <1>2, AlwaysLedger, PTL DEF Spec, OnlyCalleeIsCharged

\* The initial state shows an empty ledger.
LEMMA LedgerInitially == Init => Ledger!Init
  BY DEF Init, Ledger!Init, Committed, Balances, Deployed

\* The ledger adds up as the contract's invariant does.
LEMMA LedgerSum ==
    ASSUME NEW f
    PROVE  Ledger!SumFunction(f) = SumFunction(f)
  BY Zenon DEF Ledger!SumFunction, Ledger!SumFunctionOnSet, Ledger!FoldFunctionOnSet,
     Ledger!MapThenFoldSet, SumFunction, SumFunctionOnSet, FoldFunctionOnSet, MapThenFoldSet

\* Storages that look the same to a subscriber show the same ledger.
LEMMA LedgerStutters ==
    ASSUME Balances(Committed)' = Balances(Committed), Committed'.ethWei = Committed.ethWei,
           Committed'.emitted = Committed.emitted
    PROVE  UNCHANGED Ledger!lvars
  BY DEF Ledger!lvars

\* A committed publication is one step of the ledger.
LEMMA LedgerPublishes ==
    ASSUME IndInv', LedgerInv', pc' = "idle",
           store'.emitted = Committed.emitted + 1,
           \A a \in Addr : Committed.subscriberMap[a].init => store'.subscriberMap[a].init
    PROVE  Ledger!Publish
<1>1. Committed' = store' /\ frame'.compensateWei = 0
  BY DEF Committed, IndInv, NoFrame
<1>2. (Balances(Committed))' = Balances(store')
  BY <1>1 DEF Balances
<1>3. store'.ethWei = SumFunction(Balances(store'))
  <2>1. store'.ethWei = SumFunction(Balances(store')) + 0
    BY <1>1 DEF LedgerInv, Solvent, Backs, Balances
  <2>2. SumFunction(Balances(store')) \in Nat
    BY BalancesNat DEF IndInv, TypeOK
  <2>. QED
    BY <2>1, <2>2
<1>4. DOMAIN Balances(Committed) \subseteq DOMAIN Balances(store')
  BY DEF Balances
<1>. QED
  BY <1>1, <1>2, <1>3, <1>4, LedgerSum DEF Ledger!Publish, Ledger!KeepSubscribers, Ledger!Backed

\* A deposit outside of a notification is one step of the ledger.
LEMMA LedgerDeposits ==
    ASSUME IndInv, IndInv', LedgerInv, LedgerInv', pc = "idle",
           NEW a \in Addr, NEW v \in Deposits,
           AddSubscriber(a, v) \/ SubscriberAddBalance(a, v)
    PROVE  Ledger!Deposit
<1>1. /\ v \in Nat /\ Entered
      /\ \A b \in Addr \ {a} : store'.subscriberMap[b] = store.subscriberMap[b]
      /\ store'.subscriberMap[a].init
      /\ store'.ethWei = store.ethWei + v
      /\ store'.emitted = store.emitted
  BY DepositAccounts
<1>2. /\ Committed = store /\ Committed' = store'
      /\ Balances(Committed) = Balances(store) /\ (Balances(Committed))' = Balances(store')
      /\ frame'.compensateWei = 0
  BY <1>1 DEF Committed, Entered, Balances, IndInv, NoFrame
<1>3. /\ store \in Storage /\ store' \in Storage
      /\ store.ethWei \in Nat
  BY DEF IndInv, TypeOK, Storage
<1>4. store'.ethWei = Ledger!SumFunction(Balances(store'))
  <2>1. store'.ethWei = SumFunction(Balances(store')) + 0
    BY <1>2 DEF LedgerInv, Solvent, Backs, Balances
  <2>2. SumFunction(Balances(store')) \in Nat
    BY <1>3, BalancesNat
  <2>. QED
    BY <2>1, <2>2, LedgerSum
<1>5. /\ a \in DOMAIN Balances(store')
      /\ DOMAIN Balances(store) \subseteq DOMAIN Balances(store')
      /\ \A b \in DOMAIN Balances(store') \ {a} :
            b \in DOMAIN Balances(store) /\ Balances(store')[b] = Balances(store)[b]
  BY <1>1 DEF Balances
<1>6. store'.ethWei >= store.ethWei
  BY <1>1, <1>3
<1>. QED
  BY <1>1, <1>2, <1>4, <1>5, <1>6
     DEF Ledger!Deposit, Ledger!KeepSubscribers, Ledger!Backed

\* Inside a notification and when it is undone, the ledger does not move.
LEMMA LedgerWaits ==
    ASSUME \/ pc # "idle" /\ pc' # "idle" /\ txStart' = txStart
           \/ pc # "idle" /\ pc' = "idle" /\ store' = txStart
           \/ pc = "idle" /\ pc' # "idle" /\ txStart' = store
           \/ pc = "idle" /\ pc' = "idle" /\ SameAccounts(store, store')
              /\ store'.emitted = store.emitted
    PROVE  UNCHANGED Ledger!lvars
<1>1. /\ Committed'.subscriberMap = Committed.subscriberMap
      /\ Committed'.ethWei = Committed.ethWei /\ Committed'.emitted = Committed.emitted
  BY DEF Committed, SameAccounts
<1>2. Balances(Committed)' = Balances(Committed)
  BY <1>1 DEF Balances
<1>. QED
  BY <1>1, <1>2, LedgerStutters

\* Every step of the contract is one of the ledger, or leaves it as it is.
LEMMA LedgerStep ==
    IndInv /\ IndInv' /\ LedgerInv /\ LedgerInv' /\ [Next]_vars => [Ledger!Next]_Ledger!lvars
<1> SUFFICES ASSUME IndInv, IndInv', LedgerInv, LedgerInv', [Next]_vars
             PROVE  [Ledger!Next]_Ledger!lvars
  OBVIOUS
<1>1. CASE UNCHANGED vars
  <2>1. Committed' = Committed
    BY <1>1 DEF vars, Committed
  <2>. QED
    BY <2>1, LedgerStutters DEF Balances
<1>2. CASE Next
  <2>1. ASSUME NEW a \in Addr, NEW v \in Deposits,
               AddSubscriber(a, v) \/ SubscriberAddBalance(a, v)
        PROVE  [Ledger!Next]_Ledger!lvars
    <3>1. CASE pc = "idle"
      BY <2>1, <3>1, LedgerDeposits DEF Ledger!Next
    <3>2. CASE pc # "idle"
      <4>1. pc' = pc /\ txStart' = txStart
        BY <2>1, DepositAccounts DEF Entered
      <4>. QED
        BY <3>2, <4>1, LedgerWaits
    <3>. QED
      BY <3>1, <3>2
  <2>2. CASE SameAccounts(store, store') /\ store'.emitted = store.emitted /\ Entered
    BY <2>2, LedgerWaits DEF Entered
  <2>3. CASE SameAccounts(store, store') /\ store'.emitted = store.emitted + 1
             /\ Entered /\ pc = "idle"
    <3>1. pc' = "idle" /\ Committed = store
      BY <2>3 DEF Entered, Committed
    <3>2. \A a \in Addr : Committed.subscriberMap[a].init => store'.subscriberMap[a].init
      BY <2>3, <3>1 DEF SameAccounts
    <3>3. Ledger!Publish
      BY <2>3, <3>1, <3>2, LedgerPublishes
    <3>. QED
      BY <3>3 DEF Ledger!Next
  <2>4. CASE \E s \in Addr, price \in GasPrices, gas \in TxGas : BeginNotify(s, price, gas)
    <3>1. pc = "idle" /\ pc' = "loop" /\ txStart' = store
      BY <2>4, BeginAccounts
    <3>. QED
      BY <3>1, LedgerWaits
  <2>5. CASE SkipSubscriber \/ CallSubscriber
    <3>1. pc # "idle" /\ pc' # "idle" /\ txStart' = txStart
      BY <2>5 DEF SkipSubscriber, CallSubscriber, InLoop
    <3>. QED
      BY <3>1, LedgerWaits
  <2>6. CASE pc = "calling" /\ \E a, cost :
                ChargedTo(store, a, cost) \/ ChargedTo(callStart, a, cost)
    <3>1. pc # "idle" /\ pc' # "idle" /\ txStart' = txStart
      BY <2>6 DEF ChargedTo
    <3>. QED
      BY <3>1, LedgerWaits
  <2>7. CASE pc # "idle" /\ \E o : Revert(o)
    <3>1. pc # "idle" /\ pc' = "idle" /\ store' = txStart
      BY <2>7 DEF Revert, Return
    <3>. QED
      BY <3>1, LedgerWaits
  <2>8. CASE FinishNotify
    <3>1. pc # "idle"
      BY <2>8 DEF FinishNotify
    <3>2. CASE Revert("transferFailed")
      BY <2>7, <3>1, <3>2
    <3>3. CASE /\ store'.subscriberMap = store.subscriberMap
               /\ store'.emitted = store.emitted + 1 /\ pc' = "idle"
      <4>1. Committed = txStart /\ Continues(store)
        BY <3>1 DEF Committed, LedgerInv
      <4>2. /\ store'.emitted = Committed.emitted + 1
            /\ \A a \in Addr : Committed.subscriberMap[a].init => store'.subscriberMap[a].init
        BY <3>3, <4>1 DEF Continues
      <4>3. Ledger!Publish
        BY <3>3, <4>2, LedgerPublishes
      <4>. QED
        BY <4>3 DEF Ledger!Next
    <3>. QED
      BY <2>8, <3>2, <3>3, FinishLedger
  <2>. QED
    BY <1>2, StepKinds, <2>1, <2>2, <2>3, <2>4, <2>5, <2>6, <2>7, <2>8
<1>. QED
  BY <1>1, <1>2

\* The re-entrant notification loop, with its reverts, implements the atomic ledger:
\* seen between transactions, a publication is one backed change of the accounts.
THEOREM ManagerImplementsLedger == Spec => ImplementsLedger
  BY LedgerInitially, LedgerStep, AlwaysLedger, PTL DEF Spec, ImplementsLedger, Ledger!Spec
-----------------------------------------------------------------------------
(* The measure of a running notification.                                  *)

\* What is left of a running notification is a positive number of steps.
LEMMA StepsLeftPositive ==
    ASSUME IndInv, pc # "idle"
    PROVE  /\ frame.i \in Nat /\ frame.numSubscribers \in Nat /\ frame.nested \in Nat
           /\ pc \in {"loop", "calling"}
           /\ StepsLeft \in Nat /\ StepsLeft > 0
<1>1. /\ frame.i \in Nat /\ frame.numSubscribers \in Nat /\ frame.nested \in Nat
      /\ pc \in {"loop", "calling"} /\ frame.i <= frame.numSubscribers + 1
      /\ pc = "calling" => frame.i <= frame.numSubscribers
  BY DEF IndInv, TypeOK, FrameOK, Frames
<1>. QED
  BY <1>1 DEF StepsLeft

\* A return or a revert ends the notification.
LEMMA ReturnProgress ==
    ASSUME IndInv, pc # "idle", NEW o, Return(o)
    PROVE  StepsLeft' \in Nat /\ StepsLeft' < StepsLeft
<1>1. StepsLeft' = 0
  BY DEF Return, StepsLeft
<1>. QED
  BY <1>1, StepsLeftPositive

\* A function entered from inside onNotify uses up one of the call's re-entries.
LEMMA EnteredProgress ==
    ASSUME IndInv, pc # "idle", CanCall, Entered
    PROVE  /\ pc = "calling" /\ StepsLeft' = StepsLeft
           /\ frame'.nested = frame.nested + 1 /\ frame'.nested <= MaxNested
<1>1. /\ pc = "calling" /\ pc' = pc /\ frame.nested < MaxNested
      /\ frame \in Frames /\ frame' = [frame EXCEPT !.nested = @ + 1]
  BY DEF CanCall, Entered, IndInv, TypeOK
<1>2. /\ frame'.nested = frame.nested + 1
      /\ frame'.i = frame.i /\ frame'.numSubscribers = frame.numSubscribers
  BY <1>1 DEF Frames
<1>3. StepsLeft' = StepsLeft
  BY <1>1, <1>2 DEF StepsLeft
<1>4. MaxNested \in Nat /\ frame.nested \in Nat
  BY EventManagerAssumption, StepsLeftPositive
<1>. QED
  BY <1>1, <1>2, <1>3, <1>4

\* The loop's own steps: a subscriber passed over, called or settled.
LEMMA LoopProgress ==
    ASSUME IndInv, pc # "idle",
           \/ SkipSubscriber \/ CallSubscriber
           \/ \E s, award, used, panic : pc = "calling" /\ Charge(s, award, used, panic)
    PROVE  StepsLeft' \in Nat /\ StepsLeft' < StepsLeft
<1>0. /\ frame.i \in Nat /\ frame.numSubscribers \in Nat /\ frame \in Frames
      /\ frame.i <= frame.numSubscribers + 1
      /\ pc = "calling" => frame.i <= frame.numSubscribers
  BY StepsLeftPositive DEF IndInv, FrameOK, TypeOK
<1>1. CASE SkipSubscriber
  <2>1. /\ pc = "loop" /\ pc' = "loop" /\ frame.i <= frame.numSubscribers
        /\ frame'.i = frame.i + 1 /\ frame'.numSubscribers = frame.numSubscribers
    BY <1>0, <1>1 DEF SkipSubscriber, InLoop, NextIndex, Frames
  <2>. QED
    BY <1>0, <2>1 DEF StepsLeft
<1>2. CASE CallSubscriber
  <2>1. /\ pc = "loop" /\ pc' = "calling" /\ frame.i <= frame.numSubscribers
        /\ frame'.i = frame.i /\ frame'.numSubscribers = frame.numSubscribers
    BY <1>0, <1>2 DEF CallSubscriber, InLoop, Frames
  <2>. QED
    BY <1>0, <2>1 DEF StepsLeft
<1>3. ASSUME NEW s, NEW award, NEW used, NEW panic, pc = "calling",
             Charge(s, award, used, panic)
      PROVE  StepsLeft' \in Nat /\ StepsLeft' < StepsLeft
  <2>1. CASE Revert(panic)
    BY <2>1, ReturnProgress DEF Revert
  <2>2. CASE ~Revert(panic)
    <3> DEFINE cost == award * frame.incentPerSubWei + used * frame.gasPriceWei
    <3>1. pc' = "loop" /\ frame' = [frame EXCEPT !.i = NextIndex,
                                       !.compensateWei = Compensate(cost),
                                       !.awarded = @ + award,
                                       !.limitGas = 0, !.nested = 0]
      BY <1>3, <2>2, Zenon DEF Charge
    <3>. HIDE DEF cost
    <3>2. frame'.i = frame.i + 1 /\ frame'.numSubscribers = frame.numSubscribers
      BY <1>0, <3>1 DEF Frames, NextIndex
    <3>. QED
      BY <1>0, <1>3, <3>1, <3>2 DEF StepsLeft
  <2>. QED
    BY <2>1, <2>2
<1>. QED
  BY <1>1, <1>2, <1>3

\* However many subscribers there are and whatever they call back, a notification
\* comes closer to its end with every step that is not a re-entered call, and a call
\* has only MaxNested of these: what is left to fairness is that the EVM goes on.
THEOREM NotifyAlwaysProgresses == Spec => NotifyProgresses
<1> DEFINE Lowered == StepsLeft' \in Nat /\ StepsLeft' < StepsLeft
           ReEntered == /\ pc = "calling" /\ StepsLeft' = StepsLeft
                        /\ frame'.nested = frame.nested + 1 /\ frame'.nested <= MaxNested
<1>1. ASSUME IndInv, Next, pc # "idle"
      PROVE  Lowered \/ ReEntered
  <2>1. CASE External
    <3>1. ~\E s \in Addr, price \in GasPrices, gas \in TxGas : BeginNotify(s, price, gas)
      BY <1>1 DEF BeginNotify, MayNotify, IndInv, LockedWhileNotifying
    <3>2. CanCall /\ Entered
      BY <2>1, <3>1 DEF External, AddSubscriber, SubscriberAddBalance, UpdateIncentive,
         AddPublisher, SetPerSubscriberLimitGas, NotifyNobody, MayNotify
    <3>. QED
      BY <1>1, <3>2, EnteredProgress
  <2>2. CASE CallWithoutCode \/ FinishNotify \/ OutOfGas
    <3>1. \E o : Return(o)
      BY <2>2 DEF CallWithoutCode, FinishNotify, OutOfGas, Revert
    <3>. QED
      BY <1>1, <3>1, ReturnProgress
  <2>3. CASE SkipSubscriber \/ CallSubscriber
    BY <1>1, <2>3, LoopProgress
  <2>4. CASE \E used \in UsedGas : OnNotifyReturns(used) \/ OnNotifyFails(used)
    <3>1. \E s, award, used, panic : pc = "calling" /\ Charge(s, award, used, panic)
      BY <2>4 DEF OnNotifyReturns, OnNotifyFails
    <3>. QED
      BY <1>1, <3>1, LoopProgress
  <2>. QED
    BY <1>1, <2>1, <2>2, <2>3, <2>4 DEF Next, Advance
<1>2. IndInv /\ [Next]_vars => [pc # "idle" => Lowered \/ ReEntered]_vars
  BY <1>1
<1>. QED
  BY <1>2, AlwaysIndInv, PTL DEF Spec, NotifyProgresses
=============================================================================
