------------------------ MODULE VotingRevokerProofs -------------------------
(* Proofs about VotingRevoker, for every list of stakeholders.              *)
EXTENDS VotingRevoker, FiniteSetTheorems, TLAPS

\* The threshold of n >= 3 stakeholders is a strict majority that can be reached.
THEOREM ThresholdIsMajority ==
    ASSUME NEW n \in Nat, n >= 3
    PROVE  /\ Threshold(n) \in Nat
           /\ 2 * Threshold(n) > n
           /\ Threshold(n) <= n
<1> DEFINE q == (n * 2) \div 3
           r == n % 2
<1>1. q \in Nat /\ 3 * q <= n * 2 /\ n * 2 < 3 * q + 3
  BY SMT
<1>2. r \in {0, 1} /\ \E h \in Nat : n = 2 * h + r
  BY SMT
<1>3. Threshold(n) = q + (IF r = 0 THEN 1 ELSE 0)
  BY DEF Threshold
<1>. HIDE DEF q, r
<1>4. CASE r = 0
  BY <1>1, <1>2, <1>3, <1>4, SMT
<1>5. CASE r = 1
  BY <1>1, <1>2, <1>3, <1>5, SMT
<1>. QED
  BY <1>2, <1>4, <1>5

\* The constructor's checks make the threshold a positive number.
LEMMA ThresholdOK == N \in Nat /\ N >= 3 /\ Threshold(N) \in Nat /\ Threshold(N) > 0
                     /\ 2 * Threshold(N) > N
<1>1. N \in Nat /\ N >= 3
  BY VotingAssumption DEF N, Deployable
<1>2. Threshold(N) \in Nat /\ 2 * Threshold(N) > N
  BY <1>1, ThresholdIsMajority
<1>. QED
  BY <1>1, <1>2

\* The invariant holds after deployment.
LEMMA InitOK == Init => IndInv
<1>1. StoreOK(Deployed)
  BY FS_EmptySet, ThresholdOK DEF StoreOK, Deployed, Storage
<1>. QED
  BY <1>1, VotingAssumption DEF Init, IndInv, Idle

\* A recorded vote is counted once, and leaves the other fields alone.
LEMMA RecordedOK ==
    ASSUME StoreOK(store), NEW a \in Addr, NEW k \in Target, MayVote(a, k)
    PROVE  LET s == Recorded(a, k)
           IN  /\ s \in Storage
               /\ s.revoked = store.revoked /\ s.log = store.log
               /\ s.numVotes[k] = store.numVotes[k] + 1
               /\ \A j \in Target \ {k} : s.voters[j] = store.voters[j]
                                          /\ s.numVotes[j] = store.numVotes[j]
               /\ \A j \in Target : /\ IsFiniteSet(s.voters[j])
                                    /\ s.numVotes[j] = Cardinality(s.voters[j])
<1> DEFINE s == Recorded(a, k)
<1>1. /\ store.voters \in [Target -> SUBSET VoterSet] /\ store.numVotes \in [Target -> Nat]
      /\ store \in Storage
  BY DEF StoreOK, Storage
<1>a. a \in VoterSet /\ a \notin store.voters[k]
  BY DEF MayVote
<1>2. /\ s.voters = [store.voters EXCEPT ![k] = @ \cup {a}]
      /\ s.numVotes = [store.numVotes EXCEPT ![k] = @ + 1]
      /\ s.revoked = store.revoked /\ s.log = store.log
      /\ s \in Storage
  <2>1. /\ [store.voters EXCEPT ![k] = @ \cup {a}] \in [Target -> SUBSET VoterSet]
        /\ [store.numVotes EXCEPT ![k] = @ + 1] \in [Target -> Nat]
    BY <1>1, <1>a
  <2>. QED
    BY <1>1, <2>1 DEF Recorded, Storage
<1>3. /\ s.voters[k] = store.voters[k] \cup {a}
      /\ s.numVotes[k] = store.numVotes[k] + 1
      /\ \A j \in Target \ {k} : s.voters[j] = store.voters[j]
                                 /\ s.numVotes[j] = store.numVotes[j]
  BY <1>1, <1>2
<1>4. IsFiniteSet(store.voters[k]) /\ store.numVotes[k] = Cardinality(store.voters[k])
  BY DEF StoreOK
<1>6. /\ IsFiniteSet(store.voters[k] \cup {a})
      /\ Cardinality(store.voters[k] \cup {a}) = Cardinality(store.voters[k]) + 1
  BY <1>4, <1>a, FS_AddElement
<1>. HIDE DEF s
<1>7. \A j \in Target : /\ IsFiniteSet(s.voters[j])
                        /\ s.numVotes[j] = Cardinality(s.voters[j])
  <2> TAKE j \in Target
  <2>1. CASE j = k
    BY <2>1, <1>3, <1>4, <1>6
  <2>2. CASE j # k
    BY <2>2, <1>3 DEF StoreOK
  <2>. QED
    BY <2>1, <2>2
<1>. QED
  BY <1>2, <1>3, <1>7 DEF s

\* A vote that decides nothing keeps revoked and decided the same.
LEMMA RecordVoteOK ==
    ASSUME IndInv, NEW a \in Addr, NEW k \in Target, RecordVote(a, k)
    PROVE  IndInv'
<1> DEFINE s == Recorded(a, k)
<1>0. MayVote(a, k) /\ ~Decides(s, k) /\ Update(s) /\ StoreOK(store)
  BY DEF RecordVote, IndInv
<1>1. /\ s \in Storage
      /\ s.revoked = store.revoked /\ s.log = store.log
      /\ s.numVotes[k] = store.numVotes[k] + 1
      /\ \A j \in Target \ {k} : s.numVotes[j] = store.numVotes[j]
      /\ \A j \in Target : /\ IsFiniteSet(s.voters[j])
                           /\ s.numVotes[j] = Cardinality(s.voters[j])
  BY <1>0, RecordedOK
<1>. HIDE DEF s
<1>2. store.numVotes[k] \in Nat
  BY <1>0 DEF StoreOK, Storage
<1>3. \A j \in Target : j \in s.revoked <=> s.numVotes[j] >= Threshold(N)
  <2> TAKE j \in Target
  <2>1. CASE j = k
    BY <2>1, <1>0, <1>1, <1>2, ThresholdOK DEF StoreOK, Decides
  <2>2. CASE j # k
    BY <2>2, <1>0, <1>1 DEF StoreOK
  <2>. QED
    BY <2>1, <2>2
<1>4. StoreOK(s)
  BY <1>1, <1>3 DEF StoreOK
<1>5. CASE Idle
  BY <1>0, <1>4, <1>5 DEF IndInv, Update, Idle
<1>6. CASE ~Idle
  BY <1>0, <1>1, <1>4, <1>6 DEF IndInv, Update, Idle, Announces
<1>. QED
  BY <1>5, <1>6

\* The deciding vote opens a notification that announces just its target.
LEMMA DecidingVoteOK ==
    ASSUME IndInv, NEW a \in Addr, NEW k \in Target, DecidingVote(a, k)
    PROVE  IndInv'
<1> DEFINE s == Recorded(a, k)
           t == MarkedRevoked(s, k)
<1>0. MayVote(a, k) /\ Decides(s, k) /\ BeginNotify(k, t) /\ StoreOK(store)
  BY DEF DecidingVote, IndInv
<1>1. /\ s \in Storage
      /\ s.revoked = store.revoked /\ s.log = store.log
      /\ \A j \in Target \ {k} : s.numVotes[j] = store.numVotes[j]
      /\ \A j \in Target : /\ IsFiniteSet(s.voters[j])
                           /\ s.numVotes[j] = Cardinality(s.voters[j])
  BY <1>0, RecordedOK
<1>. HIDE DEF s
<1>2. /\ t \in Storage /\ t.revoked = s.revoked \cup {k} /\ t.log = s.log
      /\ t.voters = s.voters /\ t.numVotes = s.numVotes
  BY <1>1 DEF MarkedRevoked, Storage
<1>. HIDE DEF t
<1>3. k \notin store.revoked /\ s.numVotes[k] >= Threshold(N)
  BY <1>0, <1>1 DEF Decides
<1>4. \A j \in Target : j \in t.revoked <=> t.numVotes[j] >= Threshold(N)
  <2> TAKE j \in Target
  <2>1. CASE j = k
    BY <2>1, <1>2, <1>3
  <2>2. CASE j # k
    BY <2>2, <1>0, <1>1, <1>2 DEF StoreOK
  <2>. QED
    BY <2>1, <2>2
<1>5. StoreOK(t)
  BY <1>1, <1>2, <1>4 DEF StoreOK
<1>6. txStart = store /\ store' = t /\ callStart' = t /\ txStart' = txStart /\ target' = k
  BY <1>0 DEF BeginNotify, IndInv
<1>7. Announces(store)' /\ Announces(callStart)'
  BY <1>1, <1>2, <1>6 DEF Announces
<1>. QED
  BY <1>3, <1>5, <1>6, <1>7, VotingAssumption DEF IndInv, Idle

\* The steps of the running notification.
LEMMA CallStepOK ==
    ASSUME IndInv, CallStep
    PROVE  IndInv'
<1>1. CASE SubscriberReturns \/ SubscriberFails
  BY <1>1 DEF IndInv, SubscriberReturns, SubscriberFails, Idle, Announces
<1>2. CASE NotifyReverts
  BY <1>2 DEF IndInv, NotifyReverts, EndTx, Idle
<1>3. CASE NotifyReturns
  <2> DEFINE s == [store EXCEPT !.log = Append(@, target)]
  <2>1. target \in Target /\ store \in Storage /\ store.log \in Seq(Target)
    <3>1. target \in Target /\ store \in Storage
      BY <1>3 DEF IndInv, NotifyReturns, Idle, StoreOK
    <3>. QED
      BY <3>1 DEF Storage
  <2>2. /\ s \in Storage /\ s.voters = store.voters
        /\ s.numVotes = store.numVotes /\ s.revoked = store.revoked
    <3>1. Append(store.log, target) \in Seq(Target)
      BY <2>1
    <3>. QED
      BY <2>1, <3>1 DEF Storage
  <2>. HIDE DEF s
  <2>3. StoreOK(s)
    BY <2>2 DEF StoreOK, IndInv
  <2>. QED
    BY <1>3, <2>3 DEF IndInv, NotifyReturns, EndTx, Idle, s
<1>. QED
  BY <1>1, <1>2, <1>3 DEF CallStep

\* Every step keeps the invariant.
LEMMA StepOK == IndInv /\ [Next]_cvars => IndInv'
<1> SUFFICES ASSUME IndInv, [Next]_cvars PROVE IndInv'
  OBVIOUS
<1>1. CASE UNCHANGED cvars
  BY <1>1 DEF cvars, IndInv, StoreOK, Announces, Idle
<1>. QED
  BY <1>1, RecordVoteOK, DecidingVoteOK, CallStepOK DEF Next

\* The inductive invariant holds in every execution.
LEMMA AlwaysIndInv == Spec => []IndInv
  BY InitOK, StepOK, PTL DEF Spec

\* The contract's storage is well typed in every execution.
THEOREM TypeCorrect == Spec => []TypeOK
<1>1. IndInv => TypeOK
  BY DEF IndInv, TypeOK, StoreOK
<1>. QED
  BY <1>1, AlwaysIndInv, PTL

\* numVotes always counts the different stakeholders that voted.
THEOREM VotesAlwaysCounted == Spec => []VotesCounted
<1>1. IndInv => VotesCounted
  BY DEF IndInv, VotesCounted, StoreOK
<1>. QED
  BY <1>1, AlwaysIndInv, PTL

\* Revoked and decided always coincide, for any number of stakeholders.
THEOREM RevokedExactlyWhenDecided == Spec => []RevokedIffDecided
<1>1. IndInv => RevokedIffDecided
  BY DEF IndInv, RevokedIffDecided, StoreOK
<1>. QED
  BY <1>1, AlwaysIndInv, PTL

\* No target is revoked without a strict majority of the stakeholders.
THEOREM MajorityAlways == Spec => []RevokedByMajority
<1>1. IndInv => RevokedByMajority
  <2> SUFFICES ASSUME IndInv, NEW k \in store.revoked
               PROVE  2 * store.numVotes[k] > N
    BY DEF RevokedByMajority
  <2>1. k \in Target /\ store.numVotes[k] \in Nat /\ store.numVotes[k] >= Threshold(N)
    BY DEF IndInv, StoreOK, Storage
  <2>. QED
    BY <2>1, ThresholdOK
<1>. QED
  BY <1>1, AlwaysIndInv, PTL

\* The contract implements Revocation: revoking and announcing look like one step,
\* taken once per target, whatever subscribers do and whichever calls revert.
THEOREM RevokerRefines == Spec => ImplementsRevocation
<1>1. Init => RevocationView!Init
  BY DEF Init, Deployed, RevocationView!Init
<1>2. IndInv /\ [Next]_cvars =>
          [RevocationView!Revoke]_<<txStart.revoked, txStart.log>>
  <2> SUFFICES ASSUME IndInv, [Next]_cvars
               PROVE  \/ RevocationView!Revoke
                      \/ txStart'.revoked = txStart.revoked /\ txStart'.log = txStart.log
    OBVIOUS
  <2>1. ASSUME NEW a \in Addr, NEW k \in Target, RecordVote(a, k)
        PROVE  txStart'.revoked = txStart.revoked /\ txStart'.log = txStart.log
    <3>1. /\ Recorded(a, k).revoked = store.revoked /\ Recorded(a, k).log = store.log
          /\ Update(Recorded(a, k))
      BY <2>1, RecordedOK DEF IndInv, RecordVote
    <3>. QED
      BY <3>1 DEF Update, IndInv
  <2>2. ASSUME NEW a \in Addr, NEW k \in Target, DecidingVote(a, k)
        PROVE  txStart' = txStart
    BY <2>2 DEF DecidingVote, BeginNotify
  <2>3. CASE SubscriberReturns \/ SubscriberFails \/ NotifyReverts \/ UNCHANGED cvars
    BY <2>3 DEF SubscriberReturns, SubscriberFails, NotifyReverts, EndTx, cvars
  <2>4. CASE NotifyReturns
    <3>1. store \in Storage /\ Announces(store) /\ target \notin txStart.revoked
      BY <2>4 DEF IndInv, NotifyReturns, StoreOK
    <3>2. txStart' = [store EXCEPT !.log = Append(@, target)]
      BY <2>4 DEF NotifyReturns, EndTx
    <3>3. /\ txStart'.revoked = txStart.revoked \cup {target}
          /\ txStart'.log = Append(txStart.log, target)
      BY <3>1, <3>2 DEF Announces, Storage
    <3>. QED
      BY <3>1, <3>3 DEF RevocationView!Revoke
  <2>. QED
    BY <2>1, <2>2, <2>3, <2>4 DEF Next, CallStep
<1>. QED
  BY <1>1, <1>2, AlwaysIndInv, PTL DEF Spec, ImplementsRevocation, RevocationView!Spec
=============================================================================
