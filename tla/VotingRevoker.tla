--------------------------- MODULE VotingRevoker ----------------------------
(***************************************************************************)
(* Revocation by vote: KeyRevokerByVoting.sol and RevokerByVoting.sol, the *)
(* same contract over key addresses and over enclave hashes.               *)
(***************************************************************************)
EXTENDS NotifyCall, Integers, FiniteSets

CONSTANTS
    Addr,          \* accounts that may call the contract
    Target,        \* keys or enclaves that may be proposed
    Stakeholders   \* the constructor's list of stakeholders

VoterSet == {Stakeholders[i] : i \in DOMAIN Stakeholders}
N == Len(Stakeholders)

\* The constructor's two requires.
Deployable(list) ==
    /\ Len(list) >= 3
    /\ \A i, j \in DOMAIN list : i < j => list[i] # list[j]

ASSUME VotingAssumption ==
    /\ Stakeholders \in Seq(Addr) /\ Deployable(Stakeholders)
    /\ NoTarget \notin Target

ThresholdRounded(n) == (n * 2) \div 3 \* defect: an even count is not raised
Threshold(n) == (n * 2) \div 3 + (IF n % 2 = 0 THEN 1 ELSE 0)
-----------------------------------------------------------------------------
Deployed == [voters   |-> [k \in Target |-> {}],
             numVotes |-> [k \in Target |-> 0],
             revoked  |-> {},
             log      |-> <<>>]

Init ==
    /\ store = Deployed /\ txStart = Deployed /\ callStart = Deployed
    /\ target = NoTarget

MayVote(a, k) == a \in VoterSet /\ a \notin store.voters[k]

Recorded(a, k) ==
    [store EXCEPT !.voters[k] = @ \cup {a}, !.numVotes[k] = @ + 1]

DecidesAgain(s, k) == s.numVotes[k] >= Threshold(N) \* defect: 'not yet revoked' dropped
Decides(s, k) == k \notin s.revoked /\ s.numVotes[k] >= Threshold(N)

UnmarkedRevoked(s, k) == s \* defect: the flag is not set before the notification
MarkedRevoked(s, k) == [s EXCEPT !.revoked = @ \cup {k}]

\* revokeVote when the vote decides nothing.
RecordVote(a, k) ==
    /\ MayVote(a, k)
    /\ ~Decides(Recorded(a, k), k)
    /\ Update(Recorded(a, k))

\* revokeVote when the vote decides: the target is marked before the call out.
DecidingVote(a, k) ==
    /\ MayVote(a, k)
    /\ Decides(Recorded(a, k), k)
    /\ BeginNotify(k, MarkedRevoked(Recorded(a, k), k))

Next ==
    \/ \E a \in Addr, k \in Target : RecordVote(a, k) \/ DecidingVote(a, k)
    \/ CallStep

Spec == Init /\ [][Next]_cvars
-----------------------------------------------------------------------------
Storage ==
    [voters   : [Target -> SUBSET VoterSet],
     numVotes : [Target -> Nat],
     revoked  : SUBSET Target,
     log      : Seq(Target)]

\* Every variable keeps its type; only stakeholders are ever recorded as voters.
TypeOK ==
    /\ store \in Storage /\ txStart \in Storage /\ callStart \in Storage
    /\ target \in Target \cup {NoTarget}

\* numVotes is the number of different stakeholders that voted, whatever votes
\* failing subscribers and reverted notifications undo.
VotesCounted ==
    \A k \in Target : store.numVotes[k] = Cardinality(store.voters[k])

\* A target is revoked exactly when enough stakeholders voted: a vote that reached
\* the threshold without announcing it would leave the target live for ever.
RevokedIffDecided ==
    \A k \in Target : k \in store.revoked <=> store.numVotes[k] >= Threshold(N)

\* A revocation needs a strict majority (the constructor's comment, lines 59-60).
RevokedByMajority ==
    \A k \in store.revoked : 2 * store.numVotes[k] > N

RevocationView == INSTANCE Revocation WITH
    revoked <- txStart.revoked, announced <- txStart.log

\* From outside, revoking and announcing is one step taken once per target.
ImplementsRevocation == RevocationView!Spec

\* The inductive invariant behind the properties above: all three stores are
\* consistent, and a running notification has changed just what it announces.
StoreOK(s) ==
    /\ s \in Storage
    /\ \A k \in Target :
          /\ IsFiniteSet(s.voters[k])
          /\ s.numVotes[k] = Cardinality(s.voters[k])
          /\ k \in s.revoked <=> s.numVotes[k] >= Threshold(N)

Announces(s) ==
    /\ s.revoked = txStart.revoked \cup {target}
    /\ s.log = txStart.log

IndInv ==
    /\ StoreOK(store) /\ StoreOK(txStart) /\ StoreOK(callStart)
    /\ target \in Target \cup {NoTarget}
    /\ Idle => txStart = store
    /\ ~Idle => Announces(store) /\ Announces(callStart) /\ target \notin txStart.revoked
=============================================================================
