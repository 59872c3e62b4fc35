---------------------------- MODULE CheckpointMgr ----------------------------
(***************************************************************************)
(* The checkpoint manager of EclipseMonitor and what the monitor does when *)
(* a checkpoint completes.  Headers come in block order (the caller's       *)
(* duty), so a header is its block number.  During bootstrap they are added *)
(* with AddHeader; EndBootstrapPhase turns the newest into the root node of *)
(* the header tree, the last node, and from then on AddNode replaces that   *)
(* node.  The last node's header belongs to the candidates or to the        *)
(* current window, as m_isLastNodeCandidate says.                           *)
(***************************************************************************)
EXTENDS Integers, Sequences, FiniteSets

CONSTANTS
    ChkptSize,  \* the checkpoint size of the monitor's configuration
    StartBlk,   \* number of the first block fed
    MaxBlk,     \* bound on the block numbers
    ParisBlk    \* first proof-of-stake block

\* A size of one would make windows of two headers: see the README.
ASSUME CheckpointAssumption ==
    /\ ChkptSize \in Nat /\ ChkptSize >= 2
    /\ StartBlk \in Nat \ {0}
    /\ MaxBlk \in Nat /\ ParisBlk \in Nat

VARIABLES
    chkpt,      \* [curr, cand, last, lastIsCandidate]
    secState,   \* [checkpointNum, checkpointIter] of MonitorSecState
    minDiff     \* the headers that the minimum difficulty is the median of

vars == <<chkpt, secState, minDiff>>

None == 0       \* no last node: block numbers are positive
-----------------------------------------------------------------------------
(***************************************************************************)
(* Reading the windows.                                                    *)
(***************************************************************************)
GetNumOfCandidates(k) ==
    Len(k.cand) + (IF k.last # None /\ k.lastIsCandidate THEN 1 ELSE 0)

IsEmpty(k) == k.last = None /\ k.cand = <<>> /\ k.curr = <<>>

\* Meaningful when not IsEmpty.
GetLastHeader(k) ==
    IF k.last # None THEN k.last
    ELSE IF k.cand # <<>> THEN k.cand[Len(k.cand)]
    ELSE k.curr[Len(k.curr)]

\* The headers that IterateCurrWindow visits.
IterateCurrWindow(k) ==
    {k.curr[i] : i \in 1..Len(k.curr)}
      \cup (IF k.last # None /\ ~k.lastIsCandidate THEN {k.last} ELSE {})

\* GetCheckpointBlkNumRange().second.
RangeEnd(k) == k.curr[1] + ChkptSize - 1
-----------------------------------------------------------------------------
(***************************************************************************)
(* Changing them.                                                          *)
(***************************************************************************)
Completes(n) == n >= ChkptSize

AfterAddHeader(k, h) ==
    LET added == [k EXCEPT !.cand = Append(@, h)]
    IN IF Completes(GetNumOfCandidates(added))
         THEN [added EXCEPT !.curr = added.cand, !.cand = <<>>]
         ELSE added

\* defect: the last node is always taken for a candidate
RetiredToCandidates(k) == [k EXCEPT !.cand = Append(@, k.last)]

\* The last node's header moves to the window it belongs to.
Retired(k) ==
    IF k.lastIsCandidate THEN [k EXCEPT !.cand = Append(@, k.last)]
                         ELSE [k EXCEPT !.curr = Append(@, k.last)]

AfterAddNode(k, h) ==
    IF Completes(GetNumOfCandidates(k) + 1)
      THEN [curr |-> Append(k.cand, k.last), cand |-> <<>>, last |-> h,
            lastIsCandidate |-> FALSE]
      ELSE [Retired(k) EXCEPT !.last = h, !.lastIsCandidate = TRUE]

AfterEndBootstrap(k) ==
    [k EXCEPT !.last = k.curr[Len(k.curr)], !.lastIsCandidate = FALSE,
              !.curr = [i \in 1..(Len(k.curr) - 1) |-> k.curr[i]]]

\* Whether adding h to k runs the completion callback.
HeaderCompletes(k) == Completes(GetNumOfCandidates(k) + 1)

(***************************************************************************)
(* OnCheckpointComplete: the security state moves to the newest header and *)
(* the difficulty checker is updated; the proof-of-stake checker takes     *)
(* nothing, the proof-of-work one the median difficulty of the window.     *)
(***************************************************************************)
\* defect: the checker is chosen by the window's first block
OnChkptUpdByFirst(k) ==
    IF k.curr[1] >= ParisBlk THEN minDiff ELSE IterateCurrWindow(k)

OnChkptUpd(k) ==
    IF RangeEnd(k) >= ParisBlk THEN minDiff ELSE IterateCurrWindow(k)

CompletedState(k) ==
    [checkpointNum |-> GetLastHeader(k),
     checkpointIter |-> secState.checkpointIter + 1]

OnCheckpointComplete(k) ==
    /\ secState' = CompletedState(k)
    /\ minDiff' = OnChkptUpd(k)

Finish(completed, k) ==
    /\ chkpt' = k
    /\ IF completed THEN OnCheckpointComplete(k)
                    ELSE UNCHANGED <<secState, minDiff>>
-----------------------------------------------------------------------------
NextBlk == IF IsEmpty(chkpt) THEN StartBlk ELSE GetLastHeader(chkpt) + 1

AddHeader ==
    /\ chkpt.last = None        \* otherwise AddHeader throws
    /\ NextBlk <= MaxBlk
    /\ Finish(HeaderCompletes(chkpt), AfterAddHeader(chkpt, NextBlk))

\* Throws unless the candidate window is empty; the monitor calls it only when
\* a window has been completed.
EndBootstrapPhase ==
    /\ chkpt.last = None
    /\ chkpt.cand = <<>> /\ chkpt.curr # <<>>
    /\ chkpt' = AfterEndBootstrap(chkpt)
    /\ UNCHANGED <<secState, minDiff>>

AddNode ==
    /\ chkpt.last # None
    /\ NextBlk <= MaxBlk
    /\ Finish(HeaderCompletes(chkpt), AfterAddNode(chkpt, NextBlk))

EmptyChkpt == [curr |-> <<>>, cand |-> <<>>, last |-> None,
               lastIsCandidate |-> FALSE]

Init ==
    /\ chkpt = EmptyChkpt
    /\ secState = [checkpointNum |-> 0, checkpointIter |-> 0]
    /\ minDiff = {}

Next == AddHeader \/ EndBootstrapPhase \/ AddNode

Spec == Init /\ [][Next]_vars
-----------------------------------------------------------------------------
\* Every variable keeps its type.
TypeOK ==
    /\ chkpt \in [curr : Seq(Nat), cand : Seq(Nat), last : Nat,
                  lastIsCandidate : BOOLEAN]
    /\ secState \in [checkpointNum : Nat, checkpointIter : Nat]
    /\ minDiff \subseteq Nat

\* The block the latest checkpoint ends at, or the one before the first.
Checkpoint ==
    IF secState.checkpointIter = 0 THEN StartBlk - 1
                                   ELSE secState.checkpointNum

\* The candidates are exactly the headers after the checkpoint, in order.
CandidatesFollow ==
    /\ \A i \in 1..Len(chkpt.cand) :
         chkpt.cand[i] = Checkpoint + i
    /\ chkpt.last # None =>
         chkpt.last = Checkpoint + GetNumOfCandidates(chkpt)
    /\ GetNumOfCandidates(chkpt) < ChkptSize

\* Wherever the headers are kept, the current window is empty before the first
\* checkpoint and holds the ChkptSize headers up to the checkpoint ever after:
\* no header is skipped, counted twice or kept too long when the last node
\* changes hands between the two windows.
WindowIsLatestCheckpoint ==
    IterateCurrWindow(chkpt) =
        IF chkpt.curr = <<>> THEN {}
        ELSE (Checkpoint - ChkptSize + 1)..Checkpoint

\* The range the difficulty checker is chosen by ends at the checkpoint.
RangeEndsAtCheckpoint ==
    chkpt.curr # <<>> => RangeEnd(chkpt) = Checkpoint

\* The minimum difficulty comes from a whole window of proof-of-work blocks,
\* and from the latest one.
MinDiffFromLatestPoW ==
    minDiff = IF Checkpoint < ParisBlk
                THEN IterateCurrWindow(chkpt)
                ELSE LET k == (ParisBlk - StartBlk) \div ChkptSize
                         end == StartBlk - 1 + k * ChkptSize
                     IN IF ParisBlk < StartBlk \/ k = 0 THEN {}
                        ELSE (end - ChkptSize + 1)..end

\* The iteration counts the completed windows.
IterCountsWindows ==
    Checkpoint = StartBlk - 1 + ChkptSize * secState.checkpointIter

\* What the manager's state means.
Abstract ==
    INSTANCE CheckpointWindow WITH
        last <- IF IsEmpty(chkpt) THEN StartBlk - 1 ELSE GetLastHeader(chkpt),
        window <- IterateCurrWindow(chkpt),
        chkptNum <- Checkpoint

\* The two windows and the last node of CheckpointMgr.hpp implement one window:
\* headers arrive one by one and every ChkptSize-th completes a checkpoint.
ImplementsWindow == Abstract!Spec
=============================================================================
