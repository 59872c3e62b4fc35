------------------------------ MODULE BlockFeed ------------------------------
(***************************************************************************)
(* The monitor behind the host's block service.  The service asks Geth for  *)
(* one block number after another and hands each header to the enclave; it  *)
(* runs as a ticking task that tries again when there is no such block yet  *)
(* and that ends with an exception of the enclave.  Geth's chain grows and  *)
(* may be reorganised.                                                      *)
(***************************************************************************)
EXTENDS EclipseMonitor

VARIABLES
    tip,        \* the last block of Geth's chain
    curr,       \* m_currBlockNum
    feed,       \* "running", or how the task ended: "invalid" (the enclave found
                \* the block invalid) or "failed" (any other exception)
    \* history, read by the properties only
    pushed,     \* the last block handed over without the callback throwing
    replaced    \* such a block has left Geth's chain

\* Geth holds the whole chain from the first block on, the host starts at the block the
\* plan starts at, and block numbers fit the word that the plan calculates in.
ASSUME FeedAssumption ==
    /\ \A b \in Blocks : ParentOf[b] = 0 => NumberOf[b] <= StartBlk
    /\ PlanStart = StartBlk
    /\ Word \in Nat /\ StartBlk < Word /\ \A b \in Blocks : NumberOf[b] < Word

monVars == <<phase, bootEnd, planSync, sync, chkpt, secState, nodes, maps, fresh, fault>>
feedVars == <<tip, curr, feed, pushed, replaced>>

NoBlock == 0

\* The chain that ends at each block.
Chain ==
    LET up[x \in Blocks] ==
          {x} \cup (IF ParentOf[x] = NoBlock THEN {} ELSE up[ParentOf[x]])
    IN [b \in Blocks |-> up[b]]

FeedInit ==
    /\ Init
    /\ tip \in {b \in Blocks : NumberOf[b] = head}
    /\ curr = StartBlk
    /\ feed = "running" /\ pushed = NoBlock /\ replaced = FALSE
-----------------------------------------------------------------------------
(***************************************************************************)
(* Geth.                                                                   *)
(***************************************************************************)
GethGrows ==
    /\ \E b \in Blocks : ParentOf[b] = tip /\ tip' = b
    /\ head' = head + 1
    /\ UNCHANGED <<monVars, curr, feed, pushed, replaced>>

\* Another branch that is at least as long becomes the chain.
GethReorganises ==
    /\ \E b \in Blocks :
         /\ NumberOf[b] >= head /\ tip \notin Chain[b]
         /\ tip' = b /\ head' = NumberOf[b]
         /\ replaced' = (replaced \/ (pushed # NoBlock /\ pushed \notin Chain[b]))
    /\ UNCHANGED <<monVars, curr, feed, pushed>>
-----------------------------------------------------------------------------
(***************************************************************************)
(* TryPushNewBlock.  GetHeaderRlpByNum fails beyond the head of the chain,  *)
(* and the tick is repeated.                                                *)
(***************************************************************************)
Fetched(n) == CHOOSE b \in Chain[tip] : NumberOf[b] = n

\* defect: a number is skipped
CurrSkips(n) == n + 2

\* defect: the number never passes the head, so the newest block is fetched again
CurrClamped(n) == IF n < head THEN n + 1 ELSE n

CurrAfter(n) == n + 1

CanFetch == feed = "running" /\ curr <= head

PushNewBlock ==
    /\ CanFetch
    /\ \E b \in {Fetched(curr)} : Update(b) /\ pushed' = b
    /\ curr' = IF fault' = "throw" THEN curr ELSE CurrAfter(curr)
    /\ feed' = IF fault' = "throw" THEN "failed" ELSE feed
    /\ UNCHANGED <<tip, replaced>>

\* The events of a valid block cannot be checked: the exception passes through the
\* monitor, which is left without the block, to the task, and the number stays.
PushNewBlockFails ==
    /\ CanFetch
    /\ \E syncMsg \in SyncMsgs : UpdateThrows(Fetched(curr), syncMsg)
    /\ feed' = "failed"
    /\ UNCHANGED <<tip, curr, pushed, replaced>>

\* UpdateOnBootstrapI throws.
PushInvalidBlock ==
    /\ CanFetch
    /\ phase = "BootstrapI" /\ ~ValidOnBootstrapI(Fetched(curr))
    /\ feed' = "invalid"
    /\ UNCHANGED <<monVars, head, tip, curr, pushed, replaced>>

TryPushNewBlock == PushNewBlock \/ PushNewBlockFails \/ PushInvalidBlock
-----------------------------------------------------------------------------
FeedNext == GethGrows \/ GethReorganises \/ TryPushNewBlock

\* The chain keeps growing and the ticking task is run again and again.
FeedSpec ==
    /\ FeedInit /\ [][FeedNext]_<<vars, feedVars>>
    /\ WF_<<vars, feedVars>>(GethGrows)
    /\ WF_<<vars, feedVars>>(TryPushNewBlock)
-----------------------------------------------------------------------------
\* The last block the monitor dealt with at runtime has not become a node of the tree.
Detached == phase # "BootstrapI" /\ pushed \notin {nodes[i].hdr : i \in DOMAIN nodes}

\* As long as Geth does not take back a block that was already handed over, the
\* monitor accepts every proof-of-stake block, and the planned end of bootstrap I falls on a
\* completed window although the plan moves with the chain (ending it elsewhere
\* throws): the feed ends only when the events of a block cannot be checked, and that
\* leaves the monitor at the block before.
LostOnlyByReorg == Detached \/ feed = "invalid" \/ fault = "throw" => replaced

\* The feed never repairs itself: each number is handed over once, so after one
\* block without a known parent no later block has one, not even when Geth
\* returns to the branch the monitor knows.
NeverReattached == [][Detached => Detached']_<<vars, feedVars>>

\* The feed has handed over every block there is, or it has ended.
CaughtUp == curr > head \/ feed # "running"

\* A chain that has three checkpoints when the plan is first made takes the monitor
\* to the sync phase, provided the feed catches up with the chain again and again
\* and no exception of the enclave ends it.  A shorter chain need not: its plan ends
\* bootstrap I before the first block and is never made again.
EventuallySync ==
    head >= StartBlk + 3 * ChkptSize - 1 /\ []<>CaughtUp
        => <>(phase = "Sync" \/ feed # "running")

Confirmed == IF Chk!IsEmpty(chkpt) THEN 0 ELSE NumberOf[Chk!GetLastHeader(chkpt)]

\* Every block that gets ChkptSize more on top is confirmed, unless the feed ended
\* or lost the chain.
EveryBlockConfirmed ==
    \A n \in StartBlk..(MaxHead - ChkptSize) :
        <>(Confirmed >= n \/ replaced \/ feed # "running")
-----------------------------------------------------------------------------
(***************************************************************************)
(* The inductive invariant behind the safety properties, beside the one of  *)
(* the monitor.                                                             *)
(***************************************************************************)
\* A tree without a fork whose blocks are all older than block b, or b itself.
OnPath(ns, b) ==
    /\ \A i \in DOMAIN ns : ns[i].hdr = b \/ NumberOf[ns[i].hdr] < NumberOf[b]
    /\ \A i, j \in DOMAIN ns : NumberOf[ns[i].hdr] = NumberOf[ns[j].hdr] => i = j

LiveMaps(ms, ns) == ~Dangling(ns, ms.offline) /\ ~Dangling(ns, ms.active)

\* The task's counter, the last block dealt with and what the monitor made of it.
FeedInv ==
    /\ tip \in Blocks /\ head = NumberOf[tip] /\ curr \in Nat /\ curr >= StartBlk
    /\ pushed = NoBlock => phase = "BootstrapI" /\ Chk!IsEmpty(chkpt) /\ curr = StartBlk
    /\ pushed # NoBlock =>
          /\ pushed \in Blocks /\ NumberOf[pushed] >= StartBlk
          /\ feed = "running" => NumberOf[pushed] = curr - 1
          /\ phase = "BootstrapI" => /\ ~Chk!IsEmpty(chkpt)
                                     /\ Chk!GetLastHeader(chkpt) = pushed
    /\ phase # "BootstrapI" => OnPath(nodes, pushed) /\ LiveMaps(maps, nodes)

\* Block n is before the first one or ends a window.
EndsWindow(n) == n < StartBlk \/ \E j \in Nat : n = StartBlk - 1 + j * ChkptSize

\* Wherever the plan moves, bootstrap I is to end with a window.
PlanInv ==
    /\ phase = "BootstrapI" =>
          /\ EndsWindow(bootEnd)
          /\ Checkpoint = StartBlk - 1 + secState.checkpointIter * ChkptSize
    /\ fault = "none"

\* While Geth has taken nothing back, the last block dealt with is on its chain and
\* the next one finds it as its parent.
UnbrokenInv ==
    ~replaced => /\ feed # "invalid"
                 /\ pushed # NoBlock => pushed \in Chain[tip]
                 /\ phase # "BootstrapI" => pushed \in Known

\* The nodes on top of the confirmed block of manager k: never more than ChkptSize, and
\* without a gap.
Keeps(ns, k) ==
    /\ Cardinality(DOMAIN ns) <= ChkptSize + 1
    /\ \A i \in DOMAIN ns : NumberOf[ns[i].hdr] < NumberOf[k.last] + Cardinality(DOMAIN ns)

LagInv == phase # "BootstrapI" => Keeps(nodes, chkpt)

\* As long as Geth takes nothing back, confirmation keeps up with the feed: all but the
\* last ChkptSize blocks the monitor dealt with are confirmed.
ConfirmedKeepsUp ==
    pushed # NoBlock /\ ~replaced => NumberOf[pushed] <= Confirmed + ChkptSize
=============================================================================
