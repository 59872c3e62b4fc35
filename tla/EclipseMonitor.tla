---------------------------- MODULE EclipseMonitor ----------------------------
(***************************************************************************)
(* The block monitor: its phases, the bootstrap plan, the tree of header    *)
(* nodes after bootstrap with its forks, the two maps of raw node pointers  *)
(* by header hash, and the checkpoint manager that confirmed headers move   *)
(* to.  Update runs under the caller's mutex, so one block is one step.     *)
(* The host feeds blocks in any order and may repeat them.                  *)
(***************************************************************************)
EXTENDS Integers, FiniteSets, Sequences, FiniteSetsExt

CONSTANTS
    Blocks,     \* block identities, positive naturals
    NumberOf,   \* block number
    ParentOf,   \* parent block (0: not among Blocks)
    ChkptSize,
    StartBlk,   \* number of the first block fed, whichever it is: nothing checks it
    PlanStart,  \* m_startBlockNum, the first block as the plan knows it
    Heads,      \* chain lengths the host may report
    MaxHead,    \* bound on the chain length
    MaxNodes,   \* bound on the header nodes ever made
    Word,       \* 2^64 stands for this in the plan's arithmetic
    ParisBlk    \* first proof-of-stake block number

ASSUME MonitorAssumption ==
    /\ Blocks \subseteq Nat \ {0}
    /\ NumberOf \in [Blocks -> Nat] /\ ParentOf \in [Blocks -> Blocks \cup {0}]
    /\ \A b \in Blocks : ParentOf[b] = 0 \/ NumberOf[b] = NumberOf[ParentOf[b]] + 1
    /\ ChkptSize \in Nat /\ ChkptSize >= 2
    /\ StartBlk \in Nat \ {0} /\ PlanStart \in Nat
    /\ Heads \subseteq 0..MaxHead /\ ParisBlk \in Nat

VARIABLES
    phase,
    bootEnd,    \* m_bootstrapIEndBlkNum
    planSync,   \* m_planedSyncBlkNum
    sync,       \* the last sync message: "waiting", "synced", or "late" (it was found
                \* after the maximal wait, and nobody listens any more)
    chkpt,      \* the checkpoint manager
    secState,   \* [checkpointNum, checkpointIter]
    nodes,      \* header nodes: id -> [hdr, parent, desc]
    maps,       \* [offline, active]: header -> node id, the raw pointers
    fresh,      \* next node id
    fault,      \* "none", "freed" (a freed node was read) or "throw" (the
                \* end of bootstrap I threw)
    head        \* the chain length the host reports

vars == <<phase, bootEnd, planSync, sync, chkpt, secState, nodes, maps, fresh,
          fault, head>>

Chk == INSTANCE CheckpointMgr WITH
         MaxBlk <- MaxHead, minDiff <- {}
-----------------------------------------------------------------------------
(***************************************************************************)
(* The bootstrap plan.                                                     *)
(***************************************************************************)
CalcBootstrapIEndBlkNum(latest) ==
    LET interval == ((latest - PlanStart + 1) % Word) \div ChkptSize
        kept == IF interval > 2 THEN interval - 2 ELSE 0
    IN (PlanStart + kept * ChkptSize - 1) % Word

\* defect: the sync block is the one after the latest
PlanBeyondHead(n) ==
    CASE phase = "BootstrapI" /\ n = bootEnd ->
           [end |-> CalcBootstrapIEndBlkNum(head), sync |-> head + 1]
      [] phase = "BootstrapII" -> [end |-> bootEnd, sync |-> head + 1]
      [] OTHER -> [end |-> bootEnd, sync |-> planSync]

\* RefreshBootstrapPlan, called by OnHeaderValidated for block number n.
PlanAfter(n) ==
    CASE phase = "BootstrapI" /\ n = bootEnd ->
           [end |-> CalcBootstrapIEndBlkNum(head), sync |-> head]
      [] phase = "BootstrapII" -> [end |-> bootEnd, sync |-> head]
      [] OTHER -> [end |-> bootEnd, sync |-> planSync]
-----------------------------------------------------------------------------
(***************************************************************************)
(* The tree of header nodes.  The node without a parent is the checkpoint  *)
(* manager's last node.                                                    *)
(***************************************************************************)
NoParent == 0
Root(ns) == CHOOSE i \in DOMAIN ns : ns[i].parent = NoParent

\* A node and its ancestors; parents are made before their children.
Lineage(ns, i) ==
    LET up[j \in DOMAIN ns] ==
          {j} \cup (IF ns[j].parent = NoParent THEN {} ELSE up[ns[j].parent])
    IN up[i]

Subtree(ns, i) == {j \in DOMAIN ns : i \in Lineage(ns, j)}

\* defect: only the parent learns of a new descendant
CountedAtParent(ns, p) == {p} \ {Root(ns)}

\* The nodes whose descendant count AddDescCount increments.
Counted(ns, p) == Lineage(ns, p) \ {Root(ns)}

AddChild(ns, p, b) ==
    [i \in DOMAIN ns \cup {fresh} |->
        IF i = fresh THEN [hdr |-> b, parent |-> p, desc |-> 0]
        ELSE IF i \in Counted(ns, p) THEN [ns[i] EXCEPT !.desc = @ + 1]
        ELSE ns[i]]

\* defect: one descendant too few confirms a child
EnoughDescOffByOne(n) == n >= ChkptSize - 1

EnoughDesc(n) == n >= ChkptSize

\* The children ReleaseChildHasNDesc may release; it takes the first.
Confirmable(ns) ==
    {i \in DOMAIN ns : ns[i].parent = Root(ns) /\ EnoughDesc(ns[i].desc)}

\* defect: the released child is not detached from the old last node
SubtreeKept(ns, c) == DOMAIN ns

Survivors(ns, c) == Subtree(ns, c)

\* The last node and every other branch are destroyed with it.
ReleaseChild(ns, c) ==
    [i \in Survivors(ns, c) |->
        IF i = c THEN [ns[i] EXCEPT !.parent = NoParent, !.desc = 0] ELSE ns[i]]
-----------------------------------------------------------------------------
(***************************************************************************)
(* RuntimeMaintenance, on the state that the block left behind.            *)
(***************************************************************************)
Without(m, hs) == [h \in DOMAIN m \ hs |-> m[h]]

\* defect: the checkpoint number is taken from the window's first header
CompletedAtFirst(k) ==
    [checkpointNum |-> NumberOf[k.curr[1]],
     checkpointIter |-> secState.checkpointIter + 1]

OnCheckpointComplete(k) ==
    [checkpointNum |-> NumberOf[Chk!GetLastHeader(k)],
     checkpointIter |-> secState.checkpointIter + 1]

\* Only proof-of-work blocks can fail the difficulty checks.
Checkable(n) == n < ParisBlk

\* The sets that the expiry loop may erase: a node expires when its child would
\* be a proof-of-work block.  Erasing inside the range-for invalidates its
\* iterator, so any of the expired nodes may be left.
Expired(active) == SUBSET {h \in DOMAIN active : Checkable(NumberOf[h] + 1)}

\* Every active node is dereferenced to see whether it has expired.
Dangling(ns, m) == \E h \in DOMAIN m : m[h] \notin DOMAIN ns

\* What the release of a confirmed child, if there is one, makes of the tree, the
\* maps and the checkpoint.
Confirm(ns, m, k) ==
    IF Confirmable(ns) = {}
      THEN [nodes |-> ns, maps |-> m, chkpt |-> k, completes |-> FALSE]
      ELSE LET c == Min(Confirmable(ns))
               drop == {ns[Root(ns)].hdr, ns[c].hdr}
           IN [nodes |-> ReleaseChild(ns, c),
               maps |-> [offline |-> Without(m.offline, drop),
                         active |-> Without(m.active, drop)],
               chkpt |-> Chk!AfterAddNode(k, ns[c].hdr),
               completes |-> Chk!HeaderCompletes(k)]

RuntimeMaintenance(ns, m, k) ==
    \E new \in {Confirm(ns, m, k)} :
        /\ nodes' = new.nodes
        /\ chkpt' = new.chkpt
        /\ secState' = IF new.completes THEN OnCheckpointComplete(new.chkpt) ELSE secState
        /\ fault' = IF Dangling(new.nodes, new.maps.active) THEN "freed" ELSE fault
        /\ \E gone \in Expired(new.maps.active) :
             maps' = [new.maps EXCEPT !.active = Without(@, gone)]
-----------------------------------------------------------------------------
\* OnHeaderValidated finds the sync message of the current nonce, in time or not, or
\* does not find it.  Either way a message that was found cancels the listener.
SyncMsgs == {"waiting", "synced", "late"}
NewSyncState == "waiting"
IsSynced == sync = "synced"
SyncAfter(msg) == IF sync = "waiting" THEN msg ELSE sync

\* defect: only the block number is compared
CommonValidateNumber(p, b) == NumberOf[b] = NumberOf[p] + 1

\* The header of b extends the one of p.
CommonValidate(p, b) == ParentOf[b] = p

\* A block is handed to a monitor that is still well.
Running == fault = "none"

\* Otherwise EndBootstrapPhase throws, or takes the back of an empty window.
CanEndBootstrap(k) == k.cand = <<>> /\ k.curr # <<>>

EndBootstrapI(b, k) ==
    /\ phase' = "BootstrapII"
    /\ chkpt' = Chk!AfterEndBootstrap(k)
    /\ nodes' = [i \in {fresh} |-> [hdr |-> b, parent |-> NoParent, desc |-> 0]]
    /\ maps' = [maps EXCEPT !.offline = [h \in {b} |-> fresh]]
    /\ fresh' = fresh + 1

\* Any first header is taken, and StartBlk is its number; the others extend the last.
ValidOnBootstrapI(b) ==
    IF Chk!IsEmpty(chkpt) THEN NumberOf[b] = StartBlk
                          ELSE CommonValidate(Chk!GetLastHeader(chkpt), b)

\* UpdateOnBootstrapI and the phase change; throws on an invalid block.
UpdateOnBootstrapI(b, syncMsg) ==
    /\ phase = "BootstrapI" /\ Running
    /\ ValidOnBootstrapI(b)
    /\ sync' = SyncAfter(syncMsg)
    /\ LET plan == PlanAfter(NumberOf[b])
           k == Chk!AfterAddHeader(chkpt, b)
       IN /\ bootEnd' = plan.end /\ planSync' = plan.sync
          /\ secState' = IF Chk!HeaderCompletes(chkpt) THEN OnCheckpointComplete(k)
                                                       ELSE secState
          /\ IF NumberOf[b] # plan.end
               THEN chkpt' = k /\ UNCHANGED <<phase, nodes, maps, fresh, fault>>
             ELSE IF CanEndBootstrap(k)
               THEN EndBootstrapI(b, k) /\ UNCHANGED fault
             ELSE /\ chkpt' = k /\ fault' = "throw"
                  /\ UNCHANGED <<phase, nodes, maps, fresh>>
    /\ UNCHANGED head

\* PhaseChangeCheck, whether or not the block was accepted.
PhaseChangeCheck(n, plan) ==
    IF phase = "BootstrapII" /\ n = plan.sync
      THEN phase' = "Sync" /\ sync' = NewSyncState
      ELSE UNCHANGED <<phase, sync>>

\* The map entry an insertion leaves in place or makes.
Inserted(m, h, i) == [x \in DOMAIN m \cup {h} |-> IF x \in DOMAIN m THEN m[x] ELSE i]

\* defect: only nodes made while synced are registered
LiveRegistered(b) ==
    IF IsSynced THEN [maps EXCEPT !.active = Inserted(@, b, fresh)] ELSE maps

Registered(b) ==
    IF IsSynced THEN [maps EXCEPT !.active = Inserted(@, b, fresh)]
              ELSE [maps EXCEPT !.offline = Inserted(@, b, fresh)]

\* The headers a parent can be looked up by, and the node that is found.
Known == DOMAIN maps.offline \cup DOMAIN maps.active
NodeOf(h) == IF h \in DOMAIN maps.offline THEN maps.offline[h] ELSE maps.active[h]

\* UpdateOnRuntime finds the parent node and UpdateOnRuntimeAddChild accepts
\* the block.
AcceptBlock(b, syncMsg) ==
    /\ phase # "BootstrapI" /\ Running
    /\ fresh <= MaxNodes
    /\ ParentOf[b] \in Known
    /\ LET p == NodeOf(ParentOf[b])
           plan == PlanAfter(NumberOf[b])
       IN /\ p \in DOMAIN nodes
          /\ bootEnd' = plan.end /\ planSync' = plan.sync
          /\ IF phase = "BootstrapII" /\ NumberOf[b] = plan.sync
               THEN phase' = "Sync" /\ sync' = NewSyncState
               ELSE phase' = phase /\ sync' = SyncAfter(syncMsg)
          /\ fresh' = fresh + 1
          /\ \E ns \in {AddChild(nodes, p, b)}, m \in {Registered(b)} :
               RuntimeMaintenance(ns, m, chkpt)
    /\ UNCHANGED head

\* No parent, or the block fails the difficulty check: only logged, but the
\* phase and the tree are looked after as usual.
RejectBlock(b) ==
    /\ phase # "BootstrapI" /\ Running
    /\ ParentOf[b] \in Known => Checkable(NumberOf[b]) /\ NodeOf(ParentOf[b]) \in DOMAIN nodes
    /\ PhaseChangeCheck(NumberOf[b], [sync |-> planSync])
    /\ RuntimeMaintenance(nodes, maps, chkpt)
    /\ UNCHANGED <<bootEnd, planSync, fresh, head>>

\* The parent found in a map has been freed.
ReadFreedParent(b) ==
    /\ phase # "BootstrapI" /\ Running
    /\ ParentOf[b] \in Known
    /\ NodeOf(ParentOf[b]) \notin DOMAIN nodes
    /\ fault' = "freed"
    /\ UNCHANGED <<phase, bootEnd, planSync, sync, chkpt, secState, nodes, maps,
                   fresh, head>>

\* The callback for the validated header throws (the receipts of the block or the
\* latest block number cannot be had).  It runs before the header is added, so of
\* the whole update only the sync message may have been found.
UpdateThrows(b, syncMsg) ==
    /\ Running
    /\ IF phase = "BootstrapI" THEN ValidOnBootstrapI(b)
         ELSE ParentOf[b] \in Known /\ NodeOf(ParentOf[b]) \in DOMAIN nodes
    /\ sync' = SyncAfter(syncMsg)
    /\ UNCHANGED <<phase, bootEnd, planSync, chkpt, secState, nodes, maps, fresh,
                   fault, head>>

\* The host reports the length it likes, longer or shorter than before.
HeadReported ==
    /\ head' \in Heads
    /\ UNCHANGED <<phase, bootEnd, planSync, sync, chkpt, secState, nodes, maps,
                   fresh, fault>>

Init ==
    /\ phase = "BootstrapI"
    /\ head \in Heads
    /\ bootEnd = CalcBootstrapIEndBlkNum(head) /\ planSync = head
    /\ sync = NewSyncState
    /\ chkpt = Chk!EmptyChkpt
    /\ secState = [checkpointNum |-> 0, checkpointIter |-> 0]
    /\ nodes = <<>> /\ maps = [offline |-> <<>>, active |-> <<>>]
    /\ fresh = 1 /\ fault = "none"

Update(b) ==
    \/ \E syncMsg \in SyncMsgs : UpdateOnBootstrapI(b, syncMsg) \/ AcceptBlock(b, syncMsg)
    \/ RejectBlock(b)
    \/ ReadFreedParent(b)

Next ==
    \/ HeadReported
    \/ \E b \in Blocks :
         Update(b) \/ \E syncMsg \in SyncMsgs : UpdateThrows(b, syncMsg)

Spec == Init /\ [][Next]_vars
-----------------------------------------------------------------------------
CountsExact(ns) ==
    \A i \in DOMAIN ns :
        ns[i].parent # NoParent => ns[i].desc = Cardinality(Subtree(ns, i)) - 1

\* The number kept with a child is the number of nodes below it, however the
\* tree branches and whatever was cut off above: what confirms a header.
DescCountExact == CountsExact(nodes)

\* The tree hangs from the checkpoint manager's last node, every node extends
\* its parent's header, and nothing of an abandoned branch is kept alive.
TreeRootedAtLast ==
    phase # "BootstrapI" =>
        /\ Cardinality({i \in DOMAIN nodes : nodes[i].parent = NoParent}) = 1
        /\ nodes[Root(nodes)].hdr = chkpt.last
        /\ \A i \in DOMAIN nodes \ {Root(nodes)} :
              /\ nodes[i].parent \in DOMAIN nodes
              /\ ParentOf[nodes[i].hdr] = nodes[nodes[i].parent].hdr

\* The headers that a checkpoint manager k holds, oldest first.
Kept(k) ==
    LET own == IF k.last = Chk!None THEN <<>> ELSE <<k.last>>
    IN IF k.lastIsCandidate THEN k.curr \o k.cand \o own
                            ELSE k.curr \o own \o k.cand

IsChain(s) == \A i \in 2..Len(s) : ParentOf[s[i]] = s[i - 1]

\* Whatever is fed, what reaches the checkpoint is one chain: the order that
\* AddHeader and AddNode leave to their caller.
ConfirmedIsChain == IsChain(Kept(chkpt))

AllKnown(ns, m) ==
    \A i \in DOMAIN ns :
        ns[i].parent # NoParent /\ ~Checkable(NumberOf[ns[i].hdr] + 1)
            => ns[i].hdr \in DOMAIN m.offline \cup DOMAIN m.active

\* A block that extends any live node but the confirmed one finds an entry for
\* its parent, unless that one can expire.
LiveNodesKnown == AllKnown(nodes, maps)

\* A header confirmed at runtime has at least ChkptSize nodes on top of it.
ConfirmedIsBuried ==
    phase # "BootstrapI" /\ NumberOf[chkpt.last] > bootEnd
        => Cardinality(DOMAIN nodes) > ChkptSize

Numbers(s) == {NumberOf[h] : h \in s}

Newest(k) == IF Chk!IsEmpty(k) THEN StartBlk - 1 ELSE NumberOf[Chk!GetLastHeader(k)]

NoneYet == secState.checkpointIter = 0
Checkpoint == IF NoneYet THEN StartBlk - 1 ELSE secState.checkpointNum

Window ==
    INSTANCE CheckpointWindow WITH
        last <- Newest(chkpt),
        window <- Numbers(Chk!IterateCurrWindow(chkpt)),
        chkptNum <- Checkpoint

\* Forks, repeats and the end of bootstrap are invisible in the checkpoint: it
\* takes one header number after another, and the security state follows.
ImplementsWindow == Window!Spec

\* A node found through the maps is alive: no freed node is ever read, neither
\* as a parent nor by the loop over the active nodes.
NoFreedNodeRead == fault # "freed"
-----------------------------------------------------------------------------
(***************************************************************************)
(* The inductive invariant behind the safety properties.                   *)
(***************************************************************************)
\* A tree of nodes 1..n: one root, parents made before their children, and every
\* child's header extends its parent's.
Tree(ns, n) ==
    /\ DOMAIN ns \subseteq 1..n
    /\ \A i \in DOMAIN ns : ns[i] \in [hdr : Blocks, parent : Nat, desc : Nat]
    /\ \A i \in DOMAIN ns : ns[i].parent # NoParent =>
          /\ ns[i].parent \in DOMAIN ns /\ ns[i].parent < i
          /\ ParentOf[ns[i].hdr] = ns[ns[i].parent].hdr
    /\ \E r \in DOMAIN ns : \A i \in DOMAIN ns : ns[i].parent = NoParent <=> i = r

\* A pointer map: an entry may dangle, but one that leads to a node leads to a node
\* of its header, and no entry leads to a node yet to be made.
PointsAt(m, ns, n) ==
    \A h \in DOMAIN m :
        m[h] \in 1..n /\ (m[h] \in DOMAIN ns => ns[m[h]].hdr = h)

Pointers(ms, ns, n) ==
    /\ ms = [offline |-> ms.offline, active |-> ms.active]
    /\ PointsAt(ms.offline, ns, n) /\ PointsAt(ms.active, ns, n)

\* A checkpoint manager whose headers, in the order it keeps them, are one chain.
Managed(k) ==
    /\ k \in [curr : Seq(Blocks), cand : Seq(Blocks), last : Blocks \cup {Chk!None},
              lastIsCandidate : BOOLEAN]
    /\ k.last = Chk!None => ~k.lastIsCandidate
    /\ k.last # Chk!None /\ ~k.lastIsCandidate => k.cand = <<>>
    /\ IsChain(Kept(k))

\* Tree, maps and checkpoint manager fit together.
Consistent(ns, n, ms, k) ==
    /\ Tree(ns, n) /\ CountsExact(ns) /\ ns[Root(ns)].hdr = k.last
    /\ Pointers(ms, ns, n) /\ AllKnown(ns, ms)

IndInv ==
    /\ fresh \in Nat \ {0} /\ Managed(chkpt)
    /\ phase = "BootstrapI" <=> chkpt.last = Chk!None
    /\ phase = "BootstrapI" => nodes = <<>> /\ maps = [offline |-> <<>>, active |-> <<>>]
    /\ phase # "BootstrapI" => Consistent(nodes, fresh - 1, maps, chkpt) /\ ConfirmedIsBuried

\* The headers of s are numbered on from block b.
Numbered(s, b) == \A i \in 1..Len(s) : NumberOf[s[i]] = b + i

\* The windows of a manager whose latest checkpoint ends at block b; none says that
\* there has been no checkpoint.
Windows(k, b, none) ==
    /\ none => k.curr = <<>> /\ k.last = Chk!None
    /\ ~none => /\ Numbered(k.curr, b - ChkptSize)
                /\ Len(k.curr) = IF k.last # Chk!None /\ ~k.lastIsCandidate
                                   THEN ChkptSize - 1 ELSE ChkptSize
    /\ Numbered(k.cand, b) /\ Chk!GetNumOfCandidates(k) < ChkptSize
    /\ k.last # Chk!None => NumberOf[k.last] = b + Chk!GetNumOfCandidates(k)

WindowInv ==
    /\ secState \in [checkpointNum : Nat, checkpointIter : Nat]
    /\ Windows(chkpt, Checkpoint, NoneYet)
=============================================================================
