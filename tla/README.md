# Decentagram in TLA+

Decentagram is a publish-subscribe system whose broker is a set of Ethereum
contracts and whose off-chain subscribers are enclaves. A *revoker* contract
decides that a key or an enclave is no longer to be trusted and publishes the
decision. On-chain subscribers are called by the broker contract; off-chain ones
subscribe to an *Ethereum client enclave*, which validates the chain it is fed by
an untrusted host, looks for the broker's events in it and forwards them with
its heartbeats.

This directory models that system in TLA+, checks the models with TLC and proves
the safety properties, for every value of the parameters, with TLAPS.

```
tlc -workers 2 -config MCEventManager.cfg MCEventManager     # model-check
tlapm EventManagerProofs.tla                                 # proofs
```

`PROJECT.json` has the list of runs, theorems, hazards and findings, the source
lines of every definition, and for every checked property a mutation of the
model that breaks it. The mutated definitions are in the modules, marked
`\* defect:`; no specification uses them.

## 1. Inventory

### Components, their state and their operations

| Component (source) | State | Operations | Module |
|---|---|---|---|
| On-chain event manager (`pubsub-onchain/PubSub/EventManager.sol`) | subscriber array and map with balances, publishers, entrance lock, incentive, gas limit, Wei held | addSubscriber, subscriberAddBalance, updateIncentive, addPublisher, setPerSubscriberLimitGas, notifySubscribers | `EventManager` |
| Revokers by vote (`revoker-onchain/*Voting.sol`) | votes and counter per target, revoked flag | vote; the deciding vote notifies | `VotingRevoker` |
| Revokers by evidence (`*ConflictMsg.sol`, `*LeakedKey.sol`) | revoked flag per target | report conflicting messages, submit a revoking signature | `EvidenceRevoker` |
| Certificate contracts (`ra-onchain/contracts`) | expiry of the verified report certificate of each key, verified servers | verify a report certificate, a server certificate, a chain | `CertManagers` |
| Event broker of the Ethereum client enclave (`Eth/EventManager.hpp`, `SubscriberService.hpp`, `SubscriberHandler.hpp`, `BlockchainMgr.hpp`) | listener map, publishers' event managers, past events, a queue per subscriber | the callbacks of a block; a subscription request; a heartbeat | `EventBroker` |
| Heartbeat emitters (`HeartbeatEmitterMgr.hpp`) | emitter list | AddEmitter, EmitAll | `EventBroker` |
| Checkpoint manager (`Eth/CheckpointMgr.hpp`) | current window, candidates, last node | AddHeader, AddNode, EndBootstrapPhase | `CheckpointMgr` |
| Block monitor (`Eth/EclipseMonitor.hpp`, `HeaderNode.hpp`) | phase, bootstrap plan, header tree, two maps of raw pointers, security and sync state | Update, one case per phase | `EclipseMonitor` |
| Heartbeat receiver (`HeartbeatRecvMgr.hpp`) | constraint and socket maps, last update and damage per constraint, status | AddRecv, RemoveRecv, the socket callback, GetStatus | `HeartbeatRecv` |
| Host block feed (`HostBlockService*.hpp`, `TickingTask.hpp`) | next block number; Geth's chain | TryPushNewBlock in a ticking task | `BlockFeed` |
| Thread pool (`SimpleConcurrency/Threading`) | pending and finished tasks, runners, two mutexes | AddTask, the runners' loop, Update, Terminate | `ThreadPool` |
| Sync message manager (`Eth/SyncMsgMgr.hpp`, `SyncMsgMgrBase.hpp`) | whether the message of the last nonce is awaited, found in time or too late | found in a block, renewed at the sync phase | `EclipseMonitor` |

Sockets, attestation hand-shakes, encodings (RLP, ABI, X.509, JSON), hashing,
tries and the vendored libraries are not modelled; section 6 says why.

### How they interact

```
              certificate contracts <──chain── revoker contract (evidence)
 revoker contract ──notify──> EventManager.sol ──onNotify──> subscriber contracts
                                   │ emits an event into a block           │
                                   v                                       └─ may call back
 host block feed ──block──> EclipseMonitor ──validated header──> Eth/EventManager.hpp
  (task of the pool)         │  CheckpointMgr                          │ callbacks
                             └─ phase, sync state                      v
 subscriber enclave <──reply, heartbeats── SubscriberHandler <── SubscriberService
  HeartbeatRecvMgr: watches the heartbeats' times, answers status queries
```

On the chain a call is synchronous: the callee runs in the middle of the caller
and may re-enter it. In the enclave three kinds of threads share state under
different mutexes: the one that feeds blocks, one per subscription request, and
the ticking heartbeat. All of them are tasks of the host's thread pool. In the
subscriber's enclave the sockets' callbacks and the status queries share atomics
and two locked maps.

### What is hard here

* **Re-entrancy and reverts.** `onNotify` hands control to a subscriber between
  two iterations of a loop that keeps balances and totals in locals. A revert
  undoes the transaction; a caught one undoes only the call.
* **Interleavings without a common lock.** A subscription reads the latest block
  number, the past events and registers a listener in three critical sections,
  while a block's callbacks run after the listener map has been unlocked.
* **An untrusted feeder.** The host repeats, reorders, withholds and forks
  blocks; descendant counts, pointer maps and windows must agree regardless.
* **Hand-over between phases.** The chain grows while the bootstrap plan that was
  computed from its length is carried out.
* **Stale evidence.** A report certificate, or the root that signed it, expires or is
  replaced between the verification of a server and the use of what it vouched for.
* **A feed that never looks back.** The host asks for each block number once, while
  Geth may replace the block of a number it has given out.
* **Clocks read before they are compared.** A status query reads the time once and
  compares it, unsigned, with times that other threads store meanwhile.
* **Two mutexes, a condition variable and a join** in the thread pool.
* **Off-by-one.** Windows complete at `candidates + 1` or at `candidates`,
  according to which structure holds the newest header.

`PROJECT.json` lists 40 such hazards with the line and the properties for each; three (a leaked
listener, a block whose receipts cannot be had, and the two mutexes of the thread pool taken in
opposite orders) have none, with the reason.

### What makes each component correct

* Event manager: what it holds is what it owes; only the called subscriber pays;
  a notification ends; from outside it is atomic.
* Revokers: a target is revoked exactly when the evidence or the votes are there,
  and each revocation is announced once, with its cause, or not at all.
* Certificates: an enclave is revoked only through a chain that was in force when it
  was verified, as far as the records were read from one certificate.
* Broker: an event that the broker stores reaches every subscriber, in order, and
  a message that claims to cover a block does so no later than one message on.
* Checkpoint manager: the window is the latest complete run of headers.
* Monitor: what reaches the checkpoint is one chain, buried deeply enough; the
  counts that decide it are exact; the phases are reached.
* Feed: as long as Geth keeps what it gave out, the monitor accepts all of it and
  confirms it.
* Heartbeat receiver: damage has a cause, is remembered, and who asks is told of silence.
* Thread pool: no task is lost, run twice or left waiting beside a sleeping runner;
  the end is reached if the connections end.

## 2. The modules

One module is one component; `…Proofs` holds its theorems and `MC…` its instance
for TLC. Three small modules are abstract specifications.

### EventManager, PubSubLedger

`store` is the contract's storage with its Wei and the number of events it has
emitted. A transaction is atomic for other transactions, so everything but a
notification is one action with the contract's `require`s as guards.
`notifySubscribers` is run one external call at a time: `pc` says whether the loop
stands between subscribers or inside `onNotify`, `frame` has the locals,
`txStart` and `callStart` what a revert restores. While a subscriber holds control
(`pc = "calling"`) any function can be entered (`CanCall`, at most `MaxNested`
times per call), as a contract can.
Gas is data: each call uses `CallGas` for the caller plus anything up to the
limit, `OutOfGas` may happen at any step, and the checked subtractions revert
(`Charge`). A subscriber without code makes the compiler's extcodesize check fail
outside of `try`, hence `CallWithoutCode`.

`PubSubLedger` is what a client of the contract sees: accounts, a vault that
backs them exactly, and a publication that takes money from accounts and counts
one event, in one step. `Balances` and `Committed` map the contract to it: while a
notification runs, the ledger still shows the state in which it began.

### NotifyCall, VotingRevoker, CertManagers, EvidenceRevoker, Revocation

`NotifyCall` is the part that the revoker contracts share: a contract that has
changed its storage calls the publish-subscribe service, whose subscribers run
and may re-enter; a subscriber's failure undoes its own changes, a failure of the
notification undoes the transaction. Two modules extend it:

* `VotingRevoker`: `KeyRevokerByVoting.sol` and `RevokerByVoting.sol`, which differ
  in the type of the target. `Deployable` are the constructor's `require`s,
  `Threshold` its formula. A vote either records (`RecordVote`) or records, marks
  and notifies (`DecidingVote`).
* `EvidenceRevoker`: the conflicting-message and leaked-key contracts, for keys and
  for enclaves. `variant` says which of the four was deployed. Keys sign statements
  (`Sign`), and `verifySign` asks whether the key did; for `ZeroKey`, the zero address, it
  always succeeds, as `ecrecover` yields that address for what is no signature. A key
  contract revokes the address that its caller names, the zero address included; an enclave
  contract takes the key and the enclave from a certificate chain, so two certificates can
  lead to one target. The key of a certificate is the hash of a public key and never zero.

`CertManagers` stands between: the three managers of `ra-onchain` with their storage.
`verifyReportCert` and `verifySvrCert` are their own transactions; `verifyCertChain`
and `AfterChain` are what a revoker has them do in the middle of its own. The
storage is one record, so a revert of the notification also takes back what the chain's
verification recorded (`AfterChain`), and the early return for a target that is
already revoked does not (`ReportRevoked`). Time passes between transactions only
(`Tick`). A certificate is a record of what parsing and signatures come to. Both managers
take the parsed *nodes* of a certificate from their caller (`verifyCertWithNodes`) and do not
compare them with one another: `CertNodes` and `SvrNodes` say in which certificate each node
lies, and `loadCertNodes` and `loadSvrNodes` are the nodes that parsing yields, as everywhere
inside the contracts. For a server this makes no difference, since its key must be in the key
ring that the attestation covers. A report record can be *mixed*, with the key, the period and the
signature of different certificates; the history `mixed` and `onMixed` says which records are and which servers
were ever verified under one. A chain is
checked against the storage and the clock, as in the code: a report key that has an
unexpired certificate is not verified again, and a server that was verified once never
is.

`Revocation` is the abstract specification of all of them: one step that revokes a
target that was not revoked and announces it.

### EventBroker

Composes the listener map, the subscriber service and the heartbeat emitters with
their threads:

* block thread: `AppendBlock` records the number and plans the callbacks under the
  listener map's mutex (`GenCallbackPlan`), then runs them one by one
  (`DeployEventHandler`, `RegEventHandler` and its second half `RegCreateStore`,
  `NotifyPastEventHandler`/`PushPastEvent`, `NotifyEventHandler`). Callbacks of
  different listeners run in any order, since the plan is a hash map; those of one
  listener in the order of the logs. `AppendBlockThrows`: the receipts cannot be
  had, after the number was recorded.
* request thread of each client: `SubReq` registers the listener, then reads the
  block number (under the monitor's mutex, hence only between blocks) and the past
  events (under another one) in the order given by `ArgOrders`, then replies and
  becomes an emitter. The reply may fail.
* heartbeat thread: `EmitAll` swaps the list out; per emitter the queue is drained,
  the block number read, the message sent or the emitter dropped; the survivors
  are merged with emitters added meanwhile.

An event is its block number and its place in the block. The plan has, for each listener, the
set of places it is still to be called for; the next one is the smallest. The chain is the one
that the monitor has accepted: it does not fork here.

### CheckpointMgr, CheckpointWindow

`chkpt` is the manager's state: the current window, the candidates, the header of
the last node (0: none) and whether it counts as a candidate. Headers are block
numbers. `AfterAddHeader`, `AfterAddNode` and `AfterEndBootstrap` are the three
operations as functions from state to state, so that the monitor can use them on
its own blocks; the actions add the callback that moves the security state and the
difficulty checker's minimum. `CheckpointWindow` says what all this is for: headers
arrive one after another; every `ChkptSize`-th completes a window of `ChkptSize`.

### EclipseMonitor

`Update` runs under the caller's mutex: one block is one step. `UpdateOnBootstrapI`
validates against the checkpoint manager's last header and may end the phase;
`AcceptBlock` and `RejectBlock` are the runtime phases, each followed by
`PhaseChangeCheck` and `RuntimeMaintenance` as in the code, accepted or not.
A header node is an id in `nodes`; `maps.offline` and `maps.active` are
the raw pointers by header hash, so an entry may outlive its node: `fault` becomes
"freed" when such an entry is followed. `fault` is "throw" when the end of
bootstrap would throw. The callback for a validated header runs before the header is added:
when it throws (`UpdateThrows`) only the sync message may have been found. The bootstrap plan's
arithmetic wraps at `Word`; its start `PlanStart` is the host's number and need not be that of the first block,
and `HeadReported` lets the host report another length, longer or shorter, between any two blocks.

Difficulty checks and clocks are a choice: a block whose number is below `ParisBlk`
can fail its check and a node below it can expire; later ones cannot. Whether a block
has the sync message, in time or too late, is a choice as well (`syncMsg`); what that does
to the sync state and its listener is not (`SyncAfter`, `NewSyncState`). A block that the code rejects with an
exception during bootstrap changes nothing and is no step.

### BlockFeed

Composes the monitor with the host's block service: it extends `EclipseMonitor` and
replaces the arbitrary feeder by `TryPushNewBlock`, which asks Geth for block `curr`,
hands it over and counts on. Geth's chain grows (`GethGrows`) and is replaced by a
branch that is at least as long (`GethReorganises`). The task is repeated while there
is no block; an exception ends it: an invalid block during bootstrap
(`PushInvalidBlock`), or events that cannot be checked, which leaves the monitor without
the block (`PushNewBlockFails`). Its theorems stand in `EclipseMonitorProofs`, since they
rest on the monitor's.

### HeartbeatRecv

Each step is one access to a shared map or an atomic, or one reading of the clock, which
is a call out of the enclave. `AddRecv` is up to five steps (constraint, socket, clock, time, waiting)
and `RemoveRecv` two, as they take one lock after another. The callback of the receiver that a call of `AddRecv`
started reads the clock, then the damage flag, then the last update; it marks the damage and closes the socket, or
reads the clock again, stores it and waits. A query reads the status, lists the constraints, reads the clock
once, checks one constraint after another in the same two reads, stores the status and returns. `Workloads`
says which calls an enclave makes. The history variables record causes (`silent`, `raced`), what was
answered (`reported`, `known`), the silent constraints that a query has still to tell (`missed`) and, per
receiver, how many heartbeats were handled after the damage (`late`); no guard reads them.

### ThreadPool

The main thread adds its tasks, calls `Update` in its loop and `Terminate` at the end,
as `Main.cpp` does; a server task adds one task for every connection. `Push`, `AddNotify`,
`AddCheck`, `AddLock` and `AddCreate` are `AddTask`, which notifies after it released the mutex, reads two
atomics without a lock and holds `m_pendingTasksMutex` while it waits for `m_threadsMutex`
(`pendOwner`; `ThreadsFree`). A runner that finds nothing keeps the mutex until it sleeps
(`"waiting"`, `FallAsleep`); `NotifyOne` picks any sleeper. `Terminate` writes its flag without the
mutex, notifies (`TerminateNotifies`) and then, for each runner, notifies and tells it again and again
(`TerminateTask`, `ToldAgain`). Ticking and server tasks end when told to, or with an exception. A
*connection* cannot be told (`LambdaFuncTask::Terminate` is empty): it waits without a timeout for the hand-shake and the
first message of its peer (`AppLambdaHandler_t.cpp:47-54`), so that nothing forces it to end.
Spurious wake-ups are left out; they could only help.

### Abstractions worth knowing

* The critical sections of the thread pool that wait for nothing else are one step.
* The signature of a report certificate is one flag, and so are signature, status and report
  data of an attestation: what is modelled is when they are asked, of which nodes, and against
  which storage and time. All the report certificates name the root as their issuer.
* The count that confirms a header is that of all nodes below it, forks and repeated
  blocks included, as in `AddDescCount`; it is not the depth of a branch.
* The expiry loop erases from the map it iterates over, so that its iterator is
  invalid afterwards. The model lets any set of the expired nodes be erased. A
  crash is not modelled.
* `GetPastEvents` copies a queue which the block thread appends to under another
  mutex. The copy has the event in progress or it has not; a torn copy is not modelled.
* The first block that the monitor is given is taken to be `StartBlk`: the code does
  not check it.
* `ChkptSize` is at least 2. The code also accepts 1, for which it would build
  windows of two headers once bootstrap has ended.
* Events of the block in which a publisher registers are not stored, as the listener
  for them is added by that block's own callback. `LaterEventsStored` says what does
  hold.

## 3. What the runs check

Every bound is a CONSTANT of the `.cfg`.

| Run | Instance | Shows |
|---|---|---|
| `event_manager` | owner and two contracts, two publications, one re-entry per call, up to 7 Wei | `IncentiveBounded`, `Solvent`, `OnlyCalleeIsCharged`; a notification ends (`NotifyTerminates`); the whole implements `PubSubLedger` |
| `voting_revoker` | four stakeholders, an outsider, two targets | `RevokedIffDecided`, `RevokedByMajority`; implements `Revocation` |
| `evidence_revoker` | all four contracts; two certificates of the report key with a gap between them, the later of which outlives the root, and one the root did not sign; two servers with three certificates, any nodes of them; two targets, two keys and the zero address; three signatures; time 1 to 4 | `OnlyGuiltyRevoked`, `ChainWasInForce`; implements `Revocation` |
| `event_broker` | two subscribers, one publisher, four blocks of up to two logs, deployment, registration and notification also in one block | `NoEventMissed`, `NeverReordered`, `AtMostTwice`, `CompleteUpToPreviousClaim`, `LaterEventsStored`; `EventuallyDelivered` |
| `checkpoint_windows` | windows of three, 60 blocks, every moment to end bootstrap | `WindowIsLatestCheckpoint`, `MinDiffFromLatestPoW`; implements `CheckpointWindow` |
| `monitor_forks` | windows of two, reported chain of 6 or 8 blocks with the plan's start two blocks late, a fork of two, six nodes, proof of stake from block 5, any feeder | `DescCountExact`, `TreeRootedAtLast`, `ConfirmedIsChain`, `ConfirmedIsBuried`, `LiveNodesKnown`; implements `CheckpointWindow` |
| `block_feed` | windows of two, chain of 5, 6 or 8 blocks that grows to 10, two more branches (from block 3 and from block 6), the host's feed | `LostOnlyByReorg`, `NoFreedNodeRead`, `NeverReattached`; `EventuallySync`, `EveryBlockConfirmed` |
| `heartbeat_recv` | three workloads: one receiver and two queries; a second connection for one constraint; two receivers on one socket by mistake | `DamageHasCause`, `DamageRemembered`, `DamagedStopsListening`, `SilenceTold` |
| `thread_pool` | three threads, a ticking task and a server, two connections | `PoolBound`, `TaskHeldOnce`, `NoLostWakeup`; `EveryTaskStarts`, `TerminateReturns` |

The largest are `heartbeat_recv` with 3.6 million states, `evidence_revoker` with 660,000 and
`event_broker` with half a million; they take one to three minutes.

### Why the bounds are enough

* Two subscribers are needed for one to change state while the other is charged;
  two publications for the lock to be taken again; one re-entry per call already
  lets a subscriber join, deposit, or have the incentive changed in mid-loop. The
  deposits are chosen so that a balance can be below, at and above the incentive,
  and `TxGas` so that the gas check fails and succeeds.
* With four stakeholders the threshold is 3: two votes are half and must not decide.
  Two targets are needed for votes on one to arrive during the notification of the
  other, where a deciding one runs into the event manager's entrance lock.
* Two certificates of one enclave are needed for a report that repeats a revocation.
  Three signatures are a conflict beside a key that signed once, or one content for each
  event. Of the report certificates one is in force at time 1, none at 2, the other at 3 and,
  like nothing else, at 4, after the root has expired: every order of expiry,
  replacement and use occurs. The one that the root did not sign spans the gap, where a record of mixed
  nodes can be in force and no other: without the exception for it `ChainWasInForce` fails. Events and contents are symmetric; the certificates
  are not, and no symmetry is taken on them.
* In the broker, two clients share the heartbeat; four blocks are deployment,
  registration and two with events, before, between and after the steps of a
  subscription. Two logs in one block show the order of callbacks.
* In the feed, the early branch leaves before the end of bootstrap I and the late one
  after it, so a reorganisation meets both phases, and Geth can go to a branch and come
  back. Ten blocks are the end of bootstrap at 2 or 4, the sync phase and two
  confirmations. Five blocks are less than three checkpoints, for which `EventuallySync` promises nothing.
* The receiver's clock runs from 2 to 4 with a timeout of 1: before, at and beyond the
  timeout, with one tick left for a check that read the clock early. `Word` is larger
  than every time, so a wrapped difference is above every timeout, as with 2^64.
* A ticking task and a server take two of three threads for ever, as in the programs
  four of five; two connections then compete for one.
* 60 blocks are twenty windows of three; where bootstrap ends shifts what the last
  node belongs to, and every shift modulo the window occurs.
* Six nodes are two confirmations and one checkpoint completed at runtime. The
  reported length may change between plan and end, so that bootstrap ends at different blocks. A fork of two blocks can be confirmed itself. With proof of stake from
  block 5, blocks 3 and 4 can be rejected and the node of block 3 can expire.

The broker's passing run evaluates the reply's arguments from left to right; see
the findings. `CHECK_DEADLOCK` is off where the bound on the chain, on votes or
on nodes makes the system stop.

### Fairness

* `NotifyTerminates`: weak fairness of the EVM's own steps. Nothing but the
  transaction runs meanwhile, and a callee's gas is bounded.
* `EventuallyDelivered`: every thread that has work goes on, and the heartbeat is
  ticked again and again. Nothing is assumed of new blocks or new requests, nor
  that sends succeed: a failed send is a way to end. It says that again and again a
  subscriber has everything stored, or is none; as a run has four blocks at most,
  it has every one of them in the end.
* `EventuallySync`, `EveryBlockConfirmed`: the task is ticked again and again, and Geth's
  chain grows up to its bound. That the feed catches up with the chain again and again is a premise
  of `EventuallySync` (`CaughtUp`), as is a chain of three checkpoints at the start. Reorganisations
  and exceptions are not forced; an exception is a way to end.
* `EveryTaskStarts`, `TerminateReturns`: each thread that can go on does, mutexes are
  handed over, and ticking and server tasks end once they are told to. The coming and the end of
  connections, exceptions and the signal that ends the main loop are not forced. `EveryTaskStarts` says
  that a task waits for ever only while every thread is taken for ever; `TerminateReturns` has as premises that no
  connection lasts for ever and that no `AddTask` is caught between its two mutexes, and TLC
  refutes it without either.

Nothing is assumed of status queries: no program of the repository calls
`HeartbeatRecvMgr::GetStatus`, so `SilenceTold` is about a query, should there be one.

### Findings

Three runs are expected to fail. Each states what the repository says of the code
and shows an execution that contradicts it.

* `event_manager_failure`. The catch block is to charge a failing subscriber and go
  on with the next (`EventManager.sol:125-127`). The gas limit given to the call is
  what the balance can pay; the charge also includes the caller's own cost of the
  call. When it exceeds the balance, the checked subtraction on line 134 reverts the
  whole notification.
* `event_broker_arg_order`. The subscription registers its listener first
  (`SubscriberHandler.hpp:196`) so that nothing falls in between. The
  arguments of the reply, one reading the block number and one copying the past
  events, are evaluated in an unspecified order. Past events first, a block that
  planned its callbacks before the listener was there may store its event after
  the copy: the event is in neither, while the reply's block number covers it.
* `monitor_freed_node`. Confirming a child destroys the other branches, but only the
  entries of the old last node and of the child are removed from the maps. The next
  block on an abandoned branch, or the loop over the active nodes, reads a freed
  node. The design (`flow_diagram.drawio:366`) clears the map.

Observations that are not findings, as the repository promises nothing else:

* The threshold of votes rounds down: with five stakeholders three votes decide, although
  a comment calls it 2/3 (`KeyRevokerByVoting.sol:40`). A strict majority always holds, and
  is proved.
* A chain of fewer than three checkpoints when the monitor starts plans an end of
  bootstrap before its first block and is never planned again: the monitor stays in bootstrap I for
  ever. Without its premise on the length `EventuallySync` fails in `block_feed`.
* After Geth has replaced a block that was handed over, the feed is lost for good, even
  when Geth comes back (`NeverReattached`): no number is asked for twice. Before the
  end of bootstrap I the task ends instead.
* A freed node is never read behind the host's own feed (`NoFreedNodeRead` in
  `block_feed`); it takes a feeder that goes back to an abandoned branch, as in
  `monitor_freed_node`.
* A server that was verified once is accepted for ever, whatever expires later. `ChainWasInForce`
  says what does hold.
* A signature that does not recover verifies for the zero address, so the two key contracts can
  announce that address without a signer. No other address is concerned (`OnlyGuiltyRevoked`).
* The managers do not compare the nodes that a caller of `verifyCertWithNodes` hands in, so that a
  report record may be mixed from several certificates. What the contracts promise of a
  chain holds as long as no server on it was verified under such a record (`ChainWasInForce`);
  verifying a whole certificate of the key replaces the record.
* Four races can damage a heartbeat constraint whose heartbeats came in time: a check that
  read the clock before a newer heartbeat was stored (the unsigned difference wraps), a
  constraint that is listed before `InitTime`, a time that was read for `InitTime` and is stored when it
  is already too old, and two receivers that store their times in the wrong order. They are the exceptions in `DamageHasCause`. A socket that is added twice makes
  `AddRecv` throw and leaves a constraint without a time behind.
* `m_status` "cannot be recovered" from damage (`HeartbeatRecvMgr.hpp:32`), but a slower query
  overwrites it. The constraint remembers, so the next answer is right (`DamageRemembered`),
  unless the constraint has been removed.
* `AddTask` waits for `m_threadsMutex` with `m_pendingTasksMutex` held; `Terminate` waits for the
  runners, which need the latter, with the former held. When they meet, both wait for ever: this
  is one of the two exceptions in `TerminateReturns`.
* The function of a connection "is expected to be non-blocking" (`LambdaFuncTask.hpp:68`), but the
  hand-shake and the first receive block without a timeout. A silent peer keeps the one runner that the four
  services leave free, and `Terminate` waits for it: the other exception.
* Whether a heartbeat stayed out is decided only when a heartbeat comes or the status is asked for, and no
  program asks.
* A sync message that is found after the maximal wait cancels its listener like one in time,
  and after the sync phase has begun no other is generated: the monitor stays unsynced.
* A subscriber whose reply cannot be sent leaves its listener and a growing queue behind.

## 4. What is proved

Every theorem is about the same `Spec` that TLC runs, for every value of the constants
that satisfies the assumptions named below.

| Module | Theorems | They say |
|---|---|---|
| `EventManagerProofs` | `TypeCorrect`, `ListedOnceAlways`, `LockAlways`, `IncentiveAlwaysBounded`, `AlwaysSolvent` | `Spec => []…` for `TypeOK`, `SubscribersListedOnce`, `LockedWhileNotifying`, `IncentiveBounded`, `Solvent` |
| | `OnlyCalleeAlwaysCharged` | `Spec => OnlyCalleeIsCharged`, an action property |
| | `NotifyAlwaysProgresses` | `Spec => NotifyProgresses`: the steps left to a notification fall with every step but a re-entered call |
| | `ManagerImplementsLedger` | `Spec => ImplementsLedger`: the contract refines `PubSubLedger` |
| `VotingRevokerProofs` | `ThresholdIsMajority` | `Threshold(n)` is a strict majority of n, and at most n, for n ≥ 3 |
| | `VotesAlwaysCounted`, `RevokedExactlyWhenDecided`, `MajorityAlways` | `[]VotesCounted`, `[]RevokedIffDecided`, `[]RevokedByMajority` |
| | `RevokerRefines` | `Spec => ImplementsRevocation` |
| `EvidenceRevokerProofs` | `OnlyGuiltyAlways`, `ChainAlwaysInForce` | `[]OnlyGuiltyRevoked`, `[]ChainWasInForce` |
| | `EvidenceRefines` | `Spec => ImplementsRevocation` |
| `EventBrokerProofs` | `EventsNeverReordered`, `EventsAtMostTwice`, `LaterEventsAlwaysStored` | `[]NeverReordered`, `[]AtMostTwice`, `[]LaterEventsStored`, for any `ArgOrders` |
| | `NoEventEverMissed`, `AlwaysCompleteUpToPreviousClaim` | `[]NoEventMissed`, `[]CompleteUpToPreviousClaim`, if the reply's arguments are evaluated from left to right |
| `CheckpointMgrProofs` | `TypeCorrect`, `WindowAlwaysLatest`, `RangeAlwaysAtCheckpoint`, `CandidatesAlwaysFollow`, `IterAlwaysCounts`, `MinDiffAlwaysLatestPoW` | the invariants of the windows and of the security state |
| | `ManagerImplementsWindow` | `Spec => ImplementsWindow` |
| `EclipseMonitorProofs` | `CountsAlwaysExact`, `TreeAlwaysRooted`, `ConfirmedAlwaysChain`, `LiveNodesAlwaysKnown`, `ConfirmedAlwaysBuried` | `[]DescCountExact`, `[]TreeRootedAtLast`, `[]ConfirmedIsChain`, `[]LiveNodesKnown`, `[]ConfirmedIsBuried` |
| | `MonitorImplementsWindow` | `Spec => ImplementsWindow`, the same abstract windows as the manager alone |
| | `FeedAlwaysInv`, `FeedNeverReadsFreed`, `FeedTreeBounded` | for `FeedSpec`, the monitor behind the host's feed: `[](IndInv /\ WindowInv /\ FeedInv /\ PlanInv)`, `[]NoFreedNodeRead`, `[]LagInv` |
| | `FeedNeverReattaches`, `FeedImplementsWindow` | `FeedSpec => NeverReattached`, an action property, and `FeedSpec => ImplementsWindow` |
| | `FeedLostOnlyByReorg`, `FeedConfirmedKeepsUp` | `[]LostOnlyByReorg`, `[]ConfirmedKeepsUp`, if all blocks fed are proof-of-stake ones |
| `HeartbeatRecvProofs` | `DamageAlwaysHasCause`, `DamageAlwaysRemembered`, `DamagedAlwaysStops`, `SilenceAlwaysTold` | `[]DamageHasCause`, `[]DamageRemembered`, `[]DamagedStopsListening`, `[]SilenceTold` |
| `ThreadPoolProofs` | `PoolAlwaysBounded`, `NoWakeupEverLost`, `TasksAlwaysHeldOnce` | `[]PoolBound`, `[]NoLostWakeup`, `[]TaskHeldOnce` |

Five of the modules also have `AlwaysIndInv`, `Spec => []IndInv`, with the inductive
invariant itself. Each inductive invariant stands at the end of its component's module and was
checked by TLC on the instance of the component's run before it was proved.

**Assumptions.** They are named in the module that declares the constants, and TLC evaluates
all of them.

* `EventManagerAssumption`: constants are naturals and sets of naturals, there are finitely
  many addresses (there are 2^160), and the owner is one.
* `VotingAssumption`: the constructor's checks; `NoTarget` is no target.
* `EvidenceAssumption`, `CertAssumption`: `NoTarget` is no target, the zero address is not the key of
  a certificate; times are naturals.
* `BrokerAssumption`: blocks are sequences of the modelled logs and the reply's two
  arguments are evaluated one after the other. `LeftToRight`, in the two theorems that need
  it, adds the order; the finding `event_broker_arg_order` is what happens without it.
* `CheckpointAssumption`: a window has at least two headers, block numbers are positive.
* `MonitorAssumption`: also that a block's number is its parent's plus one, as a header
  that says otherwise is not accepted.
* `FeedAssumption`: the plan starts where the feed does; Geth has the whole chain from `StartBlk` on, so a block without a known
  parent is not after it, and no number reaches the end of the word. `ParisBlk <= StartBlk`, in
  the two theorems that need it, says that the feed begins with proof of stake: a proof-of-work
  block may fail the difficulty check or expire although Geth has it, and then the chain is lost
  without a reorganisation.
* `HeartbeatAssumption`: the clock is larger than every timeout, and clock plus timeout
  does not reach the end of the word.
* `PoolAssumption`: the pool may have a thread, and the main thread's tasks and the
  connections are different tasks.

**EventManager.** None of the invariants is inductive: a revert brings back a saved
state, so the saved states must be consistent too, and the bound on the award needs
to know how the locals of the loop came about. `IndInv` adds that
`txStart` and `callStart` list every account once, that `txStart` is unlocked and
`callStart` locked, and `FrameOK`: the locals are those that `txStart` opens, the
list only grew since, and no more calls were awarded than iterations done. The award
is then at most n · (incentive div n). `LedgerInv` adds the money: all three storages are
backed, each with what had been charged when it was saved, and while a notification runs
nothing is emitted and no account disappears. The sum over the accounts is the library's
fold over a function; the proof unrolls it once, for the account that changes, and so
needs no induction over the accounts. A transaction of one account is then one step of the ledger, and so
is the end of a notification, whatever was re-entered meanwhile. `StepsLeft` is the measure that makes
a notification end: two steps for every subscriber to come and one to finish. `NotifyProgresses` says that
only a re-entered call leaves it alone, at most `MaxNested` times for each call; `NotifyTerminates` adds
nothing but the fairness of the EVM.

**VotingRevoker, EvidenceRevoker.** `IndInv` says of all three storages what the properties
say of one (`StoreOK`), since a revert may bring each of them back, and that a running
notification has revoked just its target and announced nothing yet (`Announces`).
The last part is what makes the end of the notification one `Revocation` step. For evidence,
`StoreOK` has grounds for every revocation and, where no mixed record is involved, an attestation in
force behind every verified server and the root's signature on every certificate on record: what a
certificate proved when it was recorded stays true of the record, though the certificate expires.

**EventBroker.** The order of deliveries is not inductive, because what will be delivered is
spread over five places: what the client has, the reply being put together, the message
being sent, the queue, and the callbacks still planned. `Promised` joins the first four into one sequence
and `TwoRuns` describes it: the reply's past events and then what the listener queued,
each in chain order, with every event of the second that is earlier than one of the first
also in the first. `FlowOK` says so for every live client, for some place where the first run ends.
It follows that nothing is reordered or repeated twice. Around it stand the plan (`PlanOK`: one entry
per listener, about the last block), the store (`StoreOK`: in chain order, all of it earlier
than what is pending), the emitters' lists (`EmittersOK`: an active client is in one place, which
is why its queue is drained by one message at a time) and the listeners (`FollowOK`).
Completeness needs `CoverInv`: once the past events are read, what is stored is promised or pending
for the client (`Covered`), and what a claim covers is at most one message away (`Caught`). Its base is that
the block number is read while no block is in progress, after the listener was added: from then on
every plan that has a past event has the same event for the client. That is the one step
that `LeftToRight` is for.

**CheckpointMgr.** The headers are a contiguous run cut into window and candidates at
a place that depends on history. `Shape` names the three forms (before the end of
bootstrap; last node among the candidates; last node closing the window)
with `RunFrom` saying that a sequence counts up from a number. Each operation is
shown to lead from shape to shape, with one header more.

**EclipseMonitor.** `IndInv` is `Consistent`: a `Tree` whose parents were made before their children,
`CountsExact`, maps whose entries may dangle but lead to a node of their own header if
to any (`Pointers`), a manager whose headers are one chain and end at the tree's root
(`Managed`). `Lineage`, the set of nodes from one up to the root, is a recursive function over
the nodes. The provers cannot do induction on it, but as parents have smaller ids a
least counterexample shows that the sets closed under parents satisfy its equation;
from then on the proofs use those sets. Adding a leaf adds one to the counts on its
lineage and to nothing else; confirming a child keeps its subtree, whose counts do
not change. `WindowInv` numbers the headers, for the refinement.

**BlockFeed.** An arbitrary feeder can make the monitor read a freed node (`monitor_freed_node`); the
host's feed cannot, and the reason is an invariant of the two together. The feed never asks for a number
twice, so the nodes have different numbers, none above that of the block handed over last (`OnPath`
in `FeedInv`). A node then has at most one child, confirming it cuts no branch off, and every entry of
the maps leads to a live node (`LiveMaps`). A block without a known parent makes no node, and the
next one, whatever branch it is from, has a parent with a number that no node has: hence
`NeverReattached`. `PlanInv` says that the planned end of bootstrap I is before the first block or ends
a window, though the plan is computed from a head that moves and in arithmetic that wraps; so the phase
never ends inside a window, which would throw. `UnbrokenInv` is what holds until Geth takes a block
back: the last block is on Geth's chain and known to the monitor, hence the next is its child.
`LagInv` bounds the tree: one more node and the oldest would have been confirmed. With
`UnbrokenInv` it gives `ConfirmedKeepsUp`, the safe part of `EveryBlockConfirmed`. The sets of ancestors
(`Chain`) are a recursive function over the blocks; as for `Lineage`, the block with the least number is
taken for a counterexample in place of an induction.

**HeartbeatRecv.** A check and what it does with its verdict are different steps, so `CauseInv` says
what a callback or a query that is about to mark a constraint knows: there is already a cause. For that,
whatever a check could take for a timeout, with the clock or with an older reading of it, must
be one or have a race on record (`OlderReading` are the checks under way that hold an older clock). `MemoryInv` says that a query that listed a reported constraint
still has a broken one to check or has found one, `LateInv` that after a late heartbeat the
receiver's next check ends its waiting, and `ToldInv` that a silence which a query has not told yet is
one it has still to read, with a clock that shows it.

**ThreadPool.** `OwnerInv` says that a thread between `AddTask`'s two mutexes holds the first one alone, so
that the task it is about to hand over is still pending, and that a runner about to sleep holds it too, so that
nothing was added since it looked. With that `NoLostWakeup` is inductive: a pending task is matched by a runner on
its way or by a thread that has yet to notify. `PlaceInv` has the places of a task disjoint and each without
repetition, and `StartInv` relates the place to whether the task was started; the counts in
`TaskHeldOnce` follow from the two.

`ListedOnceAlways`, `LockAlways`, `VotesAlwaysCounted`, `CandidatesAlwaysFollow`,
`RangeAlwaysAtCheckpoint` and `IterAlwaysCounts` are the supports of the others; they are
proved and not model-checked again.

**Only model-checked.** Liveness: `NotifyTerminates`, `EventuallyDelivered`, `EventuallySync`,
`EveryBlockConfirmed`, `EveryTaskStarts` and `TerminateReturns`, as fairness and ENABLED are
out of the prover's reach. For two of them the part that is safety is proved: `NotifyProgresses` and
`ConfirmedKeepsUp`. Every safety property of a passing run, every action property and every refinement
has a theorem.

## 5. Plan

Modelled and checked: all of the components of section 1's table. Proved: every safety property that
a run checks. What could follow:

1. a measure like `StepsLeft` for the thread pool's `Terminate`, so that less of its liveness rests on a
   small instance;
2. the receipt subscriber, as a second kind of client of `EventBroker`;
3. properties for the three hazards without one, once the code promises something about them.

## 6. Not modelled

* **Vendored and general-purpose libraries** (mbedTLS and its wrapper, SimpleObjects,
  SimpleRlp, SimpleJson, SimpleUtf, SimpleSysIO). They make up nearly all of the repository's
  lines; mbedTLS alone is most of them. They are cryptography and encodings, i.e. functions over
  bytes, and none of Decentagram's own logic. The share of the repository that the map covers
  is small for that reason.
* **Hashing, tries, ABI, RLP and receipts of EclipseMonitor, and the difficulty formula**: pure
  functions over bytes and 256-bit integers. The monitor uses their verdict, which is a
  choice in the model where the untrusted host can decide it.
* **Receipt subscriber**: the Ethereum enclave registers its handler (`Enclave.cpp:176-179`) and the latency test
  subscribes through it (`End2EndLatTest.hpp:106-131`). It is the event subscriber with less: a listener, a queue and an
  emitter on the same monitor and the same locks, without past events and without a reply. It was left out for that.
* **Secure sockets, key ring and certificate store; attestation hand-shakes**: transport and protocols
  around SGX and TLS primitives that are not in the repository.
* **Request dispatch**: subscriptions are in `EventBroker`, accepting connections in `ThreadPool`. The
  end of accepting after an error is an instance of connections that are not forced to come.
* **Start-up code and scripts**: they keep no state; the order in which they start tasks and
  receivers is an input of `ThreadPool` and `HeartbeatRecv`.
