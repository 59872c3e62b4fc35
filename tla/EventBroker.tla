----------------------------- MODULE EventBroker -----------------------------
(***************************************************************************)
(* The Ethereum client enclave as a broker of published events: the        *)
(* EventManager of EclipseMonitor, the SubscriberService that follows the  *)
(* PubSub contract, the subscription handler SubReq and the heartbeat      *)
(* emitters.  Three kinds of threads share them:                           *)
(*   - the block thread (AppendBlock) validates a block, plans callbacks   *)
(*     under the listener map's lock, then runs them; it holds the monitor *)
(*     mutex all the while;                                                *)
(*   - a request thread per subscriber (SubReq);                           *)
(*   - the heartbeat thread (EmitAll).                                     *)
(* The chain grows without forks here; a block is the sequence of its      *)
(* logs.  An event is <<block number, position in the block>>.             *)
(***************************************************************************)
EXTENDS Naturals, FiniteSets, Sequences, SequencesExt

CONSTANTS
    Publishers,     \* publisher contracts, each with its event manager
    Clients,        \* enclaves that subscribe, one request each
    Blocks,         \* contents a block may have: sequences of logs
    MaxBlocks,      \* bound on the length of the chain
    ArgOrders       \* orders in which SubReq's reply arguments are evaluated

VARIABLES
    chain,          \* the blocks whose events have been planned
    lastValidated,  \* m_lastValidatedBlkNum
    blk,            \* the block thread: pc, plan, listener being called
    listeners,      \* m_eventDescMap
    evMgrAddr,      \* the publishers in m_evMgrAddrMap
    past,           \* m_pastEventStore
    queue,          \* the ThreadedEventQueue of each client's listener
    req,            \* the request thread of each client
    emitters,       \* m_emitterList
    hb,             \* the heartbeat thread
    got             \* what each client has received: events and claims

vars == <<chain, lastValidated, blk, listeners, evMgrAddr, past, queue, req,
          emitters, hb, got>>
chainVars == <<chain, lastValidated>>
svcVars == <<evMgrAddr, past>>

Deploy == [type |-> "deploy"]
Reg(p) == [type |-> "reg", pub |-> p]
Notify(p) == [type |-> "notify", pub |-> p]
Logs == {Deploy} \cup {Reg(p) : p \in Publishers}
                 \cup {Notify(p) : p \in Publishers}

ASSUME BrokerAssumption ==
    /\ MaxBlocks \in Nat
    /\ \A b \in Blocks : b \in Seq(Logs)
    /\ ArgOrders \subseteq {<<"blk", "past">>, <<"past", "blk">>}

DeployListener == <<"deploy">>
RegListener == <<"reg">>
PastListener(p) == <<"past", p>>
ClientListener(c) == <<"client", c>>
-----------------------------------------------------------------------------
(***************************************************************************)
(* The chain.  PubSubService emits ServiceDeployed once, registers a       *)
(* publisher at most once, and an event manager exists from then on.       *)
(***************************************************************************)
InContractOrder(logs) ==
    \A i \in 1..Len(logs) :
        LET before == {logs[j] : j \in 1..(i - 1)}
        IN CASE logs[i].type = "deploy" -> logs[i] \notin before
             [] logs[i].type = "reg" ->
                    Deploy \in before /\ logs[i] \notin before
             [] OTHER -> Reg(logs[i].pub) \in before

(***************************************************************************)
(* The off-chain EventManager.                                             *)
(***************************************************************************)
\* SearchEvents: the logs of the block that match a listener's contract
\* address and topics, as their positions in receipt order.
Matches(l, log) ==
    CASE l = DeployListener -> log.type = "deploy"
      [] l = RegListener -> log.type = "reg"
      [] l[1] = "past" -> log = Notify(l[2])
      [] OTHER -> log = Notify(req[l[2]].pub)

SearchEvents(l, b) == {i \in 1..Len(b) : Matches(l, b[i])}

GenCallbackPlan(b) ==
    {pl \in {[lst |-> l, logs |-> SearchEvents(l, b)] : l \in listeners} :
        pl.logs # {}}

\* CheckEvents plans under the map's lock; later Listen calls miss the plan.
AppendBlock(b) ==
    /\ blk.pc = "idle"
    /\ Len(chain) < MaxBlocks
    /\ InContractOrder(FlattenSeq(chain) \o b)
    /\ lastValidated' = Len(chain) + 1
    /\ chain' = Append(chain, b)
    /\ blk' = [pc |-> "run", plan |-> GenCallbackPlan(b), cur |-> {}]
    /\ UNCHANGED <<listeners, svcVars, queue, req, emitters, hb, got>>

\* The receipts are missing or their root differs: CheckEvents throws after
\* the block number was recorded, and the host's feed task ends.
AppendBlockThrows ==
    /\ blk.pc = "idle"
    /\ Len(chain) < MaxBlocks
    /\ lastValidated' = Len(chain) + 1
    /\ blk' = [blk EXCEPT !.pc = "stopped"]
    /\ UNCHANGED <<chain, listeners, svcVars, queue, req, emitters, hb, got>>

\* The block thread holds the monitor mutex from planning to the last callback.
MonitorFree == blk.pc \in {"idle", "stopped"}

\* The log the next callback is about: listeners are called one after the
\* other, in any order, each for all its logs in receipt order.
Current(pl) == pl \in blk.plan /\ (blk.cur = {} \/ pl.lst \in blk.cur)
LogOf(pl) == chain[Len(chain)][Min(pl.logs)]
EventOf(pl) == <<Len(chain), Min(pl.logs)>>

\* The block thread once pl's first callback has returned.
Called(pl) ==
    LET rest == [pl EXCEPT !.logs = @ \ {Min(@)}]
        done == rest.logs = {}
    IN [pc |-> "run",
        plan |-> (blk.plan \ {pl}) \cup (IF done THEN {} ELSE {rest}),
        cur |-> IF done THEN {} ELSE {pl.lst}]
-----------------------------------------------------------------------------
(***************************************************************************)
(* Callbacks of the SubscriberService, on the block thread.                *)
(***************************************************************************)
DeployEventHandler(pl) ==
    /\ blk.pc = "run" /\ Current(pl) /\ pl.lst = DeployListener
    /\ listeners' = (listeners \ {DeployListener}) \cup {RegListener}
    /\ blk' = Called(pl)
    /\ UNCHANGED <<chainVars, svcVars, queue, req, emitters, hb, got>>

\* The address is saved under one lock ...
RegEventHandler(pl) ==
    /\ blk.pc = "run" /\ Current(pl) /\ pl.lst = RegListener
    /\ evMgrAddr' = evMgrAddr \cup {LogOf(pl).pub}
    /\ blk' = [blk EXCEPT !.pc = "store", !.cur = {pl.lst}]
    /\ UNCHANGED <<chainVars, listeners, past, queue, req, emitters, hb, got>>

\* defect: the past events of a new publisher are not listened to
NewListenersNone(p) == {}

NewListeners(p) == {PastListener(p)}

\* ... the store is created under another, and then listened for.
RegCreateStore(pl) ==
    /\ blk.pc = "store" /\ Current(pl)
    /\ LET p == LogOf(pl).pub
       IN /\ past' = [q \in DOMAIN past \cup {p} |->
                         IF q \in DOMAIN past THEN past[q] ELSE <<>>]
          /\ listeners' = listeners \cup NewListeners(p)
    /\ blk' = Called(pl)
    /\ UNCHANGED <<chainVars, evMgrAddr, queue, req, emitters, hb, got>>

\* The queue is looked up under the store's mutex ...
NotifyPastEventHandler(pl) ==
    /\ blk.pc = "run" /\ Current(pl) /\ pl.lst[1] = "past"
    /\ blk' = IF pl.lst[2] \in DOMAIN past
                THEN [blk EXCEPT !.pc = "push", !.cur = {pl.lst}]
                ELSE Called(pl)
    /\ UNCHANGED <<chainVars, listeners, svcVars, queue, req, emitters, hb,
                   got>>

\* ... and appended to under its own.
PushPastEvent(pl) ==
    /\ blk.pc = "push" /\ Current(pl)
    /\ past' = [past EXCEPT ![pl.lst[2]] = Append(@, EventOf(pl))]
    /\ blk' = Called(pl)
    /\ UNCHANGED <<chainVars, listeners, evMgrAddr, queue, req, emitters, hb,
                   got>>

\* defect: a later event overtakes the queued ones
EnqueuedFirst(q, e) == <<e>> \o q

Enqueued(q, e) == Append(q, e)

NotifyEventHandler(pl) ==
    /\ blk.pc = "run" /\ Current(pl) /\ pl.lst[1] = "client"
    /\ queue' = [queue EXCEPT ![pl.lst[2]] = Enqueued(@, EventOf(pl))]
    /\ blk' = Called(pl)
    /\ UNCHANGED <<chainVars, listeners, svcVars, req, emitters, hb, got>>

AppendBlockReturns ==
    /\ blk.pc = "run" /\ blk.plan = {}
    /\ blk' = [blk EXCEPT !.pc = "idle"]
    /\ UNCHANGED <<chainVars, listeners, svcVars, queue, req, emitters, hb,
                   got>>
-----------------------------------------------------------------------------
(***************************************************************************)
(* A subscription request.                                                 *)
(***************************************************************************)
NoReply == [pc |-> "none", pub |-> "none", todo |-> <<>>, blk |-> 0,
            past |-> <<>>]

\* defect: the listener is only added once the reply is out
ListenedAtNone(c) == {}

ListenedAt(c) == {ClientListener(c)}

\* Steps 1 and 2: look the publisher up and listen to its event manager.
SubReq(c, p) ==
    /\ req[c].pc = "none"
    /\ p \in evMgrAddr
    /\ listeners' = listeners \cup ListenedAt(c)
    /\ \E order \in ArgOrders :
         req' = [req EXCEPT ![c] = [NoReply EXCEPT !.pc = "reads", !.pub = p,
                                                   !.todo = order]]
    /\ UNCHANGED <<chainVars, blk, svcVars, queue, emitters, hb, got>>

SubReqUnknown(c, p) ==
    /\ req[c].pc = "none"
    /\ p \notin evMgrAddr
    /\ req' = [req EXCEPT ![c].pc = "refused", ![c].pub = p]
    /\ UNCHANGED <<chainVars, blk, listeners, svcVars, queue, emitters, hb,
                   got>>

\* Step 3 evaluates the arguments of the reply: GetLastValidatedBlkNum waits
\* for the monitor mutex ...
ReadLastValidated(c) ==
    /\ req[c].pc = "reads" /\ req[c].todo # <<>> /\ Head(req[c].todo) = "blk"
    /\ MonitorFree
    /\ req' = [req EXCEPT ![c].todo = Tail(@), ![c].blk = lastValidated]
    /\ UNCHANGED <<chainVars, blk, listeners, svcVars, queue, emitters, hb,
                   got>>

\* ... while GetPastEvents takes the store's mutex but not the queue's, so the
\* copy races with an append in progress: it may or may not see the new event.
Appending(p) ==
    blk.pc = "push" /\ \E pl \in blk.plan : Current(pl) /\ pl.lst = PastListener(p)

GetPastEvents(p) ==
    IF p \notin DOMAIN past THEN {<<>>}
    ELSE {past[p]} \cup
         {Append(past[p], EventOf(pl)) :
             pl \in {x \in blk.plan : Appending(p) /\ x.lst = PastListener(p)}}

\* defect: the reply leaves the past events out
GetPastEventsNone(p) == {<<>>}

PastEventsRead(p) == GetPastEvents(p)

ReadPastEvents(c) ==
    /\ req[c].pc = "reads" /\ req[c].todo # <<>> /\ Head(req[c].todo) = "past"
    /\ \E evs \in PastEventsRead(req[c].pub) :
         req' = [req EXCEPT ![c].todo = Tail(@), ![c].past = evs]
    /\ UNCHANGED <<chainVars, blk, listeners, svcVars, queue, emitters, hb,
                   got>>

\* What client c holds after a message with these events and block number.
Received(c, evs, n) ==
    [got EXCEPT ![c] = [events |-> @.events \o evs, claim |-> n,
                        prevClaim |-> @.claim]]

SendReply(c) ==
    /\ req[c].pc = "reads" /\ req[c].todo = <<>>
    /\ got' = Received(c, req[c].past, req[c].blk)
    /\ req' = [req EXCEPT ![c].pc = "replied", ![c].past = <<>>]
    /\ UNCHANGED <<chainVars, blk, listeners, svcVars, queue, emitters, hb>>

\* The send throws: the listener stays behind.
SendReplyThrows(c) ==
    /\ req[c].pc = "reads" /\ req[c].todo = <<>>
    /\ req' = [req EXCEPT ![c].pc = "failed"]
    /\ UNCHANGED <<chainVars, blk, listeners, svcVars, queue, emitters, hb,
                   got>>

\* Step 4.
AddEmitter(c) ==
    /\ req[c].pc = "replied"
    /\ req' = [req EXCEPT ![c].pc = "active"]
    /\ emitters' = Append(emitters, c)
    /\ UNCHANGED <<chainVars, blk, listeners, svcVars, queue, hb, got>>
-----------------------------------------------------------------------------
(***************************************************************************)
(* The heartbeat thread: EmitAll and, for each client, EmitterHandler.     *)
(***************************************************************************)
EmitAll ==
    /\ hb.pc = "idle" /\ emitters # <<>>
    /\ hb' = [hb EXCEPT !.pc = "emit", !.todo = emitters]
    /\ emitters' = <<>>
    /\ UNCHANGED <<chainVars, blk, listeners, svcVars, queue, req, got>>

\* defect: the queue is not emptied after it was copied
DrainedCopy(q) == q

Drained(q) == <<>>

DrainQueue ==
    /\ hb.pc = "emit" /\ hb.todo # <<>>
    /\ hb' = [hb EXCEPT !.pc = "drained", !.out = queue[Head(hb.todo)]]
    /\ queue' = [queue EXCEPT ![Head(hb.todo)] = Drained(@)]
    /\ UNCHANGED <<chainVars, blk, listeners, svcVars, req, emitters, got>>

\* Reading the security state and the block number waits for the monitor.
ReadState ==
    /\ hb.pc = "drained" /\ MonitorFree
    /\ hb' = [hb EXCEPT !.pc = "send", !.blk = lastValidated]
    /\ UNCHANGED <<chainVars, blk, listeners, svcVars, queue, req, emitters,
                   got>>

EmitSend ==
    /\ hb.pc = "send"
    /\ got' = Received(Head(hb.todo), hb.out, hb.blk)
    /\ hb' = [hb EXCEPT !.pc = "emit", !.todo = Tail(@), !.out = <<>>, !.blk = 0,
                        !.kept = Append(@, Head(hb.todo))]
    /\ UNCHANGED <<chainVars, blk, listeners, svcVars, queue, req, emitters>>

\* The send throws: the handler cancels its listener, EmitAll drops it.
EmitThrows ==
    /\ hb.pc = "send"
    /\ LET c == Head(hb.todo)
       IN /\ listeners' = listeners \ {ClientListener(c)}
          /\ req' = [req EXCEPT ![c].pc = "failed"]
    /\ hb' = [hb EXCEPT !.pc = "emit", !.todo = Tail(@), !.out = <<>>, !.blk = 0]
    /\ UNCHANGED <<chainVars, blk, svcVars, queue, emitters, got>>

\* defect: emitters added meanwhile are overwritten
MergedLost(kept, added) == kept

Merged(kept, added) == kept \o added

EmitAllReturns ==
    /\ hb.pc = "emit" /\ hb.todo = <<>>
    /\ emitters' = Merged(hb.kept, emitters)
    /\ hb' = [hb EXCEPT !.pc = "idle", !.kept = <<>>]
    /\ UNCHANGED <<chainVars, blk, listeners, svcVars, queue, req, got>>
-----------------------------------------------------------------------------
Init ==
    /\ chain = <<>> /\ lastValidated = 0
    /\ blk = [pc |-> "idle", plan |-> {}, cur |-> {}]
    /\ listeners = {DeployListener}
    /\ evMgrAddr = {} /\ past = <<>>
    /\ queue = [c \in Clients |-> <<>>]
    /\ req = [c \in Clients |-> NoReply]
    /\ emitters = <<>>
    /\ hb = [pc |-> "idle", todo |-> <<>>, kept |-> <<>>, out |-> <<>>, blk |-> 0]
    /\ got = [c \in Clients |-> [events |-> <<>>, claim |-> 0, prevClaim |-> 0]]

Callback ==
    \E pl \in blk.plan :
        \/ DeployEventHandler(pl)
        \/ RegEventHandler(pl)
        \/ RegCreateStore(pl)
        \/ NotifyPastEventHandler(pl)
        \/ PushPastEvent(pl)
        \/ NotifyEventHandler(pl)

Request(c) ==
    \/ \E p \in Publishers : SubReq(c, p) \/ SubReqUnknown(c, p)
    \/ ReadLastValidated(c)
    \/ ReadPastEvents(c)
    \/ SendReply(c)
    \/ SendReplyThrows(c)
    \/ AddEmitter(c)

Heartbeat == EmitAll \/ DrainQueue \/ ReadState \/ EmitSend \/ EmitThrows
               \/ EmitAllReturns

Next ==
    \/ \E b \in Blocks : AppendBlock(b)
    \/ AppendBlockThrows
    \/ Callback
    \/ AppendBlockReturns
    \/ \E c \in Clients : Request(c)
    \/ Heartbeat

Spec == Init /\ [][Next]_vars

\* Running threads go on: callbacks return, a request is served to its end,
\* the heartbeat task is ticked again and again.
Fairness ==
    /\ WF_vars(Callback \/ AppendBlockReturns)
    /\ \A c \in Clients :
         WF_vars(ReadLastValidated(c) \/ ReadPastEvents(c) \/ SendReply(c)
                   \/ SendReplyThrows(c) \/ AddEmitter(c))
    /\ WF_vars(Heartbeat)

FairSpec == Spec /\ Fairness
-----------------------------------------------------------------------------
\* Chain order on events.
Before(e, f) == e[1] < f[1] \/ (e[1] = f[1] /\ e[2] < f[2])

Subscribed == {c \in Clients : req[c].pc \in {"replied", "active"}}

\* The planned callbacks that have not been made yet, as events.
Pending(l) ==
    UNION {{<<Len(chain), i>> : i \in pl.logs} :
              pl \in {x \in blk.plan : x.lst = l}}

\* The events the broker has undertaken to store for publisher p.
Stored(p) ==
    (IF p \in DOMAIN past THEN Range(past[p]) ELSE {})
      \cup Pending(PastListener(p))

InFlight(c) ==
    IF hb.pc \in {"drained", "send"} /\ Head(hb.todo) = c THEN hb.out ELSE <<>>

\* No event falls between the past events of the reply and the listener's
\* queue: once a subscriber has its reply, every event of its publisher that
\* the broker has planned to store has reached it, waits in its queue, is being
\* sent or is about to be queued.
NoEventMissed ==
    \A c \in Subscribed :
        Stored(req[c].pub) \subseteq
            Range(got[c].events) \cup Range(InFlight(c)) \cup Range(queue[c])
              \cup Pending(ClientListener(c))

\* Messages repeat events (a past event can also be in the queue) but never
\* deliver an unseen event after a later one.
NeverReordered ==
    \A c \in Clients : \A i, j \in 1..Len(got[c].events) :
        (i < j /\ Before(got[c].events[j], got[c].events[i])) =>
            \E k \in 1..i : got[c].events[k] = got[c].events[j]

\* An event reaches a subscriber at most twice: with the past events and
\* through its listener.
AtMostTwice ==
    \A c \in Clients : \A i, j, k \in 1..Len(got[c].events) :
        (i < j /\ j < k) =>
            ~(got[c].events[i] = got[c].events[j]
                /\ got[c].events[j] = got[c].events[k])

\* LatestBlkNum runs one message ahead: the queue is drained before the block
\* number is read, so a client that is told about block n has the events up to n
\* only with the next message.
CompleteUpToPreviousClaim ==
    \A c \in Subscribed : \A e \in Stored(req[c].pub) :
        e[1] <= got[c].prevClaim => e \in Range(got[c].events)

\* A subscriber that stays connected catches up again and again: since the chain
\* ends after MaxBlocks, every stored event reaches it, whatever the other
\* subscribers, the block thread and failing emitters do meanwhile.
EventuallyDelivered ==
    \A c \in Clients :
        []<>(c \in Subscribed => Stored(req[c].pub) \subseteq Range(got[c].events))

\* Listeners follow the contract: an event of a block later than the one its
\* publisher registered in, itself later than the deployment, is stored.
LaterEventsStored ==
    \A d, r, n \in 1..Len(chain) : \A i \in 1..Len(chain[n]) :
        LET log == chain[n][i]
        IN (/\ d < r /\ r < n
            /\ log.type = "notify"
            /\ Deploy \in Range(chain[d]) /\ Reg(log.pub) \in Range(chain[r]))
               => <<n, i>> \in Stored(log.pub)
-----------------------------------------------------------------------------
(***************************************************************************)
(* The inductive invariant of the safety properties.                       *)
(***************************************************************************)
Events == (Nat \ {0}) \X (Nat \ {0})
Listeners ==
    {DeployListener, RegListener} \cup {PastListener(p) : p \in Publishers}
      \cup {ClientListener(c) : c \in Clients}

TypeOK ==
    /\ chain \in Seq(Seq(Logs)) /\ lastValidated \in Nat
    /\ blk \in [pc : {"idle", "run", "store", "push", "stopped"},
                plan : SUBSET [lst : Listeners, logs : SUBSET (Nat \ {0})],
                cur : SUBSET Listeners]
    /\ listeners \subseteq Listeners
    /\ evMgrAddr \subseteq Publishers
    /\ DOMAIN past \subseteq Publishers /\ past \in [DOMAIN past -> Seq(Events)]
    /\ queue \in [Clients -> Seq(Events)]
    /\ req \in [Clients ->
                  [pc : {"none", "refused", "reads", "replied", "active", "failed"},
                   pub : Publishers \cup {"none"}, todo : Seq({"blk", "past"}),
                   blk : Nat, past : Seq(Events)]]
    /\ emitters \in Seq(Clients)
    /\ hb \in [pc : {"idle", "emit", "drained", "send"}, todo : Seq(Clients),
               kept : Seq(Clients), out : Seq(Events), blk : Nat]
    /\ got \in [Clients -> [events : Seq(Events), claim : Nat, prevClaim : Nat]]

LastBlock == chain[Len(chain)]

\* The plan has one entry per listener, about logs of the last block, and is
\* empty unless a block is being processed.
PlanOK ==
    /\ MonitorFree => blk.plan = {}
    /\ lastValidated = (IF blk.pc = "stopped" THEN Len(chain) + 1 ELSE Len(chain))
    /\ \A x, y \in blk.plan : x.lst = y.lst => x = y
    /\ \A x \in blk.plan :
          /\ Len(chain) > 0 /\ x.logs # {} /\ x.logs \subseteq 1..Len(LastBlock)
          /\ x.lst = RegListener => \A i \in x.logs : \E p \in Publishers : LastBlock[i] = Reg(p)
          /\ x.lst[1] = "past" => x.lst \in listeners
    /\ blk.pc = "store" => blk.cur = {RegListener}
    /\ blk.pc = "push" => \E p \in DOMAIN past : blk.cur = {PastListener(p)}

InOrder(s) == \A i, j \in 1..Len(s) : i < j => Before(s[i], s[j])

\* Past events are stored in chain order, and a known publisher's are listened to.
StoreOK ==
    /\ \A p \in Publishers : PastListener(p) \in listeners => p \in DOMAIN past
    /\ \A p \in evMgrAddr :
          \/ PastListener(p) \in listeners
          \/ blk.pc = "store" /\ \E pl \in blk.plan : pl.lst = RegListener /\ LogOf(pl).pub = p
    /\ \A p \in DOMAIN past :
          /\ InOrder(past[p])
          /\ \A e \in Range(past[p]) :
                e[1] <= Len(chain) /\ \A f \in Pending(PastListener(p)) : Before(e, f)

Live(c) == req[c].pc \in {"reads", "replied", "active"}
Unread(c) == req[c].pc = "reads" /\ "past" \in Range(req[c].todo)

RequestOK(c) ==
    /\ req[c].pc \in {"none", "refused"} =>
          /\ queue[c] = <<>> /\ ClientListener(c) \notin listeners
          /\ Pending(ClientListener(c)) = {}
    /\ req[c].pc = "none" => req[c] = NoReply
    /\ req[c].pc \in {"none", "refused", "reads"} =>
          got[c] = [events |-> <<>>, claim |-> 0, prevClaim |-> 0]
    /\ req[c].pc = "reads" =>
          req[c].todo \in {<<"blk", "past">>, <<"past", "blk">>, <<"blk">>, <<"past">>, <<>>}
    /\ Unread(c) \/ req[c].pc \in {"replied", "active"} => req[c].past = <<>>
    /\ Live(c) => req[c].pub \in evMgrAddr /\ ClientListener(c) \in listeners

\* An active client is in one place of the emitters' lists; nobody else is.
EmittersOK ==
    /\ \A c \in Range(emitters) \cup Range(hb.kept) \cup Range(hb.todo) : req[c].pc = "active"
    /\ IsInjective(emitters) /\ IsInjective(hb.kept) /\ IsInjective(hb.todo)
    /\ Range(emitters) \cap (Range(hb.kept) \cup Range(hb.todo)) = {}
    /\ Range(hb.kept) \cap Range(hb.todo) = {}
    /\ hb.pc = "idle" => hb.todo = <<>> /\ hb.kept = <<>>
    /\ hb.pc \in {"drained", "send"} => hb.todo # <<>>

\* What client c has received or will, in this order, before any new callback.
Promised(c) == ((got[c].events \o req[c].past) \o InFlight(c)) \o queue[c]

\* s is the past events of the reply, its first m, and what the listener queued,
\* each in order; later is still to be queued.  An event of the second run that
\* is earlier than one of the first is in the first as well.
TwoRuns(s, m, later) ==
    /\ \A i, j \in 1..Len(s) : i < j /\ (j <= m \/ m < i) => Before(s[i], s[j])
    /\ \A i \in 1..Len(s), e \in later : m < i => Before(s[i], e)
    /\ \A i \in 1..m, e \in later \cup {s[j] : j \in (m + 1)..Len(s)} :
          Before(e, s[i]) => \E k \in 1..i : s[k] = e

FlowOK(c) ==
    Live(c) =>
        /\ \A e \in Range(Promised(c)) : e[1] <= Len(chain)
        /\ Unread(c) =>
              Range(queue[c]) \cup Pending(ClientListener(c)) \subseteq Stored(req[c].pub)
        /\ \E m \in 0..Len(Promised(c)) :
              /\ TwoRuns(Promised(c), m, Pending(ClientListener(c)))
              /\ Unread(c) => m = 0

\* A block number that is claimed was read while no block was being processed.
ClaimOK(n) == n <= lastValidated /\ (~MonitorFree => n < Len(chain))

ToldOK(c) == ClaimOK(got[c].claim) /\ ClaimOK(got[c].prevClaim)

DeployedIn(n) == Deploy \in Range(chain[n])
RegisteredIn(p, n) == Reg(p) \in Range(chain[n])
Followed(p) == PastListener(p) \in listeners

\* The listeners have followed every block but what is left of the last one's plan.
FollowOK ==
    /\ DeployListener \in listeners \/ RegListener \in listeners
    /\ \A d \in 1..Len(chain) : DeployedIn(d) =>
          \/ RegListener \in listeners
          \/ d = Len(chain) /\ \E pl \in blk.plan : pl.lst = DeployListener
    /\ \A d, r \in 1..Len(chain), p \in Publishers :
          d < r /\ DeployedIn(d) /\ RegisteredIn(p, r) =>
             \/ Followed(p)
             \/ r = Len(chain) /\ \E pl \in blk.plan :
                   pl.lst = RegListener /\ \E i \in pl.logs : LastBlock[i] = Reg(p)

IndInv ==
    /\ TypeOK /\ PlanOK /\ StoreOK /\ EmittersOK /\ FollowOK
    /\ \A c \in Clients : RequestOK(c) /\ FlowOK(c)
    /\ \A c \in Clients : ClaimOK(req[c].blk) /\ ToldOK(c)
    /\ ClaimOK(hb.blk)
    /\ NeverReordered /\ AtMostTwice /\ LaterEventsStored

\* What depends on the reply's arguments being evaluated from left to right:
\* the block number is read, and the block in progress over, when past is read.
Covered(c) ==
    /\ req[c].pc = "reads" /\ req[c].todo = <<"past">> =>
          Pending(PastListener(req[c].pub)) \subseteq
             Range(queue[c]) \cup Pending(ClientListener(c))
    /\ (req[c].pc = "reads" /\ req[c].todo = <<>>) \/ c \in Subscribed =>
          Stored(req[c].pub) \subseteq Range(Promised(c)) \cup Pending(ClientListener(c))

Sending(c) == hb.pc \in {"drained", "send"} /\ Head(hb.todo) = c

Caught(c) ==
    c \in Subscribed => \A e \in Stored(req[c].pub) :
        /\ e[1] <= got[c].prevClaim => e \in Range(got[c].events)
        /\ e[1] <= got[c].claim =>
              e \in Range(got[c].events) \cup Range(InFlight(c))
                      \cup (IF Sending(c) THEN {} ELSE Range(queue[c]))

CoverInv ==
    \A c \in Clients :
        /\ req[c].pc = "reads" => req[c].todo \in {<<"blk", "past">>, <<"past">>, <<>>}
        /\ Covered(c) /\ Caught(c)
=============================================================================
