---------------------------- MODULE HeartbeatRecv ----------------------------
(***************************************************************************)
(* The heartbeat receiver of an enclave: HeartbeatRecvMgr with the time     *)
(* constraints it watches.  Threads that add and remove receivers, the      *)
(* callbacks that their sockets run and any number of status queries share  *)
(* two locked maps and atomics; a step below is one access to them, or one  *)
(* reading of the clock in whole seconds that GetCurrTimestamp asks for.    *)
(***************************************************************************)
EXTENDS Integers, FiniteSets

CONSTANTS
    Constraints,
    Sockets,
    Workloads,      \* what the enclave may do: [adds, queries], its calls of
                    \* AddRecv and the threads that call GetStatus
    Timeout,        \* m_timeout of each constraint
    TimeoutStatus,  \* m_timeoutStatus of each constraint
    StartTime,      \* the clock at the start
    MaxTime,        \* bound on the clock
    Word            \* stands for 2^64 in the unsigned subtraction

None == "none"

\* The Unix time is larger than any timeout and far from the word's end.
ASSUME HeartbeatAssumption ==
    /\ \A w \in Workloads :
         w.adds \subseteq [con : Constraints, sock : Sockets, init : BOOLEAN]
    /\ Timeout \in [Constraints -> Nat]
    /\ TimeoutStatus \in [Constraints -> {"Suspended", "Damaged"}]
    /\ StartTime \in Nat \ {0} /\ MaxTime \in Nat /\ Word \in Nat /\ StartTime <= MaxTime
    /\ \A c \in Constraints : Timeout[c] < StartTime
    /\ \A c \in Constraints : MaxTime + Timeout[c] < Word
    /\ None \notin Constraints

VARIABLES
    now,            \* the clock
    conMap,         \* m_constraintMap
    sockMap,        \* m_socketMap
    lastUpdate,     \* m_lastUpdate, 0 until it is first set
    isDamaged,      \* m_isDamaged
    status,         \* m_status
    add,            \* where each call of AddRecv is
    addTime,        \* the time it read for InitTime
    cb,             \* what each receiver waits for, or its running callback
    query,          \* the status queries
    \* history, read by the properties only
    silent,         \* constraints that once got no heartbeat for longer than their timeout
    raced,          \* those whose last update was unset when read, went back, was too old
                    \* when first stored or became newer than a check's clock
    reported,       \* the constraints that made a query answer Damaged
    missed,         \* those a query lists that were silent when it read the clock and
                    \* have got no heartbeat since
    late            \* heartbeats each receiver handled although its constraint was broken

history == <<silent, raced, reported, missed, late>>
vars == <<now, conMap, sockMap, lastUpdate, isDamaged, status, add, addTime, cb, query,
          history>>

Adds == DOMAIN add
Queries == DOMAIN query

Idle == [pc |-> "idle", t |-> 0]
Resting == [pc |-> "idle", todo |-> {}, con |-> None, t |-> 0, clean |-> "Normal",
            known |-> FALSE]

Init ==
    /\ now = StartTime
    /\ conMap = {} /\ sockMap = {}
    /\ lastUpdate = [c \in Constraints |-> 0]
    /\ isDamaged = [c \in Constraints |-> FALSE]
    /\ status = "Normal"
    /\ \E w \in Workloads :
         /\ add = [a \in w.adds |-> "new"] /\ addTime = [a \in w.adds |-> 0]
         /\ cb = [a \in w.adds |-> Idle] /\ late = [a \in w.adds |-> 0]
         /\ query = [q \in w.queries |-> Resting] /\ missed = [q \in w.queries |-> {}]
    /\ silent = {} /\ raced = {} /\ reported = {}

\* c's last heartbeat is longer ago than its timeout.
Silent(c, t) == lastUpdate[c] # 0 /\ t - lastUpdate[c] > Timeout[c]

Tick ==
    /\ now < MaxTime
    /\ now' = now + 1
    /\ silent' = silent \cup {c \in Constraints : Silent(c, now')}
    /\ UNCHANGED <<conMap, sockMap, lastUpdate, isDamaged, status, add, addTime, cb, query,
                   raced, reported, missed, late>>
-----------------------------------------------------------------------------
(***************************************************************************)
(* A constraint.  CheckStatus reads the flag; if it is not set, the time of *)
(* the last update; and stores the flag when that makes it damaged.         *)
(***************************************************************************)
\* defect: reaching the timeout is already too late
TimedOutAt(c, t) == (t - lastUpdate[c]) % Word >= Timeout[c]

\* The difference is unsigned.
TimedOut(c, t) == (t - lastUpdate[c]) % Word > Timeout[c]

\* defect: an earlier damage is not looked at
AfterFlagIgnored(c) == "elapsed"

\* Where CheckStatus goes on after the flag.
AfterFlag(c) == IF isDamaged[c] THEN "mark" ELSE "elapsed"

\* What the time that has elapsed says.
Verdict(c, t) == IF TimedOut(c, t) THEN TimeoutStatus[c] ELSE "Normal"

\* A time that is 0 is no time: AddRecv has listed c but not yet run InitTime.
NoteUnset(c) == raced' = IF lastUpdate[c] = 0 THEN raced \cup {c} ELSE raced

\* A query in state v has still to read c's last update.
WillRead(v, c) ==
    \/ v.pc \in {"check", "elapsed"} /\ c \in v.todo
    \/ v.pc = "elapsed" /\ c = v.con

\* The checks under way that hold an older clock reading and will still look at c.
OlderReading(c, t) ==
    \/ \E q \in Queries : WillRead(query[q], c) /\ query[q].t < t
    \/ \E a \in Adds : cb[a].pc \in {"check", "elapsed"} /\ a.con = c /\ cb[a].t < t

\* InitTime and OnHeartbeatRecv.  The time was read by an earlier step, so two
\* threads can store theirs in the wrong order, or one when it is no longer recent.
SetLastUpdate(c, t) ==
    /\ lastUpdate' = [lastUpdate EXCEPT ![c] = t]
    /\ raced' = IF \/ t < lastUpdate[c] \/ OlderReading(c, t)
                   \/ lastUpdate[c] = 0 /\ now - t > Timeout[c]
                  THEN raced \cup {c} ELSE raced
    /\ missed' = [q \in Queries |-> missed[q] \ {c}]
-----------------------------------------------------------------------------
(***************************************************************************)
(* AddRecv and RemoveRecv.                                                 *)
(***************************************************************************)
AddConstraint(a) ==
    /\ add[a] = "new"
    /\ conMap' = conMap \cup {a.con}
    /\ add' = [add EXCEPT ![a] = "socket"]
    /\ UNCHANGED <<now, sockMap, lastUpdate, isDamaged, status, addTime, cb, query, history>>

\* A socket that is in the map already makes AddRecv throw; the constraint stays.
AddSocket(a) ==
    /\ add[a] = "socket"
    /\ IF a.sock \in sockMap
         THEN add' = [add EXCEPT ![a] = "thrown"] /\ UNCHANGED sockMap
         ELSE /\ sockMap' = sockMap \cup {a.sock}
              /\ add' = [add EXCEPT ![a] = IF a.init THEN "clock" ELSE "wait"]
    /\ UNCHANGED <<now, conMap, lastUpdate, isDamaged, status, addTime, cb, query, history>>

\* The clock is read for InitTime ...
InitClock(a) ==
    /\ add[a] = "clock"
    /\ addTime' = [addTime EXCEPT ![a] = now]
    /\ add' = [add EXCEPT ![a] = "init"]
    /\ UNCHANGED <<now, conMap, sockMap, lastUpdate, isDamaged, status, cb, query, history>>

\* ... and stored.
InitTime(a) ==
    /\ add[a] = "init"
    /\ SetLastUpdate(a.con, addTime[a])
    /\ add' = [add EXCEPT ![a] = "wait"] /\ addTime' = [addTime EXCEPT ![a] = 0]
    /\ UNCHANGED <<now, conMap, sockMap, isDamaged, status, cb, query, silent, reported, late>>

StartWaiting(a) ==
    /\ add[a] = "wait"
    /\ cb' = [cb EXCEPT ![a].pc = "waiting"]
    /\ add' = [add EXCEPT ![a] = "added"]
    /\ UNCHANGED <<now, conMap, sockMap, lastUpdate, isDamaged, status, addTime, query, history>>

\* RemoveRecv, by the caller of a finished AddRecv: the constraint is removed ...
RemoveConstraint(a) ==
    /\ add[a] = "added"
    /\ conMap' = conMap \ {a.con}
    /\ add' = [add EXCEPT ![a] = "removing"]
    /\ UNCHANGED <<now, sockMap, lastUpdate, isDamaged, status, addTime, cb, query, history>>

\* ... then the socket.
RemoveSocket(a) ==
    /\ add[a] = "removing"
    /\ sockMap' = sockMap \ {a.sock}
    /\ add' = [add EXCEPT ![a] = "removed"]
    /\ UNCHANGED <<now, conMap, lastUpdate, isDamaged, status, addTime, cb, query, history>>
-----------------------------------------------------------------------------
(***************************************************************************)
(* The callback of the receiver that a call of AddRecv started.            *)
(***************************************************************************)
\* An error, or the constraint or the socket is gone, which can only be once it
\* has left its map: the socket is removed and nobody waits any more.
RecvFails(a) ==
    /\ cb[a].pc = "waiting"
    /\ sockMap' = sockMap \ {a.sock}
    /\ cb' = [cb EXCEPT ![a] = Idle]
    /\ UNCHANGED <<now, conMap, lastUpdate, isDamaged, status, add, addTime, query, history>>

\* A heartbeat arrives; its owner may hold the two pointers after RemoveRecv.
RecvHeartbeat(a) ==
    /\ cb[a].pc = "waiting"
    /\ cb' = [cb EXCEPT ![a].pc = "check", ![a].t = now]
    /\ UNCHANGED <<now, conMap, sockMap, lastUpdate, isDamaged, status, add, addTime, query,
                   history>>

RecvFlag(a) ==
    /\ cb[a].pc = "check"
    /\ cb' = [cb EXCEPT ![a].pc = AfterFlag(a.con)]
    /\ UNCHANGED <<now, conMap, sockMap, lastUpdate, isDamaged, status, add, addTime, query,
                   history>>

RecvElapsed(a) ==
    /\ cb[a].pc = "elapsed"
    /\ cb' = [cb EXCEPT ![a] =
                [pc |-> IF Verdict(a.con, @.t) = "Damaged" THEN "mark" ELSE "stamp", t |-> 0]]
    /\ NoteUnset(a.con)
    /\ UNCHANGED <<now, conMap, sockMap, lastUpdate, isDamaged, status, add, addTime, query,
                   silent, reported, missed, late>>

\* The end of CheckStatus for a damaged constraint ...
RecvMark(a) ==
    /\ cb[a].pc = "mark"
    /\ isDamaged' = [isDamaged EXCEPT ![a.con] = TRUE]
    /\ cb' = [cb EXCEPT ![a] = [pc |-> "close", t |-> 0]]
    /\ UNCHANGED <<now, conMap, sockMap, lastUpdate, status, add, addTime, query, history>>

\* ... for which nobody waits any more.
RecvClose(a) ==
    /\ cb[a].pc = "close"
    /\ sockMap' = sockMap \ {a.sock}
    /\ cb' = [cb EXCEPT ![a] = Idle]
    /\ UNCHANGED <<now, conMap, lastUpdate, isDamaged, status, add, addTime, query, history>>

\* The clock is read again for OnHeartbeatRecv ...
RecvStamp(a) ==
    /\ cb[a].pc = "stamp"
    /\ cb' = [cb EXCEPT ![a].pc = "update", ![a].t = now]
    /\ UNCHANGED <<now, conMap, sockMap, lastUpdate, isDamaged, status, add, addTime, query,
                   history>>

\* ... and stored; recvFunc runs, then the receiver waits again.  When recvFunc
\* throws, nobody waits on the socket, which stays in its map.
RecvUpdate(a, throws) ==
    /\ cb[a].pc = "update"
    /\ SetLastUpdate(a.con, cb[a].t)
    /\ cb' = [cb EXCEPT ![a] = IF throws THEN Idle ELSE [Idle EXCEPT !.pc = "waiting"]]
    /\ late' = IF isDamaged[a.con] THEN [late EXCEPT ![a] = @ + 1] ELSE late
    /\ UNCHANGED <<now, conMap, sockMap, isDamaged, status, add, addTime, query, silent,
                   reported>>
-----------------------------------------------------------------------------
(***************************************************************************)
(* GetStatus.                                                              *)
(***************************************************************************)
\* A damaged status is answered at once ...
GetStatus(q) ==
    /\ query[q].pc = "idle" /\ status # "Damaged"
    /\ query' = [query EXCEPT ![q].pc = "list"]
    /\ UNCHANGED <<now, conMap, sockMap, lastUpdate, isDamaged, status, add, addTime, cb,
                   history>>

\* ... otherwise the constraints are listed ...
ListConstraints(q) ==
    /\ query[q].pc = "list"
    /\ query' = [query EXCEPT ![q].pc = "clock", ![q].todo = conMap,
                              ![q].known = (reported \cap conMap # {})]
    /\ UNCHANGED <<now, conMap, sockMap, lastUpdate, isDamaged, status, add, addTime, cb,
                   history>>

\* ... and the clock is read for all of them.
ReadClock(q) ==
    /\ query[q].pc = "clock"
    /\ query' = [query EXCEPT ![q].pc = "check", ![q].t = now]
    /\ missed' = [missed EXCEPT ![q] = {c \in query[q].todo : Silent(c, now)}]
    /\ UNCHANGED <<now, conMap, sockMap, lastUpdate, isDamaged, status, add, addTime, cb,
                   silent, raced, reported, late>>

\* One turn of the loop over the list: CheckStatus begins ...
QueryFlag(q, c) ==
    /\ query[q].pc = "check" /\ c \in query[q].todo
    /\ query' = [query EXCEPT ![q].todo = @ \ {c}, ![q].con = c, ![q].pc = AfterFlag(c)]
    /\ UNCHANGED <<now, conMap, sockMap, lastUpdate, isDamaged, status, add, addTime, cb,
                   history>>

\* defect: a healthy constraint takes back what an earlier one said
NextCleanLast(clean, v) == v

NextClean(clean, v) == IF v = "Normal" THEN clean ELSE v

\* ... and its answer goes into cleanStatus.
QueryElapsed(q) ==
    /\ query[q].pc = "elapsed"
    /\ LET c == query[q].con
           v == Verdict(c, query[q].t)
       IN /\ query' = [query EXCEPT ![q].clean = NextClean(@, v),
                         ![q].con = IF v = "Damaged" THEN c ELSE None,
                         ![q].pc = IF v = "Damaged" THEN "mark" ELSE "check"]
          /\ NoteUnset(c)
    /\ UNCHANGED <<now, conMap, sockMap, lastUpdate, isDamaged, status, add, addTime, cb,
                   silent, reported, missed, late>>

\* The end of CheckStatus for a damaged constraint.
QueryMark(q) ==
    /\ query[q].pc = "mark"
    /\ isDamaged' = [isDamaged EXCEPT ![query[q].con] = TRUE]
    /\ query' = [query EXCEPT ![q].pc = "check", ![q].todo = {}, ![q].clean = "Damaged"]
    /\ UNCHANGED <<now, conMap, sockMap, lastUpdate, status, add, addTime, cb, history>>

\* m_status is written over, whatever it holds by now.
QueryStore(q) ==
    /\ query[q].pc = "check" /\ query[q].todo = {}
    /\ status' = query[q].clean
    /\ query' = [query EXCEPT ![q].pc = "return", ![q].t = 0]
    /\ reported' = IF query[q].con = None THEN reported ELSE reported \cup {query[q].con}
    /\ UNCHANGED <<now, conMap, sockMap, lastUpdate, isDamaged, add, addTime, cb, silent,
                   raced, missed, late>>

\* A clean query returns m_status read anew, a damaged one its own verdict.
Answer(q) == IF query[q].con = None THEN status ELSE "Damaged"

QueryReturn(q) ==
    /\ query[q].pc = "return"
    /\ query' = [query EXCEPT ![q] = Resting] /\ missed' = [missed EXCEPT ![q] = {}]
    /\ UNCHANGED <<now, conMap, sockMap, lastUpdate, isDamaged, status, add, addTime, cb,
                   silent, raced, reported, late>>
-----------------------------------------------------------------------------
Receiver(a) ==
    \/ AddConstraint(a) \/ AddSocket(a) \/ InitClock(a) \/ InitTime(a) \/ StartWaiting(a)
    \/ RemoveConstraint(a) \/ RemoveSocket(a)

Recv(a) ==
    \/ RecvFails(a) \/ RecvHeartbeat(a) \/ RecvFlag(a) \/ RecvElapsed(a) \/ RecvMark(a)
    \/ RecvClose(a) \/ RecvStamp(a) \/ \E throws \in BOOLEAN : RecvUpdate(a, throws)

Query(q) ==
    \/ GetStatus(q) \/ ListConstraints(q) \/ ReadClock(q) \/ QueryElapsed(q)
    \/ QueryMark(q) \/ QueryStore(q) \/ QueryReturn(q)
    \/ \E c \in Constraints : QueryFlag(q, c)

Next ==
    \/ Tick
    \/ \E a \in Adds : Receiver(a) \/ Recv(a)
    \/ \E q \in Queries : Query(q)

Spec == Init /\ [][Next]_vars
-----------------------------------------------------------------------------
\* A constraint breaks only for a reason: its heartbeats really stayed out for
\* longer than the timeout, or one of four races met a check: the check read the
\* clock before a newer update was stored (the unsigned difference wraps around),
\* AddRecv had listed the constraint but not yet run InitTime, AddRecv stored the
\* time it had read for InitTime when that was already longer ago than the timeout,
\* or a slower thread put an older time over a newer one.
DamageHasCause ==
    \A c \in Constraints : isDamaged[c] => c \in silent \cup raced

\* Once a constraint made some query answer Damaged, every query that finds the
\* constraint listed answers Damaged, even when a slower query has meanwhile
\* overwritten m_status by Normal: the broken constraint remembers.
DamageRemembered ==
    \A q \in Queries : query[q].pc = "return" /\ query[q].known => Answer(q) = "Damaged"

\* A broken constraint closes its sockets: each receiver still handles at most the
\* heartbeat that passed the check before the damage was stored.
DamagedStopsListening == \A a \in Adds : late[a] <= 1

\* A query does not overlook silence: when a constraint it listed had got no
\* heartbeat for longer than its timeout as the clock was read, be it that the peer
\* stopped, the connection broke or recvFunc threw, and none came while the query
\* went through its list, the status it stores is not Normal, however many healthy
\* constraints it met after that one and whatever other threads did meanwhile.
SilenceTold ==
    \A q \in Queries : query[q].pc = "return" /\ missed[q] # {} => query[q].clean # "Normal"
-----------------------------------------------------------------------------
(***************************************************************************)
(* The inductive invariant behind the four invariants above.               *)
(***************************************************************************)
Callback ==
    [pc : {"idle", "waiting", "check", "elapsed", "mark", "close", "stamp", "update"}, t : Nat]

StatusQuery ==
    [pc : {"idle", "list", "clock", "check", "elapsed", "mark", "return"},
     todo : SUBSET Constraints, con : Constraints \cup {None}, t : Nat,
     clean : {"Normal", "Suspended", "Damaged"}, known : BOOLEAN]

\* Times are never later than the clock, and what is stored is never 0.
TypeInv ==
    /\ now \in Nat \ {0} /\ now <= MaxTime /\ conMap \subseteq Constraints
    /\ Adds \subseteq [con : Constraints, sock : Sockets, init : BOOLEAN]
    /\ lastUpdate \in [Constraints -> Nat] /\ \A c \in Constraints : lastUpdate[c] <= now
    /\ isDamaged \in [Constraints -> BOOLEAN]
    /\ addTime \in [Adds -> Nat]
    /\ \A a \in Adds : addTime[a] <= now /\ (add[a] = "init" => addTime[a] # 0)
    /\ cb \in [Adds -> Callback]
    /\ \A a \in Adds : cb[a].t <= now /\ (cb[a].pc = "update" => cb[a].t # 0)
    /\ query \in [Queries -> StatusQuery]
    /\ \A q \in Queries : /\ query[q].t <= now
                          /\ query[q].pc \in {"elapsed", "mark"} => query[q].con # None

\* Whatever a check can take for a timeout is one, or a race is on record.
CauseInv ==
    /\ DamageHasCause
    /\ \A a \in Adds : cb[a].pc = "mark" => a.con \in silent \cup raced
    /\ \A q \in Queries : query[q].pc = "mark" => query[q].con \in silent \cup raced
    /\ \A c \in Constraints : lastUpdate[c] # 0 =>
          /\ now - lastUpdate[c] > Timeout[c] => c \in silent \cup raced
          /\ OlderReading(c, lastUpdate[c]) => c \in raced

\* A query that listed a reported constraint meets a broken one on its way.
MemoryInv ==
    /\ \A c \in reported : c \in Constraints /\ isDamaged[c]
    /\ \A q \in Queries :
          /\ query[q].pc \in {"idle", "list", "clock"} => query[q].con = None
          /\ query[q].pc \in {"idle", "list"} => ~query[q].known
          /\ query[q].pc \in {"check", "return"} /\ query[q].con # None =>
                isDamaged[query[q].con]
          /\ query[q].pc = "check" /\ query[q].con # None => query[q].todo = {}
          /\ query[q].known =>
                \/ query[q].pc # "elapsed" /\ query[q].con # None
                \/ /\ query[q].pc \in {"clock", "check", "elapsed"}
                   /\ \E c \in query[q].todo : isDamaged[c]

\* After a late heartbeat the receiver's next check ends its waiting.
LateInv ==
    /\ late \in [Adds -> {0, 1}]
    /\ \A a \in Adds : late[a] = 1 =>
          isDamaged[a.con] /\ cb[a].pc \in {"idle", "waiting", "check", "mark", "close"}

\* What a query missed it has still to check, with a time that shows the silence,
\* or has told.
ToldInv ==
    /\ missed \in [Queries -> SUBSET Constraints]
    /\ \A q \in Queries : query[q].pc \in {"idle", "list", "clock"} => missed[q] = {}
    /\ \A q \in Queries : \A c \in missed[q] :
          \/ query[q].pc = "mark" \/ query[q].clean # "Normal"
          \/ Silent(c, query[q].t) /\ WillRead(query[q], c)

IndInv == TypeInv /\ CauseInv /\ MemoryInv /\ LateInv /\ ToldInv
=============================================================================
