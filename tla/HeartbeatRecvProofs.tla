-------------------------- MODULE HeartbeatRecvProofs --------------------------
(***************************************************************************)
(* The heartbeat receiver's invariants for any constraints, sockets, calls  *)
(* of AddRecv, status queries, timeouts and clock.  The argument: a check   *)
(* compares a clock reading with a stored update; both are past, so a       *)
(* difference that looks like a timeout is one unless the update is newer   *)
(* than the reading, and whoever stores such an update finds the reading    *)
(* under way and is on record as a race.  Damage is never taken back, so a  *)
(* broken constraint is found by every query that lists it and by every     *)
(* callback that checks it.  And a silent constraint stays silent until it  *)
(* is checked or a new update takes it off the record of what was missed.   *)
(***************************************************************************)
EXTENDS HeartbeatRecv, TLAPS

-----------------------------------------------------------------------------
\* The unsigned difference of two times in order is at most the difference, and is
\* the difference when that is below the word.
LEMMA UnsignedDiff ==
    ASSUME NEW t \in Nat, NEW u \in Nat, u <= t, NEW w \in Nat, w > 0
    PROVE  /\ (t - u) % w <= t - u /\ (t - u) % w \in Int
           /\ t - u < w => (t - u) % w = t - u
<1> DEFINE x == t - u
<1>1. x \in Nat
  OBVIOUS
<1>. HIDE DEF x
<1>2. CASE x < w
  BY <1>1, <1>2
<1>3. CASE x >= w
  BY <1>1, <1>3
<1>4. x % w <= x /\ x % w \in Int /\ (x < w => x % w = x)
  BY <1>1, <1>2, <1>3
<1>. QED
  BY <1>4 DEF x

\* A check that finds c broken by the time t it read has a cause: the update was
\* unset or is newer than t, or the silence is real.
LEMMA VerdictHasCause ==
    ASSUME TypeInv, CauseInv, NEW c \in Constraints, NEW t \in Nat, t <= now,
           Verdict(c, t) = "Damaged", lastUpdate[c] > t => c \in raced
    PROVE  c \in silent \cup raced \/ lastUpdate[c] = 0
<1>1. CASE lastUpdate[c] # 0 /\ lastUpdate[c] <= t
  <2>1. /\ Timeout[c] \in Nat /\ Word \in Nat /\ Word > 0 /\ lastUpdate[c] \in Nat
        /\ now \in Nat
    BY HeartbeatAssumption DEF TypeInv
  <2>2. (t - lastUpdate[c]) % Word > Timeout[c]
    BY DEF Verdict, TimedOut
  <2>3. (t - lastUpdate[c]) % Word <= t - lastUpdate[c] /\ (t - lastUpdate[c]) % Word \in Int
    BY <1>1, <2>1, UnsignedDiff
  <2>4. now - lastUpdate[c] > Timeout[c]
    BY <1>1, <2>1, <2>2, <2>3
  <2>. QED
    BY <1>1, <2>4 DEF CauseInv
<1>2. CASE lastUpdate[c] > t
  BY <1>2
<1>3. lastUpdate[c] \in Nat
  BY DEF TypeInv
<1>. QED
  BY <1>1, <1>2, <1>3

\* A check of a constraint that was silent at the time it read says so.
LEMMA VerdictOfSilent ==
    ASSUME TypeInv, NEW c \in Constraints, NEW t \in Nat, t <= now, Silent(c, t)
    PROVE  Verdict(c, t) # "Normal"
<1>1. /\ Timeout[c] \in Nat /\ Word \in Nat /\ lastUpdate[c] \in Nat /\ now \in Nat
      /\ MaxTime \in Nat /\ now <= MaxTime /\ MaxTime + Timeout[c] < Word
      /\ t - lastUpdate[c] > Timeout[c]
  BY HeartbeatAssumption DEF TypeInv, Silent
<1>2. lastUpdate[c] <= t /\ Word > 0 /\ t - lastUpdate[c] < Word
  BY <1>1
<1>3. (t - lastUpdate[c]) % Word = t - lastUpdate[c]
  BY <1>1, <1>2, UnsignedDiff
<1>4. TimedOut(c, t)
  BY <1>1, <1>3 DEF TimedOut
<1>. QED
  BY <1>4, HeartbeatAssumption DEF Verdict

\* What the invariant says of the damage.
LEMMA DamageFacts ==
    ASSUME IndInv
    PROVE  /\ isDamaged \in [Constraints -> BOOLEAN] /\ now \in Nat \ {0} /\ 0 <= now
           /\ conMap \subseteq Constraints
           /\ \A c \in Constraints : isDamaged[c] => c \in silent \cup raced
           /\ \A c \in reported : c \in Constraints /\ isDamaged[c]
<1>1. now \in Nat \ {0}
  BY DEF IndInv, TypeInv
<1>2. 0 <= now
  BY <1>1
<1>. QED
  BY <1>1, <1>2 DEF IndInv, TypeInv, CauseInv, DamageHasCause, MemoryInv

\* What it says of one receiver.
LEMMA ReceiverFacts ==
    ASSUME IndInv, NEW a \in Adds
    PROVE  /\ a.con \in Constraints /\ cb[a] \in Callback /\ cb[a].t <= now /\ cb[a].t \in Nat
           /\ cb[a].pc = "update" => cb[a].t # 0
           /\ cb[a].pc = "mark" => a.con \in silent \cup raced
           /\ addTime[a] \in Nat /\ addTime[a] <= now
           /\ add[a] = "init" => addTime[a] # 0
           /\ late \in [Adds -> {0, 1}]
           /\ late[a] = 1 => isDamaged[a.con]
           /\ late[a] = 1 => cb[a].pc \in {"idle", "waiting", "check", "mark", "close"}
<1>1. cb[a] \in Callback /\ a.con \in Constraints
  BY DEF IndInv, TypeInv
<1>2. cb[a].t \in Nat
  BY <1>1 DEF Callback
<1>. QED
  BY <1>1, <1>2 DEF IndInv, TypeInv, CauseInv, LateInv

\* What it says of one query.
LEMMA QueryFacts ==
    ASSUME IndInv, NEW q \in Queries
    PROVE  /\ query[q] \in StatusQuery /\ query[q].t <= now /\ query[q].t \in Nat
           /\ query[q].todo \subseteq Constraints /\ query[q].con \in Constraints \cup {None}
           /\ query[q].pc \in {"elapsed", "mark"} => query[q].con # None
           /\ query[q].pc = "mark" => query[q].con \in silent \cup raced
           /\ query[q].pc \in {"idle", "list", "clock"} => query[q].con = None
           /\ query[q].pc \in {"idle", "list"} => ~query[q].known
           /\ query[q].pc \in {"check", "return"} /\ query[q].con # None =>
                isDamaged[query[q].con]
           /\ query[q].pc = "check" /\ query[q].con # None => query[q].todo = {}
           /\ query[q].known =>
                \/ query[q].pc # "elapsed" /\ query[q].con # None
                \/ /\ query[q].pc \in {"clock", "check", "elapsed"}
                   /\ \E c \in query[q].todo : isDamaged[c]
           /\ missed \in [Queries -> SUBSET Constraints]
           /\ query[q].pc \in {"idle", "list", "clock"} => missed[q] = {}
           /\ \A c \in missed[q] : \/ query[q].pc = "mark" \/ query[q].clean # "Normal"
                                   \/ Silent(c, query[q].t) /\ WillRead(query[q], c)
<1>1. query[q] \in StatusQuery
  BY DEF IndInv, TypeInv
<1>2. /\ query[q].t \in Nat /\ query[q].todo \subseteq Constraints
      /\ query[q].con \in Constraints \cup {None}
  BY <1>1 DEF StatusQuery
<1>. QED
  BY <1>1, <1>2 DEF IndInv, TypeInv, CauseInv, MemoryInv, ToldInv

\* The initial state.
LEMMA InitOK ==
    ASSUME Init
    PROVE  IndInv
<1>1. PICK w \in Workloads :
         /\ add = [a \in w.adds |-> "new"] /\ addTime = [a \in w.adds |-> 0]
         /\ cb = [a \in w.adds |-> Idle] /\ late = [a \in w.adds |-> 0]
         /\ query = [q \in w.queries |-> Resting] /\ missed = [q \in w.queries |-> {}]
  BY DEF Init
<1>2. Adds = w.adds /\ Adds \subseteq [con : Constraints, sock : Sockets, init : BOOLEAN]
  BY <1>1, HeartbeatAssumption DEF Adds
<1>3. Queries = w.queries /\ \A q \in Queries : query[q] = Resting
  BY <1>1 DEF Queries
<1>4. Resting \in StatusQuery /\ Idle \in Callback
  BY DEF Resting, StatusQuery, Idle, Callback
<1>5. /\ query \in [Queries -> StatusQuery] /\ cb \in [Adds -> Callback]
      /\ \A a \in Adds : cb[a] = Idle /\ add[a] = "new" /\ addTime[a] = 0 /\ late[a] = 0
      /\ addTime \in [Adds -> Nat] /\ late \in [Adds -> {0, 1}]
      /\ missed \in [Queries -> SUBSET Constraints] /\ \A q \in Queries : missed[q] = {}
  BY <1>1, <1>2, <1>3, <1>4
<1>6. /\ Resting.pc = "idle" /\ Resting.t = 0 /\ Resting.con = None /\ ~Resting.known
      /\ Idle.pc = "idle" /\ Idle.t = 0
  BY DEF Resting, Idle
<1>7. /\ now \in Nat \ {0} /\ now >= 0 /\ now <= MaxTime /\ conMap = {} /\ reported = {}
      /\ lastUpdate = [c \in Constraints |-> 0] /\ isDamaged = [c \in Constraints |-> FALSE]
  BY HeartbeatAssumption DEF Init
<1>8. TypeInv
  BY <1>2, <1>3, <1>5, <1>6, <1>7 DEF TypeInv
<1>9. CauseInv
  BY <1>3, <1>5, <1>6, <1>7 DEF CauseInv, DamageHasCause
<1>10. MemoryInv
  BY <1>3, <1>6, <1>7 DEF MemoryInv
<1>11. LateInv /\ ToldInv
  BY <1>5 DEF LateInv, ToldInv
<1>. QED
  BY <1>8, <1>9, <1>10, <1>11 DEF IndInv

-----------------------------------------------------------------------------
\* The steps of AddRecv and RemoveRecv on the two maps and the clock.
LEMMA MapsOK ==
    ASSUME IndInv, conMap' \subseteq Constraints, Adds' = Adds, addTime' \in [Adds -> Nat],
           \A a \in Adds : addTime'[a] <= now /\ (add'[a] = "init" => addTime'[a] # 0),
           UNCHANGED <<now, lastUpdate, isDamaged, cb, query, silent, raced, reported,
                       missed, late>>
    PROVE  IndInv'
<1>1. TypeInv'
  BY DEF IndInv, TypeInv, Queries
<1>2. CauseInv'
  BY DEF IndInv, CauseInv, DamageHasCause, OlderReading, WillRead, Queries
<1>3. MemoryInv'
  BY DEF IndInv, MemoryInv, Queries
<1>4. LateInv'
  BY DEF IndInv, LateInv
<1>5. ToldInv'
  BY DEF IndInv, ToldInv, Silent, WillRead, Queries
<1>. QED
  BY <1>1, <1>2, <1>3, <1>4, <1>5 DEF IndInv

\* The clock.
LEMMA TickOK ==
    ASSUME IndInv, Tick
    PROVE  IndInv'
<1>1. TypeInv'
  <2>1. /\ Adds' = Adds /\ Queries' = Queries /\ now' = now + 1 /\ now' <= MaxTime
        /\ now \in Nat \ {0} /\ now' \in Nat \ {0}
        /\ UNCHANGED <<conMap, lastUpdate, isDamaged, add, addTime, cb, query>>
    BY HeartbeatAssumption DEF IndInv, TypeInv, Queries, Tick, Adds
  <2>2. \A x \in Nat : x <= now => x <= now'
    BY <2>1
  <2>3. /\ \A c \in Constraints : lastUpdate[c] <= now'
        /\ \A a \in Adds : addTime[a] <= now' /\ cb[a].t <= now'
        /\ \A q \in Queries : query[q].t <= now'
    BY <2>2, ReceiverFacts, QueryFacts DEF IndInv, TypeInv
  <2>. QED
    BY <2>1, <2>3 DEF IndInv, TypeInv
<1>2. CauseInv'
  BY DEF IndInv, CauseInv, DamageHasCause, OlderReading, WillRead, Queries, Adds, Tick, Silent
<1>3. MemoryInv'
  BY DEF IndInv, MemoryInv, Queries, Tick
<1>4. LateInv' /\ ToldInv'
  BY DEF IndInv, LateInv, ToldInv, Silent, WillRead, Queries, Adds, Tick
<1>. QED
  BY <1>1, <1>2, <1>3, <1>4 DEF IndInv

-----------------------------------------------------------------------------
\* What a query knows survives a step that breaks more constraints.
LEMMA DamageGrows ==
    ASSUME IndInv, isDamaged' \in [Constraints -> BOOLEAN],
           \A c \in Constraints : isDamaged[c] => isDamaged'[c],
           NEW q \in Queries
    PROVE  /\ query[q].pc \in {"check", "return"} /\ query[q].con # None =>
                isDamaged'[query[q].con]
           /\ query[q].known =>
                \/ query[q].pc # "elapsed" /\ query[q].con # None
                \/ /\ query[q].pc \in {"clock", "check", "elapsed"}
                   /\ \E c \in query[q].todo : isDamaged'[c]
  BY QueryFacts

\* A step that changes one callback, to v, and may break a constraint for a cause.
\* What v must satisfy is what the invariant says of a callback.
LEMMA CallbackOK ==
    ASSUME IndInv, NEW a \in Adds, NEW v \in Callback, cb' = [cb EXCEPT ![a] = v],
           raced \subseteq raced', Adds' = Adds,
           \A x \in Adds : add'[x] = "init" => add[x] = "init",
           UNCHANGED <<now, conMap, lastUpdate, addTime, query, silent, reported, missed,
                       late>>,
           isDamaged' \in [Constraints -> BOOLEAN],
           \A c \in Constraints : isDamaged[c] => isDamaged'[c],
           \A c \in Constraints : isDamaged'[c] => c \in silent \cup raced',
           v.t <= now, v.pc = "update" => v.t # 0,
           v.pc = "mark" => a.con \in silent \cup raced',
           v.pc \in {"check", "elapsed"} => \/ v.t = now
                                            \/ cb[a].pc \in {"check", "elapsed"} /\ cb[a].t = v.t,
           late[a] = 1 => v.pc \in {"idle", "waiting", "check", "mark", "close"}
    PROVE  IndInv'
<1>1. /\ TypeInv /\ CauseInv /\ MemoryInv /\ LateInv /\ ToldInv /\ Queries' = Queries
      /\ cb'[a] = v /\ \A x \in Adds \ {a} : cb'[x] = cb[x]
      /\ cb' \in [Adds -> Callback]
  BY DEF IndInv, TypeInv, Queries
<1>2. TypeInv'
  BY <1>1 DEF TypeInv
<1>3. CauseInv'
  <2>1. \A x \in Adds : cb'[x].pc = "mark" => x.con \in silent' \cup raced'
    BY <1>1 DEF CauseInv
  <2>2. ASSUME NEW c \in Constraints, lastUpdate'[c] # 0
        PROVE  /\ now' - lastUpdate'[c] > Timeout[c] => c \in silent' \cup raced'
               /\ OlderReading(c, lastUpdate[c])' => c \in raced'
    <3>1. lastUpdate[c] # 0 /\ lastUpdate[c] \in Nat /\ lastUpdate[c] <= now /\ now \in Nat
      BY <1>1, <2>2 DEF TypeInv
    <3>2. OlderReading(c, lastUpdate[c])' => OlderReading(c, lastUpdate[c])
      <4>1. v.pc \in {"check", "elapsed"} /\ v.t < lastUpdate[c] =>
              cb[a].pc \in {"check", "elapsed"} /\ cb[a].t < lastUpdate[c]
        BY <3>1
      <4>. QED
        BY <1>1, <4>1 DEF OlderReading, WillRead
    <3>. QED
      BY <1>1, <3>1, <3>2 DEF CauseInv
  <2>3. DamageHasCause'
    BY DEF DamageHasCause
  <2>4. \A q \in Queries' : query'[q].pc = "mark" => query'[q].con \in silent' \cup raced'
    BY <1>1 DEF CauseInv
  <2>. QED
    BY <2>1, <2>2, <2>3, <2>4 DEF CauseInv
<1>4. MemoryInv'
  <2>1. \A c \in reported' : c \in Constraints /\ isDamaged'[c]
    BY <1>1 DEF MemoryInv
  <2>. QED
    BY <1>1, <2>1, DamageGrows DEF MemoryInv
<1>5. LateInv'
  <2>1. \A x \in Adds : x.con \in Constraints
    BY ReceiverFacts
  <2>. QED
    BY <1>1, <2>1 DEF LateInv
<1>6. ToldInv'
  BY <1>1 DEF ToldInv, Silent, WillRead
<1>. QED
  BY <1>2, <1>3, <1>4, <1>5, <1>6 DEF IndInv

\* A callback's step that breaks nothing.
LEMMA QuietCallbackOK ==
    ASSUME IndInv, NEW a \in Adds, NEW v \in Callback, cb' = [cb EXCEPT ![a] = v],
           Adds' = Adds, \A x \in Adds : add'[x] = "init" => add[x] = "init",
           UNCHANGED <<now, conMap, lastUpdate, isDamaged, addTime, query, silent, raced,
                       reported, missed, late>>,
           v.t <= now, v.pc = "update" => v.t # 0,
           v.pc = "mark" => a.con \in silent \cup raced,
           v.pc \in {"check", "elapsed"} => \/ v.t = now
                                            \/ cb[a].pc \in {"check", "elapsed"} /\ cb[a].t = v.t,
           late[a] = 1 => v.pc \in {"idle", "waiting", "check", "mark", "close"}
    PROVE  IndInv'
<1>1. /\ raced \subseteq raced' /\ isDamaged' \in [Constraints -> BOOLEAN]
      /\ \A c \in Constraints : isDamaged[c] => isDamaged'[c]
      /\ \A c \in Constraints : isDamaged'[c] => c \in silent \cup raced'
  BY DamageFacts
<1>. QED
  BY <1>1, CallbackOK

\* AddRecv's last step.
LEMMA StartWaitingOK ==
    ASSUME IndInv, NEW a \in Adds, StartWaiting(a)
    PROVE  IndInv'
<1> DEFINE v == [cb[a] EXCEPT !.pc = "waiting"]
<1>1. /\ Adds' = Adds /\ cb' = [cb EXCEPT ![a] = v]
      /\ \A x \in Adds : add'[x] = "init" => add[x] = "init"
      /\ UNCHANGED <<now, conMap, lastUpdate, isDamaged, addTime, query, silent, raced,
                     reported, missed, late>>
  BY DEF StartWaiting, Adds, history
<1>2. v \in Callback /\ v.pc = "waiting" /\ v.t = cb[a].t
  BY ReceiverFacts DEF Callback
<1>. HIDE DEF v
<1>. QED
  BY <1>1, <1>2, ReceiverFacts, QuietCallbackOK

\* The receiver gives its socket up: the message failed or the constraint is broken.
LEMMA RecvFailsOK ==
    ASSUME IndInv, NEW a \in Adds, RecvFails(a) \/ RecvClose(a)
    PROVE  IndInv'
<1>1. Idle \in Callback /\ Idle.pc = "idle" /\ Idle.t = 0
  BY DEF Callback, Idle
<1>2. /\ Adds' = Adds /\ add' = add /\ cb' = [cb EXCEPT ![a] = Idle]
      /\ UNCHANGED <<now, conMap, lastUpdate, isDamaged, addTime, query, silent, raced,
                     reported, missed, late>>
  BY DEF RecvFails, RecvClose, Adds, history
<1>. QED
  BY <1>1, <1>2, DamageFacts, QuietCallbackOK

\* A heartbeat arrives and its callback reads the clock.
LEMMA RecvHeartbeatOK ==
    ASSUME IndInv, NEW a \in Adds, RecvHeartbeat(a)
    PROVE  IndInv'
<1> DEFINE v == [cb[a] EXCEPT !.pc = "check", !.t = now]
<1>1. /\ Adds' = Adds /\ add' = add /\ cb' = [cb EXCEPT ![a] = v]
      /\ UNCHANGED <<now, conMap, lastUpdate, isDamaged, addTime, query, silent, raced,
                     reported, missed, late>>
  BY DEF RecvHeartbeat, Adds, history
<1>2. cb[a] \in Callback /\ now \in Nat /\ now <= now
  BY ReceiverFacts, DamageFacts
<1>3. v \in Callback /\ v.pc = "check" /\ v.t = now
  BY <1>2 DEF Callback
<1>. HIDE DEF v
<1>. QED
  BY <1>1, <1>2, <1>3, QuietCallbackOK

\* The callback reads the flag.
LEMMA RecvFlagOK ==
    ASSUME IndInv, NEW a \in Adds, RecvFlag(a)
    PROVE  IndInv'
<1> DEFINE v == [cb[a] EXCEPT !.pc = AfterFlag(a.con)]
<1>1. /\ Adds' = Adds /\ add' = add /\ cb' = [cb EXCEPT ![a] = v] /\ cb[a].pc = "check"
      /\ UNCHANGED <<now, conMap, lastUpdate, isDamaged, addTime, query, silent, raced,
                     reported, missed, late>>
  BY DEF RecvFlag, Adds, history
<1>2. AfterFlag(a.con) = IF isDamaged[a.con] THEN "mark" ELSE "elapsed"
  BY DEF AfterFlag
<1>3. v \in Callback /\ v.pc = AfterFlag(a.con) /\ v.t = cb[a].t
  BY <1>2, ReceiverFacts DEF Callback
<1>. HIDE DEF v
<1>4. v.pc = "mark" => a.con \in silent \cup raced
  BY <1>2, <1>3, ReceiverFacts, DamageFacts
<1>5. late[a] = 1 => v.pc = "mark"
  BY <1>2, <1>3, ReceiverFacts
<1>. QED
  BY <1>1, <1>2, <1>3, <1>4, <1>5, ReceiverFacts, QuietCallbackOK

\* The callback compares the last update with the time it read.
LEMMA RecvElapsedOK ==
    ASSUME IndInv, NEW a \in Adds, RecvElapsed(a)
    PROVE  IndInv'
<1> DEFINE c == a.con  t == cb[a].t
           v == [pc |-> IF Verdict(c, t) = "Damaged" THEN "mark" ELSE "stamp", t |-> 0]
<1>1. /\ Adds' = Adds /\ add' = add /\ cb' = [cb EXCEPT ![a] = v] /\ cb[a].pc = "elapsed"
      /\ raced' = IF lastUpdate[c] = 0 THEN raced \cup {c} ELSE raced
      /\ UNCHANGED <<now, conMap, lastUpdate, isDamaged, addTime, query, silent,
                     reported, missed, late>>
  BY DEF RecvElapsed, NoteUnset, Adds
<1>2. /\ v \in Callback /\ v.pc \in {"mark", "stamp"} /\ v.t = 0
      /\ v.pc = "mark" => Verdict(c, t) = "Damaged"
  BY DEF Callback
<1>3. lastUpdate[c] > t => c \in raced
  <2>1. ASSUME lastUpdate[c] > t PROVE c \in raced
    <3>1. lastUpdate[c] # 0 /\ t < lastUpdate[c]
      BY <2>1, ReceiverFacts DEF IndInv, TypeInv
    <3>2. OlderReading(c, lastUpdate[c])
      BY <1>1, <3>1 DEF OlderReading
    <3>. QED
      BY <3>1, <3>2, ReceiverFacts DEF IndInv, CauseInv
  <2>. QED
    BY <2>1
<1>4. v.pc = "mark" => c \in silent \cup raced'
  <2>1. TypeInv /\ CauseInv
    BY DEF IndInv
  <2>. QED
    BY <1>1, <1>2, <1>3, <2>1, ReceiverFacts, VerdictHasCause
<1>5. late[a] # 1
  BY <1>1, ReceiverFacts
<1>. HIDE DEF v, c, t
<1>6. /\ raced \subseteq raced' /\ isDamaged' \in [Constraints -> BOOLEAN]
      /\ \A d \in Constraints : isDamaged[d] => isDamaged'[d]
      /\ \A d \in Constraints : isDamaged'[d] => d \in silent \cup raced'
  BY <1>1, DamageFacts
<1>7. v.t <= now /\ (v.pc = "mark" => a.con \in silent \cup raced')
  BY <1>2, <1>4, DamageFacts DEF c
<1>. QED
  BY <1>1, <1>2, <1>5, <1>6, <1>7, CallbackOK

\* The callback of a broken constraint stores the damage.
LEMMA RecvMarkOK ==
    ASSUME IndInv, NEW a \in Adds, RecvMark(a)
    PROVE  IndInv'
<1> DEFINE v == [pc |-> "close", t |-> 0]
<1>1. /\ Adds' = Adds /\ add' = add /\ cb' = [cb EXCEPT ![a] = v] /\ cb[a].pc = "mark"
      /\ isDamaged' = [isDamaged EXCEPT ![a.con] = TRUE]
      /\ UNCHANGED <<now, conMap, lastUpdate, addTime, query, silent, raced, reported,
                     missed, late>>
  BY DEF RecvMark, Adds, history
<1>2. v \in Callback /\ v.pc = "close" /\ v.t = 0
  BY DEF Callback
<1>. HIDE DEF v
<1>3. /\ raced \subseteq raced' /\ isDamaged' \in [Constraints -> BOOLEAN]
      /\ \A d \in Constraints : isDamaged[d] => isDamaged'[d]
      /\ \A d \in Constraints : isDamaged'[d] => d \in silent \cup raced'
  BY <1>1, DamageFacts, ReceiverFacts
<1>4. v.t <= now
  BY <1>2, DamageFacts
<1>. QED
  BY <1>1, <1>2, <1>3, <1>4, CallbackOK

\* The callback reads the clock a second time.
LEMMA RecvStampOK ==
    ASSUME IndInv, NEW a \in Adds, RecvStamp(a)
    PROVE  IndInv'
<1> DEFINE v == [cb[a] EXCEPT !.pc = "update", !.t = now]
<1>1. /\ Adds' = Adds /\ add' = add /\ cb' = [cb EXCEPT ![a] = v] /\ cb[a].pc = "stamp"
      /\ UNCHANGED <<now, conMap, lastUpdate, isDamaged, addTime, query, silent, raced,
                     reported, missed, late>>
  BY DEF RecvStamp, Adds, history
<1>2. cb[a] \in Callback /\ now \in Nat /\ now <= now /\ now # 0 /\ late[a] # 1
  BY <1>1, ReceiverFacts, DamageFacts
<1>3. v \in Callback /\ v.pc = "update" /\ v.t = now
  BY <1>2 DEF Callback
<1>. HIDE DEF v
<1>. QED
  BY <1>1, <1>2, <1>3, QuietCallbackOK

-----------------------------------------------------------------------------
\* A time is stored: t, which is not later than the clock, for constraint c.  When it
\* is already too old, the earlier update was older still or a race is on record.
LEMMA StoredCause ==
    ASSUME TypeInv, CauseInv, NEW c \in Constraints, NEW t \in Nat \ {0}, t <= now,
           SetLastUpdate(c, t), UNCHANGED <<now, silent, query>>, Adds' = Adds,
           \A x \in Adds : cb'[x].pc \in {"check", "elapsed"} => cb'[x] = cb[x]
    PROVE  /\ lastUpdate' \in [Constraints -> Nat]
           /\ raced \subseteq raced'
           /\ \A d \in Constraints : lastUpdate'[d] <= now
           /\ \A d \in Constraints \ {c} : lastUpdate'[d] = lastUpdate[d]
           /\ \A d \in Constraints : lastUpdate'[d] # 0 =>
                 /\ now - lastUpdate'[d] > Timeout[d] => d \in silent \cup raced'
                 /\ OlderReading(d, lastUpdate[d])' => d \in raced'
<1>1. /\ lastUpdate' = [lastUpdate EXCEPT ![c] = t] /\ lastUpdate \in [Constraints -> Nat]
      /\ raced' = IF \/ t < lastUpdate[c] \/ OlderReading(c, t)
                     \/ lastUpdate[c] = 0 /\ now - t > Timeout[c]
                    THEN raced \cup {c} ELSE raced
      /\ \A d \in Constraints : lastUpdate[d] <= now
      /\ Timeout \in [Constraints -> Nat] /\ now \in Nat
  BY HeartbeatAssumption DEF SetLastUpdate, TypeInv
<1>2. lastUpdate' \in [Constraints -> Nat] /\ raced \subseteq raced'
  BY <1>1
<1>3. /\ \A d \in Constraints : lastUpdate'[d] <= now
      /\ \A d \in Constraints \ {c} : lastUpdate'[d] = lastUpdate[d]
  BY <1>1
<1>4. ASSUME NEW d \in Constraints, NEW u
      PROVE  OlderReading(d, u)' => OlderReading(d, u)
  <2>1. Queries' = Queries
    BY DEF Queries
  <2>2. ASSUME NEW u2, \E q \in Queries' : WillRead(query[q], d)' /\ query'[q].t < u2
        PROVE  \E q \in Queries : WillRead(query[q], d) /\ query[q].t < u2
    BY <2>1, <2>2 DEF WillRead
  <2>3. ASSUME NEW u2, \E x \in Adds' : /\ cb'[x].pc \in {"check", "elapsed"}
                                        /\ x.con = d /\ cb'[x].t < u2
        PROVE  \E x \in Adds : /\ cb[x].pc \in {"check", "elapsed"}
                               /\ x.con = d /\ cb[x].t < u2
    BY <2>3
  <2>. QED
    BY <2>2, <2>3 DEF OlderReading
<1>5. ASSUME NEW d \in Constraints, lastUpdate'[d] # 0
      PROVE  /\ now - lastUpdate'[d] > Timeout[d] => d \in silent \cup raced'
             /\ OlderReading(d, lastUpdate[d])' => d \in raced'
  <2>1. CASE d # c
    <3>1. lastUpdate'[d] = lastUpdate[d]
      BY <1>1, <2>1
    <3>. QED
      BY <1>2, <1>4, <1>5, <3>1 DEF CauseInv, OlderReading
  <2>2. CASE d = c
    <3>1. lastUpdate'[c] = t
      BY <1>1
    <3>2. ASSUME now - t > Timeout[c] PROVE c \in silent \cup raced'
      <4>1. CASE t < lastUpdate[c] \/ lastUpdate[c] = 0
        BY <1>1, <3>2, <4>1
      <4>2. CASE lastUpdate[c] # 0 /\ lastUpdate[c] <= t
        <5>1. now - lastUpdate[c] > Timeout[c]
          BY <1>1, <3>2, <4>2
        <5>. QED
          BY <1>2, <4>2, <5>1 DEF CauseInv
      <4>. QED
        BY <1>1, <4>1, <4>2
    <3>3. OlderReading(c, t)' => c \in raced'
      BY <1>1, <1>4
    <3>. QED
      BY <2>2, <3>1, <3>2, <3>3 DEF OlderReading
  <2>. QED
    BY <2>1, <2>2
<1>. QED
  BY <1>2, <1>3, <1>5

\* A step that stores a time, after which one callback at most is idle or waits.
LEMMA StoreOK ==
    ASSUME IndInv, NEW c \in Constraints, NEW t \in Nat \ {0}, t <= now,
           SetLastUpdate(c, t), Adds' = Adds,
           UNCHANGED <<now, conMap, isDamaged, query, silent, reported>>,
           addTime' \in [Adds -> Nat],
           \A x \in Adds : addTime'[x] <= now /\ (add'[x] = "init" => addTime'[x] # 0),
           cb' \in [Adds -> Callback],
           \A x \in Adds : cb'[x] = cb[x] \/ (cb'[x].pc \in {"idle", "waiting"} /\ cb'[x].t = 0),
           LateInv'
    PROVE  IndInv'
<1>1. /\ TypeInv /\ CauseInv /\ MemoryInv /\ ToldInv /\ Queries' = Queries
      /\ now \in Nat /\ 0 <= now
  BY DamageFacts DEF IndInv, Queries
<1>2. /\ lastUpdate' \in [Constraints -> Nat]
      /\ raced \subseteq raced'
      /\ \A d \in Constraints : lastUpdate'[d] <= now
      /\ \A d \in Constraints \ {c} : lastUpdate'[d] = lastUpdate[d]
      /\ \A d \in Constraints : lastUpdate'[d] # 0 =>
            /\ now - lastUpdate'[d] > Timeout[d] => d \in silent \cup raced'
            /\ OlderReading(d, lastUpdate[d])' => d \in raced'
  <2>1. \A x \in Adds : cb'[x].pc \in {"check", "elapsed"} => cb'[x] = cb[x]
    OBVIOUS
  <2>. QED
    BY <1>1, <2>1, StoredCause
<1>3. TypeInv'
  <2>1. \A x \in Adds : cb'[x].t <= now /\ (cb'[x].pc = "update" => cb'[x].t # 0)
    BY <1>1 DEF TypeInv
  <2>. QED
    BY <1>1, <1>2, <2>1 DEF TypeInv
<1>4. CauseInv'
  <2>1. \A x \in Adds : cb'[x].pc = "mark" => x.con \in silent' \cup raced'
    BY <1>1, <1>2 DEF CauseInv
  <2>2. DamageHasCause'
    BY <1>1, <1>2 DEF CauseInv, DamageHasCause
  <2>3. \A q \in Queries' : query'[q].pc = "mark" => query'[q].con \in silent' \cup raced'
    BY <1>1, <1>2 DEF CauseInv
  <2>. QED
    BY <1>2, <2>1, <2>2, <2>3 DEF CauseInv
<1>5. MemoryInv'
  BY <1>1 DEF MemoryInv
<1>6. ToldInv'
  <2>1. missed' = [q \in Queries |-> missed[q] \ {c}]
    BY DEF SetLastUpdate
  <2>2. ASSUME NEW q \in Queries, NEW d \in missed'[q]
        PROVE  \/ query'[q].pc = "mark" \/ query'[q].clean # "Normal"
               \/ Silent(d, query[q].t)' /\ WillRead(query[q], d)'
    <3>1. d \in missed[q] /\ d # c /\ d \in Constraints
      BY <1>1, <2>1, <2>2 DEF ToldInv
    <3>2. lastUpdate'[d] = lastUpdate[d]
      BY <1>2, <3>1
    <3>. QED
      BY <1>1, <3>1, <3>2 DEF ToldInv, Silent, WillRead
  <2>3. missed' \in [Queries -> SUBSET Constraints]
    BY <1>1, <2>1 DEF ToldInv
  <2>4. \A q \in Queries : query[q].pc \in {"idle", "list", "clock"} => missed'[q] = {}
    BY <1>1, <2>1 DEF ToldInv
  <2>. QED
    BY <1>1, <2>2, <2>3, <2>4 DEF ToldInv
<1>. QED
  BY <1>3, <1>4, <1>5, <1>6 DEF IndInv

\* AddRecv stores the time that it read.
LEMMA InitTimeOK ==
    ASSUME IndInv, NEW a \in Adds, InitTime(a)
    PROVE  IndInv'
<1> DEFINE c == a.con  t == addTime[a]
<1>1. /\ SetLastUpdate(c, t) /\ Adds' = Adds /\ add[a] = "init"
      /\ add' = [add EXCEPT ![a] = "wait"] /\ addTime' = [addTime EXCEPT ![a] = 0]
      /\ UNCHANGED <<now, conMap, isDamaged, cb, query, silent, reported, late>>
  BY DEF InitTime, Adds
<1>2. c \in Constraints /\ t \in Nat \ {0} /\ t <= now
  BY <1>1, ReceiverFacts
<1>. HIDE DEF c, t
<1>3. addTime \in [Adds -> Nat] /\ cb \in [Adds -> Callback] /\ LateInv /\ now \in Nat
  BY DEF IndInv, TypeInv
<1>4. /\ addTime' \in [Adds -> Nat] /\ addTime'[a] = 0 /\ add'[a] # "init"
      /\ \A x \in Adds \ {a} : addTime'[x] = addTime[x] /\ add'[x] = add[x]
  BY <1>1, <1>3 DEF Adds
<1>5. \A x \in Adds : addTime'[x] <= now /\ (add'[x] = "init" => addTime'[x] # 0)
  BY <1>3, <1>4, ReceiverFacts
<1>6. LateInv' /\ cb' \in [Adds -> Callback] /\ \A x \in Adds : cb'[x] = cb[x]
  BY <1>1, <1>3 DEF LateInv
<1>7. UNCHANGED <<now, conMap, isDamaged, query, silent, reported>>
  BY <1>1
<1>8. \A x \in Adds : cb'[x] = cb[x] \/ (cb'[x].pc \in {"idle", "waiting"} /\ cb'[x].t = 0)
  BY <1>6
<1>. QED
  BY <1>1, <1>2, <1>4, <1>5, <1>6, <1>7, <1>8, StoreOK

\* The callback stores the second time and the handler returns or throws.
LEMMA RecvUpdateOK ==
    ASSUME IndInv, NEW a \in Adds, NEW throws \in BOOLEAN, RecvUpdate(a, throws)
    PROVE  IndInv'
<1> DEFINE c == a.con  t == cb[a].t
           v == IF throws THEN Idle ELSE [Idle EXCEPT !.pc = "waiting"]
<1>1. /\ SetLastUpdate(c, t) /\ Adds' = Adds /\ cb[a].pc = "update" /\ add' = add
      /\ cb' = [cb EXCEPT ![a] = v]
      /\ late' = IF isDamaged[c] THEN [late EXCEPT ![a] = @ + 1] ELSE late
      /\ UNCHANGED <<now, conMap, isDamaged, addTime, query, silent, reported>>
  BY DEF RecvUpdate, Adds
<1>2. v \in Callback /\ v.pc \in {"idle", "waiting"} /\ v.t = 0
  BY DEF Callback, Idle
<1>3. c \in Constraints /\ t \in Nat \ {0} /\ t <= now /\ late[a] = 0
  BY <1>1, ReceiverFacts
<1>. HIDE DEF v, t
<1>4. addTime \in [Adds -> Nat] /\ cb \in [Adds -> Callback] /\ LateInv
  BY DEF IndInv, TypeInv
<1>5. cb' \in [Adds -> Callback] /\ cb'[a] = v /\ \A x \in Adds \ {a} : cb'[x] = cb[x]
  BY <1>1, <1>2, <1>4
<1>6. ASSUME NEW x \in Adds
      PROVE  cb'[x] = cb[x] \/ (cb'[x].pc \in {"idle", "waiting"} /\ cb'[x].t = 0)
  <2>1. CASE x = a
    BY <1>2, <1>5, <2>1
  <2>2. CASE x # a
    BY <1>5, <2>2
  <2>. QED
    BY <2>1, <2>2
<1>7. \A x \in Adds : addTime'[x] <= now /\ (add'[x] = "init" => addTime'[x] # 0)
  BY <1>1, ReceiverFacts
<1>8. LateInv'
  <2>1. /\ late' \in [Adds -> {0, 1}] /\ late'[a] = IF isDamaged[c] THEN 1 ELSE 0
        /\ \A x \in Adds \ {a} : late'[x] = late[x]
    <3>1. late \in [Adds -> {0, 1}]
      BY <1>4 DEF LateInv
    <3>. QED
      BY <1>1, <1>3, <3>1
  <2>. QED
    BY <1>1, <1>2, <1>4, <1>5, <2>1 DEF LateInv
<1>. QED
  BY <1>1, <1>3, <1>4, <1>5, <1>6, <1>7, <1>8, StoreOK

-----------------------------------------------------------------------------
\* A step that changes one query, to v, and may break a constraint for a cause.  What
\* v must satisfy is what the invariant says of a query.
LEMMA QueryOK ==
    ASSUME IndInv, NEW q \in Queries, NEW v \in StatusQuery, query' = [query EXCEPT ![q] = v],
           raced \subseteq raced',
           UNCHANGED <<now, conMap, lastUpdate, add, addTime, cb, silent, late>>,
           isDamaged' \in [Constraints -> BOOLEAN],
           \A c \in Constraints : isDamaged[c] => isDamaged'[c],
           \A c \in Constraints : isDamaged'[c] => c \in silent \cup raced',
           \A c \in reported' : c \in Constraints /\ isDamaged'[c],
           v.t <= now, v.pc \in {"elapsed", "mark"} => v.con # None,
           v.pc = "mark" => v.con \in silent \cup raced',
           \A c \in Constraints : WillRead(v, c) =>
             v.t = now \/ (WillRead(query[q], c) /\ query[q].t = v.t),
           v.pc \in {"idle", "list", "clock"} => v.con = None,
           v.pc \in {"idle", "list"} => ~v.known,
           v.pc \in {"check", "return"} /\ v.con # None => isDamaged'[v.con],
           v.pc = "check" /\ v.con # None => v.todo = {},
           v.known => \/ v.pc # "elapsed" /\ v.con # None
                      \/ /\ v.pc \in {"clock", "check", "elapsed"}
                         /\ \E c \in v.todo : isDamaged'[c],
           missed' \in [Queries -> SUBSET Constraints],
           \A x \in Queries \ {q} : missed'[x] = missed[x],
           v.pc \in {"idle", "list", "clock"} => missed'[q] = {},
           \A c \in missed'[q] : \/ v.pc = "mark" \/ v.clean # "Normal"
                                 \/ Silent(c, v.t) /\ WillRead(v, c)
    PROVE  IndInv'
<1>1. /\ TypeInv /\ CauseInv /\ MemoryInv /\ LateInv /\ ToldInv /\ Adds' = Adds
      /\ query \in [Queries -> StatusQuery]
  BY DEF IndInv, TypeInv, Adds
<1>2. /\ Queries' = Queries /\ query' \in [Queries -> StatusQuery]
      /\ query'[q] = v /\ \A x \in Queries \ {q} : query'[x] = query[x]
  BY <1>1 DEF Queries
<1>3. TypeInv'
  BY <1>1, <1>2 DEF TypeInv
<1>4. CauseInv'
  <2>1. DamageHasCause'
    BY DEF DamageHasCause
  <2>2. \A x \in Adds : cb'[x].pc = "mark" => x.con \in silent' \cup raced'
    BY <1>1 DEF CauseInv
  <2>3. \A x \in Queries' : query'[x].pc = "mark" => query'[x].con \in silent' \cup raced'
    BY <1>1, <1>2 DEF CauseInv
  <2>4. ASSUME NEW c \in Constraints, lastUpdate'[c] # 0
        PROVE  /\ now' - lastUpdate'[c] > Timeout[c] => c \in silent' \cup raced'
               /\ OlderReading(c, lastUpdate[c])' => c \in raced'
    <3>1. lastUpdate[c] # 0 /\ lastUpdate[c] \in Nat /\ lastUpdate[c] <= now /\ now \in Nat
      BY <1>1, <2>4 DEF TypeInv
    <3>2. OlderReading(c, lastUpdate[c])' => OlderReading(c, lastUpdate[c])
      <4>1. WillRead(v, c) /\ v.t < lastUpdate[c] =>
              WillRead(query[q], c) /\ query[q].t < lastUpdate[c]
        BY <3>1
      <4>2. \A x \in Queries : WillRead(query[x], c)' <=> WillRead(query'[x], c)
        BY DEF WillRead
      <4>3. ASSUME NEW x \in Queries, WillRead(query'[x], c), query'[x].t < lastUpdate[c]
            PROVE  WillRead(query[x], c) /\ query[x].t < lastUpdate[c]
        BY <1>2, <4>1, <4>3
      <4>. QED
        BY <1>1, <1>2, <4>2, <4>3 DEF OlderReading
    <3>. QED
      BY <1>1, <3>1, <3>2 DEF CauseInv
  <2>. QED
    BY <1>1, <2>1, <2>2, <2>3, <2>4 DEF CauseInv
<1>5. MemoryInv'
  <2>1. ASSUME NEW x \in Queries'
        PROVE  /\ query'[x].pc \in {"idle", "list", "clock"} => query'[x].con = None
               /\ query'[x].pc \in {"idle", "list"} => ~query'[x].known
               /\ query'[x].pc \in {"check", "return"} /\ query'[x].con # None =>
                     isDamaged'[query'[x].con]
               /\ query'[x].pc = "check" /\ query'[x].con # None => query'[x].todo = {}
               /\ query'[x].known =>
                     \/ query'[x].pc # "elapsed" /\ query'[x].con # None
                     \/ /\ query'[x].pc \in {"clock", "check", "elapsed"}
                        /\ \E c \in query'[x].todo : isDamaged'[c]
    <3>1. CASE x = q
      BY <1>2, <3>1
    <3>2. CASE x # q
      BY <1>1, <1>2, <3>2, DamageGrows DEF MemoryInv
    <3>. QED
      BY <3>1, <3>2
  <2>. QED
    BY <2>1 DEF MemoryInv
<1>6. LateInv'
  <2>1. \A x \in Adds : x.con \in Constraints
    BY ReceiverFacts
  <2>. QED
    BY <1>1, <2>1 DEF LateInv
<1>7. ToldInv'
  <2>1. ASSUME NEW x \in Queries
        PROVE  /\ query'[x].pc \in {"idle", "list", "clock"} => missed'[x] = {}
               /\ \A c \in missed'[x] :
                     \/ query'[x].pc = "mark" \/ query'[x].clean # "Normal"
                     \/ Silent(c, query'[x].t) /\ WillRead(query'[x], c)
    <3>1. CASE x = q
      BY <1>2, <3>1
    <3>2. CASE x # q
      BY <1>1, <1>2, <3>2 DEF ToldInv
    <3>. QED
      BY <3>1, <3>2
  <2>2. \A x \in Queries, c \in Constraints :
          /\ WillRead(query[x], c)' <=> WillRead(query'[x], c)
          /\ Silent(c, query[x].t)' <=> Silent(c, query'[x].t)
    BY DEF WillRead, Silent
  <2>3. \A x \in Queries : missed'[x] \subseteq Constraints
    OBVIOUS
  <2>4. \A x \in Queries : \A c \in missed'[x] :
          \/ query'[x].pc = "mark" \/ query'[x].clean # "Normal"
          \/ Silent(c, query[x].t)' /\ WillRead(query[x], c)'
    BY <2>1, <2>2, <2>3
  <2>. QED
    BY <1>2, <2>1, <2>4 DEF ToldInv
<1>. QED
  BY <1>3, <1>4, <1>5, <1>6, <1>7 DEF IndInv

\* A query's step that breaks and reports nothing.
LEMMA QuietQueryOK ==
    ASSUME IndInv, NEW q \in Queries, NEW v \in StatusQuery, query' = [query EXCEPT ![q] = v],
           UNCHANGED <<now, conMap, isDamaged, lastUpdate, add, addTime, cb, silent, raced,
                       reported, late>>,
           v.t <= now, v.pc \in {"elapsed", "mark"} => v.con # None,
           v.pc = "mark" => v.con \in silent \cup raced,
           \A c \in Constraints : WillRead(v, c) =>
             v.t = now \/ (WillRead(query[q], c) /\ query[q].t = v.t),
           v.pc \in {"idle", "list", "clock"} => v.con = None,
           v.pc \in {"idle", "list"} => ~v.known,
           v.pc \in {"check", "return"} /\ v.con # None => isDamaged[v.con],
           v.pc = "check" /\ v.con # None => v.todo = {},
           v.known => \/ v.pc # "elapsed" /\ v.con # None
                      \/ /\ v.pc \in {"clock", "check", "elapsed"}
                         /\ \E c \in v.todo : isDamaged[c],
           missed' \in [Queries -> SUBSET Constraints],
           \A x \in Queries \ {q} : missed'[x] = missed[x],
           v.pc \in {"idle", "list", "clock"} => missed'[q] = {},
           \A c \in missed'[q] : \/ v.pc = "mark" \/ v.clean # "Normal"
                                 \/ Silent(c, v.t) /\ WillRead(v, c)
    PROVE  IndInv'
<1>1. /\ raced \subseteq raced' /\ isDamaged' \in [Constraints -> BOOLEAN]
      /\ \A c \in Constraints : isDamaged[c] => isDamaged'[c]
      /\ \A c \in Constraints : isDamaged'[c] => c \in silent \cup raced'
      /\ \A c \in reported' : c \in Constraints /\ isDamaged'[c]
  BY DamageFacts
<1>. QED
  BY <1>1, QueryOK

\* A query begins.
LEMMA GetStatusOK ==
    ASSUME IndInv, NEW q \in Queries, GetStatus(q)
    PROVE  IndInv'
<1> DEFINE v == [query[q] EXCEPT !.pc = "list"]
<1>1. /\ query' = [query EXCEPT ![q] = v] /\ query[q].pc = "idle"
      /\ UNCHANGED <<now, conMap, isDamaged, lastUpdate, add, addTime, cb, silent, raced,
                     reported, missed, late>>
  BY DEF GetStatus, history
<1>2. /\ v \in StatusQuery /\ v.pc = "list" /\ v.t = query[q].t /\ v.con = query[q].con
      /\ v.known = query[q].known
  BY QueryFacts DEF StatusQuery
<1>3. \A c \in Constraints : ~WillRead(v, c)
  BY <1>2 DEF WillRead
<1>4. missed'[q] = {} /\ missed' \in [Queries -> SUBSET Constraints]
  BY <1>1, QueryFacts
<1>. HIDE DEF v
<1>. QED
  BY <1>1, <1>2, <1>3, <1>4, QueryFacts, QuietQueryOK

\* It lists the constraints.
LEMMA ListConstraintsOK ==
    ASSUME IndInv, NEW q \in Queries, ListConstraints(q)
    PROVE  IndInv'
<1> DEFINE k == (reported \cap conMap # {})
           v == [query[q] EXCEPT !.pc = "clock", !.todo = conMap, !.known = k]
<1>1. /\ query' = [query EXCEPT ![q] = v] /\ query[q].pc = "list"
      /\ UNCHANGED <<now, conMap, isDamaged, lastUpdate, add, addTime, cb, silent, raced,
                     reported, missed, late>>
  BY DEF ListConstraints, history
<1>2. /\ v \in StatusQuery /\ v.pc = "clock" /\ v.t = query[q].t /\ v.con = query[q].con
      /\ v.known = k /\ v.todo = conMap
  BY QueryFacts, DamageFacts DEF StatusQuery
<1>3. \A c \in Constraints : ~WillRead(v, c)
  BY <1>2 DEF WillRead
<1>4. k => \E c \in conMap : isDamaged[c]
  BY DamageFacts
<1>5. missed'[q] = {} /\ missed' \in [Queries -> SUBSET Constraints]
  BY <1>1, QueryFacts
<1>. HIDE DEF v, k
<1>. QED
  BY <1>1, <1>2, <1>3, <1>4, <1>5, QueryFacts, QuietQueryOK

\* It reads the clock, and what it has missed so far is still to be checked.
LEMMA ReadClockOK ==
    ASSUME IndInv, NEW q \in Queries, ReadClock(q)
    PROVE  IndInv'
<1> DEFINE v == [query[q] EXCEPT !.pc = "check", !.t = now]
<1>1. /\ query' = [query EXCEPT ![q] = v] /\ query[q].pc = "clock"
      /\ missed' = [missed EXCEPT ![q] = {c \in query[q].todo : Silent(c, now)}]
      /\ UNCHANGED <<now, conMap, isDamaged, lastUpdate, add, addTime, cb, silent, raced,
                     reported, late>>
  BY DEF ReadClock
<1>2. query[q] \in StatusQuery /\ now \in Nat /\ now <= now /\ query[q].con = None
  BY <1>1, QueryFacts, DamageFacts
<1>3. /\ v \in StatusQuery /\ v.pc = "check" /\ v.t = now /\ v.con = query[q].con
      /\ v.known = query[q].known /\ v.todo = query[q].todo
  BY <1>2 DEF StatusQuery
<1>4. v.t <= now /\ v.con = None
  BY <1>2, <1>3
<1>. HIDE DEF v
<1>5. /\ missed' \in [Queries -> SUBSET Constraints]
      /\ \A x \in Queries \ {q} : missed'[x] = missed[x]
      /\ \A c \in missed'[q] : c \in query[q].todo /\ Silent(c, now)
  BY <1>1, QueryFacts
<1>6. \A c \in missed'[q] : Silent(c, v.t) /\ WillRead(v, c)
  BY <1>3, <1>5 DEF WillRead
<1>7. v.known => \E c \in v.todo : isDamaged[c]
  BY <1>1, <1>2, <1>3, QueryFacts
<1>8. /\ v.pc \notin {"elapsed", "mark", "idle", "list", "clock"}
      /\ \A c \in Constraints : WillRead(v, c) =>
            v.t = now \/ (WillRead(query[q], c) /\ query[q].t = v.t)
      /\ v.known => \/ v.pc # "elapsed" /\ v.con # None
                    \/ /\ v.pc \in {"clock", "check", "elapsed"}
                       /\ \E c \in v.todo : isDamaged[c]
  BY <1>3, <1>7
<1>. QED
  BY <1>1, <1>3, <1>4, <1>5, <1>6, <1>8, QuietQueryOK

\* It reads the flag of the next constraint.
LEMMA QueryFlagOK ==
    ASSUME IndInv, NEW q \in Queries, NEW c \in Constraints, QueryFlag(q, c)
    PROVE  IndInv'
<1> DEFINE p == AfterFlag(c)
           v == [query[q] EXCEPT !.todo = @ \ {c}, !.con = c, !.pc = p]
<1>1. /\ query' = [query EXCEPT ![q] = v] /\ query[q].pc = "check" /\ c \in query[q].todo
      /\ UNCHANGED <<now, conMap, isDamaged, lastUpdate, add, addTime, cb, silent, raced,
                     reported, missed, late>>
  BY DEF QueryFlag, history
<1>2. p = (IF isDamaged[c] THEN "mark" ELSE "elapsed")
  BY DEF AfterFlag
<1>. HIDE DEF p
<1>3. /\ v \in StatusQuery /\ v.pc = p /\ v.t = query[q].t /\ v.con = c
      /\ v.known = query[q].known /\ v.todo = query[q].todo \ {c} /\ v.clean = query[q].clean
  BY <1>2, QueryFacts DEF StatusQuery
<1>. HIDE DEF v
<1>4. c # None /\ query[q].con = None /\ (p = "mark" => c \in silent \cup raced)
  BY <1>1, <1>2, QueryFacts, DamageFacts, HeartbeatAssumption
<1>5. \A d \in Constraints : WillRead(v, d) => WillRead(query[q], d)
  BY <1>1, <1>2, <1>3 DEF WillRead
<1>6. v.known => p = "mark" \/ \E d \in v.todo : isDamaged[d]
  BY <1>1, <1>2, <1>3, <1>4, QueryFacts
<1>7. \A d \in missed[q] : \/ p = "mark" \/ v.clean # "Normal"
                           \/ Silent(d, v.t) /\ WillRead(v, d)
  BY <1>1, <1>2, <1>3, QueryFacts DEF WillRead
<1>8. missed' \in [Queries -> SUBSET Constraints] /\ missed' = missed
  BY <1>1, QueryFacts
<1>. QED
  BY <1>1, <1>2, <1>3, <1>4, <1>5, <1>6, <1>7, <1>8, QueryFacts, QuietQueryOK

\* It compares that constraint's last update with the time it read.
LEMMA QueryElapsedOK ==
    ASSUME IndInv, NEW q \in Queries, QueryElapsed(q)
    PROVE  IndInv'
<1> DEFINE c == query[q].con  t == query[q].t  d == Verdict(c, t)
           v == [query[q] EXCEPT !.clean = NextClean(@, d),
                   !.con = IF d = "Damaged" THEN c ELSE None,
                   !.pc = IF d = "Damaged" THEN "mark" ELSE "check"]
<1>1. /\ query' = [query EXCEPT ![q] = v] /\ query[q].pc = "elapsed"
      /\ raced' = IF lastUpdate[c] = 0 THEN raced \cup {c} ELSE raced
      /\ UNCHANGED <<now, conMap, isDamaged, lastUpdate, add, addTime, cb, silent,
                     reported, missed, late>>
  BY DEF QueryElapsed, NoteUnset
<1>2. c \in Constraints /\ c # None /\ TypeInv /\ CauseInv
  BY <1>1, QueryFacts DEF IndInv
<1>3. d \in {"Normal", "Suspended", "Damaged"}
  BY <1>2, HeartbeatAssumption DEF Verdict
<1>4. lastUpdate[c] > t => c \in raced
  <2>1. ASSUME lastUpdate[c] > t PROVE c \in raced
    <3>1. lastUpdate[c] # 0 /\ t < lastUpdate[c]
      BY <1>2, <2>1, QueryFacts DEF TypeInv
    <3>2. OlderReading(c, lastUpdate[c])
      BY <1>1, <3>1 DEF OlderReading, WillRead
    <3>. QED
      BY <1>2, <3>1, <3>2 DEF CauseInv
  <2>. QED
    BY <2>1
<1>5. d = "Damaged" => c \in silent \cup raced'
  BY <1>1, <1>2, <1>4, QueryFacts, VerdictHasCause
<1>6. Silent(c, t) => d # "Normal"
  BY <1>2, QueryFacts, VerdictOfSilent
<1>. HIDE DEF d
<1>7. /\ v \in StatusQuery /\ v.todo = query[q].todo /\ v.t = t
      /\ v.con = (IF d = "Damaged" THEN c ELSE None)
      /\ v.pc = (IF d = "Damaged" THEN "mark" ELSE "check") /\ v.known = query[q].known
      /\ v.clean = IF d = "Normal" THEN query[q].clean ELSE d
  BY <1>2, <1>3, QueryFacts DEF StatusQuery, NextClean
<1>. HIDE DEF v
<1>8. /\ raced \subseteq raced' /\ isDamaged' \in [Constraints -> BOOLEAN]
      /\ \A x \in Constraints : isDamaged[x] => isDamaged'[x]
      /\ \A x \in Constraints : isDamaged'[x] => x \in silent \cup raced'
      /\ \A x \in reported' : x \in Constraints /\ isDamaged'[x]
  BY <1>1, DamageFacts
<1>9. \A x \in Constraints : WillRead(v, x) => WillRead(query[q], x)
  BY <1>1, <1>7 DEF WillRead
<1>10. v.known => \/ v.pc # "elapsed" /\ v.con # None
                  \/ v.pc = "check" /\ \E x \in v.todo : isDamaged'[x]
  BY <1>1, <1>2, <1>7, QueryFacts
<1>11. \A x \in missed[q] : \/ v.pc = "mark" \/ v.clean # "Normal"
                            \/ Silent(x, v.t) /\ WillRead(v, x)
  <2>1. ASSUME NEW x \in missed[q], v.pc # "mark", v.clean = "Normal"
        PROVE  Silent(x, v.t) /\ WillRead(v, x)
    <3>1. d = "Normal" /\ query[q].clean = "Normal" /\ v.pc = "check"
      BY <1>7, <2>1
    <3>2. Silent(x, t) /\ WillRead(query[q], x)
      BY <1>1, <2>1, <3>1, QueryFacts
    <3>3. x # c
      BY <1>6, <3>1, <3>2
    <3>. QED
      BY <1>1, <1>7, <3>1, <3>2, <3>3 DEF WillRead
  <2>. QED
    BY <2>1
<1>12. missed' \in [Queries -> SUBSET Constraints] /\ missed' = missed
  BY <1>1, QueryFacts
<1>13. /\ v.t <= now /\ v.pc \in {"mark", "check"} /\ (v.pc = "mark" => v.con = c /\ d = "Damaged")
       /\ v.pc = "check" => v.con = None
  BY <1>7, QueryFacts
<1>. QED
  BY <1>1, <1>2, <1>5, <1>7, <1>8, <1>9, <1>10, <1>11, <1>12, <1>13, QueryOK

\* A query marks the constraint that it found damaged.
LEMMA QueryMarkOK ==
    ASSUME IndInv, NEW q \in Queries, QueryMark(q)
    PROVE  IndInv'
<1> DEFINE c == query[q].con
           v == [query[q] EXCEPT !.pc = "check", !.todo = {}, !.clean = "Damaged"]
<1>1. /\ query[q].pc = "mark" /\ query' = [query EXCEPT ![q] = v]
      /\ isDamaged' = [isDamaged EXCEPT ![c] = TRUE]
      /\ UNCHANGED <<now, conMap, lastUpdate, add, addTime, cb, silent, raced, reported,
                     missed, late>>
  BY DEF QueryMark, history
<1>2. c \in Constraints /\ c # None /\ c \in silent \cup raced
  BY <1>1, QueryFacts
<1>3. /\ v \in StatusQuery /\ v.pc = "check" /\ v.todo = {} /\ v.con = c
      /\ v.t = query[q].t /\ v.known = query[q].known /\ v.clean = "Damaged"
  BY QueryFacts DEF StatusQuery
<1>. HIDE DEF v, c
<1>4. /\ isDamaged' \in [Constraints -> BOOLEAN] /\ isDamaged'[c]
      /\ \A x \in Constraints : isDamaged[x] => isDamaged'[x]
      /\ \A x \in Constraints : isDamaged'[x] => isDamaged[x] \/ x = c
  BY <1>1, <1>2, DamageFacts
<1>5. /\ \A x \in Constraints : isDamaged'[x] => x \in silent \cup raced'
      /\ \A x \in reported' : x \in Constraints /\ isDamaged'[x]
  BY <1>1, <1>2, <1>4, DamageFacts
<1>6. \A x \in Constraints : ~WillRead(v, x)
  BY <1>3 DEF WillRead
<1>7. missed' \in [Queries -> SUBSET Constraints] /\ missed' = missed
  BY <1>1, QueryFacts
<1>. QED
  BY <1>1, <1>2, <1>3, <1>4, <1>5, <1>6, <1>7, QueryFacts, QueryOK

\* A query stores the status it found.
LEMMA QueryStoreOK ==
    ASSUME IndInv, NEW q \in Queries, QueryStore(q)
    PROVE  IndInv'
<1> DEFINE c == query[q].con  v == [query[q] EXCEPT !.pc = "return", !.t = 0]
<1>1. /\ query[q].pc = "check" /\ query[q].todo = {} /\ query' = [query EXCEPT ![q] = v]
      /\ reported' = IF c = None THEN reported ELSE reported \cup {c}
      /\ UNCHANGED <<now, conMap, isDamaged, lastUpdate, add, addTime, cb, silent, raced,
                     missed, late>>
  BY DEF QueryStore
<1>2. c # None => c \in Constraints /\ isDamaged[c]
  BY <1>1, QueryFacts
<1>3. /\ v \in StatusQuery /\ v.pc = "return" /\ v.con = c /\ v.t = 0
      /\ v.known = query[q].known /\ v.clean = query[q].clean
  BY QueryFacts DEF StatusQuery
<1>4. query[q].known => c # None
  BY <1>1, QueryFacts
<1>5. \A x \in missed[q] : query[q].clean # "Normal"
  BY <1>1, QueryFacts DEF WillRead
<1>6. \A x \in Constraints : ~WillRead(v, x)
  BY <1>3 DEF WillRead
<1>. HIDE DEF v, c
<1>7. 0 <= now /\ \A x \in reported' : x \in Constraints /\ isDamaged'[x]
  BY <1>1, <1>2, DamageFacts
<1>8. missed' \in [Queries -> SUBSET Constraints] /\ missed' = missed
  BY <1>1, QueryFacts
<1>. QED
  BY <1>1, <1>2, <1>3, <1>4, <1>5, <1>6, <1>7, <1>8, DamageFacts, QueryOK

\* A query returns its answer.
LEMMA QueryReturnOK ==
    ASSUME IndInv, NEW q \in Queries, QueryReturn(q)
    PROVE  IndInv'
<1>1. /\ query' = [query EXCEPT ![q] = Resting] /\ missed' = [missed EXCEPT ![q] = {}]
      /\ UNCHANGED <<now, conMap, isDamaged, lastUpdate, add, addTime, cb, silent, raced,
                     reported, late>>
  BY DEF QueryReturn
<1>2. /\ Resting \in StatusQuery /\ Resting.pc = "idle" /\ Resting.con = None
      /\ Resting.t = 0 /\ ~Resting.known
  BY DEF Resting, StatusQuery
<1>3. 0 <= now /\ \A x \in Constraints : ~WillRead(Resting, x)
  BY <1>2, DamageFacts DEF WillRead
<1>4. /\ missed' \in [Queries -> SUBSET Constraints] /\ missed'[q] = {}
      /\ \A x \in Queries \ {q} : missed'[x] = missed[x]
  BY <1>1, QueryFacts
<1>. QED
  BY <1>1, <1>2, <1>3, <1>4, QuietQueryOK

-----------------------------------------------------------------------------
\* The steps of AddRecv and RemoveRecv.
LEMMA ReceiverOK ==
    ASSUME IndInv, NEW a \in Adds, Receiver(a)
    PROVE  IndInv'
<1>1. /\ a.con \in Constraints /\ conMap \subseteq Constraints /\ addTime \in [Adds -> Nat]
      /\ now \in Nat \ {0} /\ now <= now
  BY ReceiverFacts, DamageFacts DEF IndInv, TypeInv
<1>2. CASE AddConstraint(a) \/ AddSocket(a) \/ RemoveConstraint(a) \/ RemoveSocket(a)
  <2>1. /\ conMap' \subseteq Constraints /\ Adds' = Adds /\ addTime' = addTime
        /\ \A x \in Adds : add'[x] = "init" => add[x] = "init"
    BY <1>1, <1>2 DEF AddConstraint, AddSocket, RemoveConstraint, RemoveSocket, Adds
  <2>2. UNCHANGED <<now, lastUpdate, isDamaged, cb, query, silent, raced, reported, missed,
                    late>>
    BY <1>2 DEF AddConstraint, AddSocket, RemoveConstraint, RemoveSocket, history
  <2>3. \A x \in Adds : addTime'[x] <= now /\ (add'[x] = "init" => addTime'[x] # 0)
    BY <2>1, ReceiverFacts
  <2>. QED
    BY <1>1, <2>1, <2>2, <2>3, MapsOK
<1>3. CASE InitClock(a)
  <2>1. /\ Adds' = Adds /\ addTime' = [addTime EXCEPT ![a] = now]
        /\ add' = [add EXCEPT ![a] = "init"]
        /\ UNCHANGED <<now, conMap, lastUpdate, isDamaged, cb, query, silent, raced,
                       reported, missed, late>>
    BY <1>3 DEF InitClock, Adds, history
  <2>2. /\ addTime' \in [Adds -> Nat] /\ addTime'[a] = now
        /\ \A x \in Adds \ {a} : addTime'[x] = addTime[x] /\ add'[x] = add[x]
    BY <1>1, <2>1 DEF Adds
  <2>3. \A x \in Adds : addTime'[x] <= now /\ (add'[x] = "init" => addTime'[x] # 0)
    BY <1>1, <2>2, ReceiverFacts
  <2>. QED
    BY <1>1, <2>1, <2>2, <2>3, MapsOK
<1>. QED
  BY <1>2, <1>3, InitTimeOK, StartWaitingOK DEF Receiver

\* Every step keeps the invariant.
LEMMA NextOK ==
    ASSUME IndInv, [Next]_vars
    PROVE  IndInv'
<1>1. CASE UNCHANGED vars
  <2>1. /\ UNCHANGED <<conMap, add, addTime, now, lastUpdate, isDamaged, cb, query, silent,
                       raced, reported, missed, late>>
        /\ Adds' = Adds
    BY <1>1 DEF vars, history, Adds
  <2>2. addTime' \in [Adds -> Nat]
    BY <2>1 DEF IndInv, TypeInv
  <2>. QED
    BY <2>1, <2>2, MapsOK, DamageFacts, ReceiverFacts
<1>2. ASSUME NEW a \in Adds, Recv(a)
      PROVE  IndInv'
  BY <1>2, RecvFailsOK, RecvHeartbeatOK, RecvFlagOK, RecvElapsedOK, RecvMarkOK, RecvStampOK,
     RecvUpdateOK DEF Recv
<1>3. ASSUME NEW q \in Queries, Query(q)
      PROVE  IndInv'
  BY <1>3, GetStatusOK, ListConstraintsOK, ReadClockOK, QueryFlagOK, QueryElapsedOK,
     QueryMarkOK, QueryStoreOK, QueryReturnOK DEF Query
<1>. QED
  BY <1>1, <1>2, <1>3, TickOK, ReceiverOK DEF Next

\* The constraints, the callbacks of the receivers and the queries always agree,
\* whatever the interleaving of their accesses.
THEOREM AlwaysIndInv == Spec => []IndInv
<1>1. Init => IndInv
  BY InitOK
<1>2. IndInv /\ [Next]_vars => IndInv'
  BY NextOK
<1>. QED
  BY <1>1, <1>2, PTL DEF Spec

\* No constraint breaks without its heartbeats having stayed out for longer than the
\* timeout, or one of the four races having met a check.
THEOREM DamageAlwaysHasCause == Spec => []DamageHasCause
<1>1. IndInv => DamageHasCause
  BY DEF IndInv, CauseInv
<1>. QED
  BY <1>1, AlwaysIndInv, PTL

\* A query that lists a constraint for which Damaged was answered before answers
\* Damaged, whatever other queries have written to m_status.
THEOREM DamageAlwaysRemembered == Spec => []DamageRemembered
<1>1. IndInv => DamageRemembered
  BY DEF IndInv, MemoryInv, DamageRemembered, Answer
<1>. QED
  BY <1>1, AlwaysIndInv, PTL

\* A receiver of a broken constraint handles at most one more heartbeat.
THEOREM DamagedAlwaysStops == Spec => []DamagedStopsListening
<1>1. IndInv => DamagedStopsListening
  BY DEF IndInv, LateInv, DamagedStopsListening
<1>. QED
  BY <1>1, AlwaysIndInv, PTL

\* A query that finds a listed constraint silent when it reads the clock does not
\* store Normal, unless a heartbeat of that constraint comes before it is done.
THEOREM SilenceAlwaysTold == Spec => []SilenceTold
<1>1. IndInv => SilenceTold
  BY DEF IndInv, ToldInv, SilenceTold, WillRead
<1>. QED
  BY <1>1, AlwaysIndInv, PTL
=============================================================================
