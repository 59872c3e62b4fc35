--------------------------- MODULE ThreadPoolProofs ---------------------------
(***************************************************************************)
(* The thread pool's invariants for every pool size and every set of tasks. *)
(* The argument: AddTask's thread between the two mutexes owns the pending  *)
(* list, so the task it hands over is still there; a task moves from one of *)
(* five disjoint places to the next, and the place tells whether it ran;    *)
(* a new pending task comes with a thread about to notify, and that with a  *)
(* runner that leaves its sleep; one about to sleep keeps the list empty.   *)
(***************************************************************************)
EXTENDS ThreadPool, SequenceTheorems, FiniteSetTheorems, TLAPS

\* Runner r is in state v now, and the others are as they were.
Becomes(r, v) ==
    /\ runner' \in Seq(RunnerState) /\ Len(runner') = Len(runner)
    /\ runner'[r] = v
    /\ \A q \in Runners \ {r} : runner'[q] = runner[q]

\* The runners keep their tasks, and none has moved but by leaving its sleep.
Wakes ==
    /\ runner' \in Seq(RunnerState) /\ Len(runner') = Len(runner)
    /\ \A q \in Runners :
          /\ runner'[q].task = runner[q].task
          /\ \/ runner'[q].pc = runner[q].pc
             \/ runner[q].pc = "asleep" /\ runner'[q].pc = "fetch"

-----------------------------------------------------------------------------
\* A task that is new to an injective sequence can be appended to it.
LEMMA AppendPlaces ==
    ASSUME NEW S, NEW s \in Seq(S), NEW t \in S, IsInjective(s), t \notin Range(s)
    PROVE  /\ Append(s, t) \in Seq(S) /\ IsInjective(Append(s, t))
           /\ Range(Append(s, t)) = Range(s) \cup {t}
<1> DEFINE n == Len(s)  a == Append(s, t)
<1>1. /\ n \in Nat /\ DOMAIN s = 1..n /\ a \in Seq(S) /\ DOMAIN a = 1..(n + 1)
      /\ a[n + 1] = t /\ \A i \in 1..n : a[i] = s[i]
  BY AppendProperties, LenProperties
<1>. HIDE DEF n, a
<1>2. IsInjective(a)
  <2>1. \A i \in 1..n : a[i] # t
    BY <1>1 DEF Range
  <2>2. \A i \in 1..(n + 1) : i \in 1..n \/ i = n + 1
    BY <1>1
  <2>. QED
    BY <1>1, <2>1, <2>2 DEF IsInjective
<1>3. Range(a) = Range(s) \cup {t}
  <2>1. \A i \in 1..(n + 1) : i \in 1..n \/ i = n + 1
    BY <1>1
  <2>2. 1..n \subseteq 1..(n + 1) /\ n + 1 \in 1..(n + 1)
    BY <1>1
  <2>. QED
    BY <1>1, <2>1, <2>2 DEF Range
<1>. QED
  BY <1>1, <1>2, <1>3 DEF a

\* The first task of an injective sequence is gone when it is taken off.
LEMMA TailPlaces ==
    ASSUME NEW S, NEW s \in Seq(S), s # <<>>, IsInjective(s)
    PROVE  /\ Head(s) \in S /\ Head(s) \in Range(s)
           /\ Tail(s) \in Seq(S) /\ IsInjective(Tail(s)) /\ Len(Tail(s)) = Len(s) - 1
           /\ Range(Tail(s)) = Range(s) \ {Head(s)}
<1> DEFINE n == Len(s)  a == Tail(s)
<1>1. /\ n \in Nat /\ n >= 1 /\ DOMAIN s = 1..n /\ a \in Seq(S) /\ Len(a) = n - 1
      /\ DOMAIN a = 1..(n - 1) /\ Head(s) = s[1] /\ \A i \in 1..(n - 1) : a[i] = s[i + 1]
  BY HeadTailProperties, LenProperties, EmptySeq
<1>. HIDE DEF n, a
<1>2. Head(s) \in S /\ Head(s) \in Range(s)
  BY <1>1, ElementOfSeq DEF Range, n
<1>3. IsInjective(a)
  <2>1. SUFFICES ASSUME NEW i \in 1..(n - 1), NEW j \in 1..(n - 1), a[i] = a[j]
                 PROVE  i = j
    BY <1>1 DEF IsInjective
  <2>2. i + 1 \in 1..n /\ j + 1 \in 1..n /\ s[i + 1] = s[j + 1]
    BY <1>1, <2>1
  <2>3. i + 1 = j + 1
    BY <1>1, <2>2 DEF IsInjective
  <2>. QED
    BY <2>3
<1>4. Range(a) = Range(s) \ {Head(s)}
  <2>1. ASSUME NEW x \in Range(a)
        PROVE  x \in Range(s) \ {Head(s)}
    <3>1. PICK i \in 1..(n - 1) : x = a[i]
      BY <1>1 DEF Range
    <3>2. i + 1 \in 1..n /\ i + 1 # 1 /\ 1 \in 1..n /\ x = s[i + 1]
      BY <1>1, <3>1
    <3>3. s[i + 1] # s[1]
      BY <1>1, <3>2 DEF IsInjective
    <3>. QED
      BY <1>1, <3>2, <3>3 DEF Range
  <2>2. ASSUME NEW x \in Range(s) \ {Head(s)}
        PROVE  x \in Range(a)
    <3>1. PICK j \in 1..n : x = s[j]
      BY <1>1 DEF Range
    <3>2. j # 1
      BY <1>1, <3>1
    <3>3. j - 1 \in 1..(n - 1) /\ (j - 1) + 1 = j
      BY <1>1, <3>2
    <3>4. a[j - 1] = x
      BY <1>1, <3>1, <3>3
    <3>. QED
      BY <1>1, <3>3, <3>4 DEF Range
  <2>. QED
    BY <2>1, <2>2
<1>. QED
  BY <1>1, <1>2, <1>3, <1>4 DEF n, a

-----------------------------------------------------------------------------
\* An assignment to one runner.
LEMMA Assigned ==
    ASSUME TypeInv, NEW r \in Runners, NEW v \in RunnerState, runner' = [runner EXCEPT ![r] = v]
    PROVE  Becomes(r, v)
  BY ExceptSeq DEF TypeInv, Becomes, Runners

\* What becomes of the sets of runners when one of them is assigned to.
LEMMA BecomesSets ==
    ASSUME TypeInv, NEW r \in Runners, NEW v \in RunnerState, Becomes(r, v)
    PROVE  /\ Runners' = Runners
           /\ Asleep' = (Asleep \ {r}) \cup (IF v.pc = "asleep" THEN {r} ELSE {})
           /\ Fetching' = (Fetching \ {r}) \cup (IF v.pc = "fetch" THEN {r} ELSE {})
  BY DEF Becomes, Runners, Asleep, Fetching

\* Threads are finitely many.
LEMMA CountsFinite ==
    ASSUME TypeInv
    PROVE  /\ IsFiniteSet(Fetching) /\ Cardinality(Fetching) \in Nat
           /\ IsFiniteSet(Notifying) /\ Cardinality(Notifying) \in Nat
<1>1. IsFiniteSet(Runners) /\ IsFiniteSet(Threads)
  BY FS_Interval, LenProperties, PoolAssumption DEF TypeInv, Runners, Threads
<1>2. IsFiniteSet(Fetching) /\ IsFiniteSet(Notifying)
  BY <1>1, FS_Subset DEF Fetching, Notifying
<1>. QED
  BY <1>2, FS_CardinalityType

\* A thread that moves on inside AddTask, but not from or to its first notification.
LEMMA NotifyingKept ==
    ASSUME TypeInv, NEW x \in Threads, NEW a, adder' = [adder EXCEPT ![x] = a],
           adder[x] # "notify", a # "notify"
    PROVE  Notifying' = Notifying
  BY DEF TypeInv, Notifying

\* notify_one lets at most one runner go on, and one if any sleeps.
LEMMA NotifyOneOK ==
    ASSUME TypeInv, runner' \in NotifyOne(runner)
    PROVE  \/ Asleep = {} /\ runner' = runner
           \/ \E q \in Asleep :
                /\ [runner[q] EXCEPT !.pc = "fetch"] \in RunnerState
                /\ Becomes(q, [runner[q] EXCEPT !.pc = "fetch"])
<1>1. CASE Asleep = {}
  BY <1>1 DEF NotifyOne
<1>2. CASE Asleep # {}
  <2>1. PICK q \in Asleep : runner' = [runner EXCEPT ![q].pc = "fetch"]
    BY <1>2 DEF NotifyOne
  <2>2. q \in Runners /\ runner[q] \in RunnerState
    BY ElementOfSeq DEF Asleep, TypeInv, Runners
  <2>3. [runner[q] EXCEPT !.pc = "fetch"] \in RunnerState
    BY <2>2 DEF RunnerState
  <2>4. runner' = [runner EXCEPT ![q] = [runner[q] EXCEPT !.pc = "fetch"]]
    BY <2>1
  <2>. QED
    BY <2>2, <2>3, <2>4, Assigned
<1>. QED
  BY <1>1, <1>2

\* A state of a runner is a record of its type.
LEMMA RunnerTyped ==
    ASSUME TypeInv, NEW r \in Runners
    PROVE  runner[r] \in RunnerState
  BY ElementOfSeq DEF TypeInv, Runners

\* notify_one, notify_all and no notification at all only end sleeps.
LEMMA NotifyWakes ==
    ASSUME TypeInv, runner' \in NotifyOne(runner) \/ runner' = runner
    PROVE  Wakes
<1>1. CASE runner' = runner
  BY <1>1 DEF Wakes, TypeInv
<1>2. ASSUME NEW q \in Asleep, Becomes(q, [runner[q] EXCEPT !.pc = "fetch"])
      PROVE  Wakes
  <2>1. q \in Runners /\ runner[q].pc = "asleep" /\ runner[q] \in RunnerState
    BY RunnerTyped DEF Asleep
  <2>2. /\ [runner[q] EXCEPT !.pc = "fetch"].pc = "fetch"
        /\ [runner[q] EXCEPT !.pc = "fetch"].task = runner[q].task
    BY <2>1 DEF RunnerState
  <2>. QED
    BY <1>2, <2>1, <2>2 DEF Wakes, Becomes
<1>. QED
  BY <1>1, <1>2, NotifyOneOK

\* The tasks the runners hold.
LEMMA WakesTasks ==
    ASSUME Wakes
    PROVE  Runners' = Runners /\ WithRunners' = WithRunners
  BY DEF Wakes, Runners, WithRunners

\* What the runners hold when one of them drops or takes a task.
LEMMA BecomesTasks ==
    ASSUME TypeInv, PlaceInv, NEW r \in Runners, NEW v, Becomes(r, v)
    PROVE  /\ Runners' = Runners
           /\ WithRunners' = (WithRunners \ {runner[r].task}) \cup ({v.task} \ {None})
<1>1. Runners' = Runners
  BY DEF Becomes, Runners
<1>2. ASSUME NEW t \in WithRunners' PROVE t \in (WithRunners \ {runner[r].task}) \cup ({v.task} \ {None})
  <2>1. t # None /\ \E q \in Runners : runner'[q].task = t
    BY <1>1 DEF WithRunners
  <2>2. PICK q \in Runners : runner'[q].task = t
    BY <2>1
  <2>3. CASE q = r
    BY <2>1, <2>2, <2>3 DEF Becomes
  <2>4. CASE q # r
    <3>1. runner[q].task = t
      BY <2>2, <2>4 DEF Becomes
    <3>2. runner[r].task # t
      BY <2>1, <2>4, <3>1 DEF PlaceInv
    <3>. QED
      BY <2>1, <3>1, <3>2 DEF WithRunners
  <2>. QED
    BY <2>3, <2>4
<1>3. ASSUME NEW t \in (WithRunners \ {runner[r].task}) \cup ({v.task} \ {None}) PROVE t \in WithRunners'
  <2>1. CASE t \in {v.task} \ {None}
    BY <1>1, <2>1 DEF WithRunners, Becomes
  <2>2. CASE t \in WithRunners \ {runner[r].task}
    <3>1. PICK q \in Runners : runner[q].task = t
      BY <2>2 DEF WithRunners
    <3>2. q # r /\ t # None
      BY <2>2, <3>1 DEF WithRunners
    <3>3. runner'[q].task = t
      BY <3>1, <3>2 DEF Becomes
    <3>. QED
      BY <1>1, <3>2, <3>3 DEF WithRunners
  <2>. QED
    BY <2>1, <2>2
<1>. QED
  BY <1>1, <1>2, <1>3

\* A step that starts no task, and in which no runner takes or gives one, may move
\* tasks between those to come and those pending, and may drop finished ones.
LEMMA Kept ==
    ASSUME PlaceInv, StartInv, Wakes, runs' = runs,
           IsInjective(main.todo)', IsInjective(pending)', IsInjective(finished)',
           Range(finished)' \subseteq Range(finished),
           (Range(main.todo) \cap incoming = {})', (Coming \cap Range(pending) = {})',
           Coming' \cup Range(pending)' = Coming \cup Range(pending),
           main.pc = "done" => main'.pc = "done"
    PROVE  PlaceInv' /\ StartInv'
<1>1. Runners' = Runners /\ WithRunners' = WithRunners
  BY WakesTasks
<1>2. PlaceInv'
  <2>1. (\A q, r \in Runners :
          runner[q].task = runner[r].task /\ runner[q].task # None => q = r)'
    BY <1>1 DEF PlaceInv, Wakes
  <2>. QED
    BY <1>1, <2>1 DEF PlaceInv
<1>3. StartInv'
  <2>1. ASSUME NEW r \in Runners'
        PROVE  /\ runner'[r].pc \in {"fetch", "waiting", "asleep"} => runner'[r].task = None
               /\ runner'[r].pc = "run" => runner'[r].task # None
               /\ runner'[r].task # None =>
                     runs'[runner'[r].task] = IF runner'[r].pc = "run" THEN 1 ELSE 0
    BY <1>1 DEF StartInv, Wakes
  <2>2. \A t \in Coming' \cup Range(pending)' : runs'[t] = 0
    BY DEF StartInv
  <2>3. \A t \in Range(finished)' : runs'[t] = 1
    BY DEF StartInv
  <2>4. main'.pc # "done" => \A t \in Tasks :
          runs'[t] = 0 => t \in Coming' \cup Range(pending)' \cup WithRunners'
    BY <1>1 DEF StartInv
  <2>. QED
    BY <2>1, <2>2, <2>3, <2>4 DEF StartInv
<1>. QED
  BY <1>2, <1>3

-----------------------------------------------------------------------------
\* The initial state.
LEMMA InitOK ==
    ASSUME Init
    PROVE  IndInv
<1>1. MainTasks \in Seq(Tasks) /\ Connections \subseteq Tasks
  BY PoolAssumption, SeqMonotonic DEF Tasks
<1>2. Runners = {} /\ Asleep = {} /\ WithRunners = {} /\ Range(<<>>) = {}
  BY DEF Init, Runners, Asleep, WithRunners, Range
<1>3. TypeInv
  BY <1>1 DEF Init, TypeInv
<1>4. PoolBound /\ OwnerInv /\ NoLostWakeup
  BY <1>2, PoolAssumption DEF Init, PoolBound, OwnerInv, NoLostWakeup
<1>5. Coming = Tasks /\ Range(main.todo) \cap incoming = {} /\ IsInjective(main.todo)
  BY PoolAssumption DEF Init, Coming, Tasks
<1>6. IsInjective(<<>>)
  BY DEF IsInjective
<1>7. PlaceInv
  BY <1>2, <1>5, <1>6 DEF Init, PlaceInv
<1>8. StartInv
  BY <1>2, <1>5 DEF Init, StartInv
<1>. QED
  BY <1>3, <1>4, <1>7, <1>8 DEF IndInv

\* A thread that has notified one runner is no longer about to: one more fetches, or
\* nobody sleeps.
LEMMA NotifySleep ==
    ASSUME TypeInv, NoLostWakeup, NEW x \in Threads, AddNotify(x)
    PROVE  NoLostWakeup'
<1>0. /\ Len(pending) \in Nat /\ pending' = pending /\ terminated' = terminated
      /\ runner' \in NotifyOne(runner)
  BY LenProperties DEF TypeInv, AddNotify
<1>1. CASE Asleep = {} /\ runner' = runner
  BY <1>1 DEF NoLostWakeup, Asleep, Runners
<1>2. ASSUME NEW q \in Asleep,
             [runner[q] EXCEPT !.pc = "fetch"] \in RunnerState,
             Becomes(q, [runner[q] EXCEPT !.pc = "fetch"])
      PROVE  NoLostWakeup'
  <2>1. q \in Runners /\ q \notin Fetching /\ runner[q] \in RunnerState
    BY RunnerTyped DEF Asleep, Fetching
  <2>2. [runner[q] EXCEPT !.pc = "fetch"].pc = "fetch"
    BY <2>1 DEF RunnerState
  <2>3. Fetching' = Fetching \cup {q}
    BY <1>2, <2>1, <2>2, BecomesSets
  <2>4. Cardinality(Fetching') = Cardinality(Fetching) + 1 /\ Cardinality(Fetching) \in Nat
    BY <2>1, <2>3, CountsFinite, FS_AddElement
  <2>5. Notifying' = Notifying \ {x}
    BY DEF AddNotify, TypeInv, Notifying
  <2>6. /\ Cardinality(Notifying) \in Nat /\ Cardinality(Notifying') \in Nat
        /\ Cardinality(Notifying) <= Cardinality(Notifying') + 1
    <3>0. IsFiniteSet(Notifying) /\ Cardinality(Notifying) \in Nat
      BY CountsFinite
    <3>1. Cardinality(Notifying \ {x})
            = IF x \in Notifying THEN Cardinality(Notifying) - 1 ELSE Cardinality(Notifying)
      BY <3>0, FS_RemoveElement
    <3>2. Cardinality(Notifying \ {x}) \in Nat
      <4>1. IsFiniteSet(Notifying \ {x})
        BY <3>0, FS_Subset
      <4>. QED
        BY <4>1, FS_CardinalityType
    <3>. QED
      BY <2>5, <3>0, <3>1, <3>2
  <2>7. ~terminated => Len(pending) <= Cardinality(Fetching) + Cardinality(Notifying)
    BY DEF NoLostWakeup
  <2>8. ~terminated' => Len(pending') <= Cardinality(Fetching') + Cardinality(Notifying')
    BY <1>0, <2>4, <2>6, <2>7
  <2>. QED
    BY <2>8 DEF NoLostWakeup
<1>. QED
  BY <1>0, <1>1, <1>2, NotifyOneOK

\* The thread that has added a task is about to notify.
LEMMA PushSleep ==
    ASSUME TypeInv, NoLostWakeup, NEW x \in Threads, NEW t, Push(x, t),
           Len(pending') = Len(pending) + 1
    PROVE  NoLostWakeup'
<1>1. /\ Len(pending) \in Nat /\ Asleep' = Asleep /\ Fetching' = Fetching
      /\ terminated' = terminated
  BY LenProperties DEF TypeInv, Push, Asleep, Fetching, Runners
<1>2. x \notin Notifying /\ Notifying' = Notifying \cup {x}
  BY DEF Push, TypeInv, Notifying
<1>3. /\ Cardinality(Notifying') = Cardinality(Notifying) + 1
      /\ Cardinality(Notifying) \in Nat /\ Cardinality(Fetching) \in Nat
  BY <1>2, CountsFinite, FS_AddElement
<1>4. ~terminated /\ Asleep # {} => Len(pending) <= Cardinality(Fetching) + Cardinality(Notifying)
  BY DEF NoLostWakeup
<1>5. ~terminated' /\ Asleep' # {} =>
        Len(pending') <= Cardinality(Fetching') + Cardinality(Notifying')
  BY <1>1, <1>3, <1>4
<1>. QED
  BY <1>5 DEF NoLostWakeup

\* AddTask's first critical section: the caller's task becomes pending.
LEMMA PushOK ==
    ASSUME IndInv, NEW x \in Threads, NEW t \in Coming, Push(x, t),
           main' \in [pc : {"loop", "notify", "locking", "stopping", "done"}, todo : Seq(Tasks), i : Nat],
           main'.pc = main.pc, main'.i = main.i, incoming' \subseteq Tasks,
           IsInjective(main.todo)', (Range(main.todo) \cap incoming = {})',
           Coming' = Coming \ {t}
    PROVE  IndInv'
<1>1. TypeInv /\ PlaceInv /\ StartInv /\ Wakes
  BY NotifyWakes DEF IndInv, Push
<1>2. t \in Tasks /\ t \notin Range(pending)
  <2>1. Range(main.todo) \subseteq Tasks
    BY RangeOfSeq DEF IndInv, TypeInv
  <2>. QED
    BY <2>1 DEF IndInv, TypeInv, PlaceInv, Coming
<1>3. /\ pending' \in Seq(Tasks) /\ IsInjective(pending')
      /\ Range(pending') = Range(pending) \cup {t}
      /\ Len(pending') = Len(pending) + 1 /\ pending' # <<>>
      /\ Len(pending) \in Nat
  <2>1. pending' = Append(pending, t) /\ pending \in Seq(Tasks) /\ IsInjective(pending)
    BY <1>1 DEF Push, TypeInv, PlaceInv
  <2>2. /\ pending' \in Seq(Tasks) /\ IsInjective(pending')
        /\ Range(pending') = Range(pending) \cup {t}
    BY <1>2, <2>1, AppendPlaces
  <2>3. Len(pending') = Len(pending) + 1 /\ Len(pending) \in Nat
    BY <1>2, <2>1, AppendProperties, LenProperties
  <2>4. pending' # <<>>
    BY <2>3
  <2>. QED
    BY <2>2, <2>3, <2>4
<1>4. TypeInv'
  BY <1>1, <1>3 DEF TypeInv, Push, Wakes
<1>5. PoolBound' /\ OwnerInv'
  <2>1. PoolBound'
    BY <1>1 DEF IndInv, PoolBound, Wakes
  <2>2. \A y \in Threads : adder'[y] # "create"
    BY DEF IndInv, TypeInv, OwnerInv, Push
  <2>3. \A q \in Runners' : runner'[q].pc # "waiting"
    BY DEF IndInv, OwnerInv, Push, Runners
  <2>. QED
    BY <2>1, <2>2, <2>3 DEF OwnerInv
<1>6. NoLostWakeup'
  BY <1>1, <1>3, PushSleep DEF IndInv
<1>7. PlaceInv' /\ StartInv'
  <2>1. /\ Coming' \cup Range(pending)' = Coming \cup Range(pending)
        /\ (Coming \cap Range(pending) = {})'
    BY <1>1, <1>3 DEF PlaceInv
  <2>2. finished' = finished /\ runs' = runs /\ IsInjective(finished)
    BY <1>1 DEF Push, PlaceInv
  <2>. QED
    BY <1>1, <1>3, <2>1, <2>2, Kept
<1>. QED
  BY <1>4, <1>5, <1>6, <1>7 DEF IndInv

\* The main thread adds its next task; a server adds the task of a connection.
LEMMA MainAddsOK ==
    ASSUME IndInv, MainAdds
    PROVE  IndInv'
<1> DEFINE t == Head(main.todo)
<1>1. /\ main.todo \in Seq(Tasks) /\ main.todo # <<>> /\ IsInjective(main.todo)
      /\ main'.todo = Tail(main.todo) /\ main'.pc = main.pc /\ main'.i = main.i
      /\ incoming' = incoming /\ Push(Main, t) /\ Main \in Threads
  BY PoolAssumption DEF IndInv, TypeInv, PlaceInv, MainAdds, Main, Threads
<1>2. /\ t \in Range(main.todo) /\ main'.todo \in Seq(Tasks) /\ IsInjective(main'.todo)
      /\ Range(main'.todo) = Range(main.todo) \ {t}
  BY <1>1, TailPlaces
<1>3. main' \in [pc : {"loop", "notify", "locking", "stopping", "done"}, todo : Seq(Tasks), i : Nat]
  BY <1>1, <1>2 DEF IndInv, TypeInv, MainAdds
<1>. HIDE DEF t
<1>4. /\ t \in Coming /\ Coming' = Coming \ {t} /\ (Range(main.todo) \cap incoming = {})'
      /\ incoming' \subseteq Tasks
  BY <1>1, <1>2 DEF IndInv, TypeInv, PlaceInv, Coming
<1>. QED
  BY <1>1, <1>2, <1>3, <1>4, PushOK

\* A runner is one of the threads that may call AddTask.
LEMMA RunnerIsThread ==
    ASSUME IndInv, NEW r \in Runners
    PROVE  r \in Threads /\ r \in 1..Len(runner)
  BY PoolAssumption, LenProperties DEF IndInv, TypeInv, PoolBound, Runners, Threads

\* A server adds the task of a new connection.
LEMMA AcceptOK ==
    ASSUME IndInv, NEW r \in Runners, Accept(r)
    PROVE  IndInv'
<1>1. PICK t \in incoming : Push(r, t) /\ incoming' = incoming \ {t}
  BY DEF Accept
<1>2. main' = main /\ r \in Threads /\ t \notin Range(main.todo)
  BY <1>1, RunnerIsThread DEF Accept, IndInv, PlaceInv
<1>3. /\ t \in Coming /\ Coming' = Coming \ {t} /\ (Range(main.todo) \cap incoming = {})'
      /\ incoming' \subseteq Tasks /\ IsInjective(main.todo)'
  BY <1>1, <1>2 DEF IndInv, TypeInv, PlaceInv, Coming
<1>4. main' \in [pc : {"loop", "notify", "locking", "stopping", "done"}, todo : Seq(Tasks), i : Nat]
  BY <1>2 DEF IndInv, TypeInv
<1>. QED
  BY <1>1, <1>2, <1>3, <1>4, PushOK

\* A step of AddTask or Terminate that moves nothing.
LEMMA Quiet ==
    ASSUME IndInv, UNCHANGED <<pending, finished, runner, incoming, runs>>,
           terminated' = terminated \/ terminated', Notifying' = Notifying,
           main'.todo = main.todo, main.pc = "done" => main'.pc = "done"
    PROVE  PoolBound' /\ NoLostWakeup' /\ PlaceInv' /\ StartInv'
<1>1. PoolBound' /\ NoLostWakeup'
  BY DEF IndInv, PoolBound, NoLostWakeup, Asleep, Fetching, Runners
<1>2. Wakes
  BY NotifyWakes DEF IndInv
<1>3. Coming' = Coming
  BY DEF Coming
<1>4. PlaceInv' /\ StartInv'
  BY <1>2, <1>3, Kept DEF IndInv, PlaceInv
<1>. QED
  BY <1>1, <1>4

\* AddTask looks whether the pool may grow, and takes the pending tasks' mutex.
LEMMA AddCheckOK ==
    ASSUME IndInv, NEW x \in Threads, AddCheck(x) \/ AddLock(x)
    PROVE  IndInv'
<1>1. /\ UNCHANGED <<pending, finished, runner, terminated, incoming, runs>> /\ main' = main
      /\ TypeInv' /\ OwnerInv' /\ Notifying' = Notifying
  <2>1. CASE AddCheck(x)
    <3>1. TypeInv' /\ OwnerInv'
      BY <2>1 DEF AddCheck, IndInv, TypeInv, OwnerInv, Runners
    <3>2. Notifying' = Notifying
      BY <2>1, NotifyingKept DEF AddCheck, IndInv
    <3>. QED
      BY <2>1, <3>1, <3>2 DEF AddCheck
  <2>2. CASE AddLock(x)
    <3>1. /\ \A y \in Threads : adder[y] # "create"
          /\ \A q \in Runners : runner[q].pc # "waiting"
      BY <2>2 DEF AddLock, IndInv, OwnerInv
    <3>2. TypeInv' /\ OwnerInv'
      BY <2>2, <3>1 DEF AddLock, IndInv, TypeInv, OwnerInv, Runners
    <3>3. Notifying' = Notifying
      BY <2>2, NotifyingKept DEF AddLock, IndInv
    <3>. QED
      BY <2>2, <3>2, <3>3 DEF AddLock
  <2>. QED
    BY <2>1, <2>2
<1>. QED
  BY <1>1, Quiet DEF IndInv

\* The main thread drops a finished task.
LEMMA UpdateOK ==
    ASSUME IndInv, Update
    PROVE  IndInv'
<1>1. /\ finished' \in Seq(Tasks) /\ IsInjective(finished)'
      /\ Range(finished)' \subseteq Range(finished)
  BY TailPlaces DEF IndInv, TypeInv, PlaceInv, Update
<1>2. Wakes /\ Coming' = Coming
  BY NotifyWakes DEF IndInv, Update, Coming
<1>3. PlaceInv' /\ StartInv'
  BY <1>1, <1>2, Kept DEF Update, IndInv, PlaceInv
<1>4. TypeInv' /\ PoolBound' /\ OwnerInv' /\ NoLostWakeup'
  BY <1>1 DEF Update, IndInv, TypeInv, PoolBound, OwnerInv, NoLostWakeup, Asleep, Fetching,
              Notifying, Runners
<1>. QED
  BY <1>3, <1>4 DEF IndInv

-----------------------------------------------------------------------------
\* CreateNewThread: the first pending task goes to a new runner.
LEMMA NewRunnerOK ==
    ASSUME IndInv, NEW x \in Threads, AddCreate(x), Room
    PROVE  IndInv'
<1> DEFINE n == Len(runner)  t == Head(pending)
           v == [pc |-> "top", task |-> t, terminating |-> FALSE, told |-> FALSE]
<1>1. /\ TypeInv /\ PoolBound /\ OwnerInv /\ NoLostWakeup /\ PlaceInv /\ StartInv
      /\ pending # <<>> /\ \A y \in Threads : adder[y] = "create" => y = x
      /\ \A q \in Runners : runner[q].pc # "waiting"
  BY DEF IndInv, AddCreate, OwnerInv
<1>0. runner' = Append(runner, v) /\ pending' = Tail(pending)
  BY DEF AddCreate, Popped
<1>2. /\ t \in Tasks /\ t \in Range(pending) /\ t # None
      /\ pending' \in Seq(Tasks) /\ IsInjective(pending')
      /\ Len(pending') = Len(pending) - 1 /\ Range(pending') = Range(pending) \ {t}
      /\ Len(pending) \in Nat
  <2>1. pending \in Seq(Tasks) /\ IsInjective(pending)
    BY <1>1 DEF TypeInv, PlaceInv
  <2>2. /\ Head(pending) \in Tasks /\ Head(pending) \in Range(pending)
        /\ Tail(pending) \in Seq(Tasks) /\ IsInjective(Tail(pending))
        /\ Len(Tail(pending)) = Len(pending) - 1
        /\ Range(Tail(pending)) = Range(pending) \ {Head(pending)}
    BY <1>1, <2>1, TailPlaces
  <2>3. Len(pending) \in Nat
    BY <2>1, LenProperties
  <2>. QED
    BY <1>0, <2>2, <2>3, PoolAssumption
<1>3. v \in RunnerState /\ v.task = t /\ v.pc = "top"
  BY <1>2 DEF RunnerState
<1>4. /\ runner' \in Seq(RunnerState) /\ Len(runner') = n + 1 /\ n \in Nat
      /\ runner'[n + 1] = v /\ \A q \in 1..n : runner'[q] = runner[q]
  <2>1. runner \in Seq(RunnerState)
    BY <1>1 DEF TypeInv
  <2>. HIDE DEF v
  <2>. QED
    BY <1>0, <1>3, <2>1, AppendProperties, LenProperties
<1>. HIDE DEF n, t, v
<1>5. /\ Runners' = 1..(n + 1) /\ Runners = 1..n
      /\ \A q \in 1..(n + 1) : q \in 1..n \/ q = n + 1
      /\ \A q \in 1..n : q \in 1..(n + 1) /\ q # n + 1
      /\ n + 1 \in 1..(n + 1)
  BY <1>4 DEF Runners, n
<1>6. Asleep' = Asleep /\ Fetching' = Fetching /\ Notifying' = Notifying
  <2>1. Asleep' = Asleep /\ Fetching' = Fetching
    BY <1>3, <1>4, <1>5 DEF Asleep, Fetching
  <2>2. Notifying' = Notifying
    BY <1>1, NotifyingKept DEF AddCreate
  <2>. QED
    BY <2>1, <2>2
<1>7. WithRunners' = WithRunners \cup {t}
  BY <1>2, <1>3, <1>4, <1>5 DEF WithRunners
<1>8. Coming' = Coming /\ main' = main /\ incoming' = incoming /\ finished' = finished
      /\ runs' = runs /\ terminated' = terminated /\ adder' = [adder EXCEPT ![x] = "none"]
  BY DEF AddCreate, Coming
<1>9. TypeInv'
  BY <1>1, <1>2, <1>4, <1>8 DEF TypeInv
<1>10. PoolBound' /\ OwnerInv'
  <2>1. PoolBound'
    BY <1>4, PoolAssumption DEF Room, PoolBound, n
  <2>2. \A y \in Threads : adder'[y] # "create"
    BY <1>1, <1>8 DEF TypeInv
  <2>3. \A q \in Runners' : runner'[q].pc # "waiting"
    BY <1>1, <1>3, <1>4, <1>5
  <2>. QED
    BY <2>1, <2>2, <2>3 DEF OwnerInv
<1>11. NoLostWakeup'
  <2>1. CASE Asleep = {}
    BY <1>1, <1>6, <1>8, <2>1 DEF NoLostWakeup
  <2>2. CASE Asleep # {}
    <3>1. /\ ~terminated => Len(pending) <= Cardinality(Fetching) + Cardinality(Notifying)
          /\ Cardinality(Fetching) \in Nat /\ Cardinality(Notifying) \in Nat
      BY <1>1, <2>2, CountsFinite DEF NoLostWakeup
    <3>2. ~terminated => Len(pending') <= Cardinality(Fetching') + Cardinality(Notifying')
      BY <1>2, <1>6, <3>1
    <3>. QED
      BY <1>8, <3>2 DEF NoLostWakeup
  <2>. QED
    BY <2>1, <2>2
<1>12. PlaceInv'
  <2>1. \A q \in 1..n : runner[q].task # t
    BY <1>1, <1>2, <1>5 DEF PlaceInv, WithRunners
  <2>2. \A q, r \in Runners' :
          runner'[q].task = runner'[r].task /\ runner'[q].task # None => q = r
    BY <1>1, <1>3, <1>4, <1>5, <2>1 DEF PlaceInv
  <2>. QED
    BY <1>1, <1>2, <1>7, <1>8, <2>2 DEF PlaceInv
<1>13. StartInv'
  <2>1. runs[t] = 0
    BY <1>1, <1>2 DEF StartInv
  <2>2. ASSUME NEW r \in Runners'
        PROVE  /\ runner'[r].pc \in {"fetch", "waiting", "asleep"} => runner'[r].task = None
               /\ runner'[r].pc = "run" => runner'[r].task # None
               /\ runner'[r].task # None =>
                     runs'[runner'[r].task] = IF runner'[r].pc = "run" THEN 1 ELSE 0
    BY <1>1, <1>3, <1>4, <1>5, <1>8, <2>1 DEF StartInv
  <2>3. Coming' \cup Range(pending)' \cup WithRunners' = Coming \cup Range(pending) \cup WithRunners
    BY <1>2, <1>7, <1>8
  <2>. QED
    BY <1>1, <1>2, <1>8, <2>2, <2>3 DEF StartInv
<1>. QED
  BY <1>9, <1>10, <1>11, <1>12, <1>13 DEF IndInv

\* AddTask creates a runner if there is still room, and else is to notify again.
LEMMA AddCreateOK ==
    ASSUME IndInv, NEW x \in Threads, AddCreate(x)
    PROVE  IndInv'
<1>1. CASE Room
  BY <1>1, NewRunnerOK
<1>2. CASE ~Room
  <2>1. /\ UNCHANGED <<runner, pending, terminated, finished, runs, main, incoming>>
        /\ adder' = [adder EXCEPT ![x] = "again"] /\ adder[x] = "create"
    BY <1>2 DEF AddCreate
  <2>2. TypeInv'
    BY <2>1 DEF IndInv, TypeInv
  <2>3. OwnerInv'
    <3>1. /\ \A y \in Threads : adder[y] = "create" => y = x
          /\ \A q \in Runners : runner[q].pc # "waiting"
      BY <2>1 DEF IndInv, OwnerInv
    <3>. QED
      BY <2>1, <3>1 DEF IndInv, TypeInv, OwnerInv, Runners
  <2>4. Notifying' = Notifying
    BY <2>1, NotifyingKept DEF IndInv
  <2>. QED
    BY <2>1, <2>2, <2>3, <2>4, Quiet DEF IndInv
<1>. QED
  BY <1>1, <1>2

\* notify_one, after the push or again.
LEMMA AddNotifyOK ==
    ASSUME IndInv, NEW x \in Threads, AddNotify(x)
    PROVE  IndInv'
<1>1. /\ runner' \in NotifyOne(runner) /\ adder[x] \in {"notify", "again"}
      /\ UNCHANGED <<pending, terminated, finished, pendOwner, runs, main, incoming>>
      /\ \E a \in {"check", "none"} : adder' = [adder EXCEPT ![x] = a]
      /\ Coming' = Coming
  BY DEF AddNotify, IndInv, TypeInv, Coming
<1>2. Wakes /\ TypeInv
  BY <1>1, NotifyWakes DEF IndInv
<1>3. NoLostWakeup'
  BY <1>2, NotifySleep DEF IndInv
<1>4. PlaceInv' /\ StartInv'
  BY <1>1, <1>2, Kept DEF IndInv, PlaceInv
<1>5. TypeInv' /\ PoolBound'
  BY <1>1, <1>2 DEF IndInv, TypeInv, PoolBound, Wakes
<1>6. OwnerInv'
  BY <1>1, <1>2 DEF IndInv, TypeInv, OwnerInv, Wakes, Runners
<1>. QED
  BY <1>3, <1>4, <1>5, <1>6 DEF IndInv

\* A runner that does not go to wait leaves the owners of the mutex alone.
LEMMA OwnerKept ==
    ASSUME OwnerInv, NEW r \in Runners, NEW v, Becomes(r, v), v.pc # "waiting",
           UNCHANGED <<pending, pendOwner, adder>>
    PROVE  OwnerInv'
  BY DEF OwnerInv, Becomes, Runners

\* A runner that was awake and does not go to sleep: the fetchers may be one more.
LEMMA AwakeSleep ==
    ASSUME TypeInv, NoLostWakeup, NEW r \in Runners, NEW v \in RunnerState, Becomes(r, v),
           runner[r].pc \notin {"asleep", "fetch"}, v.pc # "asleep",
           UNCHANGED <<pending, terminated, adder>>
    PROVE  NoLostWakeup'
<1>0. Notifying' = Notifying /\ Cardinality(Notifying) \in Nat
  BY CountsFinite DEF Notifying
<1>1. /\ Asleep' = Asleep
      /\ Fetching' = Fetching \/ (r \notin Fetching /\ Fetching' = Fetching \cup {r})
  <2>1. r \notin Asleep /\ r \notin Fetching
    BY DEF Asleep, Fetching
  <2>2. /\ Asleep' = (Asleep \ {r}) \cup (IF v.pc = "asleep" THEN {r} ELSE {})
        /\ Fetching' = (Fetching \ {r}) \cup (IF v.pc = "fetch" THEN {r} ELSE {})
    BY BecomesSets
  <2>3. Asleep' = Asleep
    BY <2>1, <2>2
  <2>4. CASE v.pc = "fetch"
    BY <2>1, <2>2, <2>3, <2>4
  <2>5. CASE v.pc # "fetch"
    <3>1. Fetching' = Fetching
      BY <2>1, <2>2, <2>5
    <3>. QED
      BY <2>3, <3>1
  <2>. QED
    BY <2>4, <2>5
<1>2. Len(pending) \in Nat /\ Cardinality(Fetching) \in Nat
  BY CountsFinite, LenProperties DEF TypeInv
<1>3. Cardinality(Fetching') \in Nat /\ Cardinality(Fetching) <= Cardinality(Fetching')
  <2>1. CASE Fetching' = Fetching
    BY <1>2, <2>1
  <2>2. CASE r \notin Fetching /\ Fetching' = Fetching \cup {r}
    <3>1. Cardinality(Fetching') = Cardinality(Fetching) + 1
      BY <2>2, CountsFinite, FS_AddElement
    <3>. QED
      BY <1>2, <3>1
  <2>. QED
    BY <1>1, <2>1, <2>2
<1>4. ~terminated /\ Asleep # {} => Len(pending) <= Cardinality(Fetching) + Cardinality(Notifying)
  BY DEF NoLostWakeup
<1>5. ~terminated' /\ Asleep' # {} =>
        Len(pending') <= Cardinality(Fetching') + Cardinality(Notifying')
  BY <1>0, <1>1, <1>2, <1>3, <1>4
<1>. QED
  BY <1>5 DEF NoLostWakeup

\* Only the runner that a step assigns to is to be looked at again.
LEMMA BecomesRunners ==
    ASSUME TypeInv, PlaceInv, NEW r \in Runners, NEW v \in RunnerState, Becomes(r, v),
           v.task \in {None, runner[r].task} \/ v.task \notin WithRunners
    PROVE  \A q, p \in Runners' :
             runner'[q].task = runner'[p].task /\ runner'[q].task # None => q = p
<1>1. Runners' = Runners
  BY DEF Becomes, Runners
<1>2. \A q \in Runners : q # r => runner[q].task = None \/ runner[q].task # v.task
  BY DEF PlaceInv, WithRunners
<1>. QED
  BY <1>1, <1>2 DEF PlaceInv, Becomes

\* The head of the runner's loop, where its task is started.
LEMMA RunnerTopOK ==
    ASSUME IndInv, NEW r \in Runners, RunnerTop(r)
    PROVE  IndInv'
<1>1. PICK c \in {"ended", "run"} :
        /\ runner' = [runner EXCEPT ![r].pc = c]
        /\ c = "ended" => runs' = runs
        /\ c = "run" => /\ runner[r].task # None
                        /\ runs' = [runs EXCEPT ![runner[r].task] = @ + 1]
  BY DEF RunnerTop
<1> DEFINE t == runner[r].task  v == [runner[r] EXCEPT !.pc = c]
<1>2. /\ TypeInv /\ NoLostWakeup /\ PlaceInv /\ StartInv /\ PoolBound /\ OwnerInv
      /\ runner[r].pc = "top" /\ runner[r] \in RunnerState
      /\ UNCHANGED <<pending, finished, terminated, pendOwner, adder, main, incoming>>
  BY RunnerTyped DEF IndInv, RunnerTop
<1>3. v \in RunnerState /\ v.task = t /\ v.pc = c /\ t \in Tasks \cup {None}
  BY <1>2 DEF RunnerState
<1>4. runner' = [runner EXCEPT ![r] = v]
  BY <1>1
<1>. HIDE DEF v
<1>5. Becomes(r, v)
  BY <1>2, <1>3, <1>4, Assigned
<1>6. Runners' = Runners /\ WithRunners' = WithRunners
  <2>1. t = None \/ t \in WithRunners
    BY DEF WithRunners
  <2>. QED
    BY <1>2, <1>3, <1>5, <2>1, BecomesTasks DEF WithRunners
<1>7. Coming' = Coming
  BY <1>2 DEF Coming
<1>8. t # None => /\ t \in Tasks /\ runs[t] = 0 /\ t \in WithRunners
                  /\ t \notin Coming \cup Range(pending) \cup Range(finished)
  <2>1. t # None => runs[t] = 0 /\ t \in WithRunners
    BY <1>2 DEF StartInv, WithRunners
  <2>. QED
    BY <1>2, <1>3, <2>1 DEF PlaceInv
<1>9. /\ runs' \in [Tasks -> {0, 1}]
      /\ \A u \in Tasks : u # t => runs'[u] = runs[u]
      /\ c = "run" => t # None /\ runs'[t] = 1
      /\ c = "ended" => runs' = runs
  <2>1. CASE c = "ended"
    BY <1>1, <1>2, <2>1 DEF TypeInv
  <2>2. CASE c = "run"
    <3>1. t # None /\ runs' = [runs EXCEPT ![t] = runs[t] + 1]
      BY <1>1, <2>2
    <3>2. t \in Tasks /\ runs[t] = 0 /\ runs \in [Tasks -> {0, 1}]
      BY <1>2, <1>8, <3>1 DEF TypeInv
    <3>. HIDE DEF t
    <3>. QED
      BY <2>2, <3>1, <3>2
  <2>. QED
    BY <2>1, <2>2
<1>10. TypeInv' /\ PoolBound' /\ OwnerInv'
  <2>1. TypeInv' /\ PoolBound'
    BY <1>2, <1>5, <1>9 DEF TypeInv, PoolBound, Becomes
  <2>2. OwnerInv'
    BY <1>1, <1>2, <1>3, <1>5, OwnerKept
  <2>. QED
    BY <2>1, <2>2
<1>11. NoLostWakeup'
  BY <1>1, <1>2, <1>3, <1>5, AwakeSleep
<1>12. PlaceInv'
  BY <1>2, <1>3, <1>5, <1>6, <1>7, BecomesRunners DEF PlaceInv
<1>13. StartInv'
  <2>1. Coming \subseteq Tasks /\ Range(pending) \subseteq Tasks /\ Range(finished) \subseteq Tasks
    BY <1>2, RangeOfSeq DEF TypeInv, Coming
  <2>2. /\ \A u \in Coming' \cup Range(pending)' : runs'[u] = 0
        /\ \A u \in Range(finished)' : runs'[u] = 1
    BY <1>2, <1>7, <1>8, <1>9, <2>1 DEF StartInv
  <2>3. ASSUME NEW q \in Runners'
        PROVE  /\ runner'[q].pc \in {"fetch", "waiting", "asleep"} => runner'[q].task = None
               /\ runner'[q].pc = "run" => runner'[q].task # None
               /\ runner'[q].task # None =>
                     runs'[runner'[q].task] = IF runner'[q].pc = "run" THEN 1 ELSE 0
    <3>1. CASE q = r
      BY <1>1, <1>3, <1>5, <1>8, <1>9, <3>1 DEF Becomes
    <3>2. CASE q # r
      <4>1. q \in Runners /\ runner'[q] = runner[q] /\ runner[q] \in RunnerState
        BY <1>2, <1>5, <1>6, <3>2, RunnerTyped DEF Becomes
      <4>2. runner[q].task # None => runner[q].task \in Tasks /\ runner[q].task # t
        BY <1>2, <3>2, <4>1 DEF PlaceInv, RunnerState
      <4>. QED
        BY <1>2, <1>9, <4>1, <4>2 DEF StartInv
    <3>. QED
      BY <3>1, <3>2
  <2>4. main'.pc # "done" => \A u \in Tasks :
          runs'[u] = 0 => u \in Coming' \cup Range(pending)' \cup WithRunners'
    <3>1. \A u \in Tasks : runs'[u] = 0 => runs[u] = 0
      BY <1>1, <1>9
    <3>. QED
      BY <1>2, <1>6, <1>7, <3>1 DEF StartInv
  <2>. QED
    BY <2>2, <2>3, <2>4 DEF StartInv
<1>. QED
  BY <1>10, <1>11, <1>12, <1>13 DEF IndInv

\* Run has returned or thrown: the task goes to the finish queue.
LEMMA AfterRunOK ==
    ASSUME IndInv, NEW r \in Runners, AfterRun(r)
    PROVE  IndInv'
<1> DEFINE t == runner[r].task  v == [runner[r] EXCEPT !.pc = "fetch", !.task = None]
<1>1. /\ TypeInv /\ NoLostWakeup /\ PlaceInv /\ StartInv /\ PoolBound /\ OwnerInv
      /\ runner[r].pc = "run" /\ runner[r] \in RunnerState
      /\ UNCHANGED <<pending, terminated, pendOwner, adder, main, incoming, runs>>
      /\ finished' = Append(finished, t)
  BY RunnerTyped DEF IndInv, AfterRun
<1>2. v \in RunnerState /\ v.task = None /\ v.pc = "fetch" /\ t \in Tasks \cup {None}
  BY <1>1 DEF RunnerState
<1>3. runner' = [runner EXCEPT ![r] = v]
  BY DEF AfterRun
<1>. HIDE DEF v
<1>4. Becomes(r, v)
  BY <1>1, <1>2, <1>3, Assigned
<1>5. /\ t \in Tasks /\ t \in WithRunners /\ runs[t] = 1
      /\ t \notin Coming \cup Range(pending) \cup Range(finished)
  <2>1. t # None /\ runs[t] = 1
    BY <1>1 DEF StartInv
  <2>2. t \in WithRunners
    BY <2>1 DEF WithRunners
  <2>. QED
    BY <1>1, <1>2, <2>1, <2>2 DEF PlaceInv
<1>6. Runners' = Runners /\ WithRunners' = WithRunners \ {t} /\ Coming' = Coming
  BY <1>1, <1>2, <1>4, BecomesTasks DEF Coming
<1>7. /\ finished' \in Seq(Tasks) /\ IsInjective(finished')
      /\ Range(finished') = Range(finished) \cup {t}
  BY <1>1, <1>5, AppendPlaces DEF TypeInv, PlaceInv
<1>. HIDE DEF t
<1>8. TypeInv' /\ PoolBound' /\ OwnerInv'
  <2>1. TypeInv' /\ PoolBound'
    BY <1>1, <1>4, <1>7 DEF TypeInv, PoolBound, Becomes
  <2>2. OwnerInv'
    BY <1>1, <1>2, <1>4, OwnerKept
  <2>. QED
    BY <2>1, <2>2
<1>9. NoLostWakeup'
  BY <1>1, <1>2, <1>4, AwakeSleep
<1>10. PlaceInv'
  <2>1. \A q, p \in Runners' :
          runner'[q].task = runner'[p].task /\ runner'[q].task # None => q = p
    BY <1>1, <1>2, <1>4, BecomesRunners
  <2>. QED
    BY <1>1, <1>5, <1>6, <1>7, <2>1 DEF PlaceInv
<1>11. StartInv'
  <2>1. ASSUME NEW q \in Runners'
        PROVE  /\ runner'[q].pc \in {"fetch", "waiting", "asleep"} => runner'[q].task = None
               /\ runner'[q].pc = "run" => runner'[q].task # None
               /\ runner'[q].task # None =>
                     runs'[runner'[q].task] = IF runner'[q].pc = "run" THEN 1 ELSE 0
    BY <1>1, <1>2, <1>4, <1>6 DEF Becomes, StartInv
  <2>2. /\ \A u \in Coming' \cup Range(pending)' : runs'[u] = 0
        /\ \A u \in Range(finished)' : runs'[u] = 1
    BY <1>1, <1>5, <1>6, <1>7 DEF StartInv
  <2>3. main'.pc # "done" => \A u \in Tasks :
          runs'[u] = 0 => u \in Coming' \cup Range(pending)' \cup WithRunners'
    BY <1>1, <1>5, <1>6 DEF StartInv
  <2>. QED
    BY <2>1, <2>2, <2>3 DEF StartInv
<1>. QED
  BY <1>8, <1>9, <1>10, <1>11 DEF IndInv

\* A runner without a task that only moves on.
LEMMA MovedOK ==
    ASSUME IndInv, NEW r \in Runners, runner[r].pc \in {"fetch", "waiting"},
           NEW c \in {"top", "waiting", "asleep"}, runner' = [runner EXCEPT ![r].pc = c],
           UNCHANGED <<pending, finished, terminated, adder, main, incoming, runs>>,
           NoLostWakeup', OwnerInv'
    PROVE  IndInv'
<1> DEFINE v == [runner[r] EXCEPT !.pc = c]
<1>1. /\ TypeInv /\ PlaceInv /\ StartInv /\ PoolBound /\ runner[r] \in RunnerState
      /\ runner[r].task = None /\ Coming' = Coming
  BY RunnerTyped DEF IndInv, StartInv, Coming
<1>2. v \in RunnerState /\ v.task = None /\ v.pc = c
  BY <1>1 DEF RunnerState
<1>3. runner' = [runner EXCEPT ![r] = v]
  OBVIOUS
<1>. HIDE DEF v
<1>4. Becomes(r, v)
  BY <1>1, <1>2, <1>3, Assigned
<1>5. Runners' = Runners /\ WithRunners' = WithRunners
  <2>1. None \notin WithRunners
    BY DEF WithRunners
  <2>. QED
    BY <1>1, <1>2, <1>4, <2>1, BecomesTasks
<1>6. PlaceInv'
  <2>1. \A q, p \in Runners' :
          runner'[q].task = runner'[p].task /\ runner'[q].task # None => q = p
    BY <1>1, <1>2, <1>4, BecomesRunners
  <2>. QED
    BY <1>1, <1>5, <2>1 DEF PlaceInv
<1>7. StartInv'
  <2>1. ASSUME NEW q \in Runners'
        PROVE  /\ runner'[q].pc \in {"fetch", "waiting", "asleep"} => runner'[q].task = None
               /\ runner'[q].pc = "run" => runner'[q].task # None
               /\ runner'[q].task # None =>
                     runs'[runner'[q].task] = IF runner'[q].pc = "run" THEN 1 ELSE 0
    BY <1>1, <1>2, <1>4, <1>5 DEF Becomes, StartInv
  <2>. QED
    BY <1>1, <1>5, <2>1 DEF StartInv
<1>8. TypeInv' /\ PoolBound'
  BY <1>1, <1>4 DEF TypeInv, PoolBound, Becomes
<1>. QED
  BY <1>6, <1>7, <1>8 DEF IndInv

\* With nothing pending or the pool terminated there is nothing to be woken for.
LEMMA NothingPending ==
    ASSUME TypeInv', terminated' \/ pending' = <<>>
    PROVE  NoLostWakeup'
<1>1. Cardinality(Fetching') \in Nat /\ Cardinality(Notifying') \in Nat
  <2>1. IsFiniteSet(Runners') /\ IsFiniteSet(Threads)
    BY FS_Interval, LenProperties, PoolAssumption DEF TypeInv, Runners, Threads
  <2>2. IsFiniteSet(Fetching') /\ IsFiniteSet(Notifying')
    BY <2>1, FS_Subset DEF Fetching, Notifying
  <2>. QED
    BY <2>2, FS_CardinalityType
<1>2. pending' = <<>> => Len(pending') = 0
  OBVIOUS
<1>. QED
  BY <1>1, <1>2 DEF NoLostWakeup

\* A runner about to sleep releases the mutex and sleeps.
LEMMA FallAsleepOK ==
    ASSUME IndInv, NEW r \in Runners, FallAsleep(r)
    PROVE  IndInv'
<1>1. /\ runner[r].pc = "waiting" /\ runner' = [runner EXCEPT ![r].pc = "asleep"]
      /\ UNCHANGED <<pending, finished, terminated, adder, main, incoming, runs>>
      /\ pendOwner = {r} /\ pending = <<>> /\ pendOwner' = {} /\ runner[r] \in RunnerState
  BY RunnerTyped DEF FallAsleep, IndInv, OwnerInv
<1> DEFINE v == [runner[r] EXCEPT !.pc = "asleep"]
<1>2. Becomes(r, v) /\ v.pc = "asleep"
  <2>1. v \in RunnerState /\ v.pc = "asleep"
    BY <1>1 DEF RunnerState
  <2>2. runner' = [runner EXCEPT ![r] = v]
    BY <1>1
  <2>. HIDE DEF v
  <2>. QED
    BY <2>1, <2>2, Assigned DEF IndInv
<1>. HIDE DEF v
<1>3. OwnerInv'
  <2>1. \A x \in Threads : adder[x] # "create"
    BY <1>1 DEF IndInv, OwnerInv
  <2>2. \A q \in Runners : runner[q].pc = "waiting" => q = r
    BY <1>1 DEF IndInv, OwnerInv
  <2>. QED
    BY <1>1, <1>2, <2>1, <2>2 DEF OwnerInv, Becomes, Runners
<1>4. TypeInv'
  BY <1>1, <1>2 DEF IndInv, TypeInv, Becomes
<1>5. NoLostWakeup'
  BY <1>1, <1>4, NothingPending
<1>. QED
  BY <1>1, <1>3, <1>5, MovedOK

\* A runner looks for its next task: the pool is terminated, there is one, or it
\* keeps the mutex until it sleeps.
LEMMA FetchOK ==
    ASSUME IndInv, NEW r \in Runners, BlockingFetchPendingTask(r)
    PROVE  IndInv'
<1>1. /\ TypeInv /\ NoLostWakeup /\ PlaceInv /\ StartInv /\ PoolBound /\ OwnerInv
      /\ runner[r].pc = "fetch" /\ runner[r] \in RunnerState /\ runner[r].task = None
      /\ UNCHANGED <<finished, terminated, adder, main, incoming, runs>>
      /\ pendOwner = {} /\ Coming' = Coming /\ r \in Fetching /\ r \notin Asleep
  BY RunnerTyped DEF IndInv, StartInv, BlockingFetchPendingTask, Coming, Fetching, Asleep
<1>2. /\ \A x \in Threads : adder[x] # "create"
      /\ \A q \in Runners : runner[q].pc # "waiting"
  BY <1>1 DEF OwnerInv
<1>3. /\ Cardinality(Fetching) \in Nat /\ Len(pending) \in Nat /\ IsFiniteSet(Fetching)
      /\ Cardinality(Notifying) \in Nat /\ Notifying' = Notifying
  BY <1>1, CountsFinite, LenProperties DEF TypeInv, Notifying
<1>4. ASSUME NEW c \in {"top", "waiting"}, runner' = [runner EXCEPT ![r].pc = c],
             pending' = pending, terminated \/ pending = <<>>,
             c = "waiting" => pendOwner' = {r} /\ pending = <<>>
      PROVE  IndInv'
  <2> DEFINE v == [runner[r] EXCEPT !.pc = c]
  <2>1. v \in RunnerState /\ v.pc = c /\ runner' = [runner EXCEPT ![r] = v]
    BY <1>1, <1>4 DEF RunnerState
  <2>. HIDE DEF v
  <2>2. Becomes(r, v)
    BY <1>1, <2>1, Assigned
  <2>3. OwnerInv'
    BY <1>1, <1>2, <1>4, <2>1, <2>2 DEF OwnerInv, Becomes, Runners
  <2>4. TypeInv'
    BY <1>1, <1>4, <2>2 DEF TypeInv, Becomes
  <2>5. NoLostWakeup'
    BY <1>1, <1>4, <2>4, NothingPending
  <2>. QED
    BY <1>1, <1>4, <2>3, <2>5, MovedOK
<1>6. CASE terminated
  <2>1. runner' = [runner EXCEPT ![r].pc = "top"] /\ pending' = pending
    BY <1>6 DEF BlockingFetchPendingTask
  <2>. QED
    BY <1>4, <1>6, <2>1
<1>7. CASE ~terminated /\ pending = <<>>
  <2>1. /\ runner' = [runner EXCEPT ![r].pc = "waiting"] /\ pending' = pending
        /\ pendOwner' = {r}
    BY <1>7 DEF BlockingFetchPendingTask
  <2>. QED
    BY <1>4, <1>7, <2>1
<1>8. CASE ~terminated /\ pending # <<>>
  <2> DEFINE t == Head(pending)  v == [runner[r] EXCEPT !.pc = "top", !.task = t]
  <2>1. runner' = [runner EXCEPT ![r] = v] /\ pending' = Tail(pending)
    BY <1>8 DEF BlockingFetchPendingTask
  <2>2. /\ t \in Tasks /\ t \in Range(pending)
        /\ pending' \in Seq(Tasks) /\ IsInjective(pending') /\ Len(pending') = Len(pending) - 1
        /\ Range(pending') = Range(pending) \ {t}
    BY <1>1, <1>8, <2>1, TailPlaces DEF TypeInv, PlaceInv
  <2>. HIDE DEF t
  <2>3. v \in RunnerState /\ v.task = t /\ v.pc = "top" /\ t # None
    BY <1>1, <2>2, PoolAssumption DEF RunnerState
  <2>. HIDE DEF v
  <2>4. Becomes(r, v)
    BY <1>1, <2>1, <2>3, Assigned
  <2>5. Runners' = Runners /\ WithRunners' = WithRunners \cup {t}
    <3>1. None \notin WithRunners
      BY DEF WithRunners
    <3>. QED
      BY <1>1, <2>3, <2>4, <3>1, BecomesTasks
  <2>6. TypeInv' /\ PoolBound'
    BY <1>1, <2>2, <2>4 DEF TypeInv, PoolBound, Becomes
  <2>7. NoLostWakeup'
    <3>1. Asleep' = Asleep \ {r} /\ Fetching' = Fetching \ {r}
      BY <1>1, <2>3, <2>4, BecomesSets
    <3>2. Cardinality(Fetching') = Cardinality(Fetching) - 1
      BY <1>1, <1>3, <3>1, FS_RemoveElement
    <3>3. Asleep # {} => Len(pending) <= Cardinality(Fetching) + Cardinality(Notifying)
      BY <1>1, <1>8 DEF NoLostWakeup
    <3>4. Asleep' # {} => Len(pending') <= Cardinality(Fetching') + Cardinality(Notifying')
      BY <1>3, <2>2, <3>1, <3>2, <3>3
    <3>. QED
      BY <3>4 DEF NoLostWakeup
  <2>8. runs[t] = 0 /\ t \notin WithRunners
    BY <1>1, <2>2 DEF StartInv, PlaceInv
  <2>9. PlaceInv'
    <3>1. \A q, p \in Runners' :
            runner'[q].task = runner'[p].task /\ runner'[q].task # None => q = p
      BY <1>1, <2>3, <2>4, <2>8, BecomesRunners
    <3>. QED
      BY <1>1, <2>2, <2>5, <3>1 DEF PlaceInv
  <2>10. StartInv'
    <3>1. ASSUME NEW q \in Runners'
          PROVE  /\ runner'[q].pc \in {"fetch", "waiting", "asleep"} => runner'[q].task = None
                 /\ runner'[q].pc = "run" => runner'[q].task # None
                 /\ runner'[q].task # None =>
                       runs'[runner'[q].task] = IF runner'[q].pc = "run" THEN 1 ELSE 0
      BY <1>1, <2>3, <2>4, <2>5, <2>8 DEF Becomes, StartInv
    <3>2. Coming' \cup Range(pending)' \cup WithRunners'
            = Coming \cup Range(pending) \cup WithRunners
      BY <1>1, <2>2, <2>5
    <3>. QED
      BY <1>1, <2>2, <3>1, <3>2 DEF StartInv
  <2>11. OwnerInv'
    BY <1>1, <1>2, <2>3, <2>4 DEF OwnerInv, Becomes, Runners
  <2>. QED
    BY <2>6, <2>7, <2>9, <2>10, <2>11 DEF IndInv
<1>. QED
  BY <1>6, <1>7, <1>8

-----------------------------------------------------------------------------
\* notify_all leaves nobody asleep and changes nothing else.
LEMMA NotifyAllOK ==
    ASSUME TypeInv, NEW rs \in Seq(RunnerState), Len(rs) = Len(runner),
           \A q \in Runners : rs[q].pc = runner[q].pc /\ rs[q].task = runner[q].task,
           runner' = NotifyAll(rs)
    PROVE  Wakes /\ Asleep' = {}
<1> DEFINE n == Len(runner)
           f(q) == IF rs[q].pc = "asleep" THEN [rs[q] EXCEPT !.pc = "fetch"] ELSE rs[q]
<1>1. n \in Nat /\ DOMAIN rs = 1..n /\ Runners = 1..n
  BY LenProperties DEF TypeInv, Runners
<1>2. runner' = [q \in 1..n |-> f(q)]
  BY <1>1 DEF NotifyAll
<1>3. ASSUME NEW q \in 1..n
      PROVE  /\ f(q) \in RunnerState /\ f(q).task = runner[q].task /\ f(q).pc # "asleep"
             /\ \/ f(q).pc = runner[q].pc
                \/ runner[q].pc = "asleep" /\ f(q).pc = "fetch"
  <2>1. rs[q] \in RunnerState
    BY <1>1, ElementOfSeq
  <2>2. rs[q].pc = runner[q].pc /\ rs[q].task = runner[q].task
    BY <1>1
  <2>. QED
    BY <2>1, <2>2 DEF RunnerState
<1>. HIDE DEF f
<1>4. runner' \in Seq(RunnerState) /\ Len(runner') = n
  BY <1>1, <1>2, <1>3, IsASeq
<1>5. \A q \in 1..n : runner'[q] = f(q)
  BY <1>2
<1>6. Wakes
  BY <1>1, <1>3, <1>4, <1>5 DEF Wakes
<1>7. Asleep' = {}
  BY <1>1, <1>3, <1>4, <1>5 DEF Asleep, Runners
<1>. QED
  BY <1>6, <1>7

\* The steps of Terminate that wake the runners.
LEMMA WakeAllOK ==
    ASSUME IndInv, Wakes, Asleep' = {}, TypeInv', main'.todo = main.todo, main.pc # "done",
           UNCHANGED <<pending, finished, pendOwner, adder, incoming, runs>>
    PROVE  IndInv'
<1>1. Coming' = Coming
  BY DEF Coming
<1>2. PlaceInv' /\ StartInv'
  BY <1>1, Kept DEF IndInv, PlaceInv
<1>3. PoolBound' /\ OwnerInv'
  BY DEF IndInv, PoolBound, OwnerInv, Wakes, Runners
<1>4. NoLostWakeup'
  BY DEF NoLostWakeup
<1>. QED
  BY <1>2, <1>3, <1>4 DEF IndInv

\* Terminate sets the flag, whoever holds the mutex.
LEMMA TerminateOK ==
    ASSUME IndInv, Terminate
    PROVE  IndInv'
<1>1. /\ main.pc = "loop" /\ main'.todo = main.todo /\ main'.pc = "notify" /\ terminated'
      /\ main' \in [pc : {"loop", "notify", "locking", "stopping", "done"}, todo : Seq(Tasks), i : Nat]
      /\ UNCHANGED <<pending, finished, runner, pendOwner, adder, incoming, runs>>
      /\ Notifying' = Notifying
  BY DEF Terminate, MainIdle, IndInv, TypeInv, Notifying
<1>2. TypeInv' /\ OwnerInv'
  BY <1>1 DEF IndInv, TypeInv, OwnerInv, Runners
<1>. QED
  BY <1>1, <1>2, Quiet DEF IndInv

\* Then it wakes every runner that sleeps.
LEMMA TerminateNotifiesOK ==
    ASSUME IndInv, TerminateNotifies
    PROVE  IndInv'
<1>1. /\ main.pc = "notify" /\ main'.todo = main.todo /\ main'.pc = "locking"
      /\ main' \in [pc : {"loop", "notify", "locking", "stopping", "done"}, todo : Seq(Tasks), i : Nat]
      /\ UNCHANGED <<pending, finished, pendOwner, adder, incoming, runs>>
  BY DEF TerminateNotifies, IndInv, TypeInv
<1>2. Wakes /\ Asleep' = {}
  BY NotifyAllOK DEF TerminateNotifies, IndInv, TypeInv
<1>3. TypeInv'
  BY <1>1, <1>2 DEF IndInv, TypeInv, Wakes
<1>. QED
  BY <1>1, <1>2, <1>3, WakeAllOK

\* Terminate waits for the threads' mutex, for the runners, and clears the pool.
LEMMA TerminatingOK ==
    ASSUME IndInv, Terminating
    PROVE  IndInv'
<1>1. CASE TerminateLocks
  <2>1. /\ TypeInv' /\ OwnerInv' /\ main'.todo = main.todo /\ main.pc # "done"
        /\ Notifying' = Notifying
    <3>1. /\ main'.i = 1 /\ main'.todo = main.todo /\ main.pc = "locking"
          /\ main' \in [pc : {"loop", "notify", "locking", "stopping", "done"}, todo : Seq(Tasks), i : Nat]
      BY <1>1 DEF TerminateLocks, IndInv, TypeInv
    <3>2. main'.i >= 1
      BY <3>1
    <3>. QED
      BY <1>1, <3>1, <3>2 DEF TerminateLocks, IndInv, TypeInv, OwnerInv, Notifying, Runners
  <2>. QED
    BY <1>1, <2>1, Quiet DEF TerminateLocks, IndInv
<1>2. CASE TerminateTask /\ runner[main.i].pc = "ended"
  <2>1. /\ TypeInv' /\ OwnerInv' /\ main'.todo = main.todo /\ main.pc # "done"
        /\ Notifying' = Notifying
    BY <1>2 DEF TerminateTask, IndInv, TypeInv, OwnerInv, Notifying, Runners
  <2>. QED
    BY <1>2, <2>1, Quiet DEF TerminateTask, IndInv
<1>3. CASE TerminateTask /\ runner[main.i].pc # "ended" /\ main.i \in Runners
  <2> DEFINE i == main.i
             v == [runner[i] EXCEPT !.terminating = TRUE, !.told = (@ \/ runner[i].task # None)]
             rs == [runner EXCEPT ![i] = v]
  <2>1. /\ runner' = NotifyAll(rs) /\ main' = main /\ main.pc # "done" /\ TypeInv
        /\ UNCHANGED <<pending, finished, pendOwner, adder, incoming, runs>>
    BY <1>3 DEF TerminateTask, ToldAgain, IndInv
  <2>2. runner[i] \in RunnerState
    BY <1>3, <2>1, RunnerTyped
  <2>3. v \in RunnerState /\ v.pc = runner[i].pc /\ v.task = runner[i].task
    BY <2>2 DEF RunnerState
  <2>. HIDE DEF v
  <2>4. /\ rs \in Seq(RunnerState) /\ Len(rs) = Len(runner)
        /\ \A q \in Runners : rs[q].pc = runner[q].pc /\ rs[q].task = runner[q].task
    BY <1>3, <2>1, <2>3, ExceptSeq DEF TypeInv, Runners
  <2>. HIDE DEF rs
  <2>5. Wakes /\ Asleep' = {}
    BY <2>1, <2>4, NotifyAllOK
  <2>6. TypeInv'
    BY <2>1, <2>5 DEF TypeInv, Wakes
  <2>. QED
    BY <2>1, <2>5, <2>6, WakeAllOK
<1>4. CASE TerminateTask /\ runner[main.i].pc # "ended" /\ main.i \notin Runners
  BY <1>4, LenProperties DEF TerminateTask, IndInv, TypeInv, Runners
<1>5. CASE TerminateJoins
  <2>1. /\ runner' = <<>> /\ main'.todo = main.todo /\ main'.pc = "done" /\ main'.i = main.i
        /\ main' \in [pc : {"loop", "notify", "locking", "stopping", "done"}, todo : Seq(Tasks), i : Nat]
        /\ UNCHANGED <<pending, finished, terminated, pendOwner, adder, incoming, runs>>
    BY <1>5 DEF TerminateJoins, IndInv, TypeInv
  <2>2. Runners' = {} /\ Asleep' = {} /\ WithRunners' = {} /\ Coming' = Coming
    BY <2>1 DEF Runners, Asleep, WithRunners, Coming
  <2>3. TypeInv' /\ OwnerInv'
    BY <2>1, <2>2 DEF IndInv, TypeInv, OwnerInv
  <2>4. PoolBound' /\ NoLostWakeup'
    BY <2>1, <2>2, PoolAssumption DEF PoolBound, NoLostWakeup
  <2>5. PlaceInv'
    BY <2>1, <2>2 DEF IndInv, PlaceInv
  <2>6. StartInv'
    BY <2>1, <2>2 DEF IndInv, StartInv
  <2>. QED
    BY <2>3, <2>4, <2>5, <2>6 DEF IndInv
<1>. QED
  BY <1>1, <1>2, <1>3, <1>4, <1>5, TerminateNotifiesOK DEF Terminating

\* Every step keeps the invariant.
LEMMA NextOK ==
    ASSUME IndInv, [Next]_vars
    PROVE  IndInv'
<1>1. ASSUME NEW x \in Threads, AddTaskStep(x) PROVE IndInv'
  BY <1>1, AddNotifyOK, AddCheckOK, AddCreateOK DEF AddTaskStep
<1>2. CASE MainAddsStep
  <2>1. Main \in Threads
    BY PoolAssumption DEF Main, Threads
  <2>. QED
    BY <1>1, <1>2, <2>1, MainAddsOK DEF MainAddsStep
<1>3. CASE Update \/ Terminate \/ Terminating
  BY <1>3, UpdateOK, TerminateOK, TerminatingOK
<1>4. ASSUME NEW r \in Runners, RunnerStep(r) \/ RunEndsUntold(r) \/ Accept(r)
      PROVE  IndInv'
  <2>1. r \in Threads
    BY RunnerIsThread
  <2>. QED
    BY <1>1, <1>4, <2>1, RunnerTopOK, AfterRunOK, FetchOK, FallAsleepOK, AcceptOK
       DEF RunnerStep, RunReturns, RunEndsUntold
<1>5. CASE UNCHANGED vars
  <2>1. TypeInv' /\ OwnerInv' /\ Notifying' = Notifying
    BY <1>5 DEF vars, IndInv, TypeInv, OwnerInv, Notifying, Runners
  <2>. QED
    BY <1>5, <2>1, Quiet DEF vars, IndInv
<1>. QED
  BY <1>2, <1>3, <1>4, <1>5 DEF Next

\* The queues, the mutexes' owners and the threads' program counters always agree,
\* whatever the interleaving of AddTask, the runners, Update and Terminate.
THEOREM AlwaysIndInv == Spec => []IndInv
<1>1. Init => IndInv
  BY InitOK
<1>2. IndInv /\ [Next]_vars => IndInv'
  BY NextOK
<1>. QED
  BY <1>1, <1>2, PTL DEF Spec

\* The pool never has more threads than PoolSize, however many callers of AddTask
\* saw room for one more before they had the lock.
THEOREM PoolAlwaysBounded == Spec => []PoolBound
<1>1. IndInv => PoolBound
  BY DEF IndInv
<1>. QED
  BY <1>1, AlwaysIndInv, PTL

\* Until the pool terminates no runner sleeps while more tasks are pending than runners
\* are on their way to fetch and threads about to notify.
THEOREM NoWakeupEverLost == Spec => []NoLostWakeup
<1>1. IndInv => NoLostWakeup
  BY DEF IndInv
<1>. QED
  BY <1>1, AlwaysIndInv, PTL

\* How often a value is in an injective sequence.
LEMMA CountInSeq ==
    ASSUME NEW S, NEW s \in Seq(S), IsInjective(s), NEW t
    PROVE  Cardinality({i \in DOMAIN s : s[i] = t}) = IF t \in Range(s) THEN 1 ELSE 0
<1>1. CASE t \in Range(s)
  <2>1. PICK i \in DOMAIN s : s[i] = t
    BY <1>1 DEF Range
  <2>2. {j \in DOMAIN s : s[j] = t} = {i}
    BY <2>1 DEF IsInjective
  <2>. QED
    BY <1>1, <2>2, FS_Singleton
<1>2. CASE t \notin Range(s)
  <2>1. {j \in DOMAIN s : s[j] = t} = {}
    BY <1>2 DEF Range
  <2>. QED
    BY <1>2, <2>1, FS_EmptySet
<1>. QED
  BY <1>1, <1>2

\* A task is with at most one runner.
LEMMA CountWithRunners ==
    ASSUME PlaceInv, NEW t \in Tasks
    PROVE  Cardinality({r \in Runners : runner[r].task = t})
             = IF t \in WithRunners THEN 1 ELSE 0
<1>0. t # None
  BY PoolAssumption
<1>1. CASE t \in WithRunners
  <2>1. PICK r \in Runners : runner[r].task = t
    BY <1>1 DEF WithRunners
  <2>2. {q \in Runners : runner[q].task = t} = {r}
    BY <1>0, <2>1 DEF PlaceInv
  <2>. QED
    BY <1>1, <2>2, FS_Singleton
<1>2. CASE t \notin WithRunners
  <2>1. {q \in Runners : runner[q].task = t} = {}
    BY <1>0, <1>2 DEF WithRunners
  <2>. QED
    BY <1>2, <2>1, FS_EmptySet
<1>. QED
  BY <1>1, <1>2

\* Until the pool is cleared an added task is held exactly once before it runs; no
\* task is ever held twice or run twice.
THEOREM TasksAlwaysHeldOnce == Spec => []TaskHeldOnce
<1>1. ASSUME IndInv, NEW t \in Tasks
      PROVE  /\ Held(t) <= 1 /\ runs[t] <= 1
             /\ (main.pc # "done" /\ runs[t] = 0 /\ t \notin incoming
                  /\ t \notin Range(main.todo)) => Held(t) = 1
  <2>1. TypeInv /\ PlaceInv /\ StartInv
    BY <1>1 DEF IndInv
  <2>2. Held(t) = (IF t \in Range(pending) THEN 1 ELSE 0)
                  + (IF t \in WithRunners THEN 1 ELSE 0)
                  + (IF t \in Range(finished) THEN 1 ELSE 0)
    <3>1. Cardinality({i \in DOMAIN pending : pending[i] = t})
            = IF t \in Range(pending) THEN 1 ELSE 0
      BY <2>1, CountInSeq DEF TypeInv, PlaceInv
    <3>2. Cardinality({i \in DOMAIN finished : finished[i] = t})
            = IF t \in Range(finished) THEN 1 ELSE 0
      BY <2>1, CountInSeq DEF TypeInv, PlaceInv
    <3>3. Cardinality({r \in Runners : runner[r].task = t})
            = IF t \in WithRunners THEN 1 ELSE 0
      BY <2>1, CountWithRunners
    <3>. QED
      BY <3>1, <3>2, <3>3 DEF Held
  <2>3. /\ ~(t \in Range(pending) /\ t \in WithRunners)
        /\ ~(t \in Range(pending) /\ t \in Range(finished))
        /\ ~(t \in WithRunners /\ t \in Range(finished))
    BY <2>1 DEF PlaceInv
  <2>4. runs[t] <= 1
    <3>1. runs[t] \in {0, 1}
      BY <2>1 DEF TypeInv
    <3>. QED
      BY <3>1
  <2>5. Held(t) <= 1
    BY <2>2, <2>3
  <2>6. ASSUME main.pc # "done", runs[t] = 0, t \notin incoming, t \notin Range(main.todo)
        PROVE  Held(t) = 1
    <3>1. t \in Range(pending) \cup WithRunners
      BY <2>1, <2>6 DEF StartInv, Coming
    <3>. QED
      BY <2>2, <2>3, <3>1
  <2>. QED
    BY <2>4, <2>5, <2>6
<1>2. IndInv => TaskHeldOnce
  BY <1>1 DEF TaskHeldOnce
<1>. QED
  BY <1>2, AlwaysIndInv, PTL
=============================================================================
