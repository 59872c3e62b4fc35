------------------------------ MODULE ThreadPool ------------------------------
(***************************************************************************)
(* The host's thread pool and its task runners, as the programs use it: the *)
(* main thread adds its services, then calls Update in a loop and Terminate *)
(* at the end; a server task (the asio service) runs on a pool thread and   *)
(* adds a task for every connection it accepts.  A mutex that is held while *)
(* another one is waited for, or until a thread sleeps, has an owner; the   *)
(* other critical sections are one step.  Sleeping on m_pendingTasksCV and  *)
(* notifying it are steps of their own, and m_terminated is written without *)
(* the mutex, so that a lost notification shows.                            *)
(***************************************************************************)
EXTENDS Naturals, FiniteSets, Sequences, SequencesExt

CONSTANTS
    PoolSize,
    MainTasks,      \* the tasks the main thread adds, in order
    Connections,    \* the tasks a server adds
    KindOf          \* "ticking" and "server" tasks end when told to; a "connection"
                    \* cannot be told, it ends with its peer

Tasks == Range(MainTasks) \cup Connections
None == "none"

ASSUME PoolAssumption ==
    /\ PoolSize \in Nat \ {0} /\ MainTasks \in Seq(Range(MainTasks))
    /\ Range(MainTasks) \cap Connections = {} /\ IsInjective(MainTasks)
    /\ KindOf \in [Tasks -> {"ticking", "server", "connection"}]
    /\ None \notin Tasks

Main == 0
Threads == 0..PoolSize      \* the main thread and the runners' threads

VARIABLES
    pending,        \* m_pendingTasks
    finished,       \* m_finishTasksQueue
    runner,         \* m_threads with their m_busyTaskRunners
    threadsSize,    \* m_threadsSize
    terminated,     \* m_terminated
    pendOwner,      \* the thread that holds m_pendingTasksMutex across a wait, if any
    adder,          \* where each thread is in AddTask
    main,           \* the main thread: [pc, todo, i]
    incoming,       \* connections still to come
    runs            \* history: how often each task was started

vars == <<pending, finished, runner, threadsSize, terminated, pendOwner, adder, main,
          incoming, runs>>

Runners == 1..Len(runner)
Asleep == {r \in Runners : runner[r].pc = "asleep"}

Init ==
    /\ pending = <<>> /\ finished = <<>> /\ runner = <<>> /\ threadsSize = 0
    /\ terminated = FALSE /\ pendOwner = {}
    /\ adder = [x \in Threads |-> "none"]
    /\ main = [pc |-> "loop", todo |-> MainTasks, i |-> 0]
    /\ incoming = Connections
    /\ runs = [t \in Tasks |-> 0]
-----------------------------------------------------------------------------
(***************************************************************************)
(* Notifications.                                                          *)
(***************************************************************************)
\* defect: nobody is notified
NotifyNone(rs) == {rs}

\* The runners after a notify_one: one of those asleep goes on, if any.
NotifyOne(rs) ==
    IF Asleep = {} THEN {rs} ELSE {[rs EXCEPT ![r].pc = "fetch"] : r \in Asleep}

NotifyAll(rs) ==
    [r \in DOMAIN rs |-> IF rs[r].pc = "asleep" THEN [rs[r] EXCEPT !.pc = "fetch"] ELSE rs[r]]
-----------------------------------------------------------------------------
(***************************************************************************)
(* AddTask, on any thread.                                                 *)
(***************************************************************************)
Push(x, t) ==
    /\ adder[x] = "none" /\ pendOwner = {}
    /\ pending' = Append(pending, t)
    /\ adder' = [adder EXCEPT ![x] = "notify"]
    /\ UNCHANGED <<finished, runner, threadsSize, terminated, pendOwner, runs>>

\* notify_one, without the mutex: after the push, or again at the end.
AddNotify(x) ==
    /\ adder[x] \in {"notify", "again"}
    /\ runner' \in NotifyOne(runner)
    /\ adder' = [adder EXCEPT ![x] = IF @ = "notify" THEN "check" ELSE "none"]
    /\ UNCHANGED <<pending, finished, threadsSize, terminated, pendOwner, main, incoming,
                   runs>>

\* defect: the last thread is never made
MayGrowLess == threadsSize + 1 < PoolSize

MayGrow == threadsSize < PoolSize

AddCheck(x) ==
    /\ adder[x] = "check"
    /\ adder' = [adder EXCEPT ![x] = IF pending # <<>> /\ MayGrow THEN "lock" ELSE "none"]
    /\ UNCHANGED <<pending, finished, runner, threadsSize, terminated, pendOwner, main,
                   incoming, runs>>

AddLock(x) ==
    /\ adder[x] = "lock" /\ pendOwner = {}
    /\ IF pending = <<>>
         THEN adder' = [adder EXCEPT ![x] = "none"] /\ UNCHANGED pendOwner
         ELSE adder' = [adder EXCEPT ![x] = "create"] /\ pendOwner' = {x}
    /\ UNCHANGED <<pending, finished, runner, threadsSize, terminated, main, incoming,
                   runs>>

\* Terminate holds m_threadsMutex from its loop over the runners to its end.
ThreadsFree == main.pc # "stopping"

\* defect: the size is not looked at again under the lock
RoomUnchecked == TRUE

Room == Len(runner) < PoolSize

\* defect: the task handed to the new thread stays in the list
PoppedNone(s) == s

Popped(s) == Tail(s)

\* CreateNewThread, with m_pendingTasksMutex held: the first task goes to a new
\* runner, or a notification is to be sent again.
AddCreate(x) ==
    /\ adder[x] = "create" /\ ThreadsFree
    /\ IF Room
         THEN /\ threadsSize' = threadsSize + 1
              /\ runner' = Append(runner, [pc |-> "top", task |-> Head(pending),
                                           terminating |-> FALSE, told |-> FALSE])
              /\ pending' = Popped(pending)
              /\ adder' = [adder EXCEPT ![x] = "none"]
         ELSE /\ adder' = [adder EXCEPT ![x] = "again"]
              /\ UNCHANGED <<threadsSize, runner, pending>>
    /\ pendOwner' = {}
    /\ UNCHANGED <<finished, terminated, main, incoming, runs>>

AddTaskStep(x) == AddNotify(x) \/ AddCheck(x) \/ AddLock(x) \/ AddCreate(x)
-----------------------------------------------------------------------------
(***************************************************************************)
(* A runner's thread.                                                      *)
(***************************************************************************)
\* The head of the loop: without a task the runner waits on its own condition.
RunnerTop(r) ==
    /\ runner[r].pc = "top"
    /\ \/ /\ runner[r].terminating
          /\ runner' = [runner EXCEPT ![r].pc = "ended"]
          /\ UNCHANGED runs
       \/ /\ ~runner[r].terminating /\ runner[r].task # None
          /\ runner' = [runner EXCEPT ![r].pc = "run"]
          /\ runs' = [runs EXCEPT ![runner[r].task] = @ + 1]
    /\ UNCHANGED <<pending, finished, threadsSize, terminated, pendOwner, adder, main,
                   incoming>>

\* Run has returned or thrown (OnException ignores it): the task goes to the
\* finish queue and the runner looks for another.
AfterRun(r) ==
    /\ runner[r].pc = "run" /\ adder[r] = "none"
    /\ runner' = [runner EXCEPT ![r].pc = "fetch", ![r].task = None]
    /\ finished' = Append(finished, runner[r].task)
    /\ UNCHANGED <<pending, threadsSize, terminated, pendOwner, adder, main, incoming,
                   runs>>

\* A task that was told to end; for a connection Terminate does nothing.
Ends(r) == KindOf[runner[r].task] # "connection" /\ runner[r].told

RunReturns(r) == runner[r].pc = "run" /\ Ends(r) /\ AfterRun(r)

\* A task throws, or the peer of a connection is done: nothing forces either.
RunEndsUntold(r) == runner[r].pc = "run" /\ ~Ends(r) /\ AfterRun(r)

\* A server accepts a connection while it runs.
Accept(r) ==
    /\ runner[r].pc = "run" /\ KindOf[runner[r].task] = "server" /\ ~runner[r].told
    /\ \E t \in incoming : Push(r, t) /\ incoming' = incoming \ {t}
    /\ UNCHANGED main

\* The predicate is read with the mutex held, which is kept until the wait begins.
BlockingFetchPendingTask(r) ==
    /\ runner[r].pc = "fetch" /\ pendOwner = {}
    /\ IF terminated
         THEN /\ runner' = [runner EXCEPT ![r].pc = "top"]
              /\ UNCHANGED <<pending, pendOwner>>
       ELSE IF pending # <<>>
         THEN /\ runner' = [runner EXCEPT ![r].pc = "top", ![r].task = Head(pending)]
              /\ pending' = Tail(pending) /\ UNCHANGED pendOwner
       ELSE /\ runner' = [runner EXCEPT ![r].pc = "waiting"]
            /\ pendOwner' = {r} /\ UNCHANGED pending
    /\ UNCHANGED <<finished, threadsSize, terminated, adder, main, incoming, runs>>

\* The wait: the mutex is released and the thread sleeps.
FallAsleep(r) ==
    /\ runner[r].pc = "waiting"
    /\ runner' = [runner EXCEPT ![r].pc = "asleep"]
    /\ pendOwner' = {}
    /\ UNCHANGED <<pending, finished, threadsSize, terminated, adder, main, incoming, runs>>

RunnerStep(r) ==
    \/ RunnerTop(r) \/ RunReturns(r) \/ AddTaskStep(r)
    \/ BlockingFetchPendingTask(r) \/ FallAsleep(r)
-----------------------------------------------------------------------------
(***************************************************************************)
(* The main thread.                                                        *)
(***************************************************************************)
MainAdds ==
    /\ main.pc = "loop" /\ main.todo # <<>>
    /\ Push(Main, Head(main.todo))
    /\ main' = [main EXCEPT !.todo = Tail(@)]
    /\ UNCHANGED incoming

MainIdle == main.pc = "loop" /\ main.todo = <<>> /\ adder[Main] = "none"

\* Update: Finishing is called for each task of the finish queue.
Update ==
    /\ MainIdle /\ finished # <<>>
    /\ finished' = Tail(finished)
    /\ UNCHANGED <<pending, runner, threadsSize, terminated, pendOwner, adder, main,
                   incoming, runs>>

\* m_terminated is written whoever holds m_pendingTasksMutex,
Terminate ==
    /\ MainIdle
    /\ terminated' = TRUE
    /\ main' = [main EXCEPT !.pc = "notify"]
    /\ UNCHANGED <<pending, finished, runner, threadsSize, pendOwner, adder, incoming, runs>>

\* and then those who sleep are woken, not those about to sleep.
TerminateNotifies ==
    /\ main.pc = "notify"
    /\ runner' = NotifyAll(runner)
    /\ main' = [main EXCEPT !.pc = "locking"]
    /\ UNCHANGED <<pending, finished, threadsSize, terminated, pendOwner, adder, incoming,
                   runs>>

TerminateLocks ==
    /\ main.pc = "locking"
    /\ main' = [main EXCEPT !.pc = "stopping", !.i = 1]
    /\ UNCHANGED <<pending, finished, runner, threadsSize, terminated, pendOwner, adder,
                   incoming, runs>>

\* defect: the loop does not notify again
ToldQuietly(rs, i) ==
    [rs EXCEPT ![i].terminating = TRUE, ![i].told = (@ \/ rs[i].task # None)]

\* One pass of the loop: all are notified and runner i is told to terminate.
ToldAgain(rs, i) ==
    NotifyAll([rs EXCEPT ![i].terminating = TRUE, ![i].told = (@ \/ rs[i].task # None)])

\* TerminateTask, again and again until the runner has ended.
TerminateTask ==
    /\ main.pc = "stopping" /\ main.i <= Len(runner)
    /\ IF runner[main.i].pc = "ended"
         THEN main' = [main EXCEPT !.i = @ + 1] /\ UNCHANGED runner
         ELSE runner' = ToldAgain(runner, main.i) /\ UNCHANGED main
    /\ UNCHANGED <<pending, finished, threadsSize, terminated, pendOwner, adder, incoming,
                   runs>>

\* All runners have ended: the threads are joined and cleared.
TerminateJoins ==
    /\ main.pc = "stopping" /\ main.i > Len(runner)
    /\ main' = [main EXCEPT !.pc = "done"]
    /\ runner' = <<>>
    /\ UNCHANGED <<pending, finished, threadsSize, terminated, pendOwner, adder, incoming,
                   runs>>

Terminating == TerminateNotifies \/ TerminateLocks \/ TerminateTask \/ TerminateJoins
MainAddsStep == MainAdds \/ AddTaskStep(Main)
-----------------------------------------------------------------------------
Next ==
    \/ MainAddsStep \/ Update \/ Terminate \/ Terminating
    \/ \E r \in Runners : RunnerStep(r) \/ RunEndsUntold(r) \/ Accept(r)

Spec == Init /\ [][Next]_vars

\* Every thread that can go on does, and ticking and server tasks end once they are
\* told to.  Nothing forces a connection to come or to end, an exception or the
\* signal that ends the main loop.
Fairness ==
    /\ WF_vars(MainAddsStep) /\ WF_vars(Update) /\ WF_vars(Terminating)
    /\ \A r \in 1..PoolSize : WF_vars(r \in Runners /\ RunnerStep(r))

FairSpec == Spec /\ Fairness
-----------------------------------------------------------------------------
\* Two threads that both saw room for a thread never make the pool too large.
PoolBound == Len(runner) <= PoolSize

\* How many times task t is in the pool's hands: pending, with a runner or in the
\* finish queue.
Held(t) ==
    Cardinality({i \in DOMAIN pending : pending[i] = t})
      + Cardinality({r \in Runners : runner[r].task = t})
      + Cardinality({i \in DOMAIN finished : finished[i] = t})

\* A task changes hands without being lost or duplicated: until the pool is
\* cleared, a task that has not run yet is held exactly once after it was added,
\* no task is ever held twice, and none is run twice.
TaskHeldOnce ==
    \A t \in Tasks :
        /\ Held(t) <= 1 /\ runs[t] <= 1
        /\ (main.pc # "done" /\ runs[t] = 0 /\ t \notin incoming
              /\ t \notin Range(main.todo)) => Held(t) = 1

Fetching == {r \in Runners : runner[r].pc = "fetch"}
Notifying == {x \in Threads : adder[x] = "notify"}

\* No notification is lost: while a runner sleeps there are no more pending tasks
\* than runners on their way to fetch one and threads about to notify.
NoLostWakeup ==
    ~terminated /\ Asleep # {} =>
        Len(pending) <= Cardinality(Fetching) + Cardinality(Notifying)

\* Every thread the pool may have runs a task.
AllBusy == Len(runner) = PoolSize /\ \A r \in Runners : runner[r].pc = "run"

\* A task that was added waits for ever only behind a full pool whose every thread
\* runs a task that never ends, however the adds, the fetches and the notifications
\* interleave, or because the pool is told to terminate.
EveryTaskStarts ==
    \A t \in Tasks : <>[](t \in Range(pending) /\ ~terminated) => <>[]AllBusy

\* Some thread is inside AddTask with m_pendingTasksMutex held and waits for
\* m_threadsMutex, which Terminate holds.
AddTaskBlocked == \E x \in Threads : adder[x] = "create" /\ main.pc = "stopping"

\* Runner r is in a connection, which nothing but its peer can end.
InConnection(r) ==
    r \in Runners /\ runner[r].pc = "run" /\ KindOf[runner[r].task] = "connection"

\* Terminate returns although its first notification may miss a runner that has read
\* m_terminated and does not sleep yet: the loop notifies again.  Two things can keep
\* it: a connection whose peer never ends it, and an AddTask caught between its two
\* mutexes.
TerminateReturns ==
    []~AddTaskBlocked /\ (\A r \in 1..PoolSize : []<>~InConnection(r))
        => (main.pc = "notify" ~> main.pc = "done")

(***************************************************************************)
(* The inductive invariant behind PoolBound, TaskHeldOnce and NoLostWakeup. *)
(***************************************************************************)
RunnerState ==
    [pc : {"top", "run", "fetch", "waiting", "asleep", "ended"}, task : Tasks \cup {None},
     terminating : BOOLEAN, told : BOOLEAN]

TypeInv ==
    /\ pending \in Seq(Tasks) /\ finished \in Seq(Tasks) /\ runner \in Seq(RunnerState)
    /\ adder \in [Threads -> {"none", "notify", "check", "lock", "create", "again"}]
    /\ main \in [pc : {"loop", "notify", "locking", "stopping", "done"}, todo : Seq(Tasks), i : Nat]
    /\ main.pc = "stopping" => main.i >= 1
    /\ incoming \subseteq Tasks
    /\ runs \in [Tasks -> {0, 1}]

\* The thread between the two mutexes of AddTask is the only one, and nobody has
\* taken the task it is about to hand over; a runner about to sleep has the mutex,
\* and nothing has been added since it looked.
OwnerInv ==
    /\ \A x \in Threads : adder[x] = "create" => pendOwner = {x} /\ pending # <<>>
    /\ \A r \in Runners : runner[r].pc = "waiting" => pendOwner = {r} /\ pending = <<>>

\* The tasks that are still to be added, and those that runners hold.
Coming == Range(main.todo) \cup incoming
WithRunners == {runner[r].task : r \in Runners} \ {None}

\* A task is in one place only,
PlaceInv ==
    /\ IsInjective(main.todo) /\ IsInjective(pending) /\ IsInjective(finished)
    /\ \A q, r \in Runners :
          runner[q].task = runner[r].task /\ runner[q].task # None => q = r
    /\ Range(main.todo) \cap incoming = {}
    /\ Coming \cap Range(pending) = {}
    /\ (Coming \cup Range(pending)) \cap WithRunners = {}
    /\ (Coming \cup Range(pending) \cup WithRunners) \cap Range(finished) = {}

\* and the place tells whether it was started.
StartInv ==
    /\ \A t \in Coming \cup Range(pending) : runs[t] = 0
    /\ \A t \in Range(finished) : runs[t] = 1
    /\ \A r \in Runners :
          /\ runner[r].pc \in {"fetch", "waiting", "asleep"} => runner[r].task = None
          /\ runner[r].pc = "run" => runner[r].task # None
          /\ runner[r].task # None =>
                runs[runner[r].task] = IF runner[r].pc = "run" THEN 1 ELSE 0
    /\ main.pc # "done" =>
          \A t \in Tasks : runs[t] = 0 => t \in Coming \cup Range(pending) \cup WithRunners

IndInv == TypeInv /\ PoolBound /\ OwnerInv /\ NoLostWakeup /\ PlaceInv /\ StartInv
=============================================================================
