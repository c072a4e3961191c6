----------------------------- MODULE PoolOwner ------------------------------
(***************************************************************************)
(* The thread pool with one thread that owns it, as                        *)
(* src/src/tests/test_threadpool/main.cpp does: it creates the pool,       *)
(* starts the threads, stores a functor, adds tasks, may wait for any of   *)
(* them, and destroys the pool.  With Reuse it adds tasks again that it    *)
(* has added before, as the test's loops do; without, it adds each once,   *)
(* as CKmeans does.                                                        *)
(***************************************************************************)
EXTENDS ThreadPool

CONSTANTS
    Reuse,    \* the owner may add a task more than once
    MaxAdds   \* bound on the calls of AddTask

ASSUME OwnerAssumption == Reuse \in BOOLEAN /\ MaxAdds \in Nat

VARIABLES
    opc,      \* the next statement of the owner
    waitsFor, \* the task whose Wait the owner is in
    added,    \* history: the tasks passed to AddTask
    adds      \* the number of those calls

ownerVars == <<opc, waitsFor, added, adds>>
vars == <<poolVars, ownerVars>>

Init ==
    /\ PoolInit
    /\ opc = "init" /\ waitsFor = NoTask /\ added = {} /\ adds = 0

OwnerGoto(from, to) == ~terminated /\ opc = from /\ opc' = to

\* CThreadPool::Init, one thread at a time: the first run before the last exist.
InitSpawn(w) ==
    /\ OwnerGoto("init", "init")
    /\ SpawnThread(w)
    /\ UNCHANGED <<waitsFor, added, adds>>

InitReturn ==
    /\ \A w \in Workers : wpc[w] # "none"
    /\ OwnerGoto("init", "idle")
    /\ UNCHANGED <<poolVars, waitsFor, added, adds>>

OwnerSetOnWaiting ==
    /\ OwnerGoto("idle", "idle")
    /\ SetOnWaiting
    /\ UNCHANGED <<waitsFor, added, adds>>

\* AddTask is two steps: the push, and the notification that follows it.
AddTask(t) ==
    /\ adds < MaxAdds
    /\ Reuse \/ t \notin added
    /\ OwnerGoto("idle", "notify")
    /\ AddTaskPush(t)
    /\ added' = added \cup {t}
    /\ adds' = adds + 1
    /\ UNCHANGED waitsFor

AddTaskNotify ==
    /\ OwnerGoto("notify", "idle")
    /\ NotifyOne
    /\ UNCHANGED <<waitsFor, added, adds>>

\* CTask::Wait blocks until the promise is fulfilled.
WaitCall(t) ==
    /\ t \in added
    /\ OwnerGoto("idle", "wait")
    /\ waitsFor' = t
    /\ UNCHANGED <<poolVars, added, adds>>

WaitReturn ==
    /\ waitsFor \in m_promise
    /\ OwnerGoto("wait", "idle")
    /\ waitsFor' = NoTask
    /\ UNCHANGED <<poolVars, added, adds>>

\* ~CThreadPool: the flag, then WaitAll, which notifies and joins.
DestroyStop ==
    /\ OwnerGoto("idle", "stop")
    /\ StopRunning
    /\ UNCHANGED <<waitsFor, added, adds>>

DestroyNotify ==
    /\ OwnerGoto("stop", "join")
    /\ NotifyAll
    /\ UNCHANGED <<waitsFor, added, adds>>

DestroyJoin ==
    /\ OwnerGoto("join", "gone")
    /\ DestroyMembers
    /\ UNCHANGED <<waitsFor, added, adds>>

\* The owner's steps that complete something it has begun.
OwnerCompletes ==
    \/ \E w \in Workers : InitSpawn(w)
    \/ InitReturn \/ AddTaskNotify \/ WaitReturn \/ DestroyNotify \/ DestroyJoin

OwnerChooses ==
    \/ OwnerSetOnWaiting
    \/ \E t \in Tasks : AddTask(t) \/ WaitCall(t)
    \/ DestroyStop

Worker(w) ==
    /\ WorkerWithoutTask(w) \/ PopTask(w) \/ Execute(w)
    /\ UNCHANGED ownerVars

Spurious(w) == SpuriousWakeUp(w) /\ UNCHANGED ownerVars

Next ==
    \/ OwnerCompletes
    \/ OwnerChooses
    \/ \E w \in Workers : Worker(w) \/ Spurious(w)

\* Each thread, and the owner inside a call, keeps running; the owner need not make
\* another call, and no thread need be woken spuriously.
Fairness ==
    /\ WF_vars(OwnerCompletes)
    /\ \A w \in Workers : WF_vars(Worker(w))

Spec == Init /\ [][Next]_vars /\ Fairness

-----------------------------------------------------------------------------
OwnerLabels == {"init", "idle", "notify", "wait", "stop", "join", "gone"}

TypeOK ==
    /\ PoolTypeOK
    /\ opc \in OwnerLabels
    /\ waitsFor \in Tasks \cup {NoTask}
    /\ added \subseteq Tasks
    /\ adds \in 0..MaxAdds

\* Wait is a barrier: a promise is fulfilled only after Execute has returned, and a
\* worker inside Execute works on a task nobody can have seen fulfilled, so that the
\* owner never reads a task's results while or before they are written.
WaitIsBarrier ==
    /\ m_promise \subseteq executed
    /\ ~Reuse => \A w \in Workers : wpc[w] = "execute" => tsk[w] \notin m_promise

\* Only the destructor drops tasks, and only those no worker has taken: until it ends
\* each task that was added is in the list, or with a worker, or done, whatever races
\* empty() and pop_front lose.  What is in the list when the workers see m_isRunning
\* false is destroyed with it and stays unfulfilled; what a worker took is fulfilled.
OnlyShutdownDrops ==
    /\ \A t \in added :
        Queued(t) \/ t \in m_promise \/ (\E w \in Workers : HeldBy(w, t)) \/ opc = "gone"
    /\ opc = "gone" =>
        executed \subseteq m_promise /\ \A w \in Workers, t \in Tasks : ~HeldBy(w, t)

\* No task is handled twice: one that is added once is in the list once, or with one
\* worker, or done, and never in two of these places.
NoTaskDuplicated ==
    ~Reuse =>
        /\ NoRepeat
        /\ \A w, v \in Workers, t \in Tasks : HeldBy(w, t) /\ HeldBy(v, t) => w = v
        /\ \A t \in Tasks : Queued(t) =>
            t \notin m_promise /\ \A w \in Workers : ~HeldBy(w, t)
        /\ \A w \in Workers, t \in Tasks : HeldBy(w, t) => t \notin m_promise

\* Nothing a worker does ends the process: no promise is fulfilled twice.
NeverTerminates == ~terminated

\* A task is in the list, the call that added it has returned, and every thread is
\* parked: each saw the list empty, and parked after the notification was gone.
Stalled == m_tasks # <<>> /\ AllParked /\ opc \notin {"notify", "stop"}

\* "Waiting for new tasks" (threadpool.cpp:65): the threads are all parked only when
\* there is no task to take.
WaitsOnlyForNewTasks == ~Stalled

\* A thread parked after ~CThreadPool's notify_all: the join never returns.
ShutdownStalled == opc = "join" /\ m_waiting # {}

\* A lost notification is the only way to hang: in a run in which no thread ever
\* parks on one, every added task is done unless the pool is being destroyed, and
\* destroying the pool ends.
HangsOnlyOnLostWakeUp ==
    [](~Stalled /\ ~ShutdownStalled /\ ~terminated) =>
        /\ \A t \in Tasks : t \in added ~> (t \in m_promise \/ ~m_isRunning)
        /\ ~m_isRunning ~> opc = "gone"

\* m_onWaiting "must be called when all tasks are done and the pool waits for new
\* ones" (threadpool.h:50).
OnWaitingIsCalled ==
    (m_onWaiting /\ added # {} /\ added = m_promise /\ AllParked) ~> onWaitingCalls
=============================================================================
