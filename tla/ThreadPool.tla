----------------------------- MODULE ThreadPool -----------------------------
(***************************************************************************)
(* mtp::CThreadPool and mtp::CTask (src/src/threadsafe/threadpool.cpp and  *)
(* task.cpp): worker threads that pop tasks from a shared list, execute    *)
(* them and fulfil their promises, and that park on a condition variable   *)
(* when the list is empty.                                                 *)
(*                                                                         *)
(* This module holds the state of the pool and of its tasks, the steps of  *)
(* a worker thread, and the pool's operations as the steps its owner takes *)
(* in them.  A module that models an owner extends it.  The task list is   *)
(* used through what BlockingList is shown to implement: a first-in        *)
(* first-out queue whose calls are atomic.                                 *)
(***************************************************************************)
EXTENDS Naturals, Sequences

CONSTANTS
    Workers,   \* the threads Init creates
    Tasks,     \* the CTask objects
    NoWorker,  \* nobody holds m_waiting_mutex
    NoTask     \* a worker's tsk outside the body of the inner loop

ASSUME PoolAssumption == NoWorker \notin Workers /\ NoTask \notin Tasks

VARIABLES
    m_tasks,          \* CThreadPool::m_tasks
    m_isRunning,      \* CThreadPool::m_isRunning
    m_onWaiting,      \* a functor is stored in CThreadPool::m_onWaiting
    m_waiting,        \* the threads parked on the condition variable m_waiting
    m_waiting_mutex,  \* the worker that holds it, or NoWorker
    wpc,              \* wpc[w]: the next statement of worker w
    tsk,              \* tsk[w]: the task worker w has popped
    m_promise,        \* the tasks whose promise has been fulfilled
    executed,         \* history: the tasks Execute has returned for
    onWaitingCalls,   \* history: m_onWaiting has been called
    terminated        \* std::terminate has ended the process

hook == <<m_onWaiting, onWaitingCalls>>
cond == <<m_waiting, m_waiting_mutex>>
thread == <<wpc, tsk>>
done == <<m_promise, executed>>
poolVars == <<m_tasks, m_isRunning, hook, cond, thread, done, terminated>>

\* CThreadPool() and the constructors of the tasks; Init has started no thread.
PoolInit ==
    /\ m_tasks = <<>>
    /\ m_isRunning = TRUE
    /\ m_onWaiting = FALSE
    /\ m_waiting = {}
    /\ m_waiting_mutex = NoWorker
    /\ wpc = [w \in Workers |-> "none"]
    /\ tsk = [w \in Workers |-> NoTask]
    /\ m_promise = {}
    /\ executed = {}
    /\ onWaitingCalls = FALSE
    /\ terminated = FALSE

-----------------------------------------------------------------------------
(* workThread *)

\* A step of thread w; there is none once the process has been terminated.
Goto(w, from, to) ==
    /\ ~terminated
    /\ wpc[w] = from
    /\ wpc' = [wpc EXCEPT ![w] = to]

TestRunning(w) ==
    /\ Goto(w, "running", IF m_isRunning THEN "empty" ELSE "exited")
    /\ UNCHANGED <<m_tasks, m_isRunning, hook, cond, tsk, done, terminated>>

TestEmpty(w) ==
    /\ Goto(w, "empty", IF m_tasks # <<>> THEN "pop" ELSE "lock")
    /\ UNCHANGED <<m_tasks, m_isRunning, hook, cond, tsk, done, terminated>>

\* Another worker may have taken the task that empty() saw: pop_front is false.
PopNothing(w) ==
    /\ m_tasks = <<>>
    /\ Goto(w, "pop", "empty")
    /\ UNCHANGED <<m_tasks, m_isRunning, hook, cond, tsk, done, terminated>>

\* Defects: the list keeps the task; the popped task is not stored in tsk; the task
\* is notified without having been executed.
PopTaskKeeps(w) ==
    /\ m_tasks # <<>>
    /\ Goto(w, "pop", "execute")
    /\ tsk' = [tsk EXCEPT ![w] = Head(m_tasks)]
    /\ UNCHANGED <<m_tasks, m_isRunning, hook, cond, done, terminated>>
PopTaskForgets(w) ==
    /\ m_tasks # <<>>
    /\ Goto(w, "pop", "execute")
    /\ m_tasks' = Tail(m_tasks)
    /\ UNCHANGED <<m_isRunning, hook, cond, tsk, done, terminated>>
PopTaskNotifies(w) ==
    /\ m_tasks # <<>>
    /\ Goto(w, "pop", "notify")
    /\ tsk' = [tsk EXCEPT ![w] = Head(m_tasks)]
    /\ m_tasks' = Tail(m_tasks)
    /\ UNCHANGED <<m_isRunning, hook, cond, done, terminated>>

PopTask(w) ==
    /\ m_tasks # <<>>
    /\ Goto(w, "pop", "execute")
    /\ tsk' = [tsk EXCEPT ![w] = Head(m_tasks)]
    /\ m_tasks' = Tail(m_tasks)
    /\ UNCHANGED <<m_isRunning, hook, cond, done, terminated>>

\* The return of tsk->Execute(), which ran from the pop to here.
Execute(w) ==
    /\ Goto(w, "execute", "notify")
    /\ executed' = executed \cup {tsk[w]}
    /\ UNCHANGED <<m_tasks, m_isRunning, hook, cond, tsk, m_promise, terminated>>

\* CTask::Notify: set_value on a promise that is already satisfied throws
\* std::future_error out of the thread's function, which ends the process.
Notify(w) ==
    /\ Goto(w, "notify", "empty")
    /\ tsk' = [tsk EXCEPT ![w] = NoTask]
    /\ terminated' = (tsk[w] \in m_promise)
    /\ m_promise' = m_promise \cup {tsk[w]}
    /\ UNCHANGED <<m_tasks, m_isRunning, hook, cond, executed>>

LockWaiting(w) ==
    /\ m_waiting_mutex = NoWorker
    /\ Goto(w, "lock", "wait")
    /\ m_waiting_mutex' = w
    /\ UNCHANGED <<m_tasks, m_isRunning, hook, m_waiting, tsk, done, terminated>>

\* condition_variable::wait parks the thread and releases the mutex in one step.
Wait(w) ==
    /\ Goto(w, "wait", "parked")
    /\ m_waiting' = m_waiting \cup {w}
    /\ m_waiting_mutex' = NoWorker
    /\ UNCHANGED <<m_tasks, m_isRunning, hook, tsk, done, terminated>>

\* Defect: the mutex taken on waking up is not released.
WakeUpKeepsMutex(w) ==
    /\ w \notin m_waiting
    /\ m_waiting_mutex = NoWorker
    /\ Goto(w, "parked", "running")
    /\ m_waiting_mutex' = w
    /\ UNCHANGED <<m_tasks, m_isRunning, hook, m_waiting, tsk, done, terminated>>

\* Once notified it takes the mutex again, and releases it at the end of the block.
WakeUp(w) ==
    /\ w \notin m_waiting
    /\ m_waiting_mutex = NoWorker
    /\ Goto(w, "parked", "running")
    /\ UNCHANGED <<m_tasks, m_isRunning, hook, cond, tsk, done, terminated>>

\* The condition variable may wake a thread that nobody notified.
SpuriousWakeUp(w) ==
    /\ ~terminated
    /\ w \in m_waiting
    /\ m_waiting' = m_waiting \ {w}
    /\ UNCHANGED <<m_tasks, m_isRunning, hook, m_waiting_mutex, thread, done, terminated>>

\* The steps of a worker that do not depend on what tasks do: an owner's module
\* adds PopTask and Execute, between which the task's own code runs.
WorkerWithoutTask(w) ==
    \/ TestRunning(w) \/ TestEmpty(w) \/ PopNothing(w) \/ Notify(w)
    \/ LockWaiting(w) \/ Wait(w) \/ WakeUp(w)

-----------------------------------------------------------------------------
(* What the owner of the pool does to it: the steps of Init, AddTask,      *)
(* SetOnWaiting and ~CThreadPool.                                          *)

SpawnThread(w) ==
    /\ Goto(w, "none", "running")
    /\ UNCHANGED <<m_tasks, m_isRunning, hook, cond, tsk, done, terminated>>

AddTaskPush(t) ==
    /\ m_tasks' = Append(m_tasks, t)
    /\ UNCHANGED <<m_isRunning, hook, cond, thread, done, terminated>>

\* notify_one wakes one parked thread if there is one, and is forgotten otherwise.
NotifyOne ==
    /\ \/ m_waiting = {} /\ UNCHANGED m_waiting
       \/ \E w \in m_waiting : m_waiting' = m_waiting \ {w}
    /\ UNCHANGED <<m_tasks, m_isRunning, hook, m_waiting_mutex, thread, done, terminated>>

SetOnWaiting ==
    /\ m_onWaiting' = TRUE
    /\ UNCHANGED <<m_tasks, m_isRunning, onWaitingCalls, cond, thread, done, terminated>>

\* Defect: stopping empties the list.
StopRunningClears ==
    /\ m_isRunning' = FALSE
    /\ m_tasks' = <<>>
    /\ UNCHANGED <<hook, cond, thread, done, terminated>>

StopRunning ==
    /\ m_isRunning' = FALSE
    /\ UNCHANGED <<m_tasks, hook, cond, thread, done, terminated>>

NotifyAll ==
    /\ m_waiting' = {}
    /\ UNCHANGED <<m_tasks, m_isRunning, hook, m_waiting_mutex, thread, done, terminated>>

\* The loop of joins returns when every thread that Init created has exited.
Joined == \A w \in Workers : wpc[w] \in {"none", "exited"}

\* The end of ~CThreadPool: the members are destroyed, the functor and the list with
\* every task that is still in it.
DestroyMembers ==
    /\ Joined
    /\ m_tasks' = <<>>
    /\ m_onWaiting' = FALSE
    /\ UNCHANGED <<m_isRunning, onWaitingCalls, cond, thread, done, terminated>>

-----------------------------------------------------------------------------
WorkerLabels == {"none", "running", "empty", "pop", "execute", "notify", "lock",
                 "wait", "parked", "exited"}

PoolTypeOK ==
    /\ m_tasks \in Seq(Tasks)
    /\ m_isRunning \in BOOLEAN
    /\ m_onWaiting \in BOOLEAN
    /\ m_waiting \subseteq Workers
    /\ m_waiting_mutex \in Workers \cup {NoWorker}
    /\ wpc \in [Workers -> WorkerLabels]
    /\ tsk \in [Workers -> Tasks \cup {NoTask}]
    /\ m_promise \subseteq Tasks
    /\ executed \subseteq Tasks
    /\ onWaitingCalls \in BOOLEAN
    /\ terminated \in BOOLEAN

Queued(t) == \E i \in 1..Len(m_tasks) : m_tasks[i] = t
NoRepeat == \A i, j \in 1..Len(m_tasks) : m_tasks[i] = m_tasks[j] => i = j
HeldBy(w, t) == wpc[w] \in {"execute", "notify"} /\ tsk[w] = t

\* Every thread is parked although a task is in the list.
AllParked == \A w \in Workers : w \in m_waiting
=============================================================================
