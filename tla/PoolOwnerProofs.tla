-------------------------- MODULE PoolOwnerProofs ---------------------------
(***************************************************************************)
(* The safety properties of PoolOwner, for any number of threads, of tasks *)
(* and of calls.                                                           *)
(***************************************************************************)
EXTENDS PoolOwner, ThreadPoolProofs

OwnerTypeOK ==
    /\ opc \in OwnerLabels
    /\ waitsFor \in Tasks \cup {NoTask}
    /\ added \subseteq Tasks
    /\ adds \in 0..MaxAdds

\* Where a task that was added can be, and that nothing else is there.
OnlyAdded ==
    \A t \in Tasks :
        Queued(t) \/ t \in m_promise \/ (\E w \in Workers : HeldBy(w, t)) => t \in added

\* What Execute has done before Notify fulfils the promise, and that Notify follows.
Ordered ==
    /\ m_promise \subseteq executed
    /\ \A w \in Workers : wpc[w] = "notify" => tsk[w] \in executed
    /\ \A t \in executed :
        t \in m_promise \/ \E w \in Workers : wpc[w] = "notify" /\ tsk[w] = t

\* The destructor ends when all threads have exited, and none of them comes back.
GoneIsJoined == opc = "gone" => Joined

\* Until then every task that was added is somewhere.
NotDropped ==
    \A t \in added :
        Queued(t) \/ t \in m_promise \/ (\E w \in Workers : HeldBy(w, t)) \/ opc = "gone"

Places ==
    /\ NotDropped
    /\ OnlyAdded
    /\ NoTaskDuplicated
    /\ ~Reuse => ~terminated

\* The inductive invariant.
IInv == PoolInv /\ OwnerTypeOK /\ GoneIsJoined /\ Ordered /\ Places

-----------------------------------------------------------------------------
(* The steps after which every task is where it was.                       *)

HeldStays == \A w \in Workers, t \in Tasks : HeldBy(w, t)' <=> HeldBy(w, t)

\* Places depends on nothing but where the tasks are.
LEMMA PlacesStay ==
    ASSUME Places, added \subseteq Tasks, HeldStays,
           UNCHANGED <<m_tasks, m_promise, added, terminated>>,
           opc = "gone" => opc' = "gone"
    PROVE  Places'
<1>1. \A t : Queued(t)' <=> Queued(t)
  BY DEF Queued
<1>2. NotDropped'
  BY <1>1 DEF Places, NotDropped, HeldStays, OnlyAdded
<1>3. OnlyAdded'
  BY <1>1 DEF Places, OnlyAdded, HeldStays
<1>4. NoTaskDuplicated'
  <2>. SUFFICES ASSUME ~Reuse PROVE NoTaskDuplicated'
    BY DEF NoTaskDuplicated
  <2>1. NoRepeat'
    BY DEF Places, NoTaskDuplicated, NoRepeat
  <2>. QED  BY <1>1, <2>1 DEF Places, NoTaskDuplicated, HeldStays
<1>. QED  BY <1>2, <1>3, <1>4 DEF Places

-----------------------------------------------------------------------------
(* The three steps that move a task.                                       *)

\* AddTask puts it into the list; without Reuse it was nowhere before.
LEMMA AddTaskMoves ==
    ASSUME IInv, NEW t \in Tasks, AddTask(t)
    PROVE  Places'
<1>1. /\ \A u : Queued(u)' <=> Queued(u) \/ u = t
      /\ NoRepeat /\ ~Queued(t) => NoRepeat'
  BY PushKeepsList DEF IInv, PoolInv, PoolTypeOK, AddTask, AddTaskPush
<1>2. /\ m_promise' = m_promise /\ terminated' = terminated
      /\ added' = added \cup {t} /\ added \subseteq Tasks
      /\ HeldStays /\ opc # "gone"
  BY DEF IInv, OwnerTypeOK, AddTask, AddTaskPush, OwnerGoto, thread, done, HeldBy, HeldStays
<1>3. NotDropped'
  BY <1>1, <1>2 DEF IInv, Places, NotDropped, HeldStays
<1>4. OnlyAdded'
  BY <1>1, <1>2 DEF IInv, Places, OnlyAdded, HeldStays
<1>5. NoTaskDuplicated'
  <2>. SUFFICES ASSUME ~Reuse PROVE NoTaskDuplicated'
    BY DEF NoTaskDuplicated
  <2>1. t \notin added
    BY DEF AddTask
  <2>2. ~Queued(t) /\ t \notin m_promise /\ \A w \in Workers : ~HeldBy(w, t)
    BY <2>1 DEF IInv, Places, OnlyAdded
  <2>3. NoRepeat'
    BY <1>1, <2>2 DEF IInv, Places, NoTaskDuplicated
  <2>. QED
    BY <1>1, <1>2, <2>2, <2>3 DEF IInv, Places, NoTaskDuplicated, HeldStays
<1>. QED  BY <1>2, <1>3, <1>4, <1>5 DEF IInv, Places

\* PopTask gives the first task of the list to the worker, which had none.
LEMMA PopTaskMoves ==
    ASSUME IInv, NEW w \in Workers, PopTask(w), UNCHANGED ownerVars
    PROVE  Places'
<1>. DEFINE h == Head(m_tasks)
<1>1. /\ h \in Tasks /\ Queued(h)
      /\ \A u : Queued(u)' => Queued(u)
      /\ \A u : Queued(u) => Queued(u)' \/ u = h
      /\ NoRepeat => NoRepeat' /\ \A u : Queued(u)' => u # h
  BY PopKeepsList DEF IInv, PoolInv, PoolTypeOK, PopTask
<1>2. /\ m_promise' = m_promise /\ terminated' = terminated /\ added' = added
      /\ opc' = opc /\ added \subseteq Tasks
  BY DEF IInv, OwnerTypeOK, PopTask, ownerVars, done
<1>3. \A v \in Workers, u \in Tasks : HeldBy(v, u)' <=> HeldBy(v, u) \/ (v = w /\ u = h)
  BY DEF IInv, PoolInv, PoolTypeOK, PopTask, Goto, HeldBy
<1>. HIDE DEF h
<1>4. NotDropped'
  BY <1>1, <1>2, <1>3 DEF IInv, Places, NotDropped
<1>5. OnlyAdded'
  BY <1>1, <1>2, <1>3 DEF IInv, Places, OnlyAdded
<1>6. NoTaskDuplicated'
  <2>. SUFFICES ASSUME ~Reuse PROVE NoTaskDuplicated'
    BY DEF NoTaskDuplicated
  <2>1. h \notin m_promise /\ \A v \in Workers : ~HeldBy(v, h)
    BY <1>1 DEF IInv, Places, NoTaskDuplicated
  <2>2. NoRepeat' /\ \A u : Queued(u)' => u # h
    BY <1>1 DEF IInv, Places, NoTaskDuplicated
  <2>. QED
    BY <1>1, <1>2, <1>3, <2>1, <2>2 DEF IInv, Places, NoTaskDuplicated
<1>. QED  BY <1>2, <1>4, <1>5, <1>6 DEF IInv, Places

\* Notify moves it from the worker to the fulfilled promises, where it was not.
LEMMA NotifyMoves ==
    ASSUME IInv, NEW w \in Workers, Notify(w), UNCHANGED ownerVars
    PROVE  Places'
<1>1. tsk[w] \in Tasks /\ HeldBy(w, tsk[w])
  BY DEF IInv, PoolInv, HoldsTask, Notify, Goto, HeldBy
<1>2. PICK t \in Tasks : t = tsk[w]
  BY <1>1
<1>3. /\ m_promise' = m_promise \cup {t} /\ terminated' = (t \in m_promise)
      /\ m_tasks' = m_tasks /\ added' = added /\ opc' = opc /\ added \subseteq Tasks
  BY <1>2 DEF IInv, OwnerTypeOK, Notify, ownerVars
<1>4. \A v \in Workers, u \in Tasks : HeldBy(v, u)' <=> HeldBy(v, u) /\ v # w
  BY DEF IInv, PoolInv, PoolTypeOK, Notify, Goto, HeldBy
<1>5. \A u \in Tasks : HeldBy(w, u) => u = t
  BY <1>2 DEF HeldBy
<1>6. \A u : Queued(u)' <=> Queued(u)
  BY <1>3 DEF Queued
<1>7. NotDropped'
  BY <1>3, <1>4, <1>5, <1>6 DEF IInv, Places, NotDropped
<1>8. OnlyAdded'
  BY <1>1, <1>2, <1>3, <1>4, <1>6 DEF IInv, Places, OnlyAdded
<1>9. ASSUME ~Reuse PROVE NoTaskDuplicated' /\ ~terminated'
  <2>1. /\ t \notin m_promise /\ ~Queued(t)
        /\ \A v \in Workers : HeldBy(v, t) => v = w
    BY <1>1, <1>2, <1>9 DEF IInv, Places, NoTaskDuplicated
  <2>2. NoRepeat'
    BY <1>3, <1>9 DEF IInv, Places, NoTaskDuplicated, NoRepeat
  <2>3. NoTaskDuplicated'
    BY <1>3, <1>4, <1>6, <1>9, <2>1, <2>2 DEF IInv, Places, NoTaskDuplicated
  <2>. QED  BY <1>3, <2>1, <2>3
<1>. QED  BY <1>7, <1>8, <1>9 DEF Places, NoTaskDuplicated

-----------------------------------------------------------------------------
(* The invariant.                                                          *)

\* The invariant holds at the start: no task has been added.
LEMMA InitEstablishes == Init => IInv
<1>. SUFFICES ASSUME Init PROVE IInv
  OBVIOUS
<1>1. PoolInv /\ OwnerTypeOK
  BY InitHasInv, OwnerAssumption DEF Init, OwnerTypeOK, OwnerLabels
<1>2. /\ m_tasks = <<>> /\ m_promise = {} /\ added = {} /\ ~terminated
      /\ \A w \in Workers : wpc[w] = "none"
  BY DEF Init, PoolInit
<1>3. \A u : ~Queued(u)
  BY <1>2 DEF Queued
<1>4. Ordered /\ NoRepeat /\ GoneIsJoined
  BY <1>2 DEF Init, PoolInit, Ordered, NoRepeat, GoneIsJoined
<1>5. Places
  BY <1>2, <1>3, <1>4
     DEF Places, NotDropped, OnlyAdded, NoTaskDuplicated, HeldBy
<1>. QED  BY <1>1, <1>4, <1>5 DEF IInv

\* ~CThreadPool destroys the list: what was in it is nowhere any more.
LEMMA DestroyDrops ==
    ASSUME IInv, DestroyJoin
    PROVE  Ordered' /\ Places'
<1>1. /\ m_tasks' = <<>> /\ opc' = "gone"
      /\ UNCHANGED <<thread, done, added, terminated>>
  BY DEF DestroyJoin, DestroyMembers, OwnerGoto
<1>2. Ordered' /\ HeldStays
  BY <1>1 DEF IInv, Ordered, HeldStays, HeldBy, thread, done
<1>3. \A u : ~Queued(u)'
  BY <1>1 DEF Queued
<1>4. NoRepeat'
  BY <1>1 DEF NoRepeat
<1>5. NotDropped'
  BY <1>1 DEF NotDropped
<1>6. OnlyAdded'
  BY <1>1, <1>2, <1>3 DEF IInv, Places, OnlyAdded, HeldStays, done
<1>7. NoTaskDuplicated'
  <2>. SUFFICES ASSUME ~Reuse PROVE NoTaskDuplicated'
    BY DEF NoTaskDuplicated
  <2>1. m_promise' = m_promise
    BY <1>1 DEF done
  <2>. QED  BY <1>2, <1>3, <1>4, <2>1 DEF IInv, Places, NoTaskDuplicated, HeldStays
<1>. QED  BY <1>1, <1>2, <1>5, <1>6, <1>7 DEF IInv, Places

\* A step of the owner.
LEMMA OwnerKeeps ==
    ASSUME IInv, OwnerCompletes \/ OwnerChooses
    PROVE  IInv'
<1>. USE DEF OwnerGoto
<1>1. PoolInv'
  BY OwnerKeepsInv
     DEF IInv, OwnerCompletes, OwnerChooses, InitSpawn, InitReturn, OwnerSetOnWaiting,
         AddTask, AddTaskNotify, WaitCall, WaitReturn, DestroyStop, DestroyNotify,
         DestroyJoin
<1>2. OwnerTypeOK'
  BY OwnerAssumption
     DEF IInv, OwnerTypeOK, OwnerLabels, OwnerCompletes, OwnerChooses, InitSpawn,
         InitReturn, OwnerSetOnWaiting, AddTask, AddTaskNotify, WaitCall, WaitReturn,
         DestroyStop, DestroyNotify, DestroyJoin
<1>3. opc # "gone" /\ GoneIsJoined'
  BY DEF OwnerCompletes, OwnerChooses, InitSpawn, InitReturn, OwnerSetOnWaiting,
         AddTask, AddTaskNotify, WaitCall, WaitReturn, DestroyStop, DestroyNotify,
         DestroyJoin, DestroyMembers, GoneIsJoined, Joined, thread
<1>4. CASE \E t \in Tasks : AddTask(t)
  <2>1. Ordered'
    BY <1>4 DEF IInv, Ordered, AddTask, AddTaskPush, thread, done
  <2>. QED  BY <1>1, <1>2, <1>3, <1>4, <2>1, AddTaskMoves DEF IInv
<1>5. CASE \E w \in Workers : InitSpawn(w)
  <2>1. /\ HeldStays
        /\ UNCHANGED <<m_tasks, m_promise, added, terminated>>
    BY <1>5 DEF IInv, PoolInv, PoolTypeOK, HeldStays, HeldBy, InitSpawn, SpawnThread,
                Goto, done
  <2>2. Ordered'
    BY <1>5 DEF IInv, PoolInv, PoolTypeOK, Ordered, InitSpawn, SpawnThread, Goto, done
  <2>. QED  BY <1>1, <1>2, <1>3, <2>1, <2>2, PlacesStay DEF IInv, OwnerTypeOK
<1>6. CASE \/ InitReturn \/ OwnerSetOnWaiting \/ AddTaskNotify
           \/ (\E t \in Tasks : WaitCall(t)) \/ WaitReturn
           \/ DestroyStop \/ DestroyNotify
  <2>1. UNCHANGED <<m_tasks, thread, done, added, terminated>>
    BY <1>6 DEF InitReturn, OwnerSetOnWaiting, SetOnWaiting, AddTaskNotify, NotifyOne,
                WaitCall, WaitReturn, DestroyStop, StopRunning, DestroyNotify, NotifyAll,
                poolVars
  <2>2. Ordered' /\ HeldStays
    BY <2>1 DEF IInv, Ordered, HeldStays, HeldBy, thread, done
  <2>. QED  BY <1>1, <1>2, <1>3, <2>1, <2>2, PlacesStay DEF IInv, OwnerTypeOK, done
<1>7. CASE DestroyJoin
  BY <1>1, <1>2, <1>3, <1>7, DestroyDrops DEF IInv
<1>. QED  BY <1>4, <1>5, <1>6, <1>7 DEF OwnerCompletes, OwnerChooses

\* A step of a worker.
LEMMA WorkerKeeps ==
    ASSUME IInv, NEW w \in Workers, Worker(w) \/ Spurious(w)
    PROVE  IInv'
<1>1. PoolInv'
  BY WorkerKeepsInv DEF IInv, Worker, Spurious
<1>2. UNCHANGED ownerVars /\ OwnerTypeOK'
  BY DEF IInv, OwnerTypeOK, Worker, Spurious, ownerVars
<1>3. GoneIsJoined'
  BY <1>2 DEF IInv, PoolInv, PoolTypeOK, GoneIsJoined, Joined, Worker, Spurious,
              WorkerWithoutTask, TestRunning, TestEmpty, PopNothing, PopTask, Execute,
              Notify, LockWaiting, Wait, WakeUp, SpuriousWakeUp, Goto, thread, ownerVars
<1>4. CASE PopTask(w)
  <2>1. Ordered'
    BY <1>4 DEF IInv, PoolInv, PoolTypeOK, Ordered, PopTask, Goto, done
  <2>. QED  BY <1>1, <1>2, <1>3, <1>4, <2>1, PopTaskMoves DEF IInv
<1>5. CASE Notify(w)
  <2>1. Ordered'
    BY <1>5 DEF IInv, PoolInv, PoolTypeOK, Ordered, Notify, Goto
  <2>. QED  BY <1>1, <1>2, <1>3, <1>5, <2>1, NotifyMoves DEF IInv
<1>6. CASE Execute(w)
  <2>1. UNCHANGED <<m_tasks, m_promise, tsk, terminated>> /\ HeldStays
    BY <1>6 DEF IInv, PoolInv, PoolTypeOK, HeldStays, HeldBy, Execute, Goto
  <2>2. Ordered'
    BY <1>6 DEF IInv, PoolInv, PoolTypeOK, Ordered, Execute, Goto
  <2>. QED
    BY <1>1, <1>2, <1>3, <2>1, <2>2, PlacesStay DEF IInv, OwnerTypeOK, ownerVars
<1>7. CASE \/ TestRunning(w) \/ TestEmpty(w) \/ PopNothing(w)
           \/ LockWaiting(w) \/ Wait(w) \/ WakeUp(w) \/ SpuriousWakeUp(w)
  <2>. USE DEF TestRunning, TestEmpty, PopNothing, LockWaiting, Wait, WakeUp,
               SpuriousWakeUp, Goto, thread, done
  <2>1. UNCHANGED <<m_tasks, m_promise, executed, tsk, terminated>>
    BY <1>7
  <2>2. \A v \in Workers : (wpc'[v] = "notify") = (wpc[v] = "notify")
    BY <1>7 DEF IInv, PoolInv, PoolTypeOK
  <2>3. Ordered'
    BY <2>1, <2>2 DEF IInv, Ordered
  <2>4. HeldStays
    BY <1>7 DEF IInv, PoolInv, PoolTypeOK, HeldStays, HeldBy
  <2>. QED
    BY <1>1, <1>2, <1>3, <2>1, <2>3, <2>4, PlacesStay DEF IInv, OwnerTypeOK, ownerVars
<1>. QED  BY <1>4, <1>5, <1>6, <1>7 DEF Worker, Spurious, WorkerWithoutTask

\* Every step of the owner and of the workers keeps the invariant.
LEMMA StepKeeps == IInv /\ [Next]_vars => IInv'
<1>. SUFFICES ASSUME IInv, [Next]_vars PROVE IInv'
  OBVIOUS
<1>1. CASE Next
  BY <1>1, OwnerKeeps, WorkerKeeps DEF Next
<1>2. CASE UNCHANGED vars
  <2>1. PoolInv'
    BY <1>2, OwnerKeepsInv DEF IInv, vars
  <2>2. UNCHANGED <<m_tasks, thread, done, terminated, opc, waitsFor, added, adds>>
    BY <1>2 DEF vars, poolVars, ownerVars
  <2>3. OwnerTypeOK' /\ GoneIsJoined' /\ Ordered' /\ HeldStays
    BY <2>2 DEF IInv, OwnerTypeOK, GoneIsJoined, Joined, Ordered, HeldStays, HeldBy, thread,
                done
  <2>. QED  BY <2>1, <2>2, <2>3, PlacesStay DEF IInv, OwnerTypeOK, done
<1>. QED  BY <1>1, <1>2

\* The invariant holds in every reachable state of the pool and its owner.
THEOREM Invariance == Spec => []IInv
BY InitEstablishes, StepKeeps, PTL DEF Spec

-----------------------------------------------------------------------------
(* What follows from it.                                                   *)

\* Every variable of the pool and its owner keeps its type.
THEOREM TypeCorrect == Spec => []TypeOK
<1>1. IInv => TypeOK
  BY DEF IInv, PoolInv, OwnerTypeOK, TypeOK
<1>. QED  BY <1>1, Invariance, PTL

\* CTask::Wait returns only after the task's Execute has returned.
THEOREM Barrier == Spec => []WaitIsBarrier
<1>1. IInv => WaitIsBarrier
  <2>. SUFFICES ASSUME IInv, ~Reuse, NEW w \in Workers, wpc[w] = "execute"
                PROVE  tsk[w] \notin m_promise
    BY DEF IInv, Ordered, WaitIsBarrier
  <2>1. tsk[w] \in Tasks /\ HeldBy(w, tsk[w])
    BY DEF IInv, PoolInv, HoldsTask, HeldBy
  <2>. QED  BY <2>1 DEF IInv, Places, NoTaskDuplicated
<1>. QED  BY <1>1, Invariance, PTL

\* Only the destructor drops tasks: until it ends a task that was added is in the list,
\* with a worker, or done, and none that a worker has taken is left unfulfilled.
THEOREM OnlyUntakenDropped == Spec => []OnlyShutdownDrops
<1>1. IInv => OnlyShutdownDrops
  <2>. SUFFICES ASSUME IInv PROVE OnlyShutdownDrops
    OBVIOUS
  <2>1. ASSUME opc = "gone" PROVE \A w \in Workers : wpc[w] \notin {"execute", "notify"}
    BY <2>1 DEF IInv, GoneIsJoined, Joined
  <2>2. opc = "gone" => executed \subseteq m_promise
    BY <2>1 DEF IInv, Ordered
  <2>3. opc = "gone" => \A w \in Workers, t \in Tasks : ~HeldBy(w, t)
    BY <2>1 DEF HeldBy
  <2>. QED  BY <2>2, <2>3 DEF IInv, Places, NotDropped, OnlyShutdownDrops
<1>. QED  BY <1>1, Invariance, PTL

\* A task that is added once is in only one of these places.
THEOREM NothingDuplicated == Spec => []NoTaskDuplicated
<1>1. IInv => NoTaskDuplicated
  BY DEF IInv, Places
<1>. QED  BY <1>1, Invariance, PTL

\* An owner that adds no task twice cannot make a worker end the process.
THEOREM PromisesKept ==
    ASSUME ~Reuse
    PROVE  Spec => []NeverTerminates
<1>1. IInv => NeverTerminates
  BY DEF IInv, Places, NeverTerminates
<1>. QED  BY <1>1, Invariance, PTL
=============================================================================
