-------------------------- MODULE ThreadPoolProofs --------------------------
(***************************************************************************)
(* Lemmas about the steps of ThreadPool, for the modules that prove about  *)
(* an owner of the pool: what push and pop do to the list, and that every  *)
(* step keeps the types.                                                   *)
(***************************************************************************)
EXTENDS ThreadPool, TLAPS, SequenceTheorems

\* push_back makes t the one task that is in the list and was not, and repeats none.
LEMMA PushKeepsList ==
    ASSUME m_tasks \in Seq(Tasks), NEW t \in Tasks, m_tasks' = Append(m_tasks, t)
    PROVE  /\ m_tasks' \in Seq(Tasks)
           /\ \A u : Queued(u)' <=> Queued(u) \/ u = t
           /\ NoRepeat /\ ~Queued(t) => NoRepeat'
<1>1. /\ m_tasks' \in Seq(Tasks)
      /\ Len(m_tasks') = Len(m_tasks) + 1
      /\ \A i \in 1..Len(m_tasks) : m_tasks'[i] = m_tasks[i]
      /\ m_tasks'[Len(m_tasks) + 1] = t
      /\ Len(m_tasks) \in Nat
  BY AppendProperties, LenProperties
<1>2. \A i \in 1..Len(m_tasks') : i \in 1..Len(m_tasks) \/ i = Len(m_tasks) + 1
  BY <1>1
<1>3. \A u : Queued(u)' <=> Queued(u) \/ u = t
  BY <1>1, <1>2 DEF Queued
<1>4. ASSUME NoRepeat, ~Queued(t) PROVE NoRepeat'
  <2>1. \A i \in 1..Len(m_tasks) : m_tasks[i] # t
    BY <1>4 DEF Queued
  <2>. QED  BY <1>1, <1>2, <1>4, <2>1 DEF NoRepeat
<1>. QED  BY <1>1, <1>3, <1>4

\* pop_front takes the first task away, and no other.
LEMMA PopKeepsList ==
    ASSUME m_tasks \in Seq(Tasks), m_tasks # <<>>, m_tasks' = Tail(m_tasks)
    PROVE  /\ m_tasks' \in Seq(Tasks)
           /\ Head(m_tasks) \in Tasks /\ Queued(Head(m_tasks))
           /\ \A u : Queued(u)' => Queued(u)
           /\ \A u : Queued(u) => Queued(u)' \/ u = Head(m_tasks)
           /\ NoRepeat => NoRepeat' /\ \A u : Queued(u)' => u # Head(m_tasks)
<1>1. /\ m_tasks' \in Seq(Tasks)
      /\ Head(m_tasks) \in Tasks
      /\ Len(m_tasks') = Len(m_tasks) - 1
      /\ \A i \in 1..Len(m_tasks') : m_tasks'[i] = m_tasks[i + 1]
      /\ Len(m_tasks) \in Nat \ {0}
      /\ Head(m_tasks) = m_tasks[1]
  BY HeadTailProperties, EmptySeq
<1>2. \A i \in 1..Len(m_tasks') : i + 1 \in 1..Len(m_tasks) /\ i + 1 # 1
  BY <1>1
<1>3. \A i \in 1..Len(m_tasks) : i = 1 \/ (i - 1 \in 1..Len(m_tasks') /\ (i - 1) + 1 = i)
  BY <1>1
<1>4. Queued(Head(m_tasks)) /\ \A u : Queued(u)' => Queued(u)
  BY <1>1, <1>2 DEF Queued
<1>5. ASSUME NEW u, Queued(u) PROVE Queued(u)' \/ u = Head(m_tasks)
  <2>1. PICK i \in 1..Len(m_tasks) : m_tasks[i] = u
    BY <1>5 DEF Queued
  <2>2. CASE i = 1
    BY <1>1, <2>1, <2>2
  <2>3. CASE i # 1
    <3>1. i - 1 \in 1..Len(m_tasks') /\ m_tasks'[i - 1] = u
      BY <1>1, <1>3, <2>1, <2>3
    <3>. QED  BY <3>1 DEF Queued
  <2>. QED  BY <2>2, <2>3
<1>6. ASSUME NoRepeat PROVE NoRepeat' /\ \A u : Queued(u)' => u # Head(m_tasks)
  <2>1. NoRepeat'
    <3>. SUFFICES ASSUME NEW i \in 1..Len(m_tasks'), NEW j \in 1..Len(m_tasks'),
                         m_tasks'[i] = m_tasks'[j]
                  PROVE  i = j
      BY DEF NoRepeat
    <3>1. i + 1 = j + 1
      BY <1>1, <1>2, <1>6 DEF NoRepeat
    <3>. QED  BY <3>1
  <2>2. ASSUME NEW i \in 1..Len(m_tasks') PROVE m_tasks'[i] # Head(m_tasks)
    BY <1>1, <1>2, <1>6 DEF NoRepeat
  <2>. QED  BY <2>1, <2>2 DEF Queued
<1>. QED  BY <1>1, <1>4, <1>5, <1>6

-----------------------------------------------------------------------------
(* Types. *)

\* The types, and what Execute and Notify rely on: the worker has a task.
HoldsTask == \A w \in Workers : wpc[w] \in {"execute", "notify"} => tsk[w] \in Tasks
PoolInv == PoolTypeOK /\ HoldsTask

\* A step of a worker keeps them.
LEMMA WorkerKeepsInv ==
    ASSUME PoolInv, NEW w \in Workers,
           WorkerWithoutTask(w) \/ PopTask(w) \/ Execute(w) \/ SpuriousWakeUp(w)
    PROVE  PoolInv'
<1>. USE DEF PoolInv, PoolTypeOK, HoldsTask, WorkerLabels, Goto, hook, cond, thread, done
<1>1. CASE TestRunning(w)
  BY <1>1 DEF TestRunning
<1>2. CASE TestEmpty(w)
  BY <1>2 DEF TestEmpty
<1>3. CASE PopNothing(w)
  BY <1>3 DEF PopNothing
<1>4. CASE PopTask(w)
  <2>1. m_tasks' \in Seq(Tasks) /\ Head(m_tasks) \in Tasks
    BY <1>4, PopKeepsList DEF PopTask
  <2>. QED  BY <1>4, <2>1 DEF PopTask
<1>5. CASE Execute(w)
  BY <1>5 DEF Execute
<1>6. CASE Notify(w)
  <2>1. tsk[w] \in Tasks
    BY <1>6 DEF Notify
  <2>2. terminated' \in BOOLEAN
    BY <1>6 DEF Notify
  <2>. QED  BY <1>6, <2>1, <2>2 DEF Notify
<1>7. CASE LockWaiting(w)
  BY <1>7 DEF LockWaiting
<1>8. CASE Wait(w)
  BY <1>8 DEF Wait
<1>9. CASE WakeUp(w)
  BY <1>9 DEF WakeUp
<1>10. CASE SpuriousWakeUp(w)
  BY <1>10 DEF SpuriousWakeUp
<1>. QED
  BY <1>1, <1>2, <1>3, <1>4, <1>5, <1>6, <1>7, <1>8, <1>9, <1>10 DEF WorkerWithoutTask

\* So does every step of the owner's operations, and one that leaves the pool alone.
LEMMA OwnerKeepsInv ==
    ASSUME PoolInv,
           \/ \E w \in Workers : SpawnThread(w)
           \/ \E t \in Tasks : AddTaskPush(t)
           \/ NotifyOne \/ SetOnWaiting \/ StopRunning \/ NotifyAll \/ DestroyMembers
           \/ UNCHANGED poolVars
    PROVE  PoolInv'
<1>. USE DEF PoolInv, PoolTypeOK, HoldsTask, WorkerLabels, Goto, hook, cond, thread, done
<1>1. CASE \E w \in Workers : SpawnThread(w)
  BY <1>1 DEF SpawnThread
<1>2. CASE \E t \in Tasks : AddTaskPush(t)
  <2>1. m_tasks' \in Seq(Tasks)
    BY <1>2, PushKeepsList DEF AddTaskPush
  <2>. QED  BY <1>2, <2>1 DEF AddTaskPush
<1>3. CASE NotifyOne
  BY <1>3 DEF NotifyOne
<1>4. CASE SetOnWaiting
  BY <1>4 DEF SetOnWaiting
<1>5. CASE StopRunning
  BY <1>5 DEF StopRunning
<1>6. CASE NotifyAll
  BY <1>6 DEF NotifyAll
<1>7. CASE UNCHANGED poolVars
  BY <1>7 DEF poolVars
<1>8. CASE DestroyMembers
  <2>1. m_tasks' \in Seq(Tasks)
    BY <1>8, EmptySeq DEF DestroyMembers
  <2>. QED  BY <1>8, <2>1 DEF DestroyMembers
<1>. QED  BY <1>1, <1>2, <1>3, <1>4, <1>5, <1>6, <1>7, <1>8

\* A pool that was just constructed has them.
LEMMA InitHasInv == PoolInit => PoolInv
BY EmptySeq DEF PoolInit, PoolInv, PoolTypeOK, HoldsTask, WorkerLabels
=============================================================================
