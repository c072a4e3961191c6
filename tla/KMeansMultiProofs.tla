------------------------- MODULE KMeansMultiProofs --------------------------
(***************************************************************************)
(* The threads of multi-threaded k-means, for any number of points, of     *)
(* tasks and of workers: the ranges of the tasks partition the points, no  *)
(* two threads touch the same data at once, and what the main thread reads *)
(* after its waits is complete.                                            *)
(***************************************************************************)
EXTENDS KMeansMulti, ThreadPoolProofs, KMeansAlgoProofs

-----------------------------------------------------------------------------
(* The ranges.                                                             *)

\* curNums and additionly are the quotient and the remainder.
LEMMA Division ==
    /\ curNums \in Nat /\ additionly \in Nat
    /\ (NumTasks - 1) * curNums + additionly = N
BY AlgoAssumption, MultiAssumption DEF curNums, additionly

\* What the order of products needs.
LEMMA Times ==
    ASSUME NEW a \in Nat, NEW b \in Nat, NEW c \in Nat, a <= b
    PROVE  a * c \in Nat /\ b * c \in Nat /\ a * c <= b * c /\ (a + 1) * c = a * c + c
OBVIOUS

\* A range lies within the points.
LEMMA RangesBounded ==
    ASSUME NEW t \in Tasks
    PROVE  Begin(t) \in Nat /\ End(t) \in Nat /\ Begin(t) <= End(t) /\ End(t) <= N
<1>1. t \in Nat /\ t <= NumTasks - 1 /\ NumTasks - 1 \in Nat
  BY MultiAssumption
<1>2. CASE t < NumTasks - 1
  <2>1. t * curNums \in Nat /\ (t + 1) * curNums = t * curNums + curNums
        /\ (t + 1) * curNums <= (NumTasks - 1) * curNums
        /\ (NumTasks - 1) * curNums \in Nat
    BY <1>1, <1>2, Times, Division
  <2>. QED  BY <1>2, <2>1, Division, AlgoAssumption DEF Begin, End
<1>3. CASE t = NumTasks - 1
  BY <1>1, <1>3, Times, Division, AlgoAssumption DEF Begin, End
<1>. QED  BY <1>1, <1>2, <1>3

\* The ranges of different tasks do not overlap.
LEMMA RangesOrdered ==
    ASSUME NEW t \in Tasks, NEW u \in Tasks, t < u
    PROVE  End(t) <= Begin(u)
<1>1. t \in Nat /\ u \in Nat /\ t + 1 <= u /\ t < NumTasks - 1
  BY MultiAssumption
<1>2. (t + 1) * curNums = t * curNums + curNums /\ (t + 1) * curNums <= u * curNums
  BY <1>1, Times, Division
<1>. QED  BY <1>1, <1>2 DEF Begin, End

\* Every point is in the range of a task: the last one takes the remainder.
LEMMA RangesCover ==
    ASSUME NEW j \in Index
    PROVE  \E t \in Tasks : Begin(t) <= j /\ j < End(t)
<1>1. j \in Nat /\ j < N /\ NumTasks - 1 \in Nat \ {0}
  BY AlgoAssumption, MultiAssumption DEF Index
<1>2. CASE j < (NumTasks - 1) * curNums
  <2>1. curNums \in Nat \ {0}
    BY <1>1, <1>2, Division
  <2>2. PICK t \in Nat : t = j \div curNums
    BY <1>1, <2>1
  <2>3. t * curNums <= j /\ j < t * curNums + curNums
    BY <1>1, <2>1, <2>2
  <2>4. t < NumTasks - 1
    <3>. SUFFICES ASSUME NumTasks - 1 <= t PROVE FALSE
      BY <1>1
    <3>. QED  BY <1>1, <1>2, <2>3, Times, Division
  <2>. QED  BY <1>1, <2>3, <2>4, MultiAssumption DEF Begin, End
<1>3. CASE (NumTasks - 1) * curNums <= j
  <2>1. NumTasks - 1 \in Tasks
    BY <1>1, MultiAssumption
  <2>. QED  BY <1>1, <1>3, <2>1, Division DEF Begin, End
<1>. QED  BY <1>1, <1>2, <1>3, Division

\* Every point belongs to exactly one task, however N and NumTasks divide.
THEOREM RangesPartition ==
    \A j \in Index : \E t \in Tasks :
        /\ Begin(t) <= j /\ j < End(t)
        /\ \A u \in Tasks : Begin(u) <= j /\ j < End(u) => u = t
<1>. SUFFICES ASSUME NEW j \in Index
              PROVE  \E t \in Tasks :
                        /\ Begin(t) <= j /\ j < End(t)
                        /\ \A u \in Tasks : Begin(u) <= j /\ j < End(u) => u = t
  OBVIOUS
<1>1. PICK t \in Tasks : Begin(t) <= j /\ j < End(t)
  BY RangesCover
<1>2. ASSUME NEW u \in Tasks, Begin(u) <= j, j < End(u) PROVE u = t
  <2>1. j \in Int /\ t \in Int /\ u \in Int
    BY AlgoAssumption, MultiAssumption DEF Index
  <2>2. /\ Begin(t) \in Nat /\ End(t) \in Nat
        /\ Begin(u) \in Nat /\ End(u) \in Nat
    BY RangesBounded
  <2>3. ~(t < u) /\ ~(u < t)
    BY <1>1, <1>2, <2>1, <2>2, RangesOrdered
  <2>. QED  BY <2>1, <2>3
<1>. QED  BY <1>1, <1>2

-----------------------------------------------------------------------------
(* The inductive invariant.                                                *)

MainTypes ==
    /\ mpc \in {"init", "seed", "while", "add", "notify", "await", "accumulate", "move",
                "stop", "join", "gone"}
    /\ n \in Nat
    /\ alive \subseteq Tasks
    /\ pos \in [Workers -> 0..N]
    /\ m_indexes = [j \in Index |-> m_indexes[j]]

\* The tasks of an iteration may be in the pool only while the main thread adds and
\* awaits them, and only those it has added.
TasksInUse == mpc \in {"add", "notify", "await"}
Given(t) ==
    \/ mpc = "add" /\ t < n
    \/ mpc = "notify" /\ t <= n
    \/ mpc = "await"

\* A task that is in the list, or with a worker, is there once and is not fulfilled.
Distinct ==
    /\ NoRepeat
    /\ \A w, v \in Workers, t \in Tasks : HeldBy(w, t) /\ HeldBy(v, t) => w = v
    /\ \A w \in Workers, t \in Tasks : HeldBy(w, t) => Given(t) /\ t \notin m_promise
    /\ \A t \in Tasks : Queued(t) =>
        Given(t) /\ t \notin m_promise /\ \A w \in Workers : ~HeldBy(w, t)

\* The main thread's waits: what is fulfilled was added in this iteration, and the
\* tasks waited for are fulfilled.
Waits ==
    /\ TasksInUse => alive = Tasks /\ \A t \in Tasks : t \in m_promise => Given(t)
    /\ mpc = "await" => \A t \in Tasks : t < n => t \in m_promise

\* The indexes that have been computed are right.
Right(j) == m_indexes[j] = FindNearest(vpnts[j], m_centers)
RightFrom(t, end) == \A j \in Index : Begin(t) <= j /\ j < end => Right(j)
WroteSoFar(w) ==
    /\ wpc[w] = "execute" => Begin(tsk[w]) <= pos[w] /\ RightFrom(tsk[w], pos[w])
    /\ wpc[w] = "notify" => RightFrom(tsk[w], End(tsk[w]))
Written ==
    /\ \A w \in Workers : WroteSoFar(w)
    /\ TasksInUse => \A t \in Tasks : t \in m_promise => RightFrom(t, End(t))
    /\ mpc = "accumulate" => \A j \in Index : Right(j)

IInv == PoolInv /\ MainTypes /\ Distinct /\ Waits /\ Written /\ ~terminated

-----------------------------------------------------------------------------
\* The invariant holds at the start: the pool is new and no task exists.
LEMMA InitEstablishes == Init => IInv
<1>. SUFFICES ASSUME Init PROVE IInv
  OBVIOUS
<1>1. PoolInv /\ MainTypes /\ ~terminated
  BY InitHasInv, AlgoAssumption DEF Init, MainTypes, PoolInit
<1>2. m_tasks = <<>> /\ \A w \in Workers : wpc[w] = "none"
  BY DEF Init, PoolInit
<1>3. \A t : ~Queued(t)
  BY <1>2 DEF Queued
<1>4. Distinct
  BY <1>2, <1>3 DEF Distinct, NoRepeat, HeldBy
<1>5. Waits /\ Written
  BY <1>2 DEF Init, Waits, Written, WroteSoFar, TasksInUse
<1>. QED  BY <1>1, <1>4, <1>5 DEF IInv

\* While no tasks are in use the pool has none.
LEMMA Idle ==
    ASSUME IInv, ~TasksInUse
    PROVE  /\ \A w \in Workers : wpc[w] \notin {"execute", "notify"}
           /\ \A t \in Tasks : ~Queued(t)
<1>1. \A t \in Tasks : ~Given(t)
  BY DEF Given, TasksInUse
<1>. QED  BY <1>1 DEF IInv, PoolInv, HoldsTask, Distinct, HeldBy

\* When all the waits have returned the pool has no task, and all indexes are right.
LEMMA AllAwaited ==
    ASSUME IInv, mpc = "await", n = NumTasks
    PROVE  /\ \A t \in Tasks : t \in m_promise /\ ~Queued(t)
           /\ \A w \in Workers, t \in Tasks : ~HeldBy(w, t)
           /\ \A j \in Index : Right(j)
<1>1. \A t \in Tasks : t \in m_promise
  BY MultiAssumption DEF IInv, Waits
<1>2. \A t \in Tasks : RightFrom(t, End(t))
  BY <1>1 DEF IInv, Written, TasksInUse
<1>3. \A j \in Index : Right(j)
  BY <1>2, RangesCover DEF RightFrom
<1>. QED  BY <1>1, <1>3 DEF IInv, Distinct

-----------------------------------------------------------------------------
(* The steps of the main thread that move no task and write no index.      *)

TasksStay ==
    /\ \A t \in Tasks : Queued(t)' <=> Queued(t)
    /\ \A w \in Workers, t \in Tasks : HeldBy(w, t)' <=> HeldBy(w, t)
    /\ UNCHANGED <<m_promise, terminated>>
    /\ NoRepeat => NoRepeat'

\* Only Given, what is awaited and what is alive can change then.
LEMMA MainQuiet ==
    ASSUME IInv, UNCHANGED <<m_tasks, done, tsk, terminated, m_indexes, vpnts, pos>>,
           \A w \in Workers : wpc'[w] = wpc[w]
                             \/ {wpc[w], wpc'[w]} \cap {"execute", "notify"} = {}
    PROVE  /\ TasksStay
           /\ \A w \in Workers : wpc'[w] \in {"execute", "notify"} => wpc'[w] = wpc[w]
           /\ m_centers' = m_centers =>
                /\ \A j \in Index : Right(j)' <=> Right(j)
                /\ \A t, e : RightFrom(t, e)' <=> RightFrom(t, e)
<1>1. TasksStay
  BY DEF TasksStay, Queued, HeldBy, NoRepeat, done
<1>2. ASSUME m_centers' = m_centers PROVE \A j \in Index : Right(j)' <=> Right(j)
  BY <1>2 DEF Right
<1>3. ASSUME m_centers' = m_centers PROVE \A t, e : RightFrom(t, e)' <=> RightFrom(t, e)
  BY <1>2, <1>3 DEF RightFrom
<1>. QED  BY <1>1, <1>2, <1>3

\* Every step of the main thread keeps the types.
LEMMA MainTypesStay ==
    ASSUME IInv, Main
    PROVE  PoolInv' /\ MainTypes'
<1>. USE DEF MainGoto
<1>1. CASE CreateTasks
  BY <1>1 DEF IInv, PoolInv, PoolTypeOK, HoldsTask, WorkerLabels, MainTypes, CreateTasks,
              hook, cond, thread, seeding
<1>2. CASE AddTask
  <2>1. n \in Tasks
    BY <1>2, MultiAssumption DEF IInv, MainTypes, AddTask
  <2>. QED
    BY <1>2, <2>1, OwnerKeepsInv DEF IInv, MainTypes, AddTask
<1>3. CASE ~CreateTasks /\ ~AddTask
  <2>1. PoolInv'
    BY <1>3, OwnerKeepsInv
       DEF IInv, Main, InitSpawn, SeedFirst, SeedOther, SeedDone, AddTaskNotify, AllAdded,
           WaitReturn, ClearTasks, Accumulate, MoveCenters, Finish, DestroyNotify,
           DestroyJoin
  <2>2. MainTypes'
    BY <1>3
       DEF IInv, MainTypes, Main, InitSpawn, SeedFirst, SeedOther, SeedDone, AddTaskNotify,
           AllAdded, WaitReturn, ClearTasks, Accumulate, MoveCenters, Finish,
           DestroyNotify, DestroyJoin
  <2>. QED  BY <2>1, <2>2
<1>. QED  BY <1>1, <1>2, <1>3

\* Steps outside an iteration: seeding, moving the centroids, the destruction.
LEMMA OutsideKeeps ==
    ASSUME IInv,
           \/ \E w \in Workers : InitSpawn(w)
           \/ \E r \in 0..RandMax : SeedFirst(r) \/ SeedOther(r)
           \/ SeedDone \/ CreateTasks \/ Accumulate \/ MoveCenters
           \/ Finish \/ DestroyNotify \/ DestroyJoin
    PROVE  Distinct' /\ Waits' /\ Written' /\ ~terminated'
<1>. USE DEF MainGoto
<1>1. ~TasksInUse /\ mpc' # "accumulate" /\ mpc' \notin {"notify", "await"}
  BY DEF TasksInUse, InitSpawn, SeedFirst, SeedOther, SeedDone, CreateTasks, Accumulate,
         MoveCenters, Finish, DestroyNotify, DestroyJoin
<1>2. /\ m_tasks' = m_tasks \/ m_tasks' = <<>>
      /\ terminated' = terminated /\ tsk' = tsk
      /\ \A w \in Workers : wpc'[w] = wpc[w] \/ wpc'[w] = "running"
  BY DEF InitSpawn, SpawnThread, Goto, SeedFirst, SeedOther, SeedDone, CreateTasks,
         Accumulate, MoveCenters, Finish, StopRunning, DestroyNotify, NotifyAll,
         DestroyJoin, DestroyMembers, poolVars, thread, IInv, PoolInv, PoolTypeOK
<1>3. mpc' = "add" => m_promise' = {} /\ alive' = Tasks
  BY DEF InitSpawn, SeedFirst, SeedOther, SeedDone, CreateTasks, Accumulate,
         MoveCenters, Finish, DestroyNotify, DestroyJoin
<1>4. /\ \A w \in Workers : wpc'[w] \notin {"execute", "notify"}
      /\ \A t \in Tasks : ~Queued(t)'
  BY <1>1, <1>2, Idle DEF Queued
<1>5. NoRepeat'
  BY <1>2 DEF IInv, Distinct, NoRepeat
<1>6. Distinct'
  BY <1>4, <1>5 DEF Distinct, HeldBy
<1>7. Waits' /\ Written'
  BY <1>1, <1>3, <1>4 DEF Waits, Written, WroteSoFar, TasksInUse
<1>. QED  BY <1>2, <1>6, <1>7 DEF IInv

\* The steps between the additions and the waits, and the end of the waits.
LEMMA InsideKeeps ==
    ASSUME IInv, AddTaskNotify \/ AllAdded \/ WaitReturn \/ ClearTasks
    PROVE  Distinct' /\ Waits' /\ Written' /\ ~terminated'
<1>. USE DEF MainGoto
<1>1. UNCHANGED <<m_tasks, done, thread, terminated, m_indexes, seeding, pos>>
  BY DEF AddTaskNotify, NotifyOne, AllAdded, WaitReturn, ClearTasks, poolVars
<1>2. /\ TasksStay
      /\ \A j \in Index : Right(j)' <=> Right(j)
      /\ \A t, e : RightFrom(t, e)' <=> RightFrom(t, e)
  BY <1>1, MainQuiet DEF thread, seeding
<1>3. ~terminated' /\ UNCHANGED <<wpc, tsk, pos, m_promise>>
  BY <1>1 DEF IInv, thread, done
<1>4. CASE ClearTasks
  <2>1. /\ \A t \in Tasks : ~Queued(t)
        /\ \A w \in Workers, t \in Tasks : ~HeldBy(w, t)
        /\ \A j \in Index : Right(j)
    BY <1>4, AllAwaited DEF ClearTasks
  <2>2. Distinct'
    BY <1>2, <2>1 DEF Distinct, IInv, TasksStay
  <2>3. mpc' = "accumulate"
    BY <1>4 DEF ClearTasks
  <2>4. \A w \in Workers : wpc[w] \notin {"execute", "notify"}
    BY <2>1 DEF IInv, PoolInv, HoldsTask, HeldBy
  <2>. QED  BY <1>2, <1>3, <2>1, <2>2, <2>3, <2>4 DEF Waits, Written, WroteSoFar, TasksInUse
<1>5. CASE AddTaskNotify \/ AllAdded \/ WaitReturn
  <2>1. /\ TasksInUse /\ TasksInUse' /\ alive' = alive
        /\ \A t \in Tasks : Given(t) => Given(t)'
    BY <1>5, MultiAssumption
       DEF IInv, MainTypes, TasksInUse, Given, AddTaskNotify, AllAdded, WaitReturn
  <2>2. Distinct'
    BY <1>2, <2>1 DEF IInv, Distinct, TasksStay
  <2>3. mpc' = "await" => \A t \in Tasks : t < n' => t \in m_promise
    BY <1>5, MultiAssumption
       DEF IInv, MainTypes, Waits, AddTaskNotify, AllAdded, WaitReturn
  <2>4. Waits'
    BY <1>3, <2>1, <2>3 DEF IInv, Waits
  <2>5. Written'
    BY <1>2, <1>3, <2>1 DEF IInv, Written, WroteSoFar, TasksInUse
  <2>. QED  BY <1>3, <2>2, <2>4, <2>5
<1>. QED  BY <1>4, <1>5

\* AddTask puts into the list a task that was nowhere.
LEMMA AddTaskKeeps ==
    ASSUME IInv, AddTask
    PROVE  Distinct' /\ Waits' /\ Written' /\ ~terminated'
<1>1. PICK k \in Tasks : k = n
  BY MultiAssumption DEF IInv, MainTypes, AddTask
<1>2. /\ mpc = "add" /\ mpc' = "notify" /\ n' = n /\ alive' = alive
      /\ m_tasks' = Append(m_tasks, k)
      /\ UNCHANGED <<done, thread, terminated, m_indexes, seeding, pos>>
  BY <1>1 DEF AddTask, MainGoto, AddTaskPush
<1>3. UNCHANGED <<m_promise, wpc, tsk, vpnts, m_centers>>
  BY <1>2 DEF done, thread, seeding
<1>4. /\ \A u : Queued(u)' <=> Queued(u) \/ u = k
      /\ NoRepeat /\ ~Queued(k) => NoRepeat'
  BY <1>2, PushKeepsList DEF IInv, PoolInv, PoolTypeOK
<1>5. ~Given(k) /\ Given(k)' /\ \A t \in Tasks : Given(t) => Given(t)'
  BY <1>1, <1>2, MultiAssumption DEF Given
<1>6. \A w \in Workers, t \in Tasks : HeldBy(w, t)' <=> HeldBy(w, t)
  BY <1>3 DEF HeldBy
<1>7. ~Queued(k) /\ k \notin m_promise /\ \A w \in Workers : ~HeldBy(w, k)
  BY <1>2, <1>5 DEF IInv, Distinct, Waits, TasksInUse
<1>8. NoRepeat'
  BY <1>4, <1>7 DEF IInv, Distinct
<1>9. Distinct'
  BY <1>3, <1>4, <1>5, <1>6, <1>7, <1>8 DEF IInv, Distinct
<1>10. Waits'
  BY <1>2, <1>3, <1>5 DEF IInv, Waits, TasksInUse
<1>11. \A t, e : RightFrom(t, e)' <=> RightFrom(t, e)
  BY <1>2, <1>3 DEF RightFrom, Right
<1>12. Written'
  BY <1>2, <1>3, <1>11 DEF IInv, Written, WroteSoFar, TasksInUse
<1>. QED  BY <1>2, <1>9, <1>10, <1>12 DEF IInv

-----------------------------------------------------------------------------
(* The steps of a worker.                                                  *)

\* What no step of a worker changes.
LEMMA WorkerLeaves ==
    ASSUME NEW w \in Workers, Worker(w) \/ Spurious(w)
    PROVE  UNCHANGED <<mpc, n, vpnts, m_centers, alive>>
BY DEF Worker, Spurious, PopAndBegin, ExecutePoint, ExecuteEnd, kmeansVars, seeding

\* Every step of a worker keeps the types.
LEMMA WorkerTypesStay ==
    ASSUME IInv, NEW w \in Workers, Worker(w) \/ Spurious(w)
    PROVE  PoolInv' /\ MainTypes'
<1>1. PoolInv'
  <2>1. CASE ExecutePoint(w)
    BY <2>1, OwnerKeepsInv DEF IInv, ExecutePoint
  <2>2. CASE ~ExecutePoint(w)
    BY <2>2, WorkerKeepsInv DEF IInv, Worker, Spurious, PopAndBegin, ExecuteEnd
  <2>. QED  BY <2>1, <2>2
<1>2. /\ pos' \in [Workers -> 0..N]
      /\ m_indexes' = [j \in Index |-> m_indexes'[j]]
  <2>1. CASE PopAndBegin(w)
    <3>1. Head(m_tasks) \in Tasks
      BY <2>1, PopKeepsList DEF IInv, PoolInv, PoolTypeOK, PopAndBegin, PopTask
    <3>2. Begin(Head(m_tasks)) \in 0..N
      BY <3>1, RangesBounded, AlgoAssumption
    <3>. QED  BY <2>1, <3>2 DEF IInv, MainTypes, PopAndBegin
  <2>2. CASE ExecutePoint(w)
    <3>1. PICK t \in Tasks : t = tsk[w]
      BY <2>2 DEF IInv, PoolInv, HoldsTask, ExecutePoint
    <3>2. pos[w] + 1 \in 0..N
      BY <2>2, <3>1, RangesBounded, AlgoAssumption DEF IInv, MainTypes, ExecutePoint
    <3>. QED  BY <2>2, <3>2 DEF IInv, MainTypes, ExecutePoint
  <2>3. CASE ExecuteEnd(w)
    BY <2>3, AlgoAssumption DEF IInv, MainTypes, ExecuteEnd
  <2>4. CASE UNCHANGED kmeansVars
    BY <2>4 DEF IInv, MainTypes, kmeansVars
  <2>. QED  BY <2>1, <2>2, <2>3, <2>4 DEF Worker, Spurious
<1>. QED  BY <1>1, <1>2, WorkerLeaves DEF IInv, MainTypes

\* PopTask moves a task from the list to the worker, which starts at its range.
LEMMA PopAndBeginKeeps ==
    ASSUME IInv, NEW w \in Workers, PopAndBegin(w)
    PROVE  Distinct' /\ Waits' /\ Written' /\ ~terminated'
<1>1. /\ Head(m_tasks) \in Tasks /\ Queued(Head(m_tasks))
      /\ \A u : Queued(u)' => Queued(u)
      /\ NoRepeat' /\ \A u : Queued(u)' => u # Head(m_tasks)
  BY PopKeepsList DEF IInv, PoolInv, PoolTypeOK, Distinct, PopAndBegin, PopTask
<1>2. PICK h \in Tasks : h = Head(m_tasks)
  BY <1>1
<1>3. /\ UNCHANGED <<mpc, n, vpnts, m_centers, alive, m_promise, m_indexes, terminated>>
      /\ pos' = [pos EXCEPT ![w] = Begin(h)]
      /\ wpc' = [wpc EXCEPT ![w] = "execute"] /\ tsk' = [tsk EXCEPT ![w] = h]
  BY <1>2 DEF PopAndBegin, PopTask, Goto, seeding, done
<1>4. \A v \in Workers, u \in Tasks : HeldBy(v, u)' <=> HeldBy(v, u) \/ (v = w /\ u = h)
  BY <1>3 DEF IInv, PoolInv, PoolTypeOK, HeldBy, PopAndBegin, PopTask, Goto
<1>5. \A t : Given(t)' <=> Given(t)
  BY <1>3 DEF Given
<1>6. /\ Given(h) /\ h \notin m_promise /\ \A v \in Workers : ~HeldBy(v, h)
  BY <1>1, <1>2 DEF IInv, Distinct
<1>7. Distinct'
  BY <1>1, <1>2, <1>3, <1>4, <1>5, <1>6 DEF IInv, Distinct
<1>8. Waits'
  BY <1>3, <1>5 DEF IInv, Waits, TasksInUse
<1>9. \A t, e : RightFrom(t, e)' <=> RightFrom(t, e)
  BY <1>3 DEF RightFrom, Right
<1>10. \A j \in Index : Right(j)' <=> Right(j)
  BY <1>3 DEF Right
<1>11. Begin(h) \in Nat /\ RightFrom(h, Begin(h))
  BY RangesBounded, AlgoAssumption DEF RightFrom, Index
<1>12. Written'
  <2>1. WroteSoFar(w)'
    <3>1. wpc'[w] = "execute" /\ tsk'[w] = h /\ pos'[w] = Begin(h)
      BY <1>3 DEF IInv, PoolInv, PoolTypeOK, MainTypes
    <3>. QED  BY <1>9, <1>11, <3>1 DEF WroteSoFar
  <2>2. ASSUME NEW v \in Workers, v # w PROVE WroteSoFar(v)'
    <3>1. wpc'[v] = wpc[v] /\ tsk'[v] = tsk[v] /\ pos'[v] = pos[v]
      BY <1>3, <2>2 DEF IInv, PoolInv, PoolTypeOK, MainTypes
    <3>. QED  BY <1>9, <3>1 DEF IInv, Written, WroteSoFar
  <2>. QED  BY <1>3, <1>9, <1>10, <2>1, <2>2 DEF IInv, Written, TasksInUse
<1>. QED  BY <1>3, <1>7, <1>8, <1>12 DEF IInv

\* ExecutePoint makes one more index of the worker's range right.
LEMMA ExecutePointKeeps ==
    ASSUME IInv, NEW w \in Workers, ExecutePoint(w)
    PROVE  Distinct' /\ Waits' /\ Written' /\ ~terminated'
<1>1. PICK t \in Tasks : t = tsk[w]
  BY DEF IInv, PoolInv, HoldsTask, ExecutePoint
<1>2. PICK p \in Nat : p = pos[w]
  BY DEF IInv, MainTypes
<1>3. /\ wpc[w] = "execute" /\ p < End(t)
      /\ m_indexes' = [m_indexes EXCEPT ![p] = FindNearest(vpnts[p], m_centers)]
      /\ pos' = [pos EXCEPT ![w] = p + 1]
      /\ UNCHANGED <<poolVars, mpc, n, vpnts, m_centers, alive>>
  BY <1>1, <1>2 DEF ExecutePoint, seeding
<1>4. UNCHANGED <<m_tasks, m_promise, wpc, tsk, terminated>>
  BY <1>3 DEF poolVars, thread, done
<1>5. Begin(t) <= p /\ RightFrom(t, p) /\ Begin(t) \in Nat /\ p \in Index
  BY <1>1, <1>2, <1>3, RangesBounded, AlgoAssumption DEF IInv, Written, WroteSoFar, Index
<1>6. Right(p)' /\ \A j \in Index : Right(j) => Right(j)'
  BY <1>3, <1>5 DEF IInv, MainTypes, Right
<1>7. \A u, e : RightFrom(u, e) => RightFrom(u, e)'
  BY <1>6 DEF RightFrom
<1>8. RightFrom(t, p + 1)'
  BY <1>5, <1>6, AlgoAssumption DEF RightFrom, Index
<1>9. Distinct'
  BY <1>3, <1>4 DEF IInv, Distinct, NoRepeat, Queued, HeldBy, Given
<1>10. Waits'
  BY <1>3, <1>4 DEF IInv, Waits, Given, TasksInUse
<1>11. WroteSoFar(w)'
  <2>1. wpc'[w] = "execute" /\ tsk'[w] = t /\ pos'[w] = p + 1
    BY <1>1, <1>3, <1>4 DEF IInv, MainTypes
  <2>. QED  BY <1>5, <1>8, <2>1 DEF WroteSoFar
<1>12. ASSUME NEW v \in Workers, v # w PROVE WroteSoFar(v)'
  <2>1. wpc'[v] = wpc[v] /\ tsk'[v] = tsk[v] /\ pos'[v] = pos[v]
    BY <1>3, <1>4, <1>12 DEF IInv, MainTypes
  <2>. QED  BY <1>7, <2>1 DEF IInv, Written, WroteSoFar
<1>13. Written'
  BY <1>3, <1>4, <1>6, <1>7, <1>11, <1>12 DEF IInv, Written, TasksInUse
<1>. QED  BY <1>4, <1>9, <1>10, <1>13 DEF IInv

\* ExecuteEnd comes when the whole range is right.
LEMMA ExecuteEndKeeps ==
    ASSUME IInv, NEW w \in Workers, ExecuteEnd(w)
    PROVE  Distinct' /\ Waits' /\ Written' /\ ~terminated'
<1>1. PICK t \in Tasks : t = tsk[w]
  BY DEF IInv, PoolInv, HoldsTask, ExecuteEnd, Execute, Goto
<1>2. /\ UNCHANGED <<m_tasks, m_promise, tsk, terminated, mpc, n, vpnts, m_centers,
                     alive, m_indexes>>
      /\ wpc[w] = "execute" /\ wpc' = [wpc EXCEPT ![w] = "notify"]
      /\ pos' = [pos EXCEPT ![w] = 0] /\ pos[w] >= End(t)
  BY <1>1 DEF ExecuteEnd, Execute, Goto, seeding
<1>3. \A v \in Workers, u \in Tasks : HeldBy(v, u)' <=> HeldBy(v, u)
  BY <1>2 DEF IInv, PoolInv, PoolTypeOK, HeldBy
<1>4. Distinct'
  BY <1>2, <1>3 DEF IInv, Distinct, NoRepeat, Queued, Given
<1>5. Waits'
  BY <1>2 DEF IInv, Waits, Given, TasksInUse
<1>6. \A j \in Index : Right(j)' <=> Right(j)
  BY <1>2 DEF Right
<1>7. \A u, e : RightFrom(u, e)' <=> RightFrom(u, e)
  BY <1>6 DEF RightFrom
<1>8. RightFrom(t, End(t))
  <2>1. RightFrom(t, pos[w]) /\ pos[w] \in Nat /\ End(t) \in Nat
    BY <1>1, <1>2, RangesBounded DEF IInv, MainTypes, Written, WroteSoFar
  <2>. QED  BY <1>2, <2>1, AlgoAssumption DEF RightFrom, Index
<1>9. WroteSoFar(w)'
  <2>1. wpc'[w] = "notify" /\ tsk'[w] = t
    BY <1>1, <1>2 DEF IInv, PoolInv, PoolTypeOK
  <2>. QED  BY <1>7, <1>8, <2>1 DEF WroteSoFar
<1>10. ASSUME NEW v \in Workers, v # w PROVE WroteSoFar(v)'
  <2>1. wpc'[v] = wpc[v] /\ tsk'[v] = tsk[v] /\ pos'[v] = pos[v]
    BY <1>2, <1>10 DEF IInv, PoolInv, PoolTypeOK, MainTypes
  <2>. QED  BY <1>7, <2>1 DEF IInv, Written, WroteSoFar
<1>11. Written'
  BY <1>2, <1>6, <1>7, <1>9, <1>10 DEF IInv, Written, TasksInUse
<1>. QED  BY <1>2, <1>4, <1>5, <1>11 DEF IInv

\* Notify fulfils a task whose range is right, and that was not fulfilled.
LEMMA NotifyKeeps ==
    ASSUME IInv, NEW w \in Workers, Notify(w), UNCHANGED kmeansVars
    PROVE  Distinct' /\ Waits' /\ Written' /\ ~terminated'
<1>1. PICK t \in Tasks : t = tsk[w]
  BY DEF IInv, PoolInv, HoldsTask, Notify, Goto
<1>2. /\ UNCHANGED <<m_tasks, mpc, n, vpnts, m_centers, alive, m_indexes, pos>>
      /\ wpc[w] = "notify" /\ wpc' = [wpc EXCEPT ![w] = "empty"]
      /\ tsk' = [tsk EXCEPT ![w] = NoTask]
      /\ m_promise' = m_promise \cup {t} /\ terminated' = (t \in m_promise)
  BY <1>1 DEF Notify, Goto, kmeansVars, seeding
<1>3. HeldBy(w, t) /\ RightFrom(t, End(t))
  BY <1>1, <1>2 DEF HeldBy, IInv, Written, WroteSoFar
<1>4. /\ Given(t) /\ t \notin m_promise /\ ~Queued(t)
      /\ \A v \in Workers : HeldBy(v, t) => v = w
  BY <1>3 DEF IInv, Distinct
<1>5. \A v \in Workers, u \in Tasks : HeldBy(v, u)' <=> HeldBy(v, u) /\ v # w
  BY <1>2 DEF IInv, PoolInv, PoolTypeOK, HeldBy
<1>6. /\ \A u : Queued(u)' <=> Queued(u)
      /\ \A u : Given(u)' <=> Given(u)
      /\ NoRepeat => NoRepeat'
  BY <1>2 DEF Queued, Given, NoRepeat
<1>7. Distinct'
  BY <1>2, <1>4, <1>5, <1>6 DEF IInv, Distinct
<1>8. Waits'
  BY <1>2, <1>4, <1>6 DEF IInv, Waits, TasksInUse
<1>9. \A j \in Index : Right(j)' <=> Right(j)
  BY <1>2 DEF Right
<1>10. \A u, e : RightFrom(u, e)' <=> RightFrom(u, e)
  BY <1>9 DEF RightFrom
<1>11. WroteSoFar(w)'
  BY <1>2 DEF WroteSoFar, IInv, PoolInv, PoolTypeOK
<1>12. ASSUME NEW v \in Workers, v # w PROVE WroteSoFar(v)'
  <2>1. wpc'[v] = wpc[v] /\ tsk'[v] = tsk[v] /\ pos'[v] = pos[v]
    BY <1>2, <1>12 DEF IInv, PoolInv, PoolTypeOK
  <2>. QED  BY <1>10, <2>1 DEF IInv, Written, WroteSoFar
<1>13. Written'
  BY <1>2, <1>3, <1>9, <1>10, <1>11, <1>12 DEF IInv, Written, TasksInUse
<1>. QED  BY <1>2, <1>4, <1>7, <1>8, <1>13

\* The other steps of a worker move no task and write no index.
LEMMA ParkingKeeps ==
    ASSUME IInv, NEW w \in Workers, UNCHANGED kmeansVars,
           \/ TestRunning(w) \/ TestEmpty(w) \/ PopNothing(w)
           \/ LockWaiting(w) \/ Wait(w) \/ WakeUp(w) \/ SpuriousWakeUp(w)
    PROVE  Distinct' /\ Waits' /\ Written' /\ ~terminated'
<1>1. UNCHANGED <<m_tasks, done, tsk, terminated, m_indexes, vpnts, pos, m_centers,
                  mpc, n, alive>>
  BY DEF TestRunning, TestEmpty, PopNothing, LockWaiting, Wait, WakeUp, SpuriousWakeUp,
         thread, kmeansVars, seeding
<1>2. \A v \in Workers : wpc'[v] = wpc[v]
                        \/ {wpc[v], wpc'[v]} \cap {"execute", "notify"} = {}
  BY DEF TestRunning, TestEmpty, PopNothing, LockWaiting, Wait, WakeUp, SpuriousWakeUp,
         Goto, thread, IInv, PoolInv, PoolTypeOK
<1>3. /\ TasksStay
      /\ \A v \in Workers : wpc'[v] \in {"execute", "notify"} => wpc'[v] = wpc[v]
      /\ \A j \in Index : Right(j)' <=> Right(j)
      /\ \A t, e : RightFrom(t, e)' <=> RightFrom(t, e)
  BY <1>1, <1>2, MainQuiet
<1>4. \A t : Given(t)' <=> Given(t)
  BY <1>1 DEF Given
<1>5. m_promise' = m_promise
  BY <1>1 DEF done
<1>6. Distinct'
  BY <1>3, <1>4, <1>5 DEF IInv, Distinct, TasksStay
<1>7. Waits'
  BY <1>1, <1>4, <1>5 DEF IInv, Waits, TasksInUse
<1>8. Written'
  BY <1>1, <1>3, <1>5 DEF IInv, Written, WroteSoFar, TasksInUse
<1>. QED  BY <1>1, <1>6, <1>7, <1>8 DEF IInv

-----------------------------------------------------------------------------
(* The invariant, and what follows from it.                                *)

\* Every step of the main thread and of the workers keeps the invariant.
LEMMA StepKeeps == IInv /\ [Next]_vars => IInv'
<1>. SUFFICES ASSUME IInv, [Next]_vars PROVE IInv'
  OBVIOUS
<1>1. CASE Main
  BY <1>1, MainTypesStay, OutsideKeeps, InsideKeeps, AddTaskKeeps DEF IInv, Main
<1>2. ASSUME NEW w \in Workers, Worker(w) \/ Spurious(w) PROVE IInv'
  <2>1. Distinct' /\ Waits' /\ Written' /\ ~terminated'
    BY <1>2, PopAndBeginKeeps, ExecutePointKeeps, ExecuteEndKeeps, NotifyKeeps,
       ParkingKeeps
       DEF Worker, WorkerWithoutTask, Spurious
  <2>. QED  BY <1>2, <2>1, WorkerTypesStay DEF IInv
<1>3. CASE UNCHANGED vars
  <2>1. PoolInv'
    BY <1>3, OwnerKeepsInv DEF IInv, vars
  <2>2. UNCHANGED <<m_tasks, wpc, tsk, m_promise, terminated, mpc, n, vpnts, m_centers,
                    m_indexes, alive, pos>>
    BY <1>3 DEF vars, poolVars, kmeansVars, thread, done, seeding
  <2>3. MainTypes' /\ Distinct' /\ Waits'
    BY <2>2 DEF IInv, MainTypes, Distinct, NoRepeat, Queued, HeldBy, Given, Waits, TasksInUse
  <2>4. Written'
    BY <2>2 DEF IInv, Written, WroteSoFar, RightFrom, Right, TasksInUse
  <2>. QED  BY <2>1, <2>2, <2>3, <2>4 DEF IInv
<1>. QED  BY <1>1, <1>2, <1>3 DEF Next

\* The invariant holds in every reachable state of multi-threaded k-means.
THEOREM Invariance == Spec => []IInv
BY InitEstablishes, StepKeeps, PTL DEF Spec

\* Workers write only while the main thread adds or awaits tasks, and no two of them
\* the same index.
THEOREM RaceFree == Spec => []NoRace
<1>1. IInv => NoRace
  <2>. SUFFICES ASSUME IInv PROVE NoRace
    OBVIOUS
  <2>1. ASSUME NEW w \in Workers, wpc[w] = "execute"
        PROVE  mpc \in {"add", "notify", "await"}
    BY <2>1, Idle DEF TasksInUse
  <2>2. ASSUME NEW w \in Workers, NEW v \in Workers,
               wpc[w] = "execute", wpc[v] = "execute", w # v
        PROVE  pos[w]..(End(tsk[w]) - 1) \cap pos[v]..(End(tsk[v]) - 1) = {}
    <3>1. PICK t \in Tasks, u \in Tasks : t = tsk[w] /\ u = tsk[v]
      BY <2>2 DEF IInv, PoolInv, HoldsTask
    <3>2. t # u
      BY <2>2, <3>1 DEF IInv, Distinct, HeldBy
    <3>3. t < u \/ u < t
      BY <3>2, MultiAssumption
    <3>4. /\ Begin(t) <= pos[w] /\ Begin(u) <= pos[v]
          /\ pos[w] \in Nat /\ pos[v] \in Nat
      BY <2>2, <3>1 DEF IInv, MainTypes, Written, WroteSoFar
    <3>5. /\ Begin(t) \in Nat /\ End(t) \in Nat
          /\ Begin(u) \in Nat /\ End(u) \in Nat
      BY RangesBounded
    <3>6. End(t) <= Begin(u) \/ End(u) <= Begin(t)
      BY <3>3, RangesOrdered
    <3>. QED  BY <3>1, <3>4, <3>5, <3>6
  <2>. QED  BY <2>1, <2>2 DEF NoRace
<1>. QED  BY <1>1, Invariance, PTL

\* A task is destroyed only when the pool and the workers are done with it.
THEOREM TasksOutlive == Spec => []TasksOutliveUse
<1>1. IInv => TasksOutliveUse
  <2>. SUFFICES ASSUME IInv, NEW t \in Tasks,
                       Queued(t) \/ \E w \in Workers : HeldBy(w, t)
                PROVE  t \in alive
    BY DEF TasksOutliveUse
  <2>1. Given(t)
    BY DEF IInv, Distinct
  <2>2. TasksInUse
    BY <2>1 DEF Given, TasksInUse
  <2>. QED  BY <2>2 DEF IInv, Waits
<1>. QED  BY <1>1, Invariance, PTL

\* After the waits every index is that of the nearest of the present centroids: the
\* ranges miss no point, and no wait returns before its range is written.
THEOREM CurrentClusters == Spec => []ClustersAreCurrent
<1>1. IInv => ClustersAreCurrent
  <2>. SUFFICES ASSUME IInv, mpc = "accumulate"
                PROVE  m_indexes = Nearest(vpnts, m_centers)
    BY DEF ClustersAreCurrent
  <2>1. m_indexes = [j \in Index |-> m_indexes[j]]
    BY DEF IInv, MainTypes
  <2>2. \A j \in Index : m_indexes[j] = FindNearest(vpnts[j], m_centers)
    BY DEF IInv, Written, Right
  <2>. QED  BY <2>1, <2>2 DEF Nearest
<1>. QED  BY <1>1, Invariance, PTL

-----------------------------------------------------------------------------
(* The values: what the centroids, the sums and the costs are.             *)

DataTypes ==
    /\ vpnts \in Inputs
    /\ m_centers \in [Cluster -> Point] /\ accumulator \in [Cluster -> Point]
    /\ m_indexes \in [Index -> Cluster]
    /\ numPoints \in [Cluster -> 0..N]
    /\ V \in Nat /\ oldV \in Nat \cup {-1} /\ numIterations \in Nat

\* The sums are 0 outside of accumulate and the step after it, and then they are those
\* of the clusters around the present centroids.
Sums ==
    /\ mpc # "move" => numPoints = [c \in Cluster |-> 0] /\ accumulator = Zeros
    /\ mpc \in {"add", "notify", "await", "accumulate"} => V = 0
    /\ mpc = "move" =>
        /\ m_indexes = Nearest(vpnts, m_centers)
        /\ V = Cost(vpnts, m_centers)
        /\ numPoints = [c \in Cluster |-> Count(m_indexes, c)]
        /\ accumulator = [c \in Cluster |-> AddPoints(vpnts, m_indexes, c, Zero)]

\* Where the loop is: its variables before the first iteration, in one, and after it.
Phases ==
    /\ Seeding => V = 0 /\ oldV = -1 /\ numIterations = 0
    /\ mpc = "init" => m_centers = Zeros
    /\ mpc = "seed" =>
        /\ n # 0 /\ m_centers \in [Cluster -> Seeds(vpnts)]
        /\ \E j \in Index : m_centers[0] = vpnts[j]
    /\ mpc = "while" /\ numIterations = 0 => V = 0 /\ oldV = -1
    /\ Iterating => numIterations # 0 /\ oldV \in Nat /\ (numIterations = 1 => oldV = 0)
    /\ Finished => V = oldV

\* v, the cost of an iteration, bounds the cost of the next one, and is that cost only
\* if the centroids do not move any more.
Bounds(v) ==
    /\ numIterations # 0 => Cost(vpnts, m_centers) <= v
    /\ Cost(vpnts, m_centers) = v => Stable(vpnts, m_centers)
Descent ==
    /\ mpc = "while" => Bounds(V)
    /\ Iterating =>
        /\ numIterations # 1 => Cost(vpnts, m_centers) <= oldV
        /\ Cost(vpnts, m_centers) = oldV => Stable(vpnts, m_centers)
    /\ Finished \/ (mpc = "while" /\ V = oldV) => m_indexes = Nearest(vpnts, m_centers)

DataInv == DataTypes /\ Sums /\ Phases /\ Descent

\* The points that are clustered.
LEMMA ThePoints ==
    ASSUME DataTypes
    PROVE  /\ vpnts \in [Index -> Point] /\ \A j \in Index : Exact(vpnts[j])
           /\ m_centers \in [Cluster -> Point]
BY AlgoAssumption DEF DataTypes

\* Centroids that cost nothing do not move.
LEMMA NoCostIsStable ==
    ASSUME DataTypes, Cost(vpnts, m_centers) = 0
    PROVE  Stable(vpnts, m_centers)
<1>. DEFINE a == Nearest(vpnts, m_centers)
            ms == [c \in Cluster |-> IF Count(a, c) > 0 THEN MeanOf(vpnts, a, c) ELSE m_centers[c]]
<1>1. vpnts \in [Index -> Point] /\ (\A j \in Index : Exact(vpnts[j])) /\ m_centers \in [Cluster -> Point]
  BY ThePoints
<1>2. ms \in [Cluster -> Point]
  <2>1. ASSUME NEW c \in Cluster, Count(a, c) > 0 PROVE MeanOf(vpnts, a, c) \in Point
    <3>. HIDE DEF a
    <3>. QED  BY <1>1, <2>1, MeanIsExact DEF MeanOf
  <2>. HIDE DEF a
  <2>. QED  BY <1>1, <2>1
<1>3. IsMove(vpnts, m_centers, ms)
  <2>1. \A c \in Cluster : Count(a, c) > 0 => ms[c] = MeanOf(vpnts, a, c)
    <3>. HIDE DEF a
    <3>. QED  OBVIOUS
  <2>. HIDE DEF ms
  <2>. QED  BY <1>2, <2>1 DEF IsMove
<1>4. \A c \in Cluster : Count(a, c) = 0 => ms[c] = m_centers[c]
  <2>. HIDE DEF a
  <2>. QED  OBVIOUS
<1>5. ms = m_centers /\ Stable(vpnts, ms)
  <2>. HIDE DEF ms
  <2>. QED  BY <1>1, <1>2, <1>3, <1>4, SameCostIsStable
<1>. QED  BY <1>5

\* The values at the start.
LEMMA DataInit == Init => DataInv
<1>. SUFFICES ASSUME Init PROVE DataInv
  OBVIOUS
<1>1. mpc = "init" /\ 0 \in Cluster
  BY AlgoAssumption DEF Init, Cluster
<1>2. DataTypes
  BY <1>1, ZerosType, AlgoAssumption DEF Init, DataTypes
<1>3. Sums /\ Phases /\ Descent
  BY <1>1 DEF Init, Sums, Phases, Descent, Seeding, Iterating, Finished
<1>. QED  BY <1>2, <1>3 DEF DataInv

-----------------------------------------------------------------------------
(* The steps of the main thread that compute.                              *)

LEMMA SeedKeepsData ==
    ASSUME IInv, DataInv, NEW r \in 0..RandMax, SeedFirst(r) \/ SeedOther(r)
    PROVE  DataInv'
<1>1. r \in Nat
  BY AlgoAssumption
<1>2. /\ Seeding /\ mpc' = "seed" /\ UNCHANGED <<vpnts, m_indexes, V, oldV, numPoints, accumulator,
                                      numIterations>>
      /\ (mpc = "init" /\ n' = 1) \/ (mpc = "seed" /\ n' = n + 1)
  BY DEF SeedFirst, SeedOther, MainGoto, iteration, sums, Seeding
<1>3. m_centers' \in [Cluster -> Seeds(vpnts)] /\ \E j \in Index : m_centers'[0] = vpnts[j]
  <2>1. CASE SeedFirst(r)
    BY <1>1, <2>1, FirstSeedType DEF SeedFirst
  <2>2. CASE SeedOther(r)
    <3>1. /\ m_centers \in [Cluster -> Seeds(vpnts)] /\ n # 0
          /\ \E j \in Index : m_centers[0] = vpnts[j]
      BY <2>2 DEF DataInv, Phases, SeedOther, MainGoto
    <3>2. m_centers' = NextSeed(vpnts, m_centers, SeedWeights(vpnts, m_centers), n, r)
      BY <2>2 DEF SeedOther
    <3>3. m_centers' \in [Cluster -> Seeds(vpnts)] /\ m_centers'[0] = m_centers[0]
      BY <3>1, <3>2, NextSeedType
    <3>. QED  BY <3>1, <3>3
  <2>. QED  BY <2>1, <2>2
<1>4. m_centers' \in [Cluster -> Point]
  BY <1>3, ThePoints, SeedsArePoints DEF DataInv
<1>5. DataTypes' /\ Sums'
  BY <1>2, <1>4 DEF DataInv, DataTypes, Sums, Seeding
<1>6. n' # 0
  BY <1>2 DEF IInv, MainTypes
<1>7. Phases' /\ Descent'
  BY <1>2, <1>3, <1>6 DEF DataInv, Phases, Descent, Seeding, Iterating, Finished
<1>. QED  BY <1>5, <1>7 DEF DataInv

\* The step into the loop, and the start of an iteration.
LEMMA LoopKeepsData ==
    ASSUME IInv, DataInv, SeedDone \/ CreateTasks
    PROVE  DataInv'
<1>1. UNCHANGED <<vpnts, m_centers, m_indexes, numPoints, accumulator>>
  BY DEF SeedDone, CreateTasks, seeding, iteration, sums
<1>2. Cost(vpnts, m_centers)' = Cost(vpnts, m_centers) /\ Stable(vpnts, m_centers)' = Stable(vpnts, m_centers)
  BY <1>1 DEF Cost, Stable
<1>3. Cost(vpnts, m_centers) = 0 => Stable(vpnts, m_centers)
  BY NoCostIsStable DEF DataInv
<1>4. CASE SeedDone
  <2>1. /\ mpc = "seed" /\ mpc' = "while" /\ V = 0 /\ V' = 0 /\ oldV = -1 /\ oldV' = -1
        /\ numIterations = 0 /\ numIterations' = 0
    BY <1>4 DEF SeedDone, MainGoto, iteration, DataInv, Phases, Seeding
  <2>2. DataTypes' /\ Sums'
    BY <1>1, <2>1 DEF DataInv, DataTypes, Sums
  <2>3. Phases'
    BY <2>1 DEF Phases, Seeding, Iterating, Finished
  <2>4. Descent'
    BY <1>2, <1>3, <2>1 DEF Descent, Bounds, Iterating, Finished
  <2>. QED  BY <2>2, <2>3, <2>4 DEF DataInv
<1>5. CASE CreateTasks
  <2>1. /\ mpc = "while" /\ mpc' = "add" /\ V # oldV /\ oldV' = V /\ V' = 0
        /\ numIterations' = numIterations + 1 /\ numIterations \in Nat /\ V \in Nat
    BY <1>5 DEF CreateTasks, MainGoto, DataInv, DataTypes
  <2>2. DataTypes' /\ Sums'
    BY <1>1, <2>1 DEF DataInv, DataTypes, Sums
  <2>3. Phases'
    BY <2>1 DEF DataInv, Phases, Seeding, Iterating, Finished
  <2>4. numIterations' # 1 => numIterations # 0
    BY <2>1
  <2>5. Descent'
    BY <1>2, <2>1, <2>4 DEF DataInv, Descent, Bounds, Iterating, Finished
  <2>. QED  BY <2>2, <2>3, <2>5 DEF DataInv
<1>. QED  BY <1>4, <1>5

\* Accumulate finds the sums at 0 and every index right.
LEMMA AccumulateKeepsData ==
    ASSUME IInv, DataInv, Accumulate
    PROVE  DataInv'
<1>1. /\ mpc = "accumulate" /\ mpc' = "move"
      /\ UNCHANGED <<vpnts, m_centers, m_indexes, oldV, numIterations>>
      /\ V' = V + Distortion(vpnts, m_centers, m_indexes)
      /\ accumulator' = [c \in Cluster |-> AddPoints(vpnts, m_indexes, c, accumulator[c])]
      /\ numPoints' = [c \in Cluster |-> numPoints[c] + Count(m_indexes, c)]
  BY DEF Accumulate, MainGoto, seeding
<1>2. m_indexes = Nearest(vpnts, m_centers)
  <2>1. m_indexes = [j \in Index |-> m_indexes[j]]
    BY DEF IInv, MainTypes
  <2>2. \A j \in Index : m_indexes[j] = FindNearest(vpnts[j], m_centers)
    BY <1>1 DEF IInv, Written, Right
  <2>. QED  BY <2>1, <2>2 DEF Nearest
<1>3. V = 0 /\ numPoints = [c \in Cluster |-> 0] /\ accumulator = Zeros
  BY <1>1 DEF DataInv, Sums
<1>4. /\ vpnts \in [Index -> Point] /\ m_centers \in [Cluster -> Point]
      /\ m_indexes \in [Index -> Cluster]
  BY ThePoints DEF DataInv, DataTypes
<1>5. V' = Cost(vpnts, m_centers) /\ V' \in Nat
  BY <1>1, <1>2, <1>3, <1>4, DistortionType DEF Cost
<1>6. /\ numPoints' = [c \in Cluster |-> Count(m_indexes, c)]
      /\ numPoints' \in [Cluster -> 0..N]
  <2>1. \A c \in Cluster : Count(m_indexes, c) \in 0..N /\ numPoints[c] = 0
    BY <1>3, CountType
  <2>2. \A c \in Cluster : numPoints[c] + Count(m_indexes, c) = Count(m_indexes, c)
    BY <2>1
  <2>. QED  BY <1>1, <2>1, <2>2
<1>7. /\ accumulator' = [c \in Cluster |-> AddPoints(vpnts, m_indexes, c, Zero)]
      /\ accumulator' \in [Cluster -> Point]
  <2>1. \A c \in Cluster : accumulator[c] = Zero
    BY <1>3, ZerosType
  <2>2. \A c \in Cluster : AddPoints(vpnts, m_indexes, c, Zero) \in Point
    BY <1>4, ZerosType, AddPointsType
  <2>. QED  BY <1>1, <2>1, <2>2
<1>8. DataTypes'
  BY <1>1, <1>5, <1>6, <1>7 DEF DataInv, DataTypes
<1>9. Cost(vpnts, m_centers)' = Cost(vpnts, m_centers) /\ Stable(vpnts, m_centers)' = Stable(vpnts, m_centers)
  BY <1>1 DEF Cost, Stable
<1>10. Sums'
  BY <1>1, <1>2, <1>5, <1>6, <1>7, <1>9 DEF Sums
<1>11. Phases' /\ Descent'
  BY <1>1, <1>9 DEF DataInv, Phases, Descent, Seeding, Iterating, Finished
<1>. QED  BY <1>8, <1>10, <1>11 DEF DataInv

\* The new centroids are the means, so that the next cost is bounded by this one.
LEMMA MoveIsMove ==
    ASSUME DataInv, MoveCenters
    PROVE  /\ IsMove(vpnts, m_centers, m_centers')
           /\ \A c \in Cluster : Count(Nearest(vpnts, m_centers), c) = 0 =>
                    m_centers'[c] = m_centers[c]
           /\ m_centers' \in [Cluster -> Point]
<1>. DEFINE a == Nearest(vpnts, m_centers)
<1>1. /\ vpnts \in [Index -> Point] /\ (\A j \in Index : Exact(vpnts[j]))
      /\ m_centers \in [Cluster -> Point]
  BY ThePoints DEF DataInv
<1>2. /\ m_centers' = [c \in Cluster |->
            IF numPoints[c] > 0 THEN Over(accumulator[c], numPoints[c]) ELSE m_centers[c]]
      /\ \A c \in Cluster : numPoints[c] = Count(a, c) /\ accumulator[c] = AddPoints(vpnts, a, c, Zero)
  BY DEF DataInv, Sums, MoveCenters, MainGoto
<1>. HIDE DEF a
<1>3. m_centers' = [c \in Cluster |-> IF Count(a, c) > 0 THEN MeanOf(vpnts, a, c) ELSE m_centers[c]]
  BY <1>2 DEF MeanOf
<1>4. \A c \in Cluster : Count(a, c) > 0 => MeanOf(vpnts, a, c) \in Point
  BY <1>1, MeanIsExact DEF MeanOf
<1>5. m_centers' \in [Cluster -> Point]
  BY <1>1, <1>3, <1>4
<1>6. \A c \in Cluster : Count(a, c) > 0 => m_centers'[c] = MeanOf(vpnts, a, c)
  BY <1>3
<1>7. \A c \in Cluster : Count(a, c) = 0 => m_centers'[c] = m_centers[c]
  BY <1>3
<1>. QED  BY <1>5, <1>6, <1>7 DEF IsMove, a

LEMMA MoveKeepsData ==
    ASSUME IInv, DataInv, MoveCenters
    PROVE  DataInv'
<1>1. /\ mpc = "move" /\ mpc' = "while"
      /\ UNCHANGED <<vpnts, m_indexes, V, oldV, numIterations>>
      /\ numPoints' = [c \in Cluster |-> 0] /\ accumulator' = Zeros
  BY DEF MoveCenters, MainGoto
<1>2. /\ vpnts \in [Index -> Point] /\ (\A j \in Index : Exact(vpnts[j]))
      /\ m_centers \in [Cluster -> Point]
  BY ThePoints DEF DataInv
<1>3. V = Cost(vpnts, m_centers) /\ m_indexes = Nearest(vpnts, m_centers)
  BY <1>1 DEF DataInv, Sums
<1>4. m_centers' \in [Cluster -> Point]
  BY MoveIsMove
<1>5. /\ Cost(vpnts, m_centers') <= V
      /\ Cost(vpnts, m_centers') = V => Stable(vpnts, m_centers')
  <2>1. Cost(vpnts, m_centers') <= Cost(vpnts, m_centers)
    BY <1>2, <1>4, MoveIsMove, MoveDescends
  <2>2. Cost(vpnts, m_centers') = Cost(vpnts, m_centers) => Stable(vpnts, m_centers')
    BY <1>2, <1>4, MoveIsMove, SameCostIsStable
  <2>. QED  BY <1>3, <2>1, <2>2
<1>6. V = oldV => m_centers' = m_centers
  <2>. SUFFICES ASSUME V = oldV PROVE m_centers' = m_centers
    OBVIOUS
  <2>1. Stable(vpnts, m_centers)
    BY <1>1, <1>3 DEF DataInv, Descent, Iterating
  <2>2. ASSUME NEW c \in Cluster PROVE m_centers'[c] = m_centers[c]
    <3>1. Count(Nearest(vpnts, m_centers), c) \in 0..N
      BY CountType
    <3>2. CASE Count(Nearest(vpnts, m_centers), c) = 0
      BY <3>2, MoveIsMove
    <3>3. CASE Count(Nearest(vpnts, m_centers), c) > 0
      BY <2>1, <3>3, MoveIsMove DEF Stable, IsMove
    <3>. QED  BY <3>1, <3>2, <3>3, AlgoAssumption
  <2>. QED  BY <1>2, <1>4, <2>2
<1>7. DataTypes'
  BY <1>1, <1>4, ZerosType, AlgoAssumption DEF DataInv, DataTypes
<1>8. Sums'
  BY <1>1 DEF Sums
<1>9. numIterations # 0
  BY <1>1 DEF DataInv, Phases, Iterating
<1>10. Phases'
  BY <1>1, <1>9 DEF Phases, Seeding, Iterating, Finished
<1>11. Descent'
  <2>1. Cost(vpnts, m_centers)' = Cost(vpnts, m_centers') /\ Stable(vpnts, m_centers)' = Stable(vpnts, m_centers')
    BY <1>1 DEF Cost, Stable
  <2>2. V' = oldV' => m_indexes' = Nearest(vpnts, m_centers)'
    BY <1>1, <1>3, <1>6
  <2>. QED  BY <1>1, <1>5, <2>1, <2>2 DEF Descent, Bounds, Iterating, Finished
<1>. QED  BY <1>7, <1>8, <1>10, <1>11 DEF DataInv

-----------------------------------------------------------------------------
(* The other steps compute nothing but indexes, during an iteration.       *)

LEMMA OthersKeepData ==
    ASSUME IInv, DataInv,
           UNCHANGED <<vpnts, m_centers, numPoints, accumulator, V, oldV, numIterations>>,
           \/ /\ m_indexes' = m_indexes
              /\ \/ mpc' = mpc /\ n' = n
                 \/ mpc' = "init" /\ mpc = "init"
                 \/ {mpc, mpc'} \subseteq {"add", "notify", "await", "accumulate"}
                 \/ mpc' \in {"stop", "join", "gone"} /\ (Finished \/ (mpc = "while" /\ V = oldV))
           \/ /\ m_indexes' \in [Index -> Cluster] /\ mpc' = mpc
              /\ mpc \in {"add", "notify", "await"}
    PROVE  DataInv'
<1>1. Cost(vpnts, m_centers)' = Cost(vpnts, m_centers) /\ Stable(vpnts, m_centers)' = Stable(vpnts, m_centers)
  BY DEF Cost, Stable
<1>2. DataTypes'
  BY DEF DataInv, DataTypes
<1>3. Sums'
  BY <1>1 DEF DataInv, Sums, Finished
<1>4. Phases'
  BY DEF DataInv, Phases, Seeding, Iterating, Finished
<1>5. Descent'
  BY <1>1 DEF DataInv, Descent, Bounds, Iterating, Finished
<1>. QED  BY <1>2, <1>3, <1>4, <1>5 DEF DataInv

\* Every step keeps the values what they should be.
LEMMA DataStep == IInv /\ DataInv /\ [Next]_vars => DataInv'
<1>. SUFFICES ASSUME IInv, DataInv, [Next]_vars PROVE DataInv'
  OBVIOUS
<1>1. ASSUME NEW w \in Workers, Worker(w) \/ Spurious(w) \/ InitSpawn(w) PROVE DataInv'
  <2>1. CASE ExecutePoint(w)
    <3>1. /\ UNCHANGED <<mpc, vpnts, m_centers, numPoints, accumulator, V, oldV, numIterations>>
          /\ m_indexes' = [m_indexes EXCEPT ![pos[w]] = FindNearest(vpnts[pos[w]], m_centers)]
      BY <2>1 DEF ExecutePoint, seeding, iteration, sums
    <3>2. mpc \in {"add", "notify", "await"}
      BY <2>1, Idle DEF ExecutePoint, TasksInUse
    <3>3. pos[w] \in Index
      <4>1. PICK t \in Tasks : t = tsk[w]
        BY <2>1 DEF IInv, PoolInv, HoldsTask, ExecutePoint
      <4>2. pos[w] \in Nat /\ pos[w] < End(t) /\ End(t) \in Nat /\ End(t) <= N
        BY <2>1, <4>1, RangesBounded DEF IInv, MainTypes, ExecutePoint
      <4>. QED  BY <4>2, AlgoAssumption DEF Index
    <3>4. FindNearest(vpnts[pos[w]], m_centers) \in Cluster
      BY <3>3, ThePoints, NearestIsNearest DEF DataInv
    <3>5. m_indexes' \in [Index -> Cluster]
      BY <3>1, <3>4 DEF DataInv, DataTypes
    <3>. QED  BY <3>1, <3>2, <3>5, OthersKeepData
  <2>2. CASE ~ExecutePoint(w)
    <3>1. UNCHANGED <<mpc, n, vpnts, m_centers, m_indexes, numPoints, accumulator, V, oldV, numIterations>>
      BY <1>1, <2>2 DEF Worker, Spurious, InitSpawn, PopAndBegin, ExecuteEnd, MainGoto,
                        kmeansVars, seeding, iteration, sums
    <3>. QED  BY <3>1, OthersKeepData
  <2>. QED  BY <2>1, <2>2
<1>2. CASE AddTask \/ AddTaskNotify \/ AllAdded \/ WaitReturn \/ ClearTasks
           \/ Finish \/ DestroyNotify \/ DestroyJoin
  <2>1. UNCHANGED <<vpnts, m_centers, m_indexes, numPoints, accumulator, V, oldV, numIterations>>
    BY <1>2 DEF AddTask, AddTaskNotify, AllAdded, WaitReturn, ClearTasks, Finish,
                DestroyNotify, DestroyJoin, seeding, iteration, sums
  <2>2. \/ {mpc, mpc'} \subseteq {"add", "notify", "await", "accumulate"}
        \/ mpc' \in {"stop", "join", "gone"} /\ (Finished \/ (mpc = "while" /\ V = oldV))
    BY <1>2 DEF AddTask, AddTaskNotify, AllAdded, WaitReturn, ClearTasks, Finish,
                DestroyNotify, DestroyJoin, MainGoto, Finished
  <2>. QED  BY <2>1, <2>2, OthersKeepData
<1>3. CASE UNCHANGED vars
  <2>1. UNCHANGED <<mpc, n, vpnts, m_centers, m_indexes, numPoints, accumulator, V, oldV, numIterations>>
    BY <1>3 DEF vars, kmeansVars, seeding, iteration, sums
  <2>. QED  BY <2>1, OthersKeepData
<1>. QED  BY <1>1, <1>2, <1>3, SeedKeepsData, LoopKeepsData, AccumulateKeepsData, MoveKeepsData
          DEF Next, Main

\* The values are what they should be in every reachable state.
THEOREM DataInvariance == Spec => [](IInv /\ DataInv)
<1>1. Init => IInv /\ DataInv
  BY InitEstablishes, DataInit
<1>2. (IInv /\ DataInv) /\ [Next]_vars => (IInv /\ DataInv)'
  BY StepKeeps, DataStep
<1>. QED  BY <1>1, <1>2, PTL DEF Spec

\* Every variable of multi-threaded k-means has its type: FindNearest is defined for
\* all centroids, no division is by 0, no worker leaves the points.
THEOREM TypeCorrect == Spec => []TypeOK
<1>1. IInv /\ DataInv => TypeOK
  BY DEF IInv, PoolInv, MainTypes, DataInv, DataTypes, TypeOK
<1>. QED  BY <1>1, DataInvariance, PTL

\* V never grows from one iteration to the next, whatever the points: the centroids
\* are the means of complete and current clusters.
THEOREM CostNeverGrows == Spec => []NeverGrows
<1>1. DataInv => NeverGrows
  <2>. SUFFICES ASSUME DataInv, mpc = "move", oldV > 0 PROVE V <= oldV
    BY DEF NeverGrows
  <2>1. Iterating /\ V = Cost(vpnts, m_centers)
    BY DEF DataInv, Sums, Iterating
  <2>2. numIterations # 1
    BY <2>1 DEF DataInv, Phases
  <2>. QED  BY <2>1, <2>2 DEF DataInv, Descent
<1>. QED  BY <1>1, DataInvariance, PTL

\* The clusters that Run returns are those around the centroids it returns: when the
\* costs of two iterations agree the centroids have not moved in the last.
THEOREM Converged == Spec => []ResultIsNearest
<1>1. DataInv => ResultIsNearest
  BY DEF DataInv, Descent, ResultIsNearest
<1>. QED  BY <1>1, DataInvariance, PTL

-----------------------------------------------------------------------------
(* Lloyd's algorithm: its operators are those of this module.              *)

LEMMA SameSums ==
    /\ Algorithm!Index = Index /\ Algorithm!Cluster = Cluster
    /\ Algorithm!Zero = Zero /\ Algorithm!Zeros = Zeros
    /\ \A f, lo, hi : Algorithm!SumOver(f, lo, hi) = SumOver(f, lo, hi)
    /\ \A p, k : Algorithm!Over(p, k) = Over(p, k)
    /\ \A a, c : Algorithm!Count(a, c) = Count(a, c)
<1>1. \A f, lo, hi : Algorithm!SumOver(f, lo, hi) = SumOver(f, lo, hi)
  BY DEF Algorithm!SumOver, SumOver
<1>2. Algorithm!Index = Index /\ Algorithm!Cluster = Cluster
  BY DEF Algorithm!Index, Index, Algorithm!Cluster, Cluster
<1>3. Algorithm!Zero = Zero /\ Algorithm!Zeros = Zeros
  BY <1>2 DEF Algorithm!Zero, Zero, Algorithm!Zeros, Zeros
<1>4. \A p, k : Algorithm!Over(p, k) = Over(p, k)
  BY DEF Algorithm!Over, Over
<1>5. ASSUME NEW a, NEW c PROVE Algorithm!Count(a, c) = Count(a, c)
  <2>1. {j \in Algorithm!Index : a[j] = c} = {j \in Index : a[j] = c}
    BY <1>2
  <2>. QED  BY <2>1 DEF Algorithm!Count, Count, Algorithm!Cardinality, Cardinality
<1>. QED  BY <1>1, <1>2, <1>3, <1>4, <1>5

LEMMA SameDistances ==
    /\ \A p, q : Algorithm!Dist2(p, q) = Dist2(p, q)
    /\ \A pts, cs : Algorithm!Nearest(pts, cs) = Nearest(pts, cs)
    /\ \A pts, cs, a : Algorithm!Distortion(pts, cs, a) = Distortion(pts, cs, a)
    /\ \A pts, a, c, start : Algorithm!AddPoints(pts, a, c, start) = AddPoints(pts, a, c, start)
<1>1. \A p, q : Algorithm!Minus(p, q) = Minus(p, q)
  BY DEF Algorithm!Minus, Minus
<1>2. \A p, q : Algorithm!Dot(p, q) = Dot(p, q)
  BY SameSums DEF Algorithm!Dot, Dot
<1>3. \A p, q : Algorithm!Dist2(p, q) = Dist2(p, q)
  BY <1>1, <1>2 DEF Algorithm!Dist2, Dist2
<1>4. \A p, cs : Algorithm!FindNearest(p, cs) = FindNearest(p, cs)
  BY <1>3, SameSums DEF Algorithm!FindNearest, FindNearest
<1>5. \A pts, cs : Algorithm!Nearest(pts, cs) = Nearest(pts, cs)
  BY <1>4, SameSums DEF Algorithm!Nearest, Nearest
<1>6. \A pts, cs, a : Algorithm!Distortion(pts, cs, a) = Distortion(pts, cs, a)
  BY <1>3, SameSums DEF Algorithm!Distortion, Distortion
<1>7. \A pts, a, c, start : Algorithm!AddPoints(pts, a, c, start) = AddPoints(pts, a, c, start)
  BY SameSums DEF Algorithm!AddPoints, AddPoints
<1>. QED  BY <1>3, <1>5, <1>6, <1>7

-----------------------------------------------------------------------------
(* The run is one of Lloyd's algorithm: an iteration is its last step.     *)

\* The state of Lloyd's algorithm, from that of the program.
Phase == CASE Seeding -> "seed"
           [] Finished -> "done"
           [] mpc = "while" /\ V = oldV -> "stable"
           [] OTHER -> "run"
Centers == IF Seeding THEN Zeros ELSE m_centers
LastCost == IF Iterating THEN oldV ELSE V
Iterations == IF Iterating THEN numIterations - 1 ELSE numIterations
Clusters == IF Finished \/ (mpc = "while" /\ V = oldV) THEN m_indexes ELSE <<>>

LEMMA AbstractSteps ==
    /\ Algorithm!lloydVars = <<vpnts, Phase, Centers, LastCost, Iterations, Clusters>>
    /\ Algorithm!LloydInit <=>
          /\ vpnts \in Inputs /\ Phase = "seed" /\ Centers = Zeros /\ LastCost = 0
          /\ Iterations = 0 /\ Clusters = <<>>
    /\ Algorithm!Seed <=>
          /\ Phase = "seed" /\ Phase' = "run"
          /\ Centers' \in [Cluster -> Seeds(vpnts)]
          /\ \E j \in Index : Centers'[0] = vpnts[j]
          /\ UNCHANGED <<vpnts, LastCost, Iterations, Clusters>>
    /\ Algorithm!Return <=>
          /\ Phase = "stable" /\ Phase' = "done"
          /\ UNCHANGED <<vpnts, Centers, LastCost, Iterations, Clusters>>
<1>1. Algorithm!lloydVars = <<vpnts, Phase, Centers, LastCost, Iterations, Clusters>>
  BY DEF Algorithm!lloydVars, Phase, Centers, LastCost, Iterations, Clusters
<1>2. Algorithm!LloydInit <=>
        /\ vpnts \in Inputs /\ Phase = "seed" /\ Centers = Zeros /\ LastCost = 0
        /\ Iterations = 0 /\ Clusters = <<>>
  BY SameSums DEF Algorithm!LloydInit, Algorithm!NoClusters, Phase, Centers, LastCost, Iterations,
                  Clusters
<1>3. Algorithm!Seed <=>
        /\ Phase = "seed" /\ Phase' = "run"
        /\ Centers' \in [Cluster -> Seeds(vpnts)]
        /\ \E j \in Index : Centers'[0] = vpnts[j]
        /\ UNCHANGED <<vpnts, LastCost, Iterations, Clusters>>
  BY SameSums DEF Algorithm!Seed, Seeds, Phase, Centers, LastCost, Iterations, Clusters
<1>4. Algorithm!Return <=>
        /\ Phase = "stable" /\ Phase' = "done"
        /\ UNCHANGED <<vpnts, Centers, LastCost, Iterations, Clusters>>
  BY DEF Algorithm!Return, Phase, Centers, LastCost, Iterations, Clusters
<1>. QED  BY <1>1, <1>2, <1>3, <1>4

LEMMA AbstractIterate ==
    ASSUME Phase = "run", Phase' = IF Cost(vpnts, Centers) = LastCost THEN "stable" ELSE "run",
           Centers' = [c \in Cluster |->
               IF Count(Nearest(vpnts, Centers), c) > 0
               THEN MeanOf(vpnts, Nearest(vpnts, Centers), c) ELSE Centers[c]],
           LastCost' = Cost(vpnts, Centers), Iterations' = Iterations + 1,
           Clusters' = IF Cost(vpnts, Centers) = LastCost THEN Nearest(vpnts, Centers) ELSE <<>>,
           vpnts' = vpnts
    PROVE  Algorithm!Iterate
<1>1. \A a, c : Algorithm!Mean(a, c) = IF Count(a, c) > 0 THEN MeanOf(vpnts, a, c) ELSE Centers[c]
  BY SameSums, SameDistances DEF Algorithm!Mean, MeanOf, Centers
<1>. QED
  BY <1>1, SameSums, SameDistances
     DEF Algorithm!Iterate, Algorithm!NoClusters, Cost, Phase, Centers, LastCost, Iterations,
     Clusters

\* The abstract state wherever the loop is.
StateMatches ==
    /\ Seeding => /\ Phase = "seed" /\ Centers = Zeros /\ LastCost = V
                  /\ Iterations = numIterations /\ Clusters = <<>>
    /\ Iterating => /\ Phase = "run" /\ Centers = m_centers /\ LastCost = oldV
                    /\ Iterations = numIterations - 1 /\ Clusters = <<>>
    /\ mpc = "while" => /\ Phase = IF V = oldV THEN "stable" ELSE "run"
                        /\ Centers = m_centers /\ LastCost = V
                        /\ Iterations = numIterations
                        /\ Clusters = IF V = oldV THEN m_indexes ELSE <<>>
    /\ Finished => /\ Phase = "done" /\ Centers = m_centers /\ LastCost = V
                   /\ Iterations = numIterations /\ Clusters = m_indexes

LEMMA AbstractState == StateMatches
BY DEF StateMatches, Phase, Centers, LastCost, Iterations, Clusters, Seeding, Iterating, Finished

LEMMA AbstractStateNext == StateMatches'
BY AbstractState, PTL

\* SeedDone shows the centroids that were drawn one by one.
LEMMA SeedDoneSeeds ==
    ASSUME IInv, DataInv, SeedDone
    PROVE  Algorithm!Seed
<1>1. /\ Seeding /\ mpc = "seed" /\ mpc' = "while"
      /\ UNCHANGED <<vpnts, m_centers, m_indexes, V, oldV, numIterations>>
  BY DEF SeedDone, MainGoto, seeding, iteration, Seeding
<1>2. /\ V = 0 /\ oldV = -1 /\ m_centers \in [Cluster -> Seeds(vpnts)]
      /\ \E j \in Index : m_centers[0] = vpnts[j]
  BY <1>1 DEF DataInv, Phases
<1>3. V' # oldV'
  BY <1>1, <1>2
<1>. QED  BY <1>1, <1>2, <1>3, AbstractState, AbstractStateNext, AbstractSteps DEF StateMatches

\* MoveCenters completes an iteration of the algorithm.
LEMMA MoveCentersIterates ==
    ASSUME IInv, DataInv, MoveCenters
    PROVE  Algorithm!Iterate
<1>1. /\ Iterating /\ mpc = "move" /\ mpc' = "while"
      /\ UNCHANGED <<vpnts, m_indexes, V, oldV, numIterations>>
      /\ m_centers' = [c \in Cluster |->
            IF numPoints[c] > 0 THEN Over(accumulator[c], numPoints[c]) ELSE m_centers[c]]
  BY DEF MoveCenters, MainGoto, Iterating
<1>2. /\ V = Cost(vpnts, m_centers) /\ m_indexes = Nearest(vpnts, m_centers)
      /\ \A c \in Cluster : /\ numPoints[c] = Count(m_indexes, c)
                            /\ accumulator[c] = AddPoints(vpnts, m_indexes, c, Zero)
  BY <1>1 DEF DataInv, Sums
<1>3. m_centers' = [c \in Cluster |->
          IF Count(m_indexes, c) > 0 THEN MeanOf(vpnts, m_indexes, c) ELSE m_centers[c]]
  BY <1>1, <1>2 DEF MeanOf
<1>4. /\ Phase = "run" /\ Centers = m_centers /\ LastCost = oldV /\ Iterations = numIterations - 1
      /\ numIterations \in Nat
  BY <1>1, AbstractState DEF StateMatches, DataInv, DataTypes
<1>5. /\ Phase' = IF V = oldV THEN "stable" ELSE "run"
      /\ Centers' = m_centers' /\ LastCost' = V /\ Iterations' = numIterations
      /\ Clusters' = IF V = oldV THEN m_indexes ELSE <<>>
  BY <1>1, AbstractStateNext DEF StateMatches
<1>6. Iterations' = Iterations + 1
  BY <1>4, <1>5
<1>. QED  BY <1>1, <1>2, <1>3, <1>4, <1>5, <1>6, AbstractIterate

\* Finish returns the clusters.
LEMMA FinishReturns ==
    ASSUME IInv, DataInv, Finish
    PROVE  Algorithm!Return
<1>1. /\ mpc = "while" /\ V = oldV /\ Finished'
      /\ UNCHANGED <<vpnts, m_centers, m_indexes, V, oldV, numIterations>>
  BY DEF Finish, MainGoto, seeding, iteration, Finished
<1>. QED  BY <1>1, AbstractState, AbstractStateNext, AbstractSteps DEF StateMatches

\* All other steps are hidden.
LEMMA Hidden ==
    ASSUME UNCHANGED <<vpnts, numIterations>>,
           \/ Seeding /\ Seeding' /\ UNCHANGED V
           \/ Iterating /\ Iterating' /\ UNCHANGED <<m_centers, oldV>>
           \/ Finished /\ Finished' /\ UNCHANGED <<m_centers, m_indexes, V>>
           \/ mpc = "while" /\ mpc' = "while" /\ UNCHANGED <<m_centers, m_indexes, V, oldV>>
    PROVE  UNCHANGED Algorithm!lloydVars
<1>1. UNCHANGED <<vpnts, Phase, Centers, LastCost, Iterations, Clusters>>
  BY AbstractState, AbstractStateNext DEF StateMatches
<1>. QED  BY <1>1 DEF Algorithm!lloydVars, Phase, Centers, LastCost, Iterations, Clusters

LEMMA StepSimulates ==
    ASSUME IInv, DataInv, [Next]_vars
    PROVE  [Algorithm!LloydNext]_Algorithm!lloydVars
<1>1. CASE SeedDone \/ MoveCenters \/ Finish
  BY <1>1, SeedDoneSeeds, MoveCentersIterates, FinishReturns DEF Algorithm!LloydNext
<1>2. CASE (\E r \in 0..RandMax : SeedFirst(r) \/ SeedOther(r)) \/ (\E w \in Workers : InitSpawn(w))
  <2>1. Seeding /\ Seeding' /\ UNCHANGED <<vpnts, numIterations, V>>
    BY <1>2 DEF SeedFirst, SeedOther, InitSpawn, MainGoto, seeding, iteration, Seeding
  <2>. QED  BY <2>1, Hidden
<1>3. CASE CreateTasks
  <2>1. UNCHANGED <<vpnts, Phase, Centers, LastCost, Iterations, Clusters>>
    <3>1. /\ mpc = "while" /\ mpc' = "add" /\ V # oldV /\ oldV' = V /\ UNCHANGED <<vpnts, m_centers>>
          /\ numIterations' = numIterations + 1 /\ numIterations \in Nat
      BY <1>3 DEF CreateTasks, MainGoto, seeding, DataInv, DataTypes
    <3>2. Iterating' /\ numIterations' - 1 = numIterations
      BY <3>1 DEF Iterating
    <3>. QED  BY <3>1, <3>2, AbstractState, AbstractStateNext DEF StateMatches
  <2>. QED  BY <2>1 DEF Algorithm!lloydVars, Phase, Centers, LastCost, Iterations, Clusters
<1>4. CASE AddTask \/ AddTaskNotify \/ AllAdded \/ WaitReturn \/ ClearTasks \/ Accumulate
  <2>1. Iterating /\ Iterating' /\ UNCHANGED <<vpnts, m_centers, oldV, numIterations>>
    BY <1>4 DEF AddTask, AddTaskNotify, AllAdded, WaitReturn, ClearTasks, Accumulate,
                MainGoto, seeding, iteration, Iterating
  <2>. QED  BY <2>1, Hidden
<1>5. CASE DestroyNotify \/ DestroyJoin
  <2>1. Finished /\ Finished' /\ UNCHANGED <<vpnts, m_centers, m_indexes, V, numIterations>>
    BY <1>5 DEF DestroyNotify, DestroyJoin, MainGoto, seeding, iteration, Finished
  <2>. QED  BY <2>1, Hidden
<1>6. ASSUME NEW w \in Workers, ExecutePoint(w) PROVE UNCHANGED Algorithm!lloydVars
  <2>1. Iterating /\ Iterating' /\ UNCHANGED <<vpnts, m_centers, oldV, numIterations>>
    BY <1>6, Idle DEF ExecutePoint, seeding, iteration, TasksInUse, Iterating
  <2>. QED  BY <2>1, Hidden
<1>7. CASE UNCHANGED <<mpc, vpnts, m_centers, m_indexes, V, oldV, numIterations>>
  <2>1. mpc \in {"init", "seed", "while", "add", "notify", "await", "accumulate", "move",
                 "stop", "join", "gone"}
    BY DEF IInv, MainTypes
  <2>2. /\ Seeding' = Seeding /\ Iterating' = Iterating /\ Finished' = Finished
        /\ Seeding \/ Iterating \/ Finished \/ mpc = "while"
    BY <1>7, <2>1 DEF Seeding, Iterating, Finished
  <2>. QED  BY <1>7, <2>2, Hidden
<1>8. ASSUME NEW w \in Workers, Worker(w) \/ Spurious(w), ~ExecutePoint(w)
      PROVE  UNCHANGED <<mpc, vpnts, m_centers, m_indexes, V, oldV, numIterations>>
  BY <1>8 DEF Worker, Spurious, PopAndBegin, ExecuteEnd, kmeansVars, seeding, iteration
<1>9. CASE UNCHANGED vars
  BY <1>7, <1>9 DEF vars, kmeansVars, seeding, iteration
<1>. QED  BY <1>1, <1>2, <1>3, <1>4, <1>5, <1>6, <1>7, <1>8, <1>9 DEF Next, Main

\* Threads, tasks and ranges compute what the sequential algorithm computes: each run of
\* the program is a run of Lloyd's algorithm, iteration by iteration.
THEOREM ImplementsAlgorithm == Spec => ImplementsLloyd
<1>1. Init => Algorithm!LloydInit
  <2>. SUFFICES ASSUME Init PROVE Algorithm!LloydInit
    OBVIOUS
  <2>1. Seeding /\ vpnts \in Inputs /\ V = 0 /\ numIterations = 0
    BY DEF Init, Seeding
  <2>. QED  BY <2>1, AbstractState, AbstractSteps DEF StateMatches
<1>2. IInv /\ DataInv /\ [Next]_vars => [Algorithm!LloydNext]_Algorithm!lloydVars
  BY StepSimulates
<1>. QED  BY <1>1, <1>2, DataInvariance, PTL DEF Spec, ImplementsLloyd, Algorithm!LloydSpec
=============================================================================
