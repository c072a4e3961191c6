---------------------------- MODULE KMeansMulti -----------------------------
(***************************************************************************)
(* multiThread::CKmeans (src/src/kmeans/multiThread/kmeansMultiThread.h):  *)
(* the main thread owns a thread pool, seeds the centroids, and in every   *)
(* iteration cuts the points into ranges, has the pool find the nearest    *)
(* centroids of each range, waits for the tasks, and moves the centroids.  *)
(* The workers write m_indexes and read m_centers with no lock of their    *)
(* own, one point at a time.                                               *)
(***************************************************************************)
EXTENDS ThreadPool, KMeansAlgo

CONSTANT NumTasks   \* numTasks: the tasks of an iteration

ASSUME MultiAssumption == NumTasks \in Nat \ {0, 1} /\ Tasks = 0..(NumTasks - 1)

VARIABLES
    mpc,         \* the next statement of the main thread
    n,           \* its loop variable: the centroid to seed, the task to add or await
    vpnts,       \* m_vpnts
    m_centers, m_indexes,
    numPoints, accumulator, V, oldV, numIterations,
    alive,       \* the tasks that exist: CKmeans::m_tasks
    pos          \* pos[w]: the variable i in the Execute of worker w

seeding == <<vpnts, m_centers>>
sums == <<numPoints, accumulator>>
iteration == <<V, oldV, sums, numIterations>>
kmeansVars == <<mpc, n, seeding, m_indexes, iteration, alive, pos>>
vars == <<poolVars, kmeansVars>>

Init ==
    /\ PoolInit
    /\ mpc = "init" /\ n = 0
    /\ vpnts \in Inputs
    /\ m_centers = Zeros
    /\ m_indexes = [j \in Index |-> 0]
    /\ numPoints = [c \in Cluster |-> 0] /\ accumulator = Zeros
    /\ V = 0 /\ oldV = -1 /\ numIterations = 0
    /\ alive = {}
    /\ pos = [w \in Workers |-> 0]

-----------------------------------------------------------------------------
(* The ranges: all tasks but the last have curNums points, the last has    *)
(* the remainder, from where they end.                                     *)

curNums == N \div (NumTasks - 1)
additionly == N % (NumTasks - 1)
Begin(t) == t * curNums
\* Defect: the remainder is left out.
EndWithoutRest(t) == IF t < NumTasks - 1 THEN t * curNums + curNums ELSE t * curNums

End(t) == IF t < NumTasks - 1 THEN t * curNums + curNums ELSE t * curNums + additionly

\* CKMTask::Execute: the start of the loop, a turn of it, and its end.
PopAndBegin(w) ==
    /\ PopTask(w)
    /\ pos' = [pos EXCEPT ![w] = Begin(Head(m_tasks))]
    /\ UNCHANGED <<mpc, n, seeding, m_indexes, iteration, alive>>

ExecutePoint(w) ==
    /\ ~terminated
    /\ wpc[w] = "execute" /\ pos[w] < End(tsk[w])
    /\ m_indexes' = [m_indexes EXCEPT ![pos[w]] = FindNearest(vpnts[pos[w]], m_centers)]
    /\ pos' = [pos EXCEPT ![w] = @ + 1]
    /\ UNCHANGED <<poolVars, mpc, n, seeding, iteration, alive>>

ExecuteEnd(w) ==
    /\ Execute(w)
    /\ pos[w] >= End(tsk[w])
    /\ pos' = [pos EXCEPT ![w] = 0]
    /\ UNCHANGED <<mpc, n, seeding, m_indexes, iteration, alive>>

Worker(w) ==
    \/ PopAndBegin(w) \/ ExecutePoint(w) \/ ExecuteEnd(w)
    \/ WorkerWithoutTask(w) /\ UNCHANGED kmeansVars

Spurious(w) == SpuriousWakeUp(w) /\ UNCHANGED kmeansVars

-----------------------------------------------------------------------------
(* The main thread: CKmeans(), Run, makeClusters, accumulate, ~CKmeans.    *)

MainGoto(from, to) == ~terminated /\ mpc = from /\ mpc' = to

InitSpawn(w) ==
    /\ MainGoto("init", "init")
    /\ SpawnThread(w)
    /\ UNCHANGED <<n, seeding, m_indexes, iteration, alive, pos>>

\* kmeansPP: the first centroid with the value r of rand(), then the others.
SeedFirst(r) ==
    /\ \A w \in Workers : wpc[w] # "none"
    /\ MainGoto("init", "seed")
    /\ m_centers' = FirstSeed(vpnts, r)
    /\ n' = 1
    /\ UNCHANGED <<poolVars, vpnts, m_indexes, iteration, alive, pos>>

SeedOther(r) ==
    /\ n < K
    /\ MainGoto("seed", "seed")
    /\ m_centers' = NextSeed(vpnts, m_centers, SeedWeights(vpnts, m_centers), n, r)
    /\ n' = n + 1
    /\ UNCHANGED <<poolVars, vpnts, m_indexes, iteration, alive, pos>>

SeedDone ==
    /\ n = K
    /\ MainGoto("seed", "while")
    /\ UNCHANGED <<poolVars, n, seeding, m_indexes, iteration, alive, pos>>

\* while (V != oldV): new tasks, with new promises ...
CreateTasks ==
    /\ V # oldV
    /\ MainGoto("while", "add")
    /\ numIterations' = numIterations + 1
    /\ oldV' = V /\ V' = 0
    /\ alive' = Tasks
    /\ m_promise' = {} /\ executed' = {}
    /\ n' = 0
    /\ UNCHANGED <<m_tasks, m_isRunning, hook, cond, thread, terminated,
                   seeding, m_indexes, sums, pos>>

\* ... which makeClusters adds to the pool one by one, and then awaits in order.
AddTask ==
    /\ n < NumTasks
    /\ MainGoto("add", "notify")
    /\ AddTaskPush(n)
    /\ UNCHANGED <<n, seeding, m_indexes, iteration, alive, pos>>

AddTaskNotify ==
    /\ MainGoto("notify", "add")
    /\ NotifyOne
    /\ n' = n + 1
    /\ UNCHANGED <<seeding, m_indexes, iteration, alive, pos>>

AllAdded ==
    /\ n = NumTasks
    /\ MainGoto("add", "await")
    /\ n' = 0
    /\ UNCHANGED <<poolVars, seeding, m_indexes, iteration, alive, pos>>

\* Defect: the main thread does not wait.
WaitReturnAtOnce ==
    /\ n < NumTasks
    /\ MainGoto("await", "await")
    /\ n' = n + 1
    /\ UNCHANGED <<poolVars, seeding, m_indexes, iteration, alive, pos>>

WaitReturn ==
    /\ n < NumTasks /\ n \in m_promise
    /\ MainGoto("await", "await")
    /\ n' = n + 1
    /\ UNCHANGED <<poolVars, seeding, m_indexes, iteration, alive, pos>>

\* Defect: the last task is not waited for.
ClearTasksEarly ==
    /\ n = NumTasks - 1
    /\ MainGoto("await", "accumulate")
    /\ alive' = {}
    /\ UNCHANGED <<poolVars, n, seeding, m_indexes, iteration, pos>>

\* m_tasks.clear() destroys the tasks.
ClearTasks ==
    /\ n = NumTasks
    /\ MainGoto("await", "accumulate")
    /\ alive' = {}
    /\ UNCHANGED <<poolVars, n, seeding, m_indexes, iteration, pos>>

Accumulate ==
    /\ MainGoto("accumulate", "move")
    /\ V' = V + Distortion(vpnts, m_centers, m_indexes)
    /\ accumulator' = [c \in Cluster |-> AddPoints(vpnts, m_indexes, c, accumulator[c])]
    /\ numPoints' = [c \in Cluster |-> numPoints[c] + Count(m_indexes, c)]
    /\ UNCHANGED <<poolVars, n, seeding, m_indexes, oldV, numIterations, alive, pos>>

\* Defects: the sums, or the counts, are not set back to 0.
MoveCentersKeepsSums ==
    /\ MainGoto("move", "while")
    /\ m_centers' = [c \in Cluster |->
          IF numPoints[c] > 0 THEN Over(accumulator[c], numPoints[c]) ELSE m_centers[c]]
    /\ numPoints' = [c \in Cluster |-> 0]
    /\ UNCHANGED <<poolVars, n, vpnts, m_indexes, accumulator, V, oldV, numIterations,
                   alive, pos>>
MoveCentersKeepsCounts ==
    /\ MainGoto("move", "while")
    /\ m_centers' = [c \in Cluster |->
          IF numPoints[c] > 0 THEN Over(accumulator[c], numPoints[c]) ELSE m_centers[c]]
    /\ accumulator' = Zeros
    /\ UNCHANGED <<poolVars, n, vpnts, m_indexes, numPoints, V, oldV, numIterations,
                   alive, pos>>

\* The centroid of an empty cluster stays where it is.
MoveCenters ==
    /\ MainGoto("move", "while")
    /\ m_centers' = [c \in Cluster |->
          IF numPoints[c] > 0 THEN Over(accumulator[c], numPoints[c]) ELSE m_centers[c]]
    /\ numPoints' = [c \in Cluster |-> 0]
    /\ accumulator' = Zeros
    /\ UNCHANGED <<poolVars, n, vpnts, m_indexes, V, oldV, numIterations, alive,
                   pos>>

\* Defect: the loop ends after its first iteration.
FinishEarly ==
    /\ numIterations > 0
    /\ MainGoto("while", "stop")
    /\ StopRunning
    /\ UNCHANGED <<n, seeding, m_indexes, iteration, alive, pos>>

\* Run returns, and the destruction of the CKmeans destroys its pool.
Finish ==
    /\ V = oldV
    /\ MainGoto("while", "stop")
    /\ StopRunning
    /\ UNCHANGED <<n, seeding, m_indexes, iteration, alive, pos>>

DestroyNotify ==
    /\ MainGoto("stop", "join")
    /\ NotifyAll
    /\ UNCHANGED <<n, seeding, m_indexes, iteration, alive, pos>>

DestroyJoin ==
    /\ MainGoto("join", "gone")
    /\ DestroyMembers
    /\ UNCHANGED <<n, seeding, m_indexes, iteration, alive, pos>>

Main ==
    \/ \E w \in Workers : InitSpawn(w)
    \/ \E r \in 0..RandMax : SeedFirst(r) \/ SeedOther(r)
    \/ SeedDone \/ CreateTasks \/ AddTask \/ AddTaskNotify \/ AllAdded \/ WaitReturn
    \/ ClearTasks \/ Accumulate \/ MoveCenters
    \/ Finish \/ DestroyNotify \/ DestroyJoin

Next == Main \/ \E w \in Workers : Worker(w) \/ Spurious(w)

Fairness == WF_vars(Main) /\ \A w \in Workers : WF_vars(Worker(w))

Spec == Init /\ [][Next]_vars /\ Fairness

-----------------------------------------------------------------------------
Finished == mpc \in {"stop", "join", "gone"}

TypeOK ==
    /\ PoolTypeOK
    /\ mpc \in {"init", "seed", "while", "add", "notify", "await", "accumulate", "move",
                "stop", "join", "gone"}
    /\ n \in Nat
    /\ vpnts \in Inputs
    /\ m_centers \in [Cluster -> Point] /\ accumulator \in [Cluster -> Point]
    /\ m_indexes \in [Index -> Cluster]
    /\ numPoints \in [Cluster -> 0..N]
    /\ V \in Nat /\ oldV \in Nat \cup {-1} /\ numIterations \in Nat
    /\ alive \subseteq Tasks
    /\ pos \in [Workers -> 0..N]

\* The threads share m_indexes and m_centers without a lock: a worker is in Execute
\* only while the main thread adds or awaits tasks, and no two workers write the same
\* index, whatever the ranges and the schedule.
NoRace ==
    /\ \A w \in Workers : wpc[w] = "execute" => mpc \in {"add", "notify", "await"}
    /\ \A w, v \in Workers :
        wpc[w] = "execute" /\ wpc[v] = "execute" /\ w # v =>
            pos[w]..(End(tsk[w]) - 1) \cap pos[v]..(End(tsk[v]) - 1) = {}

\* m_tasks.clear() destroys no task that the pool still has in its list, or that a
\* worker has still to execute or to notify.
TasksOutliveUse ==
    \A t \in Tasks : Queued(t) \/ (\E w \in Workers : HeldBy(w, t)) => t \in alive

\* The results of an iteration are complete and current when the main thread reads
\* them: every index is that of the nearest of the present centroids, none is left
\* from an earlier iteration.
ClustersAreCurrent == mpc = "accumulate" => m_indexes = Nearest(vpnts, m_centers)

\* V never grows from one iteration to the next.
NeverGrows == mpc = "move" /\ oldV > 0 => V <= oldV

\* What Run returns is a clustering around the returned centroids, although these
\* moved after the clusters were made.
ResultIsNearest == Finished => m_indexes = Nearest(vpnts, m_centers)

\* A lost notification is the only way in which the seeding, an iteration or the
\* destruction of the pool does not end.  How many iterations there are is another
\* matter: it depends on the rounding of V, which is exact here.
Stalled == m_tasks # <<>> /\ AllParked /\ mpc = "await"
ShutdownStalled == mpc = "join" /\ m_waiting # {}
EndsUnlessStalled ==
    [](~Stalled /\ ~ShutdownStalled) =>
        /\ mpc = "init" ~> mpc = "while"
        /\ mpc = "add" ~> mpc = "while"
        /\ mpc = "stop" ~> mpc = "gone"

\* Tasks, threads and ranges compute what the sequential algorithm computes.
Seeding == mpc \in {"init", "seed"}
Iterating == mpc \in {"add", "notify", "await", "accumulate", "move"}
Algorithm == INSTANCE Lloyd WITH
    KeepEmpty <- TRUE,
    points <- vpnts,
    phase <- CASE Seeding -> "seed"
               [] Finished -> "done"
               [] mpc = "while" /\ V = oldV -> "stable"
               [] OTHER -> "run",
    centers <- IF Seeding THEN Zeros ELSE m_centers,
    cost <- IF Iterating THEN oldV ELSE V,
    iterations <- IF Iterating THEN numIterations - 1 ELSE numIterations,
    clusters <- IF Finished \/ (mpc = "while" /\ V = oldV) THEN m_indexes ELSE <<>>
ImplementsLloyd == Algorithm!LloydSpec
=============================================================================
