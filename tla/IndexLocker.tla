---------------------------- MODULE IndexLocker -----------------------------
(***************************************************************************)
(* locks::index_locker (src/src/threadsafe/locks.h): one mutex per index,  *)
(* created by the first thread that wants the index and erased by the last *)
(* one that leaves it.  The threads use it as test_index_locker.cpp does:  *)
(* each locks one index at a time, and unlocks it, a number of times.      *)
(*                                                                         *)
(* unlock looks the index up without m_global.  An insertion or an erasure *)
(* under way in another thread is a data race with it, and its effect here *)
(* is that find may miss an index that is present.                         *)
(***************************************************************************)
EXTENDS Integers, FiniteSets

CONSTANTS
    Threads,
    Indexes,
    NoThread,   \* the holder of a free mutex
    MaxCalls,   \* bound on the calls of lock of one thread
    AllocFails  \* the allocation of an element may fail

ASSUME LockerAssumption ==
    /\ IsFiniteSet(Threads) /\ NoThread \notin Threads
    /\ Indexes # {} /\ MaxCalls \in Nat /\ AllocFails \in BOOLEAN

VARIABLES
    m_global,   \* the thread that holds it, or NoThread
    m_lockers,  \* the indexes that have a sync_object
    mtx,        \* mtx[i]: the holder of the mutex of i's sync_object
    catch_cnt,  \* catch_cnt[i]: the counter in it
    pc,         \* pc[t]: the next statement of thread t
    index,      \* index[t]: the argument of its call
    calls,      \* calls[t]: its calls of lock so far
    missed      \* history, missed[i]: the calls of unlock(i) that missed i

vars == <<m_global, m_lockers, mtx, catch_cnt, pc, index, calls, missed>>

Init ==
    /\ m_global = NoThread
    /\ m_lockers = {}
    /\ mtx = [i \in Indexes |-> NoThread]
    /\ catch_cnt = [i \in Indexes |-> 0]
    /\ pc = [t \in Threads |-> "out"]
    /\ index = [t \in Threads |-> CHOOSE i \in Indexes : TRUE]
    /\ calls = [t \in Threads |-> 0]
    /\ missed = [i \in Indexes |-> 0]

Goto(t, from, to) == pc[t] = from /\ pc' = [pc EXCEPT ![t] = to]

\* Some other thread is inserting or erasing an element.
Changing(t) == \E u \in Threads \ {t} : pc[u] \in {"insert", "erase"}

-----------------------------------------------------------------------------
(* lock *)

CallLock(t) ==
    /\ calls[t] < MaxCalls
    /\ Goto(t, "out", "global")
    /\ index' \in {[index EXCEPT ![t] = i] : i \in Indexes}
    /\ calls' = [calls EXCEPT ![t] = @ + 1]
    /\ UNCHANGED <<m_global, m_lockers, mtx, catch_cnt, missed>>

\* m_lockers[index] inserts a new sync_object if there is none.
LockGlobal(t) ==
    /\ m_global = NoThread
    /\ Goto(t, "global", IF index[t] \in m_lockers THEN "try" ELSE "insert")
    /\ m_global' = t
    /\ UNCHANGED <<m_lockers, mtx, catch_cnt, index, calls, missed>>

Insert(t) ==
    /\ Goto(t, "insert", "try")
    /\ m_lockers' = m_lockers \cup {index[t]}
    /\ mtx' = [mtx EXCEPT ![index[t]] = NoThread]
    /\ catch_cnt' = [catch_cnt EXCEPT ![index[t]] = 0]
    /\ UNCHANGED <<m_global, index, calls, missed>>

\* std::bad_alloc leaves lock with nothing inserted and m_global locked.  The caller
\* catches it and goes on; whoever needs m_global from now on, itself included, waits.
InsertBadAlloc(t) ==
    /\ AllocFails
    /\ Goto(t, "insert", "out")
    /\ UNCHANGED <<m_global, m_lockers, mtx, catch_cnt, index, calls, missed>>

\* Defects: only a thread that blocks is counted; m_global is kept while it blocks.
TryLockCountsBlocked(t) ==
    /\ Goto(t, "try", IF mtx[index[t]] = NoThread THEN "held" ELSE "block")
    /\ catch_cnt' = [catch_cnt EXCEPT ![index[t]] =
                        IF mtx[index[t]] = NoThread THEN @ ELSE @ + 1]
    /\ mtx' = [mtx EXCEPT ![index[t]] = IF @ = NoThread THEN t ELSE @]
    /\ m_global' = NoThread
    /\ UNCHANGED <<m_lockers, index, calls, missed>>
TryLockKeepsGlobal(t) ==
    /\ Goto(t, "try", IF mtx[index[t]] = NoThread THEN "held" ELSE "block")
    /\ catch_cnt' = [catch_cnt EXCEPT ![index[t]] = @ + 1]
    /\ mtx' = [mtx EXCEPT ![index[t]] = IF @ = NoThread THEN t ELSE @]
    /\ m_global' = IF mtx[index[t]] = NoThread THEN NoThread ELSE t
    /\ UNCHANGED <<m_lockers, index, calls, missed>>

\* catch_cnt++ and try_lock; m_global is released in either case.
TryLock(t) ==
    /\ Goto(t, "try", IF mtx[index[t]] = NoThread THEN "held" ELSE "block")
    /\ catch_cnt' = [catch_cnt EXCEPT ![index[t]] = @ + 1]
    /\ mtx' = [mtx EXCEPT ![index[t]] = IF @ = NoThread THEN t ELSE @]
    /\ m_global' = NoThread
    /\ UNCHANGED <<m_lockers, index, calls, missed>>

LockMtx(t) ==
    /\ mtx[index[t]] = NoThread
    /\ Goto(t, "block", "held")
    /\ mtx' = [mtx EXCEPT ![index[t]] = t]
    /\ UNCHANGED <<m_global, m_lockers, catch_cnt, index, calls, missed>>

-----------------------------------------------------------------------------
(* unlock *)

FindHit(t) ==
    /\ index[t] \in m_lockers
    /\ Goto(t, "held", "release")
    /\ UNCHANGED <<m_global, m_lockers, mtx, catch_cnt, index, calls, missed>>

\* find returns end(): unlock does nothing.
FindMiss(t) ==
    /\ index[t] \notin m_lockers \/ Changing(t)
    /\ Goto(t, "held", "out")
    /\ missed' = [missed EXCEPT ![index[t]] = @ + 1]
    /\ UNCHANGED <<m_global, m_lockers, mtx, catch_cnt, index, calls>>

UnlockMtx(t) ==
    /\ Goto(t, "release", "count")
    /\ mtx' = [mtx EXCEPT ![index[t]] = NoThread]
    /\ UNCHANGED <<m_global, m_lockers, catch_cnt, index, calls, missed>>

\* Defects: the element is erased one user early; it is never erased.
CountDownEarly(t) ==
    /\ m_global = NoThread
    /\ Goto(t, "count", IF catch_cnt[index[t]] <= 2 THEN "erase" ELSE "out")
    /\ catch_cnt' = [catch_cnt EXCEPT ![index[t]] = @ - 1]
    /\ m_global' = IF catch_cnt[index[t]] <= 2 THEN t ELSE NoThread
    /\ UNCHANGED <<m_lockers, mtx, index, calls, missed>>
CountDownOnly(t) ==
    /\ m_global = NoThread
    /\ Goto(t, "count", "out")
    /\ catch_cnt' = [catch_cnt EXCEPT ![index[t]] = @ - 1]
    /\ UNCHANGED <<m_global, m_lockers, mtx, index, calls, missed>>

\* catch_cnt-- under m_global, which is kept for the erasure if that makes it 0.
CountDown(t) ==
    /\ m_global = NoThread
    /\ Goto(t, "count", IF catch_cnt[index[t]] = 1 THEN "erase" ELSE "out")
    /\ catch_cnt' = [catch_cnt EXCEPT ![index[t]] = @ - 1]
    /\ m_global' = IF catch_cnt[index[t]] = 1 THEN t ELSE NoThread
    /\ UNCHANGED <<m_lockers, mtx, index, calls, missed>>

Erase(t) ==
    /\ Goto(t, "erase", "out")
    /\ m_lockers' = m_lockers \ {index[t]}
    /\ m_global' = NoThread
    /\ UNCHANGED <<mtx, catch_cnt, index, calls, missed>>

Thread(t) ==
    \/ CallLock(t) \/ LockGlobal(t) \/ Insert(t) \/ InsertBadAlloc(t)
    \/ TryLock(t) \/ LockMtx(t)
    \/ FindHit(t) \/ FindMiss(t) \/ UnlockMtx(t) \/ CountDown(t) \/ Erase(t)

Next == \E t \in Threads : Thread(t)

Spec == Init /\ [][Next]_vars /\ \A t \in Threads : WF_vars(Thread(t))

-----------------------------------------------------------------------------
TypeOK ==
    /\ m_global \in Threads \cup {NoThread}
    /\ m_lockers \subseteq Indexes
    /\ mtx \in [Indexes -> Threads \cup {NoThread}]
    /\ catch_cnt \in [Indexes -> Nat]
    /\ pc \in [Threads -> {"out", "global", "insert", "try", "block", "held", "release",
                           "count", "erase"}]
    /\ index \in [Threads -> Indexes]
    /\ calls \in [Threads -> 0..MaxCalls]
    /\ missed \in [Indexes -> Nat]

\* The threads that count in catch_cnt[i]: from catch_cnt++ to catch_cnt--.
Users(i) == {t \in Threads : index[t] = i /\ pc[t] \in {"block", "held", "release", "count"}}

\* Two threads never hold the same index, not even by way of a sync_object that was
\* erased under one of them and created anew for the other, nor after a missed unlock.
MutualExclusion ==
    \A t, u \in Threads :
        pc[t] = "held" /\ pc[u] = "held" /\ index[t] = index[u] => t = u

\* A reference or an iterator to an element is used only while the element exists:
\* erase waits for every thread that blocks on, holds, or is leaving the mutex.
NoUseAfterErase == \A i \in Indexes : Users(i) # {} => i \in m_lockers

\* catch_cnt is the number of the threads that use the element, and of those that
\* left it by an unlock that missed.
CountsUsers ==
    \A i \in m_lockers : catch_cnt[i] = Cardinality(Users(i)) + missed[i]

\* Elements do not pile up: one that no thread uses and no unlock missed is being
\* created or erased.
NoElementLeft ==
    \A i \in m_lockers :
        Users(i) # {} \/ missed[i] > 0 \/ \E t \in Threads :
            index[t] = i /\ pc[t] \in {"try", "erase"}

AllReturn == \A t \in Threads : pc[t] = "out" /\ calls[t] = MaxCalls

\* m_global is locked by a thread that has left lock, or is calling it again.
Abandoned == \E t \in Threads : m_global = t /\ pc[t] \in {"out", "global"}

\* There are two ways to hang, an unlock that misses and an insertion that fails with
\* m_global locked: without them every thread gets through all its calls.
HangsOnlyOnMissOrBadAlloc ==
    []((\A i \in Indexes : missed[i] = 0) /\ ~Abandoned) => <>AllReturn

\* The threads of test_index_locker all return: it joins them (test_index_locker.cpp:141).
ThreadsReturn == <>AllReturn
=============================================================================
