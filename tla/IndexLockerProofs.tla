------------------------- MODULE IndexLockerProofs --------------------------
(***************************************************************************)
(* The safety properties of IndexLocker, for any finite set of threads and *)
(* any indexes and numbers of calls.                                       *)
(***************************************************************************)
EXTENDS IndexLocker, TLAPS, FiniteSetTheorems

\* The statements between m_global.lock() and m_global.unlock().
InGlobal == {"insert", "try", "erase"}
Using == {"block", "held", "release", "count"}

\* m_global: a thread between its lock and its unlock is the one that holds it.
GlobalHeld == \A t \in Threads : pc[t] \in InGlobal => m_global = t

\* What the holder of m_global has established about its element.
HolderKnows ==
    \A t \in Threads :
        /\ pc[t] = "insert" => index[t] \notin m_lockers
        /\ pc[t] = "try" => index[t] \in m_lockers
        /\ pc[t] = "erase" => index[t] \in m_lockers /\ catch_cnt[index[t]] = 0

\* A thread that has not unlocked the mutex of its element holds it.
MtxHeld ==
    \A t \in Threads : pc[t] \in {"held", "release"} => mtx[index[t]] = t

\* An element that an unlock missed stays for ever.
MissedStays == \A i \in Indexes : missed[i] > 0 => i \in m_lockers

\* The inductive invariant.
IInv ==
    /\ TypeOK
    /\ GlobalHeld /\ HolderKnows
    /\ MtxHeld
    /\ MissedStays /\ NoUseAfterErase
    /\ CountsUsers /\ NoElementLeft

-----------------------------------------------------------------------------
(* The threads that use an element.                                        *)

\* They are finitely many.
LEMMA UsersFinite ==
    ASSUME NEW i
    PROVE  IsFiniteSet(Users(i)) /\ Cardinality(Users(i)) \in Nat
BY LockerAssumption, FS_Subset, FS_CardinalityType DEF Users

\* An element with count 0 has no users and was not missed.
LEMMA ZeroIsFree ==
    ASSUME TypeOK, CountsUsers, NEW i \in m_lockers, catch_cnt[i] = 0
    PROVE  Users(i) = {} /\ missed[i] = 0
<1>1. Cardinality(Users(i)) \in Nat /\ missed[i] \in Nat
  BY UsersFinite DEF TypeOK
<1>2. Cardinality(Users(i)) = 0 /\ missed[i] = 0
  BY <1>1 DEF CountsUsers
<1>. QED  BY <1>2, UsersFinite, FS_EmptySet

-----------------------------------------------------------------------------
\* The invariant holds at the start: no element, no thread in a call.
LEMMA InitEstablishes == Init => IInv
<1>. SUFFICES ASSUME Init PROVE IInv
  OBVIOUS
<1>1. TypeOK
  BY LockerAssumption DEF Init, TypeOK
<1>2. \A i : Users(i) = {}
  BY DEF Init, Users
<1>. QED
  BY <1>1, <1>2
     DEF Init, IInv, GlobalHeld, HolderKnows, MtxHeld, MissedStays, NoUseAfterErase,
         CountsUsers, NoElementLeft, InGlobal

\* A step keeps the types.
LEMMA TypesStay ==
    ASSUME IInv, NEW t \in Threads, Thread(t)
    PROVE  TypeOK'
<1>. USE DEF TypeOK, Goto
<1>1. CASE CallLock(t)
  BY <1>1, LockerAssumption DEF IInv, CallLock
<1>2. CASE LockGlobal(t)
  BY <1>2 DEF IInv, LockGlobal
<1>3. CASE Insert(t)
  BY <1>3 DEF IInv, Insert
<1>4. CASE InsertBadAlloc(t)
  BY <1>4 DEF IInv, InsertBadAlloc
<1>5. CASE TryLock(t)
  BY <1>5 DEF IInv, TryLock
<1>6. CASE LockMtx(t)
  BY <1>6 DEF IInv, LockMtx
<1>7. CASE FindHit(t)
  BY <1>7 DEF IInv, FindHit
<1>8. CASE FindMiss(t)
  BY <1>8 DEF IInv, FindMiss
<1>9. CASE UnlockMtx(t)
  BY <1>9 DEF IInv, UnlockMtx
<1>10. CASE CountDown(t)
  <2>1. t \in Users(index[t])
    BY <1>10 DEF CountDown, Users
  <2>2. index[t] \in m_lockers /\ catch_cnt[index[t]] \in Nat
    BY <2>1 DEF IInv, NoUseAfterErase
  <2>3. catch_cnt[index[t]] # 0
    BY <2>1, <2>2, ZeroIsFree DEF IInv
  <2>. QED  BY <1>10, <2>2, <2>3 DEF IInv, CountDown
<1>11. CASE Erase(t)
  BY <1>11 DEF IInv, Erase
<1>. QED
  BY <1>1, <1>2, <1>3, <1>4, <1>5, <1>6, <1>7, <1>8, <1>9, <1>10, <1>11 DEF Thread

\* It keeps what the holder of m_global relies on: nobody else changes the map, a
\* count, or the mutex of an element that a thread holds.
LEMMA LocksStay ==
    ASSUME IInv, NEW t \in Threads, Thread(t)
    PROVE  GlobalHeld' /\ HolderKnows' /\ MtxHeld'
<1>. USE LockerAssumption
     DEF IInv, TypeOK, GlobalHeld, HolderKnows, MtxHeld, Goto, InGlobal
<1>1. CASE CallLock(t)
  BY <1>1 DEF CallLock
<1>2. CASE LockGlobal(t)
  BY <1>2 DEF LockGlobal
<1>3. CASE Insert(t)
  <2>1. Users(index[t]) = {}
    BY <1>3 DEF Insert, NoUseAfterErase
  <2>2. \A u \in Threads : index[u] = index[t] => pc[u] \notin {"held", "release"}
    BY <2>1 DEF Users
  <2>. QED  BY <1>3, <2>2 DEF Insert
<1>4. CASE InsertBadAlloc(t)
  BY <1>4 DEF InsertBadAlloc
<1>5. CASE TryLock(t)
  BY <1>5 DEF TryLock
<1>6. CASE LockMtx(t)
  BY <1>6 DEF LockMtx
<1>7. CASE FindHit(t)
  BY <1>7 DEF FindHit
<1>8. CASE FindMiss(t)
  BY <1>8 DEF FindMiss
<1>9. CASE UnlockMtx(t)
  BY <1>9 DEF UnlockMtx
<1>10. CASE CountDown(t)
  <2>1. t \in Users(index[t])
    BY <1>10 DEF CountDown, Users
  <2>2. index[t] \in m_lockers
    BY <2>1 DEF NoUseAfterErase
  <2>. QED  BY <1>10, <2>2 DEF CountDown
<1>11. CASE Erase(t)
  BY <1>11 DEF Erase
<1>. QED
  BY <1>1, <1>2, <1>3, <1>4, <1>5, <1>6, <1>7, <1>8, <1>9, <1>10, <1>11 DEF Thread

-----------------------------------------------------------------------------
(* The elements and their users.                                           *)

Elements == MissedStays /\ NoUseAfterErase /\ CountsUsers /\ NoElementLeft

\* Steps after which each element has the users and the counts it had.
LEMMA UsersStay ==
    ASSUME IInv, NEW t \in Threads,
           \/ CallLock(t) \/ LockGlobal(t) \/ InsertBadAlloc(t) \/ LockMtx(t)
           \/ FindHit(t) \/ UnlockMtx(t)
    PROVE  Elements'
<1>. USE DEF CallLock, LockGlobal, InsertBadAlloc, LockMtx, FindHit, UnlockMtx, Goto
<1>1. UNCHANGED <<m_lockers, catch_cnt, missed>>
  OBVIOUS
<1>2. \A i : Users(i)' = Users(i)
  BY DEF IInv, TypeOK, Users
<1>3. \A u \in Threads : pc[u] \in {"try", "erase"} => pc'[u] = pc[u] /\ index'[u] = index[u]
  BY DEF IInv, TypeOK
<1>4. NoElementLeft'
  BY <1>1, <1>2, <1>3 DEF IInv, NoElementLeft
<1>. QED
  BY <1>1, <1>2, <1>4 DEF IInv, Elements, MissedStays, NoUseAfterErase, CountsUsers

\* Insert adds an element with no user.
LEMMA InsertAdds ==
    ASSUME IInv, NEW t \in Threads, Insert(t)
    PROVE  Elements'
<1>0. PICK i \in Indexes : i = index[t]
  BY DEF IInv, TypeOK
<1>1. /\ i \notin m_lockers
      /\ m_lockers' = m_lockers \cup {i} /\ missed' = missed
      /\ catch_cnt'[i] = 0 /\ \A j \in Indexes : j # i => catch_cnt'[j] = catch_cnt[j]
      /\ index' = index /\ pc'[t] = "try"
      /\ \A u \in Threads : u # t => pc'[u] = pc[u]
  BY <1>0 DEF IInv, TypeOK, HolderKnows, Insert, Goto
<1>2. \A j : Users(j)' = Users(j)
  BY DEF IInv, TypeOK, Users, Insert, Goto
<1>3. Users(i) = {} /\ missed[i] = 0
  BY <1>1 DEF IInv, TypeOK, NoUseAfterErase, MissedStays
<1>4. MissedStays' /\ NoUseAfterErase'
  BY <1>1, <1>2 DEF IInv, MissedStays, NoUseAfterErase
<1>5. CountsUsers'
  <2>. SUFFICES ASSUME NEW j \in m_lockers'
                PROVE  catch_cnt'[j] = Cardinality(Users(j)') + missed'[j]
    BY DEF CountsUsers
  <2>1. CASE j = i
    BY <1>1, <1>2, <1>3, <2>1, FS_EmptySet
  <2>2. CASE j # i
    BY <1>1, <1>2, <2>2 DEF IInv, TypeOK, CountsUsers
  <2>. QED  BY <2>1, <2>2
<1>6. NoElementLeft'
  <2>. SUFFICES ASSUME NEW j \in m_lockers', Users(j)' = {}, ~(missed'[j] > 0)
                PROVE  \E u \in Threads : index'[u] = j /\ pc'[u] \in {"try", "erase"}
    BY DEF NoElementLeft
  <2>1. CASE j = i
    BY <1>0, <1>1, <2>1
  <2>2. CASE j # i
    <3>1. PICK u \in Threads : index[u] = j /\ pc[u] \in {"try", "erase"}
      BY <1>1, <1>2, <2>2 DEF IInv, NoElementLeft
    <3>. QED  BY <1>1, <2>2, <3>1
  <2>. QED  BY <2>1, <2>2
<1>. QED  BY <1>4, <1>5, <1>6 DEF Elements

\* TryLock makes t a user and counts it.
LEMMA TryLockCounts ==
    ASSUME IInv, NEW t \in Threads, TryLock(t)
    PROVE  Elements'
<1>0. PICK i \in Indexes : i = index[t]
  BY DEF IInv, TypeOK
<1>1. /\ i \in m_lockers
      /\ UNCHANGED <<m_lockers, missed, index>>
      /\ catch_cnt'[i] = catch_cnt[i] + 1
      /\ \A j \in Indexes : j # i => catch_cnt'[j] = catch_cnt[j]
      /\ \A u \in Threads : u # t => pc'[u] = pc[u]
  BY <1>0 DEF IInv, TypeOK, HolderKnows, TryLock, Goto
<1>2. pc[t] = "try" /\ pc'[t] \in {"held", "block"}
  BY DEF IInv, TypeOK, TryLock, Goto
<1>3. t \notin Users(i) /\ Users(i)' = Users(i) \cup {t}
  BY <1>0, <1>1, <1>2 DEF Users
<1>4. \A j : j # i => Users(j)' = Users(j)
  BY <1>0, <1>1, <1>2 DEF Users
<1>5. Cardinality(Users(i)') = Cardinality(Users(i)) + 1
  BY <1>3, UsersFinite, FS_AddElement
<1>6. CountsUsers'
  <2>. SUFFICES ASSUME NEW j \in m_lockers'
                PROVE  catch_cnt'[j] = Cardinality(Users(j)') + missed'[j]
    BY DEF CountsUsers
  <2>1. CASE j = i
    <3>1. Cardinality(Users(i)) \in Nat /\ missed[i] \in Nat
      BY <1>1, UsersFinite DEF IInv, TypeOK
    <3>. QED  BY <1>1, <1>5, <2>1, <3>1 DEF IInv, CountsUsers
  <2>2. CASE j # i
    BY <1>1, <1>4, <2>2 DEF IInv, TypeOK, CountsUsers
  <2>. QED  BY <2>1, <2>2
<1>7. MissedStays' /\ NoUseAfterErase'
  BY <1>1, <1>4 DEF IInv, MissedStays, NoUseAfterErase
<1>8. NoElementLeft'
  <2>. SUFFICES ASSUME NEW j \in m_lockers', Users(j)' = {}, ~(missed'[j] > 0)
                PROVE  \E u \in Threads : index'[u] = j /\ pc'[u] \in {"try", "erase"}
    BY DEF NoElementLeft
  <2>1. j # i
    BY <1>3
  <2>2. PICK u \in Threads : index[u] = j /\ pc[u] \in {"try", "erase"}
    BY <1>1, <1>4, <2>1 DEF IInv, NoElementLeft
  <2>. QED  BY <1>0, <1>1, <2>1, <2>2
<1>. QED  BY <1>6, <1>7, <1>8 DEF Elements

\* FindMiss: t is a user no more, and the element's missed unlocks are one more.
LEMMA FindMissKeeps ==
    ASSUME IInv, NEW t \in Threads, FindMiss(t)
    PROVE  Elements'
<1>0. PICK i \in Indexes : i = index[t]
  BY DEF IInv, TypeOK
<1>1. /\ UNCHANGED <<m_lockers, catch_cnt, index>>
      /\ missed'[i] = missed[i] + 1
      /\ \A j \in Indexes : j # i => missed'[j] = missed[j]
      /\ \A u \in Threads : u # t => pc'[u] = pc[u]
      /\ pc[t] = "held" /\ pc'[t] = "out"
  BY <1>0 DEF IInv, TypeOK, FindMiss, Goto
<1>2. t \in Users(i) /\ Users(i)' = Users(i) \ {t}
  BY <1>0, <1>1 DEF Users
<1>3. \A j : j # i => Users(j)' = Users(j)
  BY <1>0, <1>1 DEF Users
<1>4. i \in m_lockers /\ missed[i] \in Nat
  BY <1>2 DEF IInv, TypeOK, NoUseAfterErase
<1>5. CountsUsers'
  <2>. SUFFICES ASSUME NEW j \in m_lockers'
                PROVE  catch_cnt'[j] = Cardinality(Users(j)') + missed'[j]
    BY DEF CountsUsers
  <2>1. CASE j = i
    <3>1. /\ Cardinality(Users(i)) \in Nat
          /\ Cardinality(Users(i)') = Cardinality(Users(i)) - 1
      BY <1>2, UsersFinite, FS_RemoveElement
    <3>. QED  BY <1>1, <1>4, <2>1, <3>1 DEF IInv, CountsUsers
  <2>2. CASE j # i
    BY <1>1, <1>3, <2>2 DEF IInv, TypeOK, CountsUsers
  <2>. QED  BY <2>1, <2>2
<1>6. MissedStays' /\ NoUseAfterErase'
  BY <1>1, <1>2, <1>3, <1>4 DEF IInv, MissedStays, NoUseAfterErase
<1>7. NoElementLeft'
  <2>. SUFFICES ASSUME NEW j \in m_lockers', Users(j)' = {}, ~(missed'[j] > 0)
                PROVE  \E u \in Threads : index'[u] = j /\ pc'[u] \in {"try", "erase"}
    BY DEF NoElementLeft
  <2>1. j # i
    BY <1>1, <1>4
  <2>2. j \in Indexes /\ j \in m_lockers
    BY <1>1 DEF IInv, TypeOK
  <2>3. PICK u \in Threads : index[u] = j /\ pc[u] \in {"try", "erase"}
    BY <1>1, <1>3, <2>1, <2>2 DEF IInv, NoElementLeft
  <2>. QED  BY <1>1, <2>3
<1>. QED  BY <1>5, <1>6, <1>7 DEF Elements

\* CountDown: t is a user no more; if that leaves none, it goes on to Erase.
LEMMA CountDownUncounts ==
    ASSUME IInv, NEW t \in Threads, CountDown(t)
    PROVE  Elements'
<1>0. PICK i \in Indexes : i = index[t]
  BY DEF IInv, TypeOK
<1>1. /\ UNCHANGED <<m_lockers, missed, index>>
      /\ catch_cnt'[i] = catch_cnt[i] - 1
      /\ \A j \in Indexes : j # i => catch_cnt'[j] = catch_cnt[j]
      /\ \A u \in Threads : u # t => pc'[u] = pc[u]
      /\ pc[t] = "count" /\ pc'[t] = IF catch_cnt[i] = 1 THEN "erase" ELSE "out"
  BY <1>0 DEF IInv, TypeOK, CountDown, Goto
<1>2. t \in Users(i) /\ Users(i)' = Users(i) \ {t}
  BY <1>0, <1>1 DEF Users
<1>3. \A j : j # i => Users(j)' = Users(j)
  BY <1>0, <1>1 DEF Users
<1>4. i \in m_lockers /\ missed[i] \in Nat
  BY <1>2 DEF IInv, TypeOK, NoUseAfterErase
<1>5. CountsUsers'
  <2>. SUFFICES ASSUME NEW j \in m_lockers'
                PROVE  catch_cnt'[j] = Cardinality(Users(j)') + missed'[j]
    BY DEF CountsUsers
  <2>1. CASE j = i
    <3>1. /\ Cardinality(Users(i)) \in Nat
          /\ Cardinality(Users(i)') = Cardinality(Users(i)) - 1
      BY <1>2, UsersFinite, FS_RemoveElement
    <3>. QED  BY <1>1, <1>4, <2>1, <3>1 DEF IInv, CountsUsers
  <2>2. CASE j # i
    BY <1>1, <1>3, <2>2 DEF IInv, TypeOK, CountsUsers
  <2>. QED  BY <2>1, <2>2
<1>6. MissedStays' /\ NoUseAfterErase'
  BY <1>1, <1>2, <1>3, <1>4 DEF IInv, MissedStays, NoUseAfterErase
<1>7. NoElementLeft'
  <2>. SUFFICES ASSUME NEW j \in m_lockers', Users(j)' = {}, ~(missed'[j] > 0)
                PROVE  \E u \in Threads : index'[u] = j /\ pc'[u] \in {"try", "erase"}
    BY DEF NoElementLeft
  <2>1. CASE j = i
    <3>1. catch_cnt'[i] = 0
      <4>1. Users(i)' = {} /\ missed[i] = 0
        BY <1>1, <1>4, <2>1
      <4>2. catch_cnt'[i] = Cardinality(Users(i)') + missed[i]
        BY <1>1, <1>4, <1>5 DEF CountsUsers
      <4>. QED  BY <4>1, <4>2, FS_EmptySet
    <3>2. catch_cnt[i] = 1
      BY <1>1, <1>4, <3>1 DEF IInv, TypeOK
    <3>. QED  BY <1>0, <1>1, <2>1, <3>2
  <2>2. CASE j # i
    <3>1. PICK u \in Threads : index[u] = j /\ pc[u] \in {"try", "erase"}
      BY <1>1, <1>3, <2>2 DEF IInv, TypeOK, NoElementLeft
    <3>. QED  BY <1>1, <3>1
  <2>. QED  BY <2>1, <2>2
<1>. QED  BY <1>5, <1>6, <1>7 DEF Elements

\* Erase takes an element away that has no user and was not missed.
LEMMA EraseRemoves ==
    ASSUME IInv, NEW t \in Threads, Erase(t)
    PROVE  Elements'
<1>0. PICK i \in Indexes : i = index[t]
  BY DEF IInv, TypeOK
<1>1. /\ m_lockers' = m_lockers \ {i} /\ i \in m_lockers /\ catch_cnt[i] = 0
      /\ UNCHANGED <<catch_cnt, index, missed>>
      /\ \A u \in Threads : u # t => pc'[u] = pc[u]
  BY <1>0 DEF IInv, TypeOK, HolderKnows, Erase, Goto
<1>2. \A j : Users(j)' = Users(j)
  BY DEF IInv, TypeOK, Users, Erase, Goto
<1>3. Users(i) = {} /\ missed[i] = 0
  BY <1>1, ZeroIsFree DEF IInv
<1>4. MissedStays' /\ NoUseAfterErase' /\ CountsUsers'
  BY <1>1, <1>2, <1>3 DEF IInv, MissedStays, NoUseAfterErase, CountsUsers
<1>5. NoElementLeft'
  <2>. SUFFICES ASSUME NEW j \in m_lockers', Users(j)' = {}, ~(missed'[j] > 0)
                PROVE  \E u \in Threads : index'[u] = j /\ pc'[u] \in {"try", "erase"}
    BY DEF NoElementLeft
  <2>1. j \in m_lockers /\ j # i
    BY <1>1
  <2>2. PICK u \in Threads : index[u] = j /\ pc[u] \in {"try", "erase"}
    BY <1>1, <1>2, <2>1 DEF IInv, NoElementLeft
  <2>. QED  BY <1>0, <1>1, <2>1, <2>2
<1>. QED  BY <1>4, <1>5 DEF Elements

-----------------------------------------------------------------------------
(* The invariant, and what follows from it.                                *)

\* Every step of every thread keeps the invariant.
LEMMA StepKeeps == IInv /\ [Next]_vars => IInv'
<1>. SUFFICES ASSUME IInv, [Next]_vars PROVE IInv'
  OBVIOUS
<1>1. ASSUME NEW t \in Threads, Thread(t) PROVE IInv'
  <2>1. TypeOK' /\ GlobalHeld' /\ HolderKnows' /\ MtxHeld'
    BY <1>1, TypesStay, LocksStay
  <2>2. Elements'
    BY <1>1, UsersStay, InsertAdds, TryLockCounts, FindMissKeeps, CountDownUncounts,
       EraseRemoves DEF Thread
  <2>. QED  BY <2>1, <2>2 DEF IInv, Elements
<1>2. CASE UNCHANGED vars
  <2>1. \A i : Users(i)' = Users(i)
    BY <1>2 DEF vars, Users
  <2>. QED
    BY <1>2, <2>1 DEF vars, IInv, TypeOK, GlobalHeld, HolderKnows, MtxHeld, MissedStays,
                      NoUseAfterErase, CountsUsers, NoElementLeft
<1>. QED  BY <1>1, <1>2 DEF Next

\* The invariant holds in every reachable state of the locker.
THEOREM Invariance == Spec => []IInv
BY InitEstablishes, StepKeeps, PTL DEF Spec

\* Every variable of the locker keeps its type.
THEOREM TypeCorrect == Spec => []TypeOK
<1>1. IInv => TypeOK
  BY DEF IInv
<1>. QED  BY <1>1, Invariance, PTL

\* Two threads never hold the same index.
THEOREM Exclusion == Spec => []MutualExclusion
<1>1. IInv => MutualExclusion
  BY DEF IInv, MtxHeld, MutualExclusion
<1>. QED  BY <1>1, Invariance, PTL

\* An element exists as long as a thread uses it.
THEOREM ElementsOutliveUse == Spec => []NoUseAfterErase
<1>1. IInv => NoUseAfterErase
  BY DEF IInv
<1>. QED  BY <1>1, Invariance, PTL

\* The counter of an element is right, but for the unlocks that missed.
THEOREM CountsAreRight == Spec => []CountsUsers
<1>1. IInv => CountsUsers
  BY DEF IInv
<1>. QED  BY <1>1, Invariance, PTL

\* An element that nobody uses is on its way in or out, or was missed by an unlock.
THEOREM ElementsGo == Spec => []NoElementLeft
<1>1. IInv => NoElementLeft
  BY DEF IInv
<1>. QED  BY <1>1, Invariance, PTL
=============================================================================
