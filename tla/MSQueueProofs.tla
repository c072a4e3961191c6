---------------------------- MODULE MSQueueProofs ----------------------------
(***************************************************************************)
(* The lock-free queue and the collector under it, for any number of       *)
(* threads, nodes and records, in four parts.  The collector's records are *)
(* used by one thread at a time.  The variables have their types, and what *)
(* a thread holds at each statement is not null.  A node that a thread     *)
(* reads or writes is allocated.  The nodes of the queue are a path of     *)
(* links: every node has one holder, m_pTail is close to the end, and each *)
(* call takes effect at one instant, in the order of the queue.            *)
(***************************************************************************)
EXTENDS MSQueue, TLAPS, FiniteSetTheorems

-----------------------------------------------------------------------------
(* The records of the collector: a record is used by one thread at a time, *)
(* whichever way it got it, and a record that is free is empty.            *)

RecordTypes ==
    /\ m_pListHead \in 0..MaxAttach
    /\ m_idOwner \in [Records -> Threads \cup {NULL}]
    /\ m_bFree \in [Records -> BOOLEAN]
    /\ m_arrRetired \in [Records -> SUBSET Node]

LifeTypes ==
    /\ m_pHzpRec \in [Threads -> 0..MaxAttach]
    /\ running \subseteq Threads
    /\ attached \in 0..MaxAttach
    /\ live \subseteq Node

CodeTypes == pc = [t \in Threads |-> pc[t]] /\ call = [t \in Threads |-> call[t]]

CursorTypes ==
    /\ hprec \in [Threads -> 0..MaxAttach]
    /\ pNode \in [Threads -> 0..MaxAttach]
    /\ slot \in [Threads -> 0..2]
    /\ marked \in [Threads -> SUBSET Node]

GcTypes == RecordTypes /\ LifeTypes /\ CodeTypes /\ CursorTypes

Allocating == {"alloc", "alloc_unfree"}
Helping == {"help_own", "help_move", "move_scan", "help_release"}

\* Only threads that run are in a function; and only attached ones, except to attach.
InCalls == \A t \in Threads :
    /\ t \notin running => pc[t] = "idle"
    /\ pc[t] \in Allocating => ~Attached(t)
    /\ pc[t] \notin Allocating \cup {"idle"} => Attached(t)

\* The threads that may all have to add a record.
Attaching == {t \in Threads : pc[t] = "alloc"}

Numbered ==
    /\ m_pListHead + Cardinality(Attaching) <= attached
    /\ \A t \in Threads : m_pHzpRec[t] <= m_pListHead /\ hprec[t] <= m_pListHead

\* Whoever writes to a record owns it, and what is free is empty.
Owned ==
    /\ \A t \in running : Attached(t) =>
            ~m_bFree[m_pHzpRec[t]] /\ m_idOwner[m_pHzpRec[t]] = t
    /\ \A t \in Threads :
        /\ pc[t] \in {"alloc_unfree", "help_move", "move_scan", "help_release"} => m_idOwner[hprec[t]] = t
        /\ pc[t] \in {"alloc_unfree", "rescan"} \cup Helping => hprec[t] \notin {0, m_pHzpRec[t]}
    /\ \A r \in Records : m_bFree[r] => m_arrRetired[r] = {}

\* A scan is at a hazard pointer of another thread's record, or between two records.
InScan == \A t \in Threads : Scanning(t) /\ slot[t] # 0 => pNode[t] \notin {0, m_pHzpRec[t]}

RecInv == GcTypes /\ InCalls /\ Numbered /\ Owned /\ InScan
-----------------------------------------------------------------------------
LEMMA AttachingFinite == IsFiniteSet(Attaching) /\ Cardinality(Attaching) \in Nat
BY CollectorAssumption, FS_Subset, FS_CardinalityType DEF Attaching

\* A thread that may add a record finds a number for it.
LEMMA RoomForRecord ==
    ASSUME RecInv, NEW t \in Threads, pc[t] = "alloc"
    PROVE  m_pListHead < attached /\ m_pListHead + 1 \in Records
<1>1. Cardinality(Attaching) # 0
  BY AttachingFinite, FS_EmptySet DEF Attaching
<1>. QED
  BY <1>1, AttachingFinite, CollectorAssumption
     DEF RecInv, GcTypes, RecordTypes, LifeTypes, Numbered, Records

\* A thread leaves the loop of alloc_hp_record.
LEMMA AttachingLeft ==
    ASSUME RecInv, NEW t \in Threads, pc[t] = "alloc",
           pc' = [pc EXCEPT ![t] = pc'[t]], pc'[t] # "alloc"
    PROVE  Cardinality(Attaching)' = Cardinality(Attaching) - 1
<1>1. Attaching' = Attaching \ {t} /\ t \in Attaching
  BY DEF RecInv, GcTypes, CodeTypes, Attaching
<1>. QED  BY <1>1, AttachingFinite, FS_RemoveElement

LEMMA AttachingJoined ==
    ASSUME RecInv, NEW t \in Threads, pc[t] = "idle", pc' = [pc EXCEPT ![t] = "alloc"]
    PROVE  Cardinality(Attaching)' = Cardinality(Attaching) + 1
<1>1. Attaching' = Attaching \cup {t} /\ t \notin Attaching
  BY DEF RecInv, GcTypes, CodeTypes, Attaching
<1>. QED  BY <1>1, AttachingFinite, FS_AddElement

\* Two threads that use records use different ones.
LEMMA RecordsDiffer ==
    ASSUME RecInv, NEW t \in running, NEW u \in running, t # u, Attached(t), Attached(u)
    PROVE  m_pHzpRec[t] # m_pHzpRec[u]
BY DEF RecInv, Owned

LEMMA RecordsUsed ==
    ASSUME RecInv, NEW t \in Threads, Attached(t)
    PROVE  m_pHzpRec[t] \in Records
BY CollectorAssumption DEF RecInv, GcTypes, RecordTypes, LifeTypes, Records, Attached

LEMMA RecordsReached ==
    ASSUME RecInv, NEW t \in Threads, hprec[t] # 0
    PROVE  hprec[t] \in Records
BY CollectorAssumption DEF RecInv, GcTypes, CursorTypes, Records
-----------------------------------------------------------------------------
(* Every step of the collector keeps the invariant.                        *)

LEMMA CollectorKeeps ==
    ASSUME RecInv, NEW t \in Threads, GcStep(t) \/ GcLifetime(t)
    PROVE  RecInv'
<1>. USE CollectorAssumption, RecordsUsed
     DEF RecInv, GcTypes, RecordTypes, LifeTypes, CodeTypes, CursorTypes, InCalls, Numbered,
     Owned, InScan,
         Goto, Enter, NextRecord, Mark, ScanFrom, Scanning, HelpDone, AttachReturn, FreeGuards,
         Allocating, Helping, Attached, records, lifetimes, cursors
<1>1. CASE Attach(t)
  <2>. USE <1>1 DEF Attach
  <2>1. RecordTypes'
    OBVIOUS
  <2>2. LifeTypes'
    OBVIOUS
  <2>3. CodeTypes'
    OBVIOUS
  <2>4. CursorTypes'
    OBVIOUS
  <2>5. InCalls'
    OBVIOUS
  <2>6. Numbered'
    <3>1. Cardinality(Attaching)' = Cardinality(Attaching) + 1
      BY AttachingJoined
    <3>. QED  BY <3>1, AttachingFinite
  <2>7. Owned'
    OBVIOUS
  <2>8. InScan'
    OBVIOUS
  <2>. QED  BY <2>1, <2>2, <2>3, <2>4, <2>5, <2>6, <2>7, <2>8
<1>2. CASE AllocOwn(t)
  <2>. USE <1>2 DEF AllocOwn
  <2>1. RecordTypes'
    OBVIOUS
  <2>2. LifeTypes'
    OBVIOUS
  <2>3. CodeTypes'
    OBVIOUS
  <2>4. CursorTypes'
    <3>1. hprec' \in [Threads -> 0..MaxAttach]
      OBVIOUS
    <3>. QED  BY <3>1
  <2>5. InCalls'
    OBVIOUS
  <2>6. Numbered'
    <3>1. CASE m_idOwner[hprec[t]] = NULL
      <4>1. Cardinality(Attaching)' = Cardinality(Attaching) - 1
        BY <3>1, AttachingLeft
      <4>. QED  BY <3>1, <4>1, AttachingFinite
    <3>2. CASE m_idOwner[hprec[t]] # NULL
      <4>1. Attaching' = Attaching
        BY <3>2 DEF Attaching
      <4>. QED  BY <3>2, <4>1, AttachingFinite
    <3>. QED  BY <3>1, <3>2
  <2>7. Owned'
    <3>1. hprec[t] \in Records
      BY RecordsReached
    <3>2. ASSUME NEW u \in running, Attached(u)
          PROVE  m_pHzpRec[u] \in Records /\ m_idOwner[m_pHzpRec[u]] = u
      BY <3>2
    <3>3. \A u \in running' : Attached(u)' =>
              ~m_bFree'[m_pHzpRec'[u]] /\ m_idOwner'[m_pHzpRec'[u]] = u
      BY <3>1, <3>2
    <3>4. \A u \in Threads : pc'[u] \in {"alloc_unfree", "help_move", "move_scan", "help_release"} =>
              m_idOwner'[hprec'[u]] = u
      <4>. TAKE u \in Threads
      <4>1. CASE u = t
        BY <3>1, <4>1
      <4>2. CASE u # t
        <5>1. pc'[u] = pc[u] /\ hprec'[u] = hprec[u]
          BY <4>2
        <5>. SUFFICES ASSUME pc[u] \in {"alloc_unfree", "help_move", "move_scan", "help_release"}
                      PROVE  m_idOwner'[hprec[u]] = u
          BY <5>1
        <5>2. u \in running /\ u # NULL /\ m_idOwner[hprec[u]] = u /\ hprec[u] # 0
          OBVIOUS
        <5>3. hprec[u] \in Records
          BY <5>2, RecordsReached
        <5>. QED  BY <3>1, <5>2, <5>3
      <4>. QED  BY <4>1, <4>2
    <3>5. \A u \in Threads : pc'[u] \in {"alloc_unfree", "rescan"} \cup Helping =>
              hprec'[u] \notin {0, m_pHzpRec'[u]}
      <4>. TAKE u \in Threads
      <4>1. CASE u = t
        BY <3>1, <4>1
      <4>2. CASE u # t
        BY <4>2
      <4>. QED  BY <4>1, <4>2
    <3>. QED  BY <3>3, <3>4, <3>5
  <2>8. InScan'
    OBVIOUS
  <2>. QED  BY <2>1, <2>2, <2>3, <2>4, <2>5, <2>6, <2>7, <2>8
<1>3. CASE AllocUnfree(t)
  <2>. USE <1>3 DEF AllocUnfree
  <2>1. RecordTypes'
    OBVIOUS
  <2>2. LifeTypes'
    OBVIOUS
  <2>3. CodeTypes'
    OBVIOUS
  <2>4. CursorTypes'
    OBVIOUS
  <2>5. InCalls'
    OBVIOUS
  <2>6. Numbered'
    <3>1. Attaching' = Attaching
      BY DEF Attaching
    <3>. QED  BY <3>1, AttachingFinite
  <2>7. Owned'
    <3>1. hprec[t] \in Records
      BY RecordsReached
    <3>2. ASSUME NEW u \in running, Attached(u)
          PROVE  m_pHzpRec[u] \in Records /\ m_idOwner[m_pHzpRec[u]] = u
      BY <3>2
    <3>3. \A u \in running' : Attached(u)' =>
              ~m_bFree'[m_pHzpRec'[u]] /\ m_idOwner'[m_pHzpRec'[u]] = u
      BY <3>1, <3>2
    <3>. QED  BY <3>1, <3>3
  <2>8. InScan'
    OBVIOUS
  <2>. QED  BY <2>1, <2>2, <2>3, <2>4, <2>5, <2>6, <2>7, <2>8
<1>4. CASE AllocNew(t)
  <2>. USE <1>4 DEF AllocNew
  <2>1. RecordTypes'
    BY RoomForRecord
  <2>2. LifeTypes'
    BY RoomForRecord
  <2>3. CodeTypes'
    BY RoomForRecord
  <2>4. CursorTypes'
    BY RoomForRecord
  <2>5. InCalls'
    BY RoomForRecord
  <2>6. Numbered'
    <3>1. Cardinality(Attaching)' = Cardinality(Attaching) - 1
      BY AttachingLeft
    <3>. QED  BY <3>1, AttachingFinite, RoomForRecord
  <2>7. Owned'
    BY RoomForRecord
  <2>8. InScan'
    OBVIOUS
  <2>. QED  BY <2>1, <2>2, <2>3, <2>4, <2>5, <2>6, <2>7, <2>8
<1>5. CASE ScanOwn(t)
  <2>. USE <1>5 DEF ScanOwn
  <2>1. RecordTypes'
    OBVIOUS
  <2>2. LifeTypes'
    OBVIOUS
  <2>3. CodeTypes'
    OBVIOUS
  <2>4. CursorTypes'
    OBVIOUS
  <2>5. InCalls'
    OBVIOUS
  <2>6. Numbered'
    <3>1. Attaching' = Attaching
      BY DEF Attaching
    <3>. QED  BY <3>1, AttachingFinite
  <2>7. Owned'
    OBVIOUS
  <2>8. InScan'
    OBVIOUS
  <2>. QED  BY <2>1, <2>2, <2>3, <2>4, <2>5, <2>6, <2>7, <2>8
<1>6. CASE ScanRecord(t)
  <2>. USE <1>6 DEF ScanRecord
  <2>1. RecordTypes'
    OBVIOUS
  <2>2. LifeTypes'
    OBVIOUS
  <2>3. CodeTypes'
    OBVIOUS
  <2>4. CursorTypes'
    <3>1. pNode[t] # 0 /\ pNode[t] - 1 \in 0..MaxAttach
      OBVIOUS
    <3>2. pNode' \in [Threads -> 0..MaxAttach]
      BY <3>1
    <3>3. slot' \in [Threads -> 0..2] /\ UNCHANGED <<hprec, marked>>
      OBVIOUS
    <3>. QED  BY <3>2, <3>3
  <2>5. InCalls'
    OBVIOUS
  <2>6. Numbered'
    <3>1. Attaching' = Attaching
      BY DEF Attaching
    <3>. QED  BY <3>1, AttachingFinite
  <2>7. Owned'
    OBVIOUS
  <2>8. InScan'
    OBVIOUS
  <2>. QED  BY <2>1, <2>2, <2>3, <2>4, <2>5, <2>6, <2>7, <2>8
<1>7. CASE ScanSlot(t)
  <2>. USE <1>7 DEF ScanSlot
  <2>1. RecordTypes'
    OBVIOUS
  <2>2. LifeTypes'
    OBVIOUS
  <2>3. CodeTypes'
    OBVIOUS
  <2>4. CursorTypes'
    <3>1. pNode[t] # 0 /\ pNode' \in [Threads -> 0..MaxAttach]
      OBVIOUS
    <3>2. slot' \in [Threads -> 0..2]
      BY DEF Slots
    <3>3. marked' \in [Threads -> SUBSET Node]
      OBVIOUS
    <3>. QED  BY <3>1, <3>2, <3>3
  <2>5. InCalls'
    OBVIOUS
  <2>6. Numbered'
    <3>1. Attaching' = Attaching
      BY DEF Attaching
    <3>. QED  BY <3>1, AttachingFinite
  <2>7. Owned'
    OBVIOUS
  <2>8. InScan'
    OBVIOUS
  <2>. QED  BY <2>1, <2>2, <2>3, <2>4, <2>5, <2>6, <2>7, <2>8
<1>8. CASE ScanFree(t)
  <2>. USE <1>8 DEF ScanFree
  <2>1. RecordTypes'
    OBVIOUS
  <2>2. LifeTypes'
    OBVIOUS
  <2>3. CodeTypes'
    OBVIOUS
  <2>4. CursorTypes'
    <3>1. pc[t] = "rescan" => hprec[t] - 1 \in 0..MaxAttach
      OBVIOUS
    <3>2. hprec' \in [Threads -> 0..MaxAttach]
      BY <3>1
    <3>. QED  BY <3>2
  <2>5. InCalls'
    OBVIOUS
  <2>6. Numbered'
    <3>1. Attaching' = Attaching
      BY DEF Attaching
    <3>. QED  BY <3>1, AttachingFinite
  <2>7. Owned'
    OBVIOUS
  <2>8. InScan'
    OBVIOUS
  <2>. QED  BY <2>1, <2>2, <2>3, <2>4, <2>5, <2>6, <2>7, <2>8
<1>9. CASE HelpSkip(t)
  <2>. USE <1>9 DEF HelpSkip
  <2>1. RecordTypes'
    OBVIOUS
  <2>2. LifeTypes'
    OBVIOUS
  <2>3. CodeTypes'
    OBVIOUS
  <2>4. CursorTypes'
    OBVIOUS
  <2>5. InCalls'
    OBVIOUS
  <2>6. Numbered'
    <3>1. Attaching' = Attaching
      BY DEF Attaching
    <3>. QED  BY <3>1, AttachingFinite
  <2>7. Owned'
    OBVIOUS
  <2>8. InScan'
    OBVIOUS
  <2>. QED  BY <2>1, <2>2, <2>3, <2>4, <2>5, <2>6, <2>7, <2>8
<1>10. CASE HelpOwn(t)
  <2>. USE <1>10 DEF HelpOwn
  <2>1. RecordTypes'
    OBVIOUS
  <2>2. LifeTypes'
    OBVIOUS
  <2>3. CodeTypes'
    OBVIOUS
  <2>4. CursorTypes'
    <3>1. hprec[t] # 0 /\ hprec[t] - 1 \in 0..MaxAttach
      OBVIOUS
    <3>2. hprec' \in [Threads -> 0..MaxAttach]
      BY <3>1
    <3>3. UNCHANGED <<pNode, slot, marked>>
      OBVIOUS
    <3>. QED  BY <3>2, <3>3
  <2>5. InCalls'
    OBVIOUS
  <2>6. Numbered'
    <3>1. Attaching' = Attaching
      BY DEF Attaching
    <3>. QED  BY <3>1, AttachingFinite
  <2>7. Owned'
    <3>1. hprec[t] \in Records
      BY RecordsReached
    <3>2. ASSUME NEW u \in running, Attached(u)
          PROVE  m_pHzpRec[u] \in Records /\ m_idOwner[m_pHzpRec[u]] = u
      BY <3>2
    <3>3. \A u \in running' : Attached(u)' =>
              ~m_bFree'[m_pHzpRec'[u]] /\ m_idOwner'[m_pHzpRec'[u]] = u
      BY <3>1, <3>2
    <3>4. \A u \in Threads : pc'[u] \in {"alloc_unfree", "help_move", "move_scan", "help_release"} =>
              m_idOwner'[hprec'[u]] = u
      <4>. TAKE u \in Threads
      <4>1. CASE u = t
        BY <3>1, <4>1
      <4>2. CASE u # t
        <5>1. pc'[u] = pc[u] /\ hprec'[u] = hprec[u]
          BY <4>2
        <5>. SUFFICES ASSUME pc[u] \in {"alloc_unfree", "help_move", "move_scan", "help_release"}
                      PROVE  m_idOwner'[hprec[u]] = u
          BY <5>1
        <5>2. u \in running /\ u # NULL /\ m_idOwner[hprec[u]] = u /\ hprec[u] # 0
          OBVIOUS
        <5>3. hprec[u] \in Records
          BY <5>2, RecordsReached
        <5>. QED  BY <3>1, <5>2, <5>3
      <4>. QED  BY <4>1, <4>2
    <3>5. \A u \in Threads : pc'[u] \in {"alloc_unfree", "rescan"} \cup Helping =>
              hprec'[u] \notin {0, m_pHzpRec'[u]}
      <4>. TAKE u \in Threads
      <4>1. CASE u = t
        BY <3>1, <4>1
      <4>2. CASE u # t
        BY <4>2
      <4>. QED  BY <4>1, <4>2
    <3>. QED  BY <3>3, <3>4, <3>5
  <2>8. InScan'
    OBVIOUS
  <2>. QED  BY <2>1, <2>2, <2>3, <2>4, <2>5, <2>6, <2>7, <2>8
<1>11. CASE HelpMove(t)
  <2>. USE <1>11 DEF HelpMove
  <2>1. RecordTypes'
    <3>1. hprec[t] \in Records /\ m_pHzpRec[t] \in Records
      BY RecordsReached
    <3>. QED  BY <3>1
  <2>2. LifeTypes'
    OBVIOUS
  <2>3. CodeTypes'
    OBVIOUS
  <2>4. CursorTypes'
    OBVIOUS
  <2>5. InCalls'
    OBVIOUS
  <2>6. Numbered'
    <3>1. Attaching' = Attaching
      BY DEF Attaching
    <3>. QED  BY <3>1, AttachingFinite
  <2>7. Owned'
    OBVIOUS
  <2>8. InScan'
    OBVIOUS
  <2>. QED  BY <2>1, <2>2, <2>3, <2>4, <2>5, <2>6, <2>7, <2>8
<1>12. CASE HelpRelease(t)
  <2>. USE <1>12 DEF HelpRelease
  <2>1. RecordTypes'
    OBVIOUS
  <2>2. LifeTypes'
    OBVIOUS
  <2>3. CodeTypes'
    OBVIOUS
  <2>4. CursorTypes'
    OBVIOUS
  <2>5. InCalls'
    OBVIOUS
  <2>6. Numbered'
    <3>1. Attaching' = Attaching
      BY DEF Attaching
    <3>. QED  BY <3>1, AttachingFinite
  <2>7. Owned'
    OBVIOUS
  <2>8. InScan'
    OBVIOUS
  <2>. QED  BY <2>1, <2>2, <2>3, <2>4, <2>5, <2>6, <2>7, <2>8
<1>13. CASE Detach(t)
  <2>. USE <1>13 DEF Detach
  <2>1. RecordTypes'
    OBVIOUS
  <2>2. LifeTypes'
    OBVIOUS
  <2>3. CodeTypes'
    OBVIOUS
  <2>4. CursorTypes'
    OBVIOUS
  <2>5. InCalls'
    OBVIOUS
  <2>6. Numbered'
    <3>1. Attaching' = Attaching
      BY DEF Attaching
    <3>. QED  BY <3>1, AttachingFinite
  <2>7. Owned'
    OBVIOUS
  <2>8. InScan'
    OBVIOUS
  <2>. QED  BY <2>1, <2>2, <2>3, <2>4, <2>5, <2>6, <2>7, <2>8
<1>14. CASE DetachRelease(t)
  <2>. USE <1>14 DEF DetachRelease
  <2>1. RecordTypes'
    OBVIOUS
  <2>2. LifeTypes'
    OBVIOUS
  <2>3. CodeTypes'
    OBVIOUS
  <2>4. CursorTypes'
    OBVIOUS
  <2>5. InCalls'
    OBVIOUS
  <2>6. Numbered'
    <3>1. Attaching' = Attaching
      BY DEF Attaching
    <3>. QED  BY <3>1, AttachingFinite
  <2>7. Owned'
    OBVIOUS
  <2>8. InScan'
    OBVIOUS
  <2>. QED  BY <2>1, <2>2, <2>3, <2>4, <2>5, <2>6, <2>7, <2>8
<1>15. CASE End(t)
  <2>. USE <1>15 DEF End
  <2>1. RecordTypes'
    OBVIOUS
  <2>2. LifeTypes'
    OBVIOUS
  <2>3. CodeTypes'
    OBVIOUS
  <2>4. CursorTypes'
    OBVIOUS
  <2>5. InCalls'
    OBVIOUS
  <2>6. Numbered'
    <3>1. Attaching' = Attaching
      BY DEF Attaching
    <3>. QED  BY <3>1, AttachingFinite
  <2>7. Owned'
    OBVIOUS
  <2>8. InScan'
    OBVIOUS
  <2>. QED  BY <2>1, <2>2, <2>3, <2>4, <2>5, <2>6, <2>7, <2>8
<1>16. CASE HelpMoveFull(t)
  <2>. USE <1>16 DEF HelpMoveFull
  <2>1. RecordTypes'
    <3>1. hprec[t] \in Records /\ m_pHzpRec[t] \in Records
      BY RecordsReached
    <3>. QED  BY <3>1
  <2>2. LifeTypes'
    OBVIOUS
  <2>3. CodeTypes'
    OBVIOUS
  <2>4. CursorTypes'
    OBVIOUS
  <2>5. InCalls'
    OBVIOUS
  <2>6. Numbered'
    <3>1. Attaching' = Attaching
      BY DEF Attaching
    <3>. QED  BY <3>1, AttachingFinite
  <2>7. Owned'
    OBVIOUS
  <2>8. InScan'
    OBVIOUS
  <2>. QED  BY <2>1, <2>2, <2>3, <2>4, <2>5, <2>6, <2>7, <2>8
<1>. QED
  BY <1>1, <1>2, <1>3, <1>4, <1>5, <1>6, <1>7, <1>8, <1>9, <1>10, <1>11, <1>12, <1>13, <1>14,
     <1>15, <1>16 DEF GcStep, GcLifetime
-----------------------------------------------------------------------------
(* What the user of the collector may do between its calls.                *)

\* A statement of the user leaves records alone, but for the retired nodes of its own.
UserStep(t) ==
    /\ t \in running /\ Attached(t)
    /\ pc' = [pc EXCEPT ![t] = pc'[t]] /\ pc'[t] \notin Allocating \cup Helping \cup {"rescan"}
    /\ call' = [call EXCEPT ![t] = call'[t]]
    /\ live' \subseteq Node
    /\ \/ UNCHANGED <<pNode, slot, marked>> /\ pc'[t] # "scan"
       \/ ScanFrom(t)
    /\ \/ UNCHANGED m_arrRetired
       \/ \E n \in Node : RetirePush(t, n)
    /\ UNCHANGED <<records, lifetimes, hprec>>

LEMMA UserKeeps ==
    ASSUME RecInv, NEW t \in Threads, UserStep(t)
    PROVE  RecInv'
<1>. USE CollectorAssumption, RecordsUsed
     DEF RecInv, UserStep, GcTypes, InCalls, Numbered, Owned, InScan, Scanning,
         Allocating, Helping, Attached, records, lifetimes
<1>1. RecordTypes'
  BY DEF RecordTypes, RetirePush
<1>2. LifeTypes'
  BY DEF LifeTypes
<1>3. CodeTypes'
  BY DEF CodeTypes
<1>4. CursorTypes'
  BY DEF CursorTypes, ScanFrom, RecordTypes
<1>5. InCalls'
  BY DEF CodeTypes, LifeTypes
<1>6. Numbered'
  <2>1. Attaching' = Attaching
    BY DEF Attaching, CodeTypes
  <2>. QED  BY <2>1
<1>7. Owned'
  <2>1. ASSUME NEW r \in Records, m_bFree'[r]
        PROVE  m_arrRetired'[r] = {}
    BY <2>1 DEF RetirePush, RecordTypes
  <2>. QED  BY <2>1 DEF CodeTypes
<1>8. InScan'
  BY DEF CodeTypes, CursorTypes, ScanFrom
<1>. QED  BY <1>1, <1>2, <1>3, <1>4, <1>5, <1>6, <1>7, <1>8

LEMMA GcInitRecInv == GcInit => RecInv
<1>. SUFFICES ASSUME GcInit PROVE RecInv
  OBVIOUS
<1>. USE CollectorAssumption DEF GcInit
<1>1. GcTypes
  BY DEF GcTypes, RecordTypes, LifeTypes, CodeTypes, CursorTypes
<1>2. Attaching = {} /\ Cardinality({}) = 0
  BY FS_EmptySet DEF Attaching
<1>. QED
  BY <1>1, <1>2 DEF RecInv, InCalls, Numbered, Owned, InScan, Scanning, Attached, Allocating,
     Helping

\* The collector is destroyed when nobody uses it.
LEMMA DestructKeeps ==
    ASSUME RecInv, DestroyRecords, \A t \in Threads : pc[t] = "idle"
    PROVE  RecInv'
<1>. USE CollectorAssumption DEF DestroyRecords
<1>1. GcTypes'
  BY DEF RecInv, GcTypes, RecordTypes, LifeTypes, CodeTypes, CursorTypes
<1>2. Attaching' = {} /\ Cardinality({}) = 0
  BY FS_EmptySet DEF Attaching
<1>3. Numbered'
  <2>1. attached \in 0..MaxAttach /\ attached' = attached
    BY DEF RecInv, GcTypes, LifeTypes
  <2>. QED  BY <1>2, <2>1 DEF Numbered
<1>4. Owned'
  BY DEF RecInv, GcTypes, LifeTypes, Owned, Attached, Helping
<1>5. InCalls' /\ InScan'
  BY DEF InCalls, InScan, Scanning, Attached, Allocating
<1>. QED  BY <1>1, <1>3, <1>4, <1>5 DEF RecInv

-----------------------------------------------------------------------------
(* The types of the queue and its use of the collector: what a thread      *)
(* holds at each statement is not null, the destructor has the queue to    *)
(* itself, and the records are used by one thread at a time.               *)

\* The statements at which thread t has read the head of the queue and seen it
\* guarded (HeadPcs), its successor (NextPcs), the tail (TailPcs), and at which an
\* enqueue has not linked its node yet (NewPcs).
HeadPcs == {"deq_next", "deq_assign_next", "deq_check_next", "deq_valid", "deq_tail",
            "deq_help", "deq_take"}
NextPcs == {"deq_tail", "deq_help", "deq_take", "deq_dispose"}
TailPcs == {"enq_next", "enq_help", "enq_link", "enq_swing"}
NewPcs == {"enq_load", "enq_assign", "enq_check", "enq_next", "enq_help", "enq_link"}
QueuePcs == HeadPcs \cup NextPcs \cup TailPcs \cup NewPcs
            \cup {"deq_load", "deq_assign", "deq_check", "clear", "destroy"}

QueueTypes ==
    /\ m_hzp \in [Records -> [Slots -> Cells \cup {NULL}]]
    /\ m_pHead \in Cells \cup {NULL} /\ m_pTail \in Cells \cup {NULL}
    /\ m_pNext \in [Cells -> Node \cup {NULL}]
    /\ phase \in {"open", "closed", "destroyed", "ended"}

LocalTypes ==
    /\ node \in [Threads -> Cells \cup {NULL}]
    /\ next \in [Threads -> Node \cup {NULL}]
    /\ new \in [Threads -> Node \cup {NULL}]

\* What a statement reads or links is not null.
HoldsCells(t) ==
    /\ pc[t] \in HeadPcs \cup TailPcs
            \cup {"enq_assign", "enq_check", "deq_assign", "deq_check", "deq_dispose"}
        => node[t] \in Cells
    /\ pc[t] \in NextPcs \cup {"enq_help"} => next[t] \in Node
    /\ pc[t] \in NewPcs \cup {"enq_swing"} => new[t] \in Node

\* The queue has a head and a tail until it is destroyed.
NotNull ==
    /\ phase \in {"open", "closed"} => m_pHead \in Cells /\ m_pTail \in Cells
    /\ \A t \in Threads : HoldsCells(t)

\* The call in which the destructor of the queue is.
InClear(t) ==
    /\ call[t] = "clear" => t = Owner /\ phase = "closed"
    /\ pc[t] \in {"clear", "destroy"} => call[t] = "clear"

\* The destructor has the queue to itself, and nobody is in it afterwards.
Alone ==
    /\ phase # "open" => \A t \in Threads \ {Owner} : pc[t] = "idle"
    /\ phase \in {"destroyed", "ended"} => pc[Owner] \notin QueuePcs
    /\ phase = "ended" => pc[Owner] = "idle"
    /\ \A t \in Threads : InClear(t)

TypeInv == RecInv /\ QueueTypes /\ LocalTypes /\ NotNull /\ Alone
-----------------------------------------------------------------------------
(* What a step of thread t leaves to the others.                           *)

Mine(t) ==
    /\ pc' = [pc EXCEPT ![t] = pc'[t]]
    /\ call' = [call EXCEPT ![t] = call'[t]]
    /\ node' = [node EXCEPT ![t] = node'[t]]
    /\ next' = [next EXCEPT ![t] = next'[t]]
    /\ new' = [new EXCEPT ![t] = new'[t]]

QueueMove(t) == QueueStep(t) \/ Enqueue(t) \/ Dequeue(t) \/ Close(t)

GcMove(t) ==
    \/ GcStep(t) /\ Disposer /\ UNCHANGED <<m_pHead, m_pTail, phase, locals>>
    \/ Lifetime(t)

LEMMA QueueIsMine ==
    ASSUME TypeInv, NEW t \in Threads, QueueMove(t)
    PROVE  Mine(t) /\ t \in running /\ Attached(t)
<1>. USE DEF TypeInv, RecInv, GcTypes, CodeTypes, LocalTypes, InCalls, Allocating, Attached
<1>1. t \in running /\ Attached(t)
  BY DEF QueueMove, QueueStep, Enqueue, Dequeue, Close, Enter, At, HelpDone,
         EnqLoad, EnqAssign, EnqCheck, EnqNext, EnqHelp, EnqLink, EnqSwing,
         DeqLoad, DeqAssign, DeqCheck, DeqNext, DeqAssignNext, DeqCheckNext, DeqValid,
         DeqTail, DeqHelp, DeqTake, DeqDispose, Leave, Clear, Destroy
<1>2. Mine(t)
  BY DEF QueueMove, QueueStep, Enqueue, Dequeue, Close, Enter, Mine, Again, Go, Goto, Dispose,
         EnqLoad, EnqAssign, EnqCheck, EnqNext, EnqHelp, EnqLink, EnqSwing,
         DeqLoad, DeqAssign, DeqCheck, DeqNext, DeqAssignNext, DeqCheckNext, DeqValid,
         DeqTail, DeqHelp, DeqTake, DeqDispose, Leave, Clear, Destroy, KeepGc, locals
<1>. QED  BY <1>1, <1>2

LEMMA QueueUses ==
    ASSUME TypeInv, NEW t \in Threads, QueueMove(t)
    PROVE  UserStep(t)
<1>. USE DEF QueueMove, QueueStep, EnqLoad, EnqAssign, EnqCheck, EnqNext, EnqHelp,
     EnqLink, EnqSwing, DeqLoad, DeqAssign, DeqCheck, DeqNext, DeqAssignNext,
     DeqCheckNext, DeqValid, DeqTail, DeqHelp, DeqTake, DeqDispose, Leave, Clear,
     Destroy, Enqueue, Dequeue, Close, KeepGc, Again, Go, Goto, Dispose,
     records, lifetimes, cursors, locals, Allocating, Helping
<1>1. Mine(t) /\ t \in running /\ Attached(t)
  BY QueueIsMine
<1>2. pc'[t] \notin Allocating \cup Helping \cup {"rescan"}
  BY DEF TypeInv, RecInv, GcTypes, CodeTypes
<1>3. live' \subseteq Node
  BY DEF TypeInv, RecInv, GcTypes, LifeTypes, Choices
<1>4. \/ UNCHANGED <<pNode, slot, marked>> /\ pc'[t] # "scan"
      \/ ScanFrom(t)
  BY DEF TypeInv, RecInv, GcTypes, CodeTypes
<1>5. \/ UNCHANGED m_arrRetired
      \/ \E n \in Node : RetirePush(t, n)
  <2>1. CASE DeqDispose(t)
    <3>1. node[t] \in Cells
      BY <2>1 DEF TypeInv, NotNull, HoldsCells, At
    <3>. QED  BY <2>1, <3>1 DEF Cells
  <2>2. CASE Destroy(t)
    <3>1. m_pHead \in Cells
      BY <2>2 DEF TypeInv, NotNull, Alone, InClear, At
    <3>. QED  BY <2>2, <3>1 DEF Cells
  <2>. QED  BY <2>1, <2>2
<1>6. UNCHANGED <<records, lifetimes, hprec>>
  OBVIOUS
<1>. QED  BY <1>1, <1>2, <1>3, <1>4, <1>5, <1>6 DEF UserStep, Mine

\* The queue is used while it is open, and by the owner until it is destroyed.
LEMMA InUse ==
    ASSUME TypeInv, NEW t \in Threads, pc[t] \in QueuePcs
    PROVE  /\ phase \in {"open", "closed"} /\ (phase # "open" => t = Owner)
           /\ m_pHead \in Cells /\ m_pTail \in Cells
BY DEF TypeInv, QueueTypes, NotNull, Alone, QueuePcs, HeadPcs, TailPcs, NextPcs, NewPcs

LEMMA CellsKept ==
    ASSUME TypeInv, NEW t \in Threads, QueueMove(t)
    PROVE  HoldsCells(t)'
<1>. Mine(t) /\ HoldsCells(t)
  BY QueueIsMine DEF TypeInv, NotNull
<1>. USE InUse DEF Mine, HoldsCells, Goto, At, HeadPcs, TailPcs, NextPcs, NewPcs, QueuePcs,
     TypeInv, LocalTypes, RecInv, GcTypes, CodeTypes, QueueTypes
<1>1. CASE EnqLoad(t)
  BY <1>1 DEF KeepGc, Again, Go, locals, Dispose, Choices, queue, EnqLoad
<1>2. CASE EnqAssign(t)
  BY <1>2 DEF KeepGc, Again, Go, locals, Dispose, Choices, queue, EnqAssign
<1>3. CASE EnqCheck(t)
  BY <1>3 DEF KeepGc, Again, Go, locals, Dispose, Choices, queue, EnqCheck
<1>4. CASE EnqNext(t)
  BY <1>4 DEF KeepGc, Again, Go, locals, Dispose, Choices, queue, EnqNext
<1>5. CASE EnqHelp(t)
  BY <1>5 DEF KeepGc, Again, Go, locals, Dispose, Choices, queue, EnqHelp
<1>6. CASE EnqLink(t)
  BY <1>6 DEF KeepGc, Again, Go, locals, Dispose, Choices, queue, EnqLink
<1>7. CASE EnqSwing(t)
  BY <1>7 DEF KeepGc, Again, Go, locals, Dispose, Choices, queue, EnqSwing
<1>8. CASE DeqLoad(t)
  BY <1>8 DEF KeepGc, Again, Go, locals, Dispose, Choices, queue, DeqLoad
<1>9. CASE DeqAssign(t)
  BY <1>9 DEF KeepGc, Again, Go, locals, Dispose, Choices, queue, DeqAssign
<1>10. CASE DeqCheck(t)
  BY <1>10 DEF KeepGc, Again, Go, locals, Dispose, Choices, queue, DeqCheck
<1>11. CASE DeqNext(t)
  BY <1>11 DEF KeepGc, Again, Go, locals, Dispose, Choices, queue, DeqNext
<1>12. CASE DeqAssignNext(t)
  BY <1>12 DEF KeepGc, Again, Go, locals, Dispose, Choices, queue, DeqAssignNext
<1>13. CASE DeqCheckNext(t)
  BY <1>13 DEF KeepGc, Again, Go, locals, Dispose, Choices, queue, DeqCheckNext
<1>14. CASE DeqValid(t)
  BY <1>14 DEF KeepGc, Again, Go, locals, Dispose, Choices, queue, DeqValid
<1>15. CASE DeqTail(t)
  BY <1>15 DEF KeepGc, Again, Go, locals, Dispose, Choices, queue, DeqTail
<1>16. CASE DeqHelp(t)
  BY <1>16 DEF KeepGc, Again, Go, locals, Dispose, Choices, queue, DeqHelp
<1>17. CASE DeqTake(t)
  BY <1>17 DEF KeepGc, Again, Go, locals, Dispose, Choices, queue, DeqTake
<1>18. CASE DeqDispose(t)
  BY <1>18 DEF KeepGc, Again, Go, locals, Dispose, Choices, queue, DeqDispose
<1>19. CASE Leave(t)
  BY <1>19 DEF KeepGc, Again, Go, locals, Dispose, Choices, queue, Leave
<1>20. CASE Clear(t)
  BY <1>20 DEF KeepGc, Again, Go, locals, Dispose, Choices, queue, Clear
<1>21. CASE Destroy(t)
  BY <1>21 DEF KeepGc, Again, Go, locals, Dispose, Choices, queue, Destroy
<1>22. CASE Enqueue(t)
  BY <1>22 DEF KeepGc, Again, Go, locals, Dispose, Choices, queue, Enqueue
<1>23. CASE Dequeue(t)
  BY <1>23 DEF KeepGc, Again, Go, locals, Dispose, Choices, queue, Dequeue
<1>24. CASE Close(t)
  BY <1>24 DEF KeepGc, Again, Go, locals, Dispose, Choices, queue, Close
<1>. QED
  BY <1>1, <1>2, <1>3, <1>4, <1>5, <1>6, <1>7, <1>8, <1>9, <1>10, <1>11, <1>12, <1>13,
     <1>14, <1>15, <1>16, <1>17, <1>18, <1>19, <1>20, <1>21, <1>22, <1>23, <1>24
          DEF QueueMove, QueueStep

LEMMA ClearKept ==
    ASSUME TypeInv, NEW t \in Threads, QueueMove(t)
    PROVE  InClear(t)'
<1>. Mine(t) /\ InClear(t)
  BY QueueIsMine DEF TypeInv, Alone
<1>. USE DEF Mine, InClear, Goto, At, Enter, TypeInv, RecInv, GcTypes, CodeTypes, cursors
<1>1. CASE EnqLoad(t)
  BY <1>1 DEF KeepGc, Again, Go, locals, Dispose, EnqLoad
<1>2. CASE EnqAssign(t)
  BY <1>2 DEF KeepGc, Again, Go, locals, Dispose, EnqAssign
<1>3. CASE EnqCheck(t)
  BY <1>3 DEF KeepGc, Again, Go, locals, Dispose, EnqCheck
<1>4. CASE EnqNext(t)
  BY <1>4 DEF KeepGc, Again, Go, locals, Dispose, EnqNext
<1>5. CASE EnqHelp(t)
  BY <1>5 DEF KeepGc, Again, Go, locals, Dispose, EnqHelp
<1>6. CASE EnqLink(t)
  BY <1>6 DEF KeepGc, Again, Go, locals, Dispose, EnqLink
<1>7. CASE EnqSwing(t)
  BY <1>7 DEF KeepGc, Again, Go, locals, Dispose, EnqSwing
<1>8. CASE DeqLoad(t)
  BY <1>8 DEF KeepGc, Again, Go, locals, Dispose, DeqLoad
<1>9. CASE DeqAssign(t)
  BY <1>9 DEF KeepGc, Again, Go, locals, Dispose, DeqAssign
<1>10. CASE DeqCheck(t)
  BY <1>10 DEF KeepGc, Again, Go, locals, Dispose, DeqCheck
<1>11. CASE DeqNext(t)
  BY <1>11 DEF KeepGc, Again, Go, locals, Dispose, DeqNext
<1>12. CASE DeqAssignNext(t)
  BY <1>12 DEF KeepGc, Again, Go, locals, Dispose, DeqAssignNext
<1>13. CASE DeqCheckNext(t)
  BY <1>13 DEF KeepGc, Again, Go, locals, Dispose, DeqCheckNext
<1>14. CASE DeqValid(t)
  BY <1>14 DEF KeepGc, Again, Go, locals, Dispose, DeqValid
<1>15. CASE DeqTail(t)
  BY <1>15 DEF KeepGc, Again, Go, locals, Dispose, DeqTail
<1>16. CASE DeqHelp(t)
  BY <1>16 DEF KeepGc, Again, Go, locals, Dispose, DeqHelp
<1>17. CASE DeqTake(t)
  BY <1>17 DEF KeepGc, Again, Go, locals, Dispose, DeqTake
<1>18. CASE DeqDispose(t)
  BY <1>18 DEF KeepGc, Again, Go, locals, Dispose, DeqDispose
<1>19. CASE Leave(t)
  BY <1>19 DEF KeepGc, Again, Go, locals, Dispose, Leave
<1>20. CASE Clear(t)
  BY <1>20 DEF KeepGc, Again, Go, locals, Dispose, Clear
<1>21. CASE Destroy(t)
  BY <1>21 DEF KeepGc, Again, Go, locals, Dispose, Destroy
<1>22. CASE Enqueue(t)
  BY <1>22 DEF KeepGc, Again, Go, locals, Dispose, Enqueue
<1>23. CASE Dequeue(t)
  BY <1>23 DEF KeepGc, Again, Go, locals, Dispose, Dequeue
<1>24. CASE Close(t)
  BY <1>24 DEF KeepGc, Again, Go, locals, Dispose, Close
<1>. QED
  BY <1>1, <1>2, <1>3, <1>4, <1>5, <1>6, <1>7, <1>8, <1>9, <1>10, <1>11, <1>12, <1>13,
     <1>14, <1>15, <1>16, <1>17, <1>18, <1>19, <1>20, <1>21, <1>22, <1>23, <1>24
          DEF QueueMove, QueueStep

LEMMA QueueKeepsTypes ==
    ASSUME TypeInv, NEW t \in Threads, QueueMove(t)
    PROVE  TypeInv'
<1>. USE DEF QueueMove, QueueStep, EnqLoad, EnqAssign, EnqCheck, EnqNext, EnqHelp,
     EnqLink, EnqSwing, DeqLoad, DeqAssign, DeqCheck, DeqNext, DeqAssignNext,
     DeqCheckNext, DeqValid, DeqTail, DeqHelp, DeqTake, DeqDispose, Leave, Clear,
     Destroy, Enqueue, Dequeue, Close, KeepGc, Again, Go, queue
<1>1. RecInv'
  BY QueueUses, UserKeeps DEF TypeInv
<1>2. m_hzp' \in [Records -> [Slots -> Cells \cup {NULL}]]
  <2>1. m_pHzpRec[t] \in Records
    BY QueueIsMine, RecordsUsed DEF TypeInv
  <2>2. \/ UNCHANGED m_hzp
        \/ FreeGuards(t)
        \/ \E i \in Slots, n \in Cells \cup {NULL} : Assign(t, i, n)
    BY DEF TypeInv, LocalTypes, Slots, Cells
  <2>. HIDE DEF QueueMove
  <2>3. CASE FreeGuards(t)
    <3>1. [i \in Slots |-> NULL] \in [Slots -> Cells \cup {NULL}]
      OBVIOUS
    <3>. QED  BY <2>1, <2>3, <3>1 DEF TypeInv, QueueTypes, FreeGuards
  <2>4. ASSUME NEW i \in Slots, NEW n \in Cells \cup {NULL}, Assign(t, i, n)
        PROVE  m_hzp' \in [Records -> [Slots -> Cells \cup {NULL}]]
    <3>1. [m_hzp[m_pHzpRec[t]] EXCEPT ![i] = n] \in [Slots -> Cells \cup {NULL}]
      BY <2>1 DEF TypeInv, QueueTypes
    <3>. QED  BY <2>1, <2>4, <3>1 DEF TypeInv, QueueTypes, Assign
  <2>. QED  BY <2>2, <2>3, <2>4 DEF TypeInv, QueueTypes
<1>3. m_pHead' \in Cells \cup {NULL} /\ m_pTail' \in Cells \cup {NULL}
  BY DEF TypeInv, QueueTypes, LocalTypes, SwingTail, Cells
<1>4. m_pNext' \in [Cells -> Node \cup {NULL}]
  BY DEF TypeInv, QueueTypes, LocalTypes
<1>5. /\ phase' \in {"open", "closed", "destroyed", "ended"}
      /\ phase' \in {"open", "closed"} => phase \in {"open", "closed"}
      /\ phase' # phase => /\ t = Owner /\ phase' # "ended"
                           /\ phase' = "destroyed" => pc'[t] \in {"leave", "scan"}
                           /\ \A u \in Threads \ {t} : pc[u] = "idle"
  <2>1. CASE Close(t)
    <3>1. pc' = [pc EXCEPT ![t] = "clear"] /\ pc[t] = "idle" /\ t = Owner /\ phase = "open" /\ phase' = "closed"
      BY <2>1 DEF Goto, Enter
    <3>2. \A u \in Threads \ {t} : pc[u] = "idle"
      BY <2>1, <3>1 DEF TypeInv, RecInv, InCalls, At
    <3>. QED  BY <3>1, <3>2 DEF TypeInv, RecInv, GcTypes, CodeTypes
  <2>2. CASE Destroy(t)
    <3>1. call[t] = "clear" /\ t = Owner /\ phase = "closed" /\ phase' = "destroyed"
      BY <2>2 DEF TypeInv, Alone, InClear, At
    <3>2. pc'[t] \in {"leave", "scan"}
      BY <2>2 DEF Dispose, Goto, TypeInv, RecInv, GcTypes, CodeTypes
    <3>. QED  BY <3>1, <3>2 DEF TypeInv, Alone
  <2>3. CASE UNCHANGED phase
    BY <2>3 DEF TypeInv, QueueTypes
  <2>. QED  BY <2>1, <2>2, <2>3
<1>6. LocalTypes'
  <2>1. node' \in [Threads -> Cells \cup {NULL}]
    BY DEF TypeInv, QueueTypes, LocalTypes, locals
  <2>2. pc[t] \in {"enq_next", "deq_next"} => m_pNext[node[t]] \in Node \cup {NULL}
    BY DEF TypeInv, QueueTypes, NotNull, HoldsCells, HeadPcs, TailPcs
  <2>3. next' \in [Threads -> Node \cup {NULL}]
    BY <2>2 DEF TypeInv, LocalTypes, locals, At
  <2>4. new' \in [Threads -> Node \cup {NULL}]
    BY DEF TypeInv, LocalTypes, locals, Choices
  <2>. QED  BY <2>1, <2>3, <2>4 DEF LocalTypes
<1>7. phase' \in {"open", "closed"} => m_pHead' \in Cells /\ m_pTail' \in Cells
  BY <1>5 DEF TypeInv, LocalTypes, NotNull, HoldsCells, NextPcs, SwingTail, Cells, At
<1>8. pc[t] = "idle" => phase = "open"
  BY DEF At, HelpDone
<1>9. pc[t] \notin QueuePcs \cup {"idle"} /\ phase \in {"destroyed", "ended"} => pc'[t] = "idle"
  <2>1. pc[t] \notin QueuePcs \cup {"idle"} => Leave(t)
    BY DEF At, Enter, QueuePcs, HeadPcs, TailPcs, NextPcs, NewPcs
  <2>2. phase \in {"destroyed", "ended"} => call[t] # "clear"
    BY DEF TypeInv, Alone, InClear
  <2>3. pc' = [pc EXCEPT ![t] = pc'[t]]
    BY QueueIsMine DEF Mine
  <2>. HIDE DEF QueueMove
  <2>. QED  BY <2>1, <2>2, <2>3 DEF Leave, Goto, TypeInv, RecInv, GcTypes, CodeTypes
<1>. HIDE DEF QueueMove
<1>10. Mine(t) /\ HoldsCells(t)' /\ InClear(t)'
  BY QueueIsMine, CellsKept, ClearKept
<1>11. NotNull'
  <2>1. ASSUME NEW u \in Threads PROVE HoldsCells(u)'
    BY <1>10 DEF Mine, TypeInv, RecInv, GcTypes, CodeTypes, LocalTypes, NotNull, HoldsCells
  <2>. QED  BY <1>7, <2>1 DEF NotNull
<1>12. Alone'
  <2>1. \A u \in Threads \ {t} : pc'[u] = pc[u] /\ call'[u] = call[u]
    BY <1>10 DEF Mine, TypeInv, RecInv, GcTypes, CodeTypes
  <2>2. phase # "open" => t = Owner /\ phase # "ended"
    BY <1>8 DEF TypeInv, Alone
  <2>3. phase' # "open" => \A u \in Threads \ {Owner} : pc'[u] = "idle"
    BY <1>5, <2>1, <2>2 DEF TypeInv, Alone
  <2>4. phase' \in {"destroyed", "ended"} => pc'[Owner] \notin QueuePcs
    <3>1. CASE phase \in {"destroyed", "ended"}
      <4>1. pc[t] \notin QueuePcs \cup {"idle"} /\ t = Owner
        BY <3>1, <1>8, <2>2 DEF TypeInv, Alone
      <4>. QED  BY <3>1, <4>1, <1>9 DEF QueuePcs, HeadPcs, TailPcs, NextPcs, NewPcs
    <3>2. CASE phase' # phase
      BY <3>2, <1>5 DEF QueuePcs, HeadPcs, TailPcs, NextPcs, NewPcs
    <3>. QED  BY <3>1, <3>2
  <2>5. phase' = "ended" => pc'[Owner] = "idle"
    BY <1>5, <2>2
  <2>6. ASSUME NEW u \in Threads PROVE InClear(u)'
    BY <1>5, <1>10, <2>1 DEF TypeInv, Alone, InClear
  <2>. QED  BY <2>3, <2>4, <2>5, <2>6 DEF TypeInv, Alone
<1>. QED  BY <1>1, <1>2, <1>3, <1>4, <1>5, <1>6, <1>11, <1>12 DEF TypeInv, QueueTypes
-----------------------------------------------------------------------------
(* The steps of the collector.                                             *)

\* The collector's own statements.
GcPcs == {"idle", "alloc", "alloc_unfree", "scan", "rescan", "help"} \cup Helping

LEMMA GcIsMine ==
    ASSUME TypeInv, NEW t \in Threads, GcMove(t)
    PROVE  /\ Mine(t) /\ pc[t] \in GcPcs /\ pc'[t] \in GcPcs
           /\ call'[t] \in {call[t], "none", "attach", "detach"}
           /\ UNCHANGED <<m_pHead, m_pTail, phase, locals>>
           /\ pc[t] = "idle" => phase = "open" \/ (t = Owner /\ phase # "ended")
<1>. USE DEF GcMove, GcStep, Lifetime, GcLifetime, AllocOwn, AllocUnfree, AllocNew, ScanOwn,
     ScanRecord, ScanSlot, ScanFree, HelpSkip, HelpOwn, HelpMoveFull, HelpMove, HelpRelease, DetachRelease,
     Attach, Detach, End, Goto, Enter, Scanning, HelpDone, AttachReturn, GcPcs, Helping
<1>1. /\ pc' = [pc EXCEPT ![t] = pc'[t]]
      /\ call' = [call EXCEPT ![t] = call'[t]]
  BY DEF TypeInv, RecInv, GcTypes, CodeTypes
<1>2. /\ pc[t] \in GcPcs /\ pc'[t] \in GcPcs
  BY DEF TypeInv, RecInv, GcTypes, CodeTypes
<1>3. /\ call'[t] \in {call[t], "none", "attach", "detach"}
  BY DEF TypeInv, RecInv, GcTypes, CodeTypes
<1>4. UNCHANGED <<m_pHead, m_pTail, phase, locals>>
  BY DEF queue
<1>5. pc[t] = "idle" => phase = "open" \/ (t = Owner /\ phase # "ended")
  OBVIOUS
<1>. QED  BY <1>1, <1>2, <1>3, <1>4, <1>5 DEF Mine, locals, TypeInv, LocalTypes

LEMMA GcKeepsTypes ==
    ASSUME TypeInv, NEW t \in Threads, GcMove(t)
    PROVE  TypeInv'
<1>1. RecInv'
  BY CollectorKeeps DEF GcMove, Lifetime, TypeInv
<1>2. m_hzp' \in [Records -> [Slots -> Cells \cup {NULL}]]
  <2>1. UNCHANGED m_hzp \/ (Attached(t) /\ FreeGuards(t))
    BY DEF GcMove, GcStep, Lifetime, GcLifetime, AllocOwn, AllocUnfree, AllocNew, ScanOwn,
     ScanRecord, ScanSlot, ScanFree, HelpSkip, HelpOwn, HelpMoveFull, HelpMove, HelpRelease, DetachRelease,
     Attach, Detach, End, AttachReturn
  <2>2. CASE Attached(t) /\ FreeGuards(t)
    <3>1. [i \in Slots |-> NULL] \in [Slots -> Cells \cup {NULL}]
      OBVIOUS
    <3>. QED  BY <2>2, <3>1, RecordsUsed DEF TypeInv, QueueTypes, FreeGuards
  <2>. QED  BY <2>1, <2>2 DEF TypeInv, QueueTypes
<1>3. m_pNext' \in [Cells -> Node \cup {NULL}]
  BY DEF GcMove, Lifetime, Disposer, queue, TypeInv, QueueTypes
<1>4. /\ Mine(t) /\ pc[t] \in GcPcs /\ pc'[t] \in GcPcs
      /\ call'[t] \in {call[t], "none", "attach", "detach"}
      /\ UNCHANGED <<m_pHead, m_pTail, phase, node, next, new>>
      /\ pc[t] = "idle" => phase = "open" \/ (t = Owner /\ phase # "ended")
  BY GcIsMine DEF locals
<1>5. QueueTypes' /\ LocalTypes'
  BY <1>2, <1>3, <1>4 DEF TypeInv, QueueTypes, LocalTypes
<1>6. NotNull'
  <2>1. ASSUME NEW u \in Threads PROVE HoldsCells(u)'
    BY <1>4 DEF Mine, TypeInv, RecInv, GcTypes, CodeTypes, NotNull, HoldsCells, GcPcs, Helping,
         HeadPcs, TailPcs, NextPcs, NewPcs
  <2>. QED  BY <1>4, <2>1 DEF TypeInv, NotNull
<1>7. Alone'
  <2>1. \A u \in Threads \ {t} : pc'[u] = pc[u] /\ call'[u] = call[u]
    BY <1>4 DEF Mine, TypeInv, RecInv, GcTypes, CodeTypes
  <2>2. phase # "open" => t = Owner /\ phase # "ended"
    BY <1>4 DEF TypeInv, Alone
  <2>3. pc'[t] \notin QueuePcs
    BY <1>4 DEF QueuePcs, GcPcs, Helping, HeadPcs, TailPcs, NextPcs, NewPcs
  <2>4. ASSUME NEW u \in Threads PROVE InClear(u)'
    BY <1>4, <2>1, <2>3 DEF TypeInv, Alone, InClear, QueuePcs
  <2>. QED  BY <1>4, <2>1, <2>2, <2>3, <2>4 DEF TypeInv, Alone
<1>. QED  BY <1>1, <1>5, <1>6, <1>7 DEF TypeInv
-----------------------------------------------------------------------------
LEMMA DestructKeepsTypes ==
    ASSUME TypeInv, Destruct
    PROVE  TypeInv'
<1>. USE DEF Destruct, queue, locals
<1>0. \A t \in Threads : pc[t] = "idle"
  BY DEF TypeInv, Alone, At
<1>1. RecInv'
  BY <1>0, DestructKeeps DEF TypeInv
<1>. USE DEF DestroyRecords
<1>2. QueueTypes' /\ LocalTypes'
  BY DEF TypeInv, QueueTypes, LocalTypes
<1>3. NotNull' /\ Alone'
  BY DEF TypeInv, NotNull, HoldsCells, Alone, InClear, At
<1>. QED  BY <1>1, <1>2, <1>3 DEF TypeInv

LEMMA InitTypes == Init => TypeInv
<1>. SUFFICES ASSUME Init PROVE TypeInv
  OBVIOUS
<1>. USE QueueAssumption DEF Init
<1>1. RecInv
  BY GcInitRecInv
<1>2. QueueTypes /\ LocalTypes
  BY DEF QueueTypes, LocalTypes, GcInit, Cells
<1>3. NotNull /\ Alone
  BY DEF NotNull, HoldsCells, Alone, InClear, GcInit, Cells, HeadPcs, TailPcs, NextPcs, NewPcs
<1>. QED  BY <1>1, <1>2, <1>3 DEF TypeInv

LEMMA NextSplit ==
    ASSUME Next
    PROVE  Destruct \/ \E t \in Threads : QueueMove(t) \/ GcMove(t)
BY DEF Next, Step, QueueMove, GcMove

\* A stuttering step changes nothing.
LEMMA TypesStutter == TypeInv /\ UNCHANGED vars => TypeInv'
<1>. SUFFICES ASSUME TypeInv, UNCHANGED vars PROVE TypeInv'
  OBVIOUS
<1>. USE DEF vars, gcVars, records, lifetimes, cursors, queue, locals
<1>1. RecInv'
  <2>1. Attaching' = Attaching
    BY DEF Attaching
  <2>. QED
    BY <2>1 DEF TypeInv, RecInv, GcTypes, RecordTypes, LifeTypes, CodeTypes, CursorTypes, InCalls,
         Numbered, Owned, InScan, Scanning, Attached
<1>2. QueueTypes' /\ LocalTypes' /\ NotNull' /\ Alone'
  BY DEF TypeInv, QueueTypes, LocalTypes, NotNull, HoldsCells, Alone, InClear
<1>. QED  BY <1>1, <1>2 DEF TypeInv

LEMMA TypeInvariant == Spec => []TypeInv
<1>1. TypeInv /\ [Next]_vars => TypeInv'
  BY NextSplit, QueueKeepsTypes, GcKeepsTypes, DestructKeepsTypes, TypesStutter
<1>. QED  BY <1>1, InitTypes, PTL DEF Spec

\* Every variable of the collector (hp.h, hp_gc.cpp) and of the queue over it keeps its type.
THEOREM TypesCorrect == Spec => []TypeOK
<1>1. TypeInv => TypeOK
  BY DEF TypeInv, RecInv, GcTypes, RecordTypes, LifeTypes, CursorTypes, QueueTypes, LocalTypes,
     TypeOK
<1>. QED  BY <1>1, TypeInvariant, PTL

\* Two running threads never share a record, a scan never passes over the record of a
\* running thread, and a record that is free is empty.
THEOREM RecordsInOneHand == Spec => []FreeRecordsAreUnused
<1>1. TypeInv => FreeRecordsAreUnused
  BY DEF TypeInv, RecInv, Owned, FreeRecordsAreUnused
<1>. QED  BY <1>1, TypeInvariant, PTL

-----------------------------------------------------------------------------
(* Memory safety.  A thread holds a node when its hazard pointer was set   *)
(* to it and the node was found in the queue afterwards.  The nodes in the *)
(* queue are not retired; a node is retired when it is in no thread's      *)
(* hands; a scan that has passed a hazard pointer has marked the node it   *)
(* holds.  So what is held is never freed.                                 *)

Holds(t, i, n) ==
    \/ i = 1 /\ pc[t] \in HeadPcs /\ n = node[t]
    \/ i = 2 /\ pc[t] \in NextPcs /\ n = next[t]
    \/ i = 2 /\ pc[t] \in TailPcs /\ n = node[t]

Kept == live \cup {Dummy}
Retired == UNION {m_arrRetired[r] : r \in Records}

\* A thread's hazard pointers hold what the thread believes they hold.
Guarded(t) ==
    /\ pc[t] \in HeadPcs \cup {"deq_check"} => m_hzp[m_pHzpRec[t]][1] = node[t]
    /\ pc[t] \in NextPcs \cup {"deq_check_next", "deq_valid"} => m_hzp[m_pHzpRec[t]][2] = next[t]
    /\ pc[t] \in TailPcs \cup {"enq_check"} => m_hzp[m_pHzpRec[t]][2] = node[t]

\* The scan of t has not yet read hazard pointer i of record r.
Ahead(t, r, i) == pNode[t] > r \/ (pNode[t] = r /\ slot[t] <= i)

\* A scan has marked the nodes held by the hazard pointers it has passed.
Seen(t) == Scanning(t) =>
    /\ marked[t] \subseteq m_arrRetired[m_pHzpRec[t]]
    /\ \A u \in Threads, i \in Slots, n \in m_arrRetired[m_pHzpRec[t]] :
        Holds(u, i, n) => n \in marked[t] \/ Ahead(t, m_pHzpRec[u], i)

\* A retired node is allocated and in one array.
RetiredOnce ==
    /\ Retired \subseteq live
    /\ \A r, s \in Records : r # s => m_arrRetired[r] \cap m_arrRetired[s] = {}

HeldAlive(t) == \A i \in Slots, n \in Cells : Holds(t, i, n) => n \in Kept

\* The node of an enqueue before its link is known to nobody else.
NewIsPrivate(t) == pc[t] \in NewPcs =>
    /\ new[t] \in live \ Retired
    /\ m_pNext[new[t]] = NULL
    /\ \A u \in Threads \ {t} : pc[u] \in NewPcs => new[u] # new[t]
    /\ \A u \in Threads, i \in Slots : ~Holds(u, i, new[t])
    /\ \A u \in Threads : pc[u] = "deq_dispose" => node[u] # new[t]

\* The node that a dequeue has unlinked is its own to dispose of.
UnlinkedOnce(t) == pc[t] = "deq_dispose" =>
    /\ node[t] \in Kept \ Retired
    /\ \A u \in Threads \ {t} : pc[u] = "deq_dispose" => node[u] # node[t]

\* A link that was read from a node that is held stays the link of the node.
LinkRead(t) ==
    /\ pc[t] \in {"enq_help", "deq_valid", "deq_tail", "deq_help", "deq_take"} =>
            next[t] \in {NULL, m_pNext[node[t]]}
    /\ pc[t] = "enq_swing" => new[t] = m_pNext[node[t]]

FreshLinks == phase # "ended" => \A n \in Node \ live : m_pNext[n] = NULL

\* S is the set of the nodes in the queue: linked one to one from m_pHead to a last
\* node without a link, and m_pTail is the last or the one before.
List(S) ==
    /\ S \subseteq Kept \ Retired
    /\ m_pHead \in S /\ m_pTail \in S
    /\ \A x \in S : m_pNext[x] # m_pHead /\ m_pNext[x] \in S \cup {NULL}
    /\ \A x, y \in S : m_pNext[x] = m_pNext[y] => x = y
    /\ m_pNext[m_pTail] # NULL => m_pNext[m_pNext[m_pTail]] = NULL

\* What thread t may conclude from what it has read: a head that it holds and that is
\* still in the queue is the head; a node without a link, once the tail, is the last.
View(S, t) ==
    /\ pc[t] \in NewPcs => new[t] \notin S
    /\ pc[t] = "deq_dispose" => node[t] \notin S
    /\ pc[t] \in HeadPcs /\ node[t] \in S => node[t] = m_pHead
    /\ pc[t] \in TailPcs /\ m_pNext[node[t]] = NULL => node[t] \in S
    /\ pc[t] \in TailPcs => m_pNext[m_pTail] # node[t]
    /\ pc[t] = "deq_take" /\ m_pHead = node[t] => m_pTail # node[t]

Shape == phase \in {"open", "closed"} =>
    \E S \in SUBSET Cells : List(S) /\ \A t \in Threads : View(S, t)

ThreadInv(t) == Guarded(t) /\ Seen(t) /\ HeldAlive(t) /\ NewIsPrivate(t) /\ UnlinkedOnce(t)
                /\ LinkRead(t)

MemInv == TypeInv /\ RetiredOnce /\ FreshLinks /\ Shape /\ \A t \in Threads : ThreadInv(t)
-----------------------------------------------------------------------------
(* What a step of thread t leaves alone.                                   *)

LEMMA OthersStay ==
    ASSUME TypeInv, NEW t \in Threads, Mine(t), NEW u \in Threads \ {t}
    PROVE  /\ pc'[u] = pc[u] /\ node'[u] = node[u] /\ next'[u] = next[u] /\ new'[u] = new[u]
           /\ \A i, n : Holds(u, i, n)' <=> Holds(u, i, n)
<1>1. pc'[u] = pc[u] /\ node'[u] = node[u] /\ next'[u] = next[u] /\ new'[u] = new[u]
  BY DEF TypeInv, RecInv, GcTypes, CodeTypes, LocalTypes, Mine
<1>. QED  BY <1>1 DEF Holds

\* Whoever is in a function has a record of its own.
LEMMA OwnRecord ==
    ASSUME TypeInv, NEW t \in Threads, pc[t] \notin Allocating \cup {"idle"}
    PROVE  /\ t \in running /\ Attached(t) /\ m_pHzpRec[t] \in Records
           /\ ~m_bFree[m_pHzpRec[t]] /\ m_idOwner[m_pHzpRec[t]] = t
<1>1. t \in running /\ Attached(t)
  BY DEF TypeInv, RecInv, InCalls, Allocating
<1>. QED  BY <1>1, RecordsUsed DEF TypeInv, RecInv, Owned

LEMMA HolderRuns ==
    ASSUME TypeInv, NEW t \in Threads, NEW i, NEW n, Holds(t, i, n)
    PROVE  pc[t] \in QueuePcs /\ pc[t] \notin GcPcs
BY DEF Holds, HeadPcs, TailPcs, NextPcs, QueuePcs, GcPcs, Helping

LEMMA QueueKeepsRecords ==
    ASSUME TypeInv, NEW t \in Threads, QueueMove(t)
    PROVE  UNCHANGED <<records, lifetimes, hprec>>
BY QueueUses DEF UserStep

\* Only the thread itself sets its hazard pointers.
LEMMA GuardsOfOthers ==
    ASSUME TypeInv, NEW t \in Threads, QueueMove(t) \/ GcMove(t),
           NEW u \in Threads \ {t}, pc[u] \notin Allocating \cup {"idle"}
    PROVE  m_pHzpRec'[u] = m_pHzpRec[u] /\ m_hzp'[m_pHzpRec[u]] = m_hzp[m_pHzpRec[u]]
<1>1. u \in running /\ Attached(u)
  BY OwnRecord
<1>2. CASE QueueMove(t)
  <2>1. t \in running /\ Attached(t) /\ m_pHzpRec' = m_pHzpRec
    BY <1>2, QueueIsMine, QueueKeepsRecords DEF lifetimes
  <2>2. \/ UNCHANGED m_hzp
        \/ FreeGuards(t)
        \/ \E i \in Slots, n \in Cells \cup {NULL} : Assign(t, i, n)
    BY <1>2 DEF TypeInv, LocalTypes, Slots, Cells, KeepGc, QueueMove, QueueStep, EnqLoad,
         EnqAssign, EnqCheck, EnqNext, EnqHelp, EnqLink, EnqSwing, DeqLoad, DeqAssign, DeqCheck,
         DeqNext, DeqAssignNext, DeqCheckNext, DeqValid, DeqTail, DeqHelp, DeqTake, DeqDispose,
         Leave, Clear, Destroy, Enqueue, Dequeue, Close
  <2>3. m_pHzpRec[t] # m_pHzpRec[u]
    BY <1>1, <2>1, RecordsDiffer DEF TypeInv
  <2>. QED  BY <1>1, <2>1, <2>2, <2>3, RecordsUsed DEF TypeInv, QueueTypes, FreeGuards, Assign
<1>3. CASE GcMove(t)
  <2>. USE DEF GcMove, GcStep, Lifetime, GcLifetime, AllocOwn, AllocUnfree, AllocNew, ScanOwn,
     ScanRecord, ScanSlot, ScanFree, HelpSkip, HelpOwn, HelpMoveFull, HelpMove, HelpRelease, DetachRelease,
     Attach, Detach, End, AttachReturn
  <2>1. m_pHzpRec'[u] = m_pHzpRec[u]
    BY <1>3 DEF TypeInv, RecInv, GcTypes, LifeTypes, lifetimes
  <2>2. UNCHANGED m_hzp \/ (FreeGuards(t) /\ t \in running /\ Attached(t))
    BY <1>3 DEF Enter
  <2>3. t \in running /\ Attached(t) => m_pHzpRec[t] # m_pHzpRec[u]
    BY <1>1, RecordsDiffer DEF TypeInv
  <2>. HIDE DEF GcMove
  <2>. QED  BY <1>1, <2>1, <2>2, <2>3, RecordsUsed DEF TypeInv, QueueTypes, FreeGuards
<1>. QED  BY <1>2, <1>3
-----------------------------------------------------------------------------
(* The hazard pointers.                                                    *)

LEMMA OwnGuards ==
    ASSUME TypeInv, NEW t \in Threads, QueueMove(t), Guarded(t)
    PROVE  Guarded(t)'
<1>. /\ Mine(t) /\ m_pHzpRec[t] \in Records /\ m_pHzpRec' = m_pHzpRec
  BY QueueIsMine, RecordsUsed, QueueKeepsRecords DEF TypeInv, lifetimes
<1>. USE DEF Guarded, Mine, Goto, At, HeadPcs, TailPcs, NextPcs, TypeInv, LocalTypes, QueueTypes,
     RecInv, GcTypes, CodeTypes, KeepGc, Again, Go, locals, Dispose, Assign, Slots, FreeGuards
<1>1. CASE EnqLoad(t)
  BY <1>1 DEF EnqLoad
<1>2. CASE EnqAssign(t)
  BY <1>2 DEF EnqAssign
<1>3. CASE EnqCheck(t)
  BY <1>3 DEF EnqCheck
<1>4. CASE EnqNext(t)
  BY <1>4 DEF EnqNext
<1>5. CASE EnqHelp(t)
  BY <1>5 DEF EnqHelp
<1>6. CASE EnqLink(t)
  BY <1>6 DEF EnqLink
<1>7. CASE EnqSwing(t)
  BY <1>7 DEF EnqSwing
<1>8. CASE DeqLoad(t)
  BY <1>8 DEF DeqLoad
<1>9. CASE DeqAssign(t)
  BY <1>9 DEF DeqAssign
<1>10. CASE DeqCheck(t)
  BY <1>10 DEF DeqCheck
<1>11. CASE DeqNext(t)
  BY <1>11 DEF DeqNext
<1>12. CASE DeqAssignNext(t)
  BY <1>12 DEF DeqAssignNext
<1>13. CASE DeqCheckNext(t)
  BY <1>13 DEF DeqCheckNext
<1>14. CASE DeqValid(t)
  BY <1>14 DEF DeqValid
<1>15. CASE DeqTail(t)
  BY <1>15 DEF DeqTail
<1>16. CASE DeqHelp(t)
  BY <1>16 DEF DeqHelp
<1>17. CASE DeqTake(t)
  BY <1>17 DEF DeqTake
<1>18. CASE DeqDispose(t)
  BY <1>18 DEF DeqDispose
<1>19. CASE Leave(t)
  BY <1>19 DEF Leave
<1>20. CASE Clear(t)
  BY <1>20 DEF Clear
<1>21. CASE Destroy(t)
  BY <1>21 DEF Destroy
<1>22. CASE Enqueue(t)
  BY <1>22 DEF Enqueue
<1>23. CASE Dequeue(t)
  BY <1>23 DEF Dequeue
<1>24. CASE Close(t)
  BY <1>24 DEF Close
<1>. QED
  BY <1>1, <1>2, <1>3, <1>4, <1>5, <1>6, <1>7, <1>8, <1>9, <1>10, <1>11, <1>12,
     <1>13, <1>14, <1>15, <1>16, <1>17, <1>18, <1>19, <1>20, <1>21, <1>22, <1>23, <1>24
          DEF QueueMove, QueueStep

LEMMA GuardsKept ==
    ASSUME TypeInv, NEW t \in Threads, QueueMove(t) \/ GcMove(t),
           NEW u \in Threads, Guarded(u)
    PROVE  Guarded(u)'
<1>1. Mine(t)
  BY QueueIsMine, GcIsMine
<1>2. CASE u # t
  <2>1. pc'[u] = pc[u] /\ node'[u] = node[u] /\ next'[u] = next[u]
    BY <1>1, <1>2, OthersStay
  <2>2. CASE pc[u] \in QueuePcs
    <3>1. m_pHzpRec'[u] = m_pHzpRec[u] /\ m_hzp'[m_pHzpRec[u]] = m_hzp[m_pHzpRec[u]]
      BY <1>2, <2>2, GuardsOfOthers DEF QueuePcs, HeadPcs, TailPcs, NextPcs, NewPcs, Allocating
    <3>. QED  BY <2>1, <3>1 DEF Guarded
  <2>3. CASE pc[u] \notin QueuePcs
    BY <2>1, <2>3 DEF Guarded, QueuePcs, HeadPcs, NewPcs
  <2>. QED  BY <2>2, <2>3
<1>3. CASE u = t /\ GcMove(t)
  BY <1>3, GcIsMine DEF Guarded, GcPcs, Helping, HeadPcs, NextPcs, TailPcs
<1>4. CASE u = t /\ QueueMove(t)
  BY <1>4, OwnGuards
<1>. QED  BY <1>2, <1>3, <1>4

-----------------------------------------------------------------------------
(* How threads come to hold nodes.                                         *)

InQueue(n) == \A S \in SUBSET Cells : List(S) => n \in S

\* A node that a thread begins to hold is in the queue.
LEMMA NewHolds ==
    ASSUME TypeInv, NEW t \in Threads, QueueMove(t), LinkRead(t),
           NEW i \in Slots, NEW n \in Cells, Holds(t, i, n)'
    PROVE  Holds(t, i, n) \/ InQueue(n)
<1>. Mine(t)
  BY QueueIsMine
<1>. USE DEF Holds, Mine, Goto, At, HeadPcs, TailPcs, NextPcs, TypeInv, LocalTypes, QueueTypes,
     RecInv, GcTypes, CodeTypes, KeepGc, Again, Go, locals, Dispose, LinkRead
<1>1. CASE EnqLoad(t)
  BY <1>1 DEF EnqLoad
<1>2. CASE EnqAssign(t)
  BY <1>2 DEF EnqAssign
<1>3. CASE EnqCheck(t)
  BY <1>3 DEF InQueue, List, EnqCheck
<1>4. CASE EnqNext(t)
  BY <1>4 DEF EnqNext
<1>5. CASE EnqHelp(t)
  BY <1>5 DEF EnqHelp
<1>6. CASE EnqLink(t)
  BY <1>6 DEF EnqLink
<1>7. CASE EnqSwing(t)
  BY <1>7 DEF EnqSwing
<1>8. CASE DeqLoad(t)
  BY <1>8 DEF DeqLoad
<1>9. CASE DeqAssign(t)
  BY <1>9 DEF DeqAssign
<1>10. CASE DeqCheck(t)
  BY <1>10 DEF InQueue, List, DeqCheck
<1>11. CASE DeqNext(t)
  BY <1>11 DEF DeqNext
<1>12. CASE DeqAssignNext(t)
  BY <1>12 DEF DeqAssignNext
<1>13. CASE DeqCheckNext(t)
  BY <1>13 DEF DeqCheckNext
<1>14. CASE DeqValid(t)
  BY <1>14 DEF InQueue, List, DeqValid
<1>15. CASE DeqTail(t)
  BY <1>15 DEF DeqTail
<1>16. CASE DeqHelp(t)
  BY <1>16 DEF DeqHelp
<1>17. CASE DeqTake(t)
  BY <1>17 DEF DeqTake
<1>18. CASE DeqDispose(t)
  BY <1>18 DEF DeqDispose
<1>19. CASE Leave(t)
  BY <1>19 DEF Leave
<1>20. CASE Clear(t)
  BY <1>20 DEF Clear
<1>21. CASE Destroy(t)
  BY <1>21 DEF Destroy
<1>22. CASE Enqueue(t)
  BY <1>22 DEF Enqueue
<1>23. CASE Dequeue(t)
  BY <1>23 DEF Dequeue
<1>24. CASE Close(t)
  BY <1>24 DEF Close
<1>. QED
  BY <1>1, <1>2, <1>3, <1>4, <1>5, <1>6, <1>7, <1>8, <1>9, <1>10, <1>11, <1>12,
     <1>13, <1>14, <1>15, <1>16, <1>17, <1>18, <1>19, <1>20, <1>21, <1>22, <1>23, <1>24
          DEF QueueMove, QueueStep

\* A thread in the collector holds nothing.
LEMMA CollectorHoldsNothing ==
    ASSUME TypeInv, NEW t \in Threads, GcMove(t), NEW i, NEW n
    PROVE  ~Holds(t, i, n) /\ ~Holds(t, i, n)'
BY GcIsMine DEF Holds, GcPcs, Helping, HeadPcs, TailPcs, NextPcs

\* The queue has a shape while anybody is in it.
LEMMA QueueShape ==
    ASSUME MemInv, NEW t \in Threads, pc[t] \in QueuePcs
    PROVE  \E S \in SUBSET Cells : List(S) /\ \A u \in Threads : View(S, u)
BY InUse DEF MemInv, Shape

\* What a thread begins to hold is not retired, and is no new node.
LEMMA NewlyHeld ==
    ASSUME MemInv, NEW t \in Threads, QueueMove(t),
           NEW i \in Slots, NEW n \in Cells, Holds(t, i, n)', ~Holds(t, i, n)
    PROVE  /\ n \in Kept \ Retired
           /\ \A u \in Threads : pc[u] \in NewPcs => new[u] # n
<1>1. InQueue(n)
  BY NewHolds DEF MemInv, ThreadInv
<1>2. pc[t] \in QueuePcs
  <2>1. Mine(t)
    BY QueueIsMine DEF MemInv
  <2>2. ~Enqueue(t) /\ ~Dequeue(t) /\ ~Close(t)
    BY <2>1 DEF Enqueue, Dequeue, Close, Goto, Holds, HeadPcs, NextPcs, TailPcs, MemInv, TypeInv,
         RecInv, GcTypes, CodeTypes
  <2>3. ~Leave(t)
    BY <2>1 DEF Leave, Goto, Holds, HeadPcs, NextPcs, TailPcs, MemInv, TypeInv,
         RecInv, GcTypes, CodeTypes
  <2>. QED
    BY <2>2, <2>3 DEF QueueMove, QueueStep, EnqLoad, EnqAssign, EnqCheck, EnqNext, EnqHelp,
         EnqLink, EnqSwing, DeqLoad, DeqAssign, DeqCheck, DeqNext, DeqAssignNext, DeqCheckNext,
         DeqValid, DeqTail, DeqHelp, DeqTake, DeqDispose, Clear, Destroy, At,
         QueuePcs, HeadPcs, NextPcs, TailPcs, NewPcs
<1>3. PICK S \in SUBSET Cells : List(S) /\ \A u \in Threads : View(S, u)
  BY <1>2, QueueShape
<1>. QED  BY <1>1, <1>3 DEF InQueue, List, View
-----------------------------------------------------------------------------
(* What the collector does to memory.                                      *)

\* Only a scan that is over frees nodes: those of its array that it has not marked.
LEMMA OnlyScansFree ==
    ASSUME MemInv, NEW t \in Threads, GcMove(t), NEW n \in live \ live'
    PROVE  Scanning(t) /\ pNode[t] = 0 /\ n \in m_arrRetired[m_pHzpRec[t]] \ marked[t]
BY DEF GcMove, GcStep, Lifetime, GcLifetime, AllocOwn, AllocUnfree, AllocNew, ScanOwn,
     ScanRecord, ScanSlot, ScanFree, HelpSkip, HelpOwn, HelpMoveFull, HelpMove, HelpRelease, DetachRelease,
     Attach, Detach, End, AttachReturn

\* What a thread holds is not freed.
LEMMA HeldIsNotFreed ==
    ASSUME MemInv, NEW t \in Threads, GcMove(t),
           NEW u \in Threads, NEW i \in Slots, NEW n \in Cells, Holds(u, i, n)
    PROVE  n \notin live \ live'
<1>. SUFFICES ASSUME n \in live \ live' PROVE FALSE
  OBVIOUS
<1>1. Scanning(t) /\ pNode[t] = 0 /\ n \in m_arrRetired[m_pHzpRec[t]] \ marked[t]
  BY OnlyScansFree
<1>2. Ahead(t, m_pHzpRec[u], i)
  BY <1>1 DEF MemInv, ThreadInv, Seen
<1>3. m_pHzpRec[u] \in Records
  BY HolderRuns, OwnRecord DEF MemInv, GcPcs, Allocating
<1>. QED  BY <1>1, <1>2, <1>3, CollectorAssumption DEF Ahead, Records

\* HelpScan moves retired nodes: all of them, or as many as fill up the thread's array.
Moved(t, nodes) ==
    m_arrRetired' = [m_arrRetired EXCEPT
        ![m_pHzpRec[t]] = m_arrRetired[m_pHzpRec[t]] \cup nodes,
        ![hprec[t]] = m_arrRetired[hprec[t]] \ nodes]

\* The arrays that a step changes are those of the thread and of the record it helps.
LEMMA ArraysMove ==
    ASSUME MemInv, NEW t \in Threads, GcMove(t)
    PROVE  \/ UNCHANGED <<m_arrRetired, live>>
           \/ /\ Scanning(t) /\ pNode[t] = 0 /\ m_pHzpRec[t] \in Records
              /\ live' = live \ (m_arrRetired[m_pHzpRec[t]] \ marked[t])
              /\ m_arrRetired' = [m_arrRetired EXCEPT ![m_pHzpRec[t]] = marked[t]]
           \/ /\ pc[t] = "help_move" /\ live' = live /\ m_pHzpRec[t] \in Records
              /\ hprec[t] \in Records \ {m_pHzpRec[t]} /\ m_idOwner[hprec[t]] = t
              /\ \E moved \in SUBSET m_arrRetired[hprec[t]] : Moved(t, moved)
<1>1. CASE ScanFree(t)
  <2>1. m_pHzpRec[t] \in Records
    BY <1>1, OwnRecord DEF ScanFree, Scanning, Allocating, MemInv
  <2>. QED  BY <1>1, <2>1 DEF ScanFree
<1>2. CASE HelpMove(t) \/ HelpMoveFull(t)
  <2>1. m_pHzpRec[t] \in Records
    BY <1>2, OwnRecord DEF HelpMove, HelpMoveFull, Allocating, MemInv
  <2>2. hprec[t] # 0 /\ hprec[t] # m_pHzpRec[t] /\ m_idOwner[hprec[t]] = t
    BY <1>2 DEF HelpMove, HelpMoveFull, MemInv, TypeInv, RecInv, Owned, Helping
  <2>3. hprec[t] \in Records
    BY <2>2, RecordsReached DEF MemInv, TypeInv
  <2>4. pc[t] = "help_move" /\ live' = live
    BY <1>2 DEF HelpMove, HelpMoveFull
  <2>5. m_arrRetired \in [Records -> SUBSET Node]
    BY DEF MemInv, TypeInv, RecInv, GcTypes, RecordTypes
  <2>6. \E moved \in SUBSET m_arrRetired[hprec[t]] : Moved(t, moved)
    <3>1. CASE HelpMove(t)
      <4>1. Moved(t, m_arrRetired[hprec[t]])
        BY <2>1, <2>2, <2>3, <2>5, <3>1 DEF HelpMove, Moved
      <4>. QED  BY <4>1
    <3>2. CASE HelpMoveFull(t)
      BY <2>1, <2>2, <2>3, <2>5, <3>2 DEF HelpMoveFull, Moved
    <3>. QED  BY <1>2, <3>1, <3>2
  <2>. QED  BY <2>1, <2>2, <2>3, <2>4, <2>6
<1>3. CASE ~ScanFree(t) /\ ~HelpMove(t) /\ ~HelpMoveFull(t)
  BY <1>3 DEF GcMove, GcStep, Lifetime, GcLifetime, AllocOwn, AllocUnfree, AllocNew, ScanOwn,
     ScanRecord, ScanSlot, HelpSkip, HelpOwn, HelpRelease, DetachRelease,
     Attach, Detach, End, AttachReturn
<1>. QED  BY <1>1, <1>2, <1>3

\* No node is retired or made by the collector, and nothing but a freed node loses its link.
LEMMA GcMemory ==
    ASSUME MemInv, NEW t \in Threads, GcMove(t)
    PROVE  /\ live' \subseteq live /\ Retired' \subseteq Retired /\ RetiredOnce'
           /\ live \ live' \subseteq Retired
           /\ \A n \in Cells : n \notin live \ live' => m_pNext'[n] = m_pNext[n]
           /\ \A n \in live \ live' : m_pNext'[n] = NULL
<1>1. ASSUME NEW n \in Cells
      PROVE  m_pNext'[n] = IF n \in live \ live' THEN NULL ELSE m_pNext[n]
  <2>1. CASE Disposer
    BY <2>1 DEF Disposer, MemInv, TypeInv, QueueTypes
  <2>2. CASE Lifetime(t)
    <3>1. live' = live /\ m_pNext' = m_pNext
      BY <2>2 DEF Lifetime, GcLifetime, Attach, Detach, End, queue
    <3>. QED  BY <3>1
  <2>. QED  BY <2>1, <2>2 DEF GcMove
<1>2. live \subseteq Cells /\ live' \subseteq live /\ live \ live' \subseteq Retired
  BY ArraysMove DEF MemInv, TypeInv, RecInv, GcTypes, LifeTypes, Cells, Retired
<1>3. Retired' \subseteq Retired /\ RetiredOnce'
  <2>1. CASE UNCHANGED <<m_arrRetired, live>>
    BY <2>1 DEF Retired, RetiredOnce, MemInv
  <2>2. CASE /\ Scanning(t) /\ pNode[t] = 0 /\ m_pHzpRec[t] \in Records
             /\ live' = live \ (m_arrRetired[m_pHzpRec[t]] \ marked[t])
             /\ m_arrRetired' = [m_arrRetired EXCEPT ![m_pHzpRec[t]] = marked[t]]
    <3>1. marked[t] \subseteq m_arrRetired[m_pHzpRec[t]]
      BY <2>2 DEF MemInv, ThreadInv, Seen
    <3>2. \A r \in Records : m_arrRetired'[r] \subseteq m_arrRetired[r]
      BY <2>2, <3>1 DEF MemInv, TypeInv, RecInv, GcTypes, RecordTypes
    <3>3. Retired' \subseteq Retired
      BY <3>2 DEF Retired
    <3>4. \A r, s \in Records : r # s => m_arrRetired'[r] \cap m_arrRetired'[s] = {}
      BY <3>2 DEF MemInv, RetiredOnce
    <3>5. ASSUME NEW r \in Records PROVE m_arrRetired'[r] \subseteq live'
      BY <2>2, <3>1 DEF MemInv, RetiredOnce, Retired, TypeInv, RecInv, GcTypes, RecordTypes
    <3>. QED  BY <3>3, <3>4, <3>5 DEF RetiredOnce, Retired
  <2>3. CASE /\ pc[t] = "help_move" /\ live' = live /\ m_pHzpRec[t] \in Records
             /\ hprec[t] \in Records \ {m_pHzpRec[t]} /\ m_idOwner[hprec[t]] = t
             /\ \E moved \in SUBSET m_arrRetired[hprec[t]] : Moved(t, moved)
    <3>0. PICK moved \in SUBSET m_arrRetired[hprec[t]] : Moved(t, moved)
      BY <2>3
    <3>1. \A r \in Records : m_arrRetired'[r] =
              IF r = hprec[t] THEN m_arrRetired[r] \ moved
              ELSE IF r = m_pHzpRec[t] THEN m_arrRetired[r] \cup moved
              ELSE m_arrRetired[r]
      BY <2>3, <3>0 DEF Moved, MemInv, TypeInv, RecInv, GcTypes, RecordTypes
    <3>2. ASSUME NEW r \in Records, NEW n \in m_arrRetired'[r]
          PROVE  /\ r = hprec[t] => n \notin moved
                 /\ \/ n \in m_arrRetired[r]
                    \/ r = m_pHzpRec[t] /\ n \in moved /\ n \in m_arrRetired[hprec[t]]
      BY <2>3, <3>0, <3>1
    <3>3. ASSUME NEW n \in Retired'
          PROVE  n \in Retired
      <4>1. PICK r \in Records : n \in m_arrRetired'[r]
        BY DEF Retired
      <4>2. \E a \in Records : n \in m_arrRetired[a]
        BY <2>3, <3>2, <4>1
      <4>. QED  BY <4>2 DEF Retired
    <3>4. ASSUME NEW r \in Records, NEW s \in Records, r # s, NEW n \in m_arrRetired'[r],
                 n \in m_arrRetired'[s]
          PROVE  FALSE
      <4>1. \A a, b \in Records : n \in m_arrRetired[a] /\ n \in m_arrRetired[b] => a = b
        BY DEF MemInv, RetiredOnce
      <4>2. CASE n \in moved
        BY <2>3, <3>0, <3>2, <3>4, <4>1, <4>2
      <4>3. CASE n \notin moved
        BY <2>3, <3>2, <3>4, <4>1, <4>3
      <4>. QED  BY <4>2, <4>3
    <3>5. \A r, s \in Records : r # s => m_arrRetired'[r] \cap m_arrRetired'[s] = {}
      BY <3>4
    <3>. QED  BY <2>3, <3>3, <3>5 DEF MemInv, RetiredOnce
  <2>. QED  BY <2>1, <2>2, <2>3, ArraysMove
<1>. QED  BY <1>1, <1>2, <1>3

-----------------------------------------------------------------------------
(* Scans see what is held.                                                 *)

\* What a holder's record is to a thread that scans.
LEMMA HoldersRecord ==
    ASSUME MemInv, NEW t \in Threads, pc[t] \in GcPcs \ (Allocating \cup {"idle"}),
           NEW u \in Threads, NEW i \in Slots, NEW n, Holds(u, i, n)
    PROVE  /\ u # t /\ m_pHzpRec[u] \in Records /\ m_pHzpRec[t] \in Records
           /\ m_pHzpRec[u] # m_pHzpRec[t]
           /\ ~m_bFree[m_pHzpRec[u]] /\ m_hzp[m_pHzpRec[u]][i] = n
<1>1. u # t /\ pc[u] \notin Allocating \cup {"idle"}
  BY HolderRuns DEF MemInv, GcPcs, Allocating
<1>2. /\ u \in running /\ Attached(u) /\ m_pHzpRec[u] \in Records /\ ~m_bFree[m_pHzpRec[u]]
      /\ t \in running /\ Attached(t) /\ m_pHzpRec[t] \in Records
  BY <1>1, OwnRecord DEF MemInv
<1>3. m_pHzpRec[u] # m_pHzpRec[t]
  BY <1>1, <1>2, RecordsDiffer DEF MemInv, TypeInv
<1>4. m_hzp[m_pHzpRec[u]][i] = n
  BY DEF MemInv, ThreadInv, Guarded, Holds
<1>. QED  BY <1>1, <1>2, <1>3, <1>4

LEMMA CollectorKeepsHolds ==
    ASSUME MemInv, NEW t \in Threads, GcMove(t),
           NEW u \in Threads, NEW i \in Slots, NEW n
    PROVE  /\ Holds(u, i, n)' <=> Holds(u, i, n)
           /\ Holds(u, i, n) => m_pHzpRec'[u] = m_pHzpRec[u]
<1>1. CASE u = t
  BY <1>1, CollectorHoldsNothing DEF MemInv
<1>2. CASE u # t
  <2>1. Holds(u, i, n)' <=> Holds(u, i, n)
    BY <1>2, GcIsMine, OthersStay DEF MemInv
  <2>2. ASSUME Holds(u, i, n) PROVE m_pHzpRec'[u] = m_pHzpRec[u]
    BY <1>2, <2>2, GuardsOfOthers, HolderRuns DEF MemInv, GcPcs, Allocating
  <2>. QED  BY <2>1, <2>2
<1>. QED  BY <1>1, <1>2

\* A step of a scan keeps what it has seen.
LEMMA ScanKeepsSeen ==
    ASSUME MemInv, NEW t \in Threads, GcMove(t), ScanOwn(t) \/ ScanRecord(t) \/ ScanSlot(t)
    PROVE  Seen(t)'
<1>1. /\ pNode \in [Threads -> 0..MaxAttach] /\ slot \in [Threads -> 0..2]
      /\ marked \in [Threads -> SUBSET Node] /\ MaxAttach \in Nat
  BY CollectorAssumption DEF MemInv, TypeInv, RecInv, GcTypes, CursorTypes
<1>2. /\ Scanning(t) /\ UNCHANGED <<m_arrRetired, m_pHzpRec, pc>>
      /\ pc[t] \in GcPcs \ (Allocating \cup {"idle"})
  BY DEF ScanOwn, ScanRecord, ScanSlot, Scanning, lifetimes, GcPcs, Helping, Allocating
<1>3. marked[t] \subseteq m_arrRetired[m_pHzpRec[t]]
  BY <1>2 DEF MemInv, ThreadInv, Seen
<1>4. /\ marked[t] \subseteq marked'[t]
      /\ marked'[t] \subseteq m_arrRetired[m_pHzpRec[t]]
  BY <1>1, <1>2, <1>3 DEF ScanOwn, ScanRecord, ScanSlot, Mark
<1>5. ASSUME NEW u \in Threads, NEW i \in Slots, NEW n \in m_arrRetired[m_pHzpRec[t]], Holds(u, i, n),
             n \notin marked'[t]
      PROVE  Ahead(t, m_pHzpRec[u], i)'
  <2>1. Ahead(t, m_pHzpRec[u], i)
    BY <1>2, <1>4, <1>5 DEF MemInv, ThreadInv, Seen
  <2>2. /\ m_pHzpRec[u] \in Records /\ m_pHzpRec[u] # m_pHzpRec[t]
        /\ ~m_bFree[m_pHzpRec[u]] /\ m_hzp[m_pHzpRec[u]][i] = n
    BY <1>2, <1>5, HoldersRecord
  <2>3. CASE ScanOwn(t)
    BY <1>1, <1>2, <2>1, <2>2, <2>3 DEF ScanOwn, NextRecord, Ahead, Records, Slots
  <2>4. CASE ScanRecord(t)
    BY <1>1, <1>2, <2>1, <2>2, <2>4 DEF ScanRecord, NextRecord, Ahead, Records, Slots
  <2>5. CASE ScanSlot(t)
    <3>1. pNode[t] = m_pHzpRec[u] => slot[t] # i
      BY <1>1, <1>2, <1>5, <2>2, <2>5 DEF ScanSlot, Mark
    <3>. QED  BY <1>1, <1>2, <2>1, <2>2, <2>5, <3>1 DEF ScanSlot, NextRecord, Ahead, Records, Slots
  <2>. QED  BY <2>3, <2>4, <2>5
<1>. QED
  BY <1>2, <1>4, <1>5, CollectorKeepsHolds DEF Seen, Scanning

\* A scan begins at the newest record: every hazard pointer lies ahead.
LEMMA ScanBegins ==
    ASSUME MemInv, NEW t \in Threads, QueueMove(t) \/ GcMove(t), ScanFrom(t), UNCHANGED m_pListHead
    PROVE  Seen(t)'
<1>1. pNode'[t] = m_pListHead /\ slot'[t] = 0 /\ marked'[t] = {}
  BY DEF ScanFrom, MemInv, TypeInv, RecInv, GcTypes, CursorTypes
<1>2. TypeInv'
  BY QueueKeepsTypes, GcKeepsTypes DEF MemInv
<1>3. ASSUME NEW u \in Threads, NEW i \in Slots PROVE Ahead(t, m_pHzpRec[u], i)'
  <2>1. m_pHzpRec'[u] \in 0..MaxAttach /\ m_pHzpRec'[u] <= m_pListHead /\ m_pListHead \in 0..MaxAttach
    BY <1>2 DEF TypeInv, RecInv, GcTypes, RecordTypes, LifeTypes, Numbered
  <2>. QED  BY <1>1, <2>1, CollectorAssumption DEF Ahead, Slots
<1>. QED  BY <1>1, <1>3 DEF Seen

LEMMA SeenByCollector ==
    ASSUME MemInv, NEW t \in Threads, GcMove(t)
    PROVE  Seen(t)'
<1>1. CASE ScanOwn(t) \/ ScanRecord(t) \/ ScanSlot(t)
  BY <1>1, ScanKeepsSeen
<1>2. CASE HelpMoveFull(t) \/ HelpRelease(t) \/ Detach(t)
  BY <1>2, ScanBegins DEF HelpMoveFull, HelpRelease, Detach, records
<1>3. CASE pc'[t] \notin {"scan", "rescan", "move_scan"}
  BY <1>3 DEF Seen, Scanning
<1>4. \/ ScanOwn(t) \/ ScanRecord(t) \/ ScanSlot(t) \/ HelpMoveFull(t) \/ HelpRelease(t)
      \/ Detach(t) \/ pc'[t] \notin {"scan", "rescan", "move_scan"}
  BY DEF GcMove, GcStep, Lifetime, GcLifetime, AllocOwn, AllocUnfree, AllocNew, ScanFree,
     HelpSkip, HelpOwn, HelpMove, DetachRelease, Attach, End, AttachReturn, Goto,
     MemInv, TypeInv, RecInv, GcTypes, CodeTypes
<1>. QED  BY <1>1, <1>2, <1>3, <1>4

\* The array of a thread that scans is changed by nobody else.
LEMMA ArrayOfScanner ==
    ASSUME MemInv, NEW t \in Threads, QueueMove(t) \/ GcMove(t),
           NEW u \in Threads \ {t}, Scanning(u)
    PROVE  /\ m_pHzpRec'[u] = m_pHzpRec[u] /\ m_pHzpRec[u] \in Records
           /\ m_arrRetired'[m_pHzpRec[u]] = m_arrRetired[m_pHzpRec[u]]
           /\ pNode'[u] = pNode[u] /\ slot'[u] = slot[u] /\ marked'[u] = marked[u] /\ pc'[u] = pc[u]
<1>1. /\ u \in running /\ Attached(u) /\ m_pHzpRec[u] \in Records
      /\ m_idOwner[m_pHzpRec[u]] = u
  BY OwnRecord DEF MemInv, Scanning, Allocating
<1>2. m_pHzpRec'[u] = m_pHzpRec[u]
  BY GuardsOfOthers DEF MemInv, Scanning, Allocating
<1>3. pc'[u] = pc[u]
  BY QueueIsMine, GcIsMine, OthersStay DEF MemInv
<1>4. CASE QueueMove(t)
  <2>1. t \in running /\ Attached(t)
    BY <1>4, QueueIsMine DEF MemInv
  <2>2. m_pHzpRec[t] # m_pHzpRec[u]
    BY <1>1, <2>1, RecordsDiffer DEF MemInv, TypeInv
  <2>3. UserStep(t)
    BY <1>4, QueueUses DEF MemInv
  <2>4. pNode'[u] = pNode[u] /\ slot'[u] = slot[u] /\ marked'[u] = marked[u]
    BY <2>3 DEF UserStep, ScanFrom, MemInv, TypeInv, RecInv, GcTypes, CursorTypes
  <2>5. m_arrRetired'[m_pHzpRec[u]] = m_arrRetired[m_pHzpRec[u]]
    BY <1>1, <2>2, <2>3 DEF UserStep, RetirePush, MemInv, TypeInv, RecInv, GcTypes, RecordTypes
  <2>. QED  BY <1>1, <1>2, <1>3, <2>4, <2>5
<1>5. CASE GcMove(t)
  <2>1. m_arrRetired'[m_pHzpRec[u]] = m_arrRetired[m_pHzpRec[u]]
    <3>1. CASE UNCHANGED <<m_arrRetired, live>>
      BY <3>1
    <3>2. CASE pc[t] \in {"scan", "rescan", "move_scan", "help_move"}
      <4>1. m_pHzpRec[t] # m_pHzpRec[u]
        BY <1>1, <3>2, OwnRecord, RecordsDiffer DEF Allocating, MemInv, TypeInv
      <4>. QED  BY <1>1, <4>1, ArraysMove, <1>5 DEF Moved, MemInv, TypeInv, RecInv, GcTypes, RecordTypes
    <3>. QED  BY <1>5, <3>1, <3>2, ArraysMove DEF Scanning
  <2>2. pNode'[u] = pNode[u] /\ slot'[u] = slot[u] /\ marked'[u] = marked[u]
    BY <1>5 DEF GcMove, GcStep, Lifetime, GcLifetime, AllocOwn, AllocUnfree, AllocNew, ScanOwn,
         ScanRecord, ScanSlot, ScanFree, HelpSkip, HelpOwn, HelpMoveFull, HelpMove, HelpRelease, DetachRelease,
         Attach, Detach, End, AttachReturn, NextRecord, Mark, ScanFrom, cursors,
         MemInv, TypeInv, RecInv, GcTypes, CursorTypes
  <2>. QED  BY <1>1, <1>2, <1>3, <2>1, <2>2
<1>. QED  BY <1>4, <1>5

LEMMA SeenKept ==
    ASSUME MemInv, NEW t \in Threads, QueueMove(t) \/ GcMove(t), NEW u \in Threads
    PROVE  Seen(u)'
<1>1. CASE u = t /\ GcMove(t)
  BY <1>1, SeenByCollector
<1>2. CASE u = t /\ QueueMove(t)
  <2>1. UserStep(t)
    BY <1>2, QueueUses DEF MemInv
  <2>2. CASE ScanFrom(t)
    BY <1>2, <2>1, <2>2, ScanBegins DEF UserStep, records
  <2>3. CASE pc'[t] # "scan"
    BY <1>2, <2>1, <2>3 DEF UserStep, Seen, Scanning, Helping
  <2>. QED  BY <2>1, <2>2, <2>3 DEF UserStep
<1>3. CASE u # t
  <2>. SUFFICES ASSUME Scanning(u)' PROVE Seen(u)'
    BY DEF Seen
  <2>1. Scanning(u)
    BY <1>3, QueueIsMine, GcIsMine, OthersStay DEF MemInv, Scanning
  <2>2. /\ m_pHzpRec'[u] = m_pHzpRec[u] /\ m_pHzpRec[u] \in Records
        /\ m_arrRetired'[m_pHzpRec[u]] = m_arrRetired[m_pHzpRec[u]]
        /\ pNode'[u] = pNode[u] /\ slot'[u] = slot[u] /\ marked'[u] = marked[u]
    BY <1>3, <2>1, ArrayOfScanner
  <2>3. ASSUME NEW v \in Threads, NEW i \in Slots, NEW n \in m_arrRetired[m_pHzpRec[u]], Holds(v, i, n)'
        PROVE  Holds(v, i, n) /\ m_pHzpRec'[v] = m_pHzpRec[v]
    <3>1. CASE GcMove(t)
      BY <2>3, <3>1, CollectorKeepsHolds
    <3>2. CASE QueueMove(t)
      <4>1. m_pHzpRec'[v] = m_pHzpRec[v]
        BY <3>2, QueueKeepsRecords DEF MemInv, lifetimes
      <4>2. CASE v # t
        BY <2>3, <3>2, <4>1, <4>2, QueueIsMine, OthersStay DEF MemInv
      <4>3. CASE v = t /\ ~Holds(t, i, n)
        <5>1. n \in Cells /\ n \in Retired
          BY <2>2 DEF MemInv, TypeInv, RecInv, GcTypes, RecordTypes, Cells, Retired
        <5>. QED  BY <2>3, <3>2, <4>3, <5>1, NewlyHeld
      <4>. QED  BY <4>1, <4>2, <4>3
    <3>. QED  BY <3>1, <3>2
  <2>4. marked[u] \subseteq m_arrRetired[m_pHzpRec[u]]
    BY <2>1 DEF MemInv, ThreadInv, Seen
  <2>5. ASSUME NEW v \in Threads, NEW i \in Slots, NEW n \in m_arrRetired[m_pHzpRec[u]], Holds(v, i, n)',
               n \notin marked[u]
        PROVE  Ahead(u, m_pHzpRec[v], i)'
    <3>1. Ahead(u, m_pHzpRec[v], i) /\ m_pHzpRec'[v] = m_pHzpRec[v]
      BY <2>1, <2>3, <2>5 DEF MemInv, ThreadInv, Seen
    <3>. QED  BY <2>2, <3>1 DEF Ahead
  <2>. QED  BY <2>2, <2>4, <2>5 DEF Seen
<1>. QED  BY <1>1, <1>2, <1>3

-----------------------------------------------------------------------------
(* The collector keeps the queue and what threads hold.                    *)

LEMMA CollectorKeepsPcs ==
    ASSUME MemInv, NEW t \in Threads, GcMove(t), NEW u \in Threads
    PROVE  /\ pc'[u] \in QueuePcs <=> pc[u] \in QueuePcs
           /\ pc[u] \in QueuePcs => pc'[u] = pc[u]
           /\ UNCHANGED <<m_pHead, m_pTail, phase, node, next, new>>
<1>1. UNCHANGED <<m_pHead, m_pTail, phase, node, next, new>>
  BY GcIsMine DEF MemInv, locals
<1>2. CASE u = t
  BY <1>1, <1>2, GcIsMine DEF MemInv, GcPcs, Helping, QueuePcs, HeadPcs, NextPcs, TailPcs, NewPcs
<1>3. CASE u # t
  BY <1>1, <1>3, GcIsMine, OthersStay DEF MemInv
<1>. QED  BY <1>2, <1>3

LEMMA CollectorKeepsMemory ==
    ASSUME MemInv, NEW t \in Threads, GcMove(t)
    PROVE  /\ RetiredOnce' /\ FreshLinks' /\ Shape'
           /\ \A u \in Threads : HeldAlive(u)' /\ NewIsPrivate(u)' /\ UnlinkedOnce(u)' /\ LinkRead(u)'
<1>1. /\ live' \subseteq live /\ Retired' \subseteq Retired /\ RetiredOnce'
      /\ live \ live' \subseteq Retired
      /\ \A n \in Cells : n \notin live \ live' => m_pNext'[n] = m_pNext[n]
      /\ \A n \in live \ live' : m_pNext'[n] = NULL
  BY GcMemory
<1>2. UNCHANGED <<m_pHead, m_pTail, phase, node, next, new>>
  BY CollectorKeepsPcs
<1>3. \A u \in Threads : /\ pc'[u] \in QueuePcs <=> pc[u] \in QueuePcs
                         /\ pc[u] \in QueuePcs => pc'[u] = pc[u]
  BY CollectorKeepsPcs
<1>4. \A u \in Threads, i \in Slots, n \in Cells : Holds(u, i, n) => n \notin live \ live'
  BY HeldIsNotFreed
<1>5. live \subseteq Node /\ Dummy \notin Node
  BY QueueAssumption DEF MemInv, TypeInv, RecInv, GcTypes, LifeTypes
<1>6. FreshLinks'
  BY <1>1, <1>2, <1>5 DEF FreshLinks, MemInv, Cells
<1>7. ASSUME NEW u \in Threads PROVE HeldAlive(u)'
  BY <1>1, <1>4, <1>5, CollectorKeepsHolds DEF HeldAlive, Kept, MemInv, ThreadInv
<1>8. ASSUME NEW u \in Threads PROVE NewIsPrivate(u)'
  <2>. SUFFICES ASSUME pc'[u] \in NewPcs PROVE NewIsPrivate(u)'
    BY DEF NewIsPrivate
  <2>1. pc[u] \in NewPcs
    BY <1>3 DEF QueuePcs
  <2>2. /\ new[u] \in live \ Retired /\ m_pNext[new[u]] = NULL
        /\ \A v \in Threads \ {u} : pc[v] \in NewPcs => new[v] # new[u]
        /\ \A v \in Threads, i \in Slots : ~Holds(v, i, new[u])
        /\ \A v \in Threads : pc[v] = "deq_dispose" => node[v] # new[u]
    BY <2>1 DEF MemInv, ThreadInv, NewIsPrivate
  <2>3. new[u] \in live' \ Retired' /\ m_pNext'[new[u]] = NULL
    BY <1>1, <1>5, <2>2 DEF Cells
  <2>4. \A v \in Threads \ {u} : pc'[v] \in NewPcs => new[v] # new[u]
    BY <1>3, <2>2 DEF QueuePcs
  <2>5. \A v \in Threads : pc'[v] = "deq_dispose" => node[v] # new[u]
    BY <1>3, <2>2 DEF QueuePcs, NextPcs
  <2>6. \A v \in Threads, i \in Slots : ~Holds(v, i, new[u])'
    BY <1>2, <2>2, CollectorKeepsHolds
  <2>. QED  BY <1>2, <2>3, <2>4, <2>5, <2>6 DEF NewIsPrivate
<1>9. ASSUME NEW u \in Threads PROVE UnlinkedOnce(u)'
  <2>1. \A v \in Threads : pc'[v] = "deq_dispose" <=> pc[v] = "deq_dispose"
    BY <1>3 DEF QueuePcs, NextPcs
  <2>. QED  BY <1>1, <1>2, <2>1 DEF UnlinkedOnce, MemInv, ThreadInv, Kept
<1>10. ASSUME NEW u \in Threads PROVE LinkRead(u)'
  <2>. SUFFICES ASSUME pc'[u] \in HeadPcs \cup TailPcs PROVE LinkRead(u)'
    BY DEF LinkRead, HeadPcs, TailPcs
  <2>1. pc[u] = pc'[u]
    BY <1>3 DEF QueuePcs
  <2>2. \E i \in Slots : Holds(u, i, node[u])
    BY <2>1 DEF Holds, Slots
  <2>3. node[u] \in Cells
    BY <2>1 DEF MemInv, TypeInv, NotNull, HoldsCells
  <2>4. m_pNext'[node[u]] = m_pNext[node[u]]
    BY <1>1, <1>4, <2>2, <2>3
  <2>. QED  BY <1>2, <2>1, <2>4 DEF LinkRead, MemInv, ThreadInv
<1>11. Shape'
  <2>. SUFFICES ASSUME phase \in {"open", "closed"}
                PROVE  \E S \in SUBSET Cells : List(S)' /\ \A u \in Threads : View(S, u)'
    BY <1>2 DEF Shape
  <2>1. PICK S \in SUBSET Cells : List(S) /\ \A u \in Threads : View(S, u)
    BY DEF MemInv, Shape
  <2>2. \A n \in S : n \notin Retired /\ n \notin live \ live' /\ m_pNext'[n] = m_pNext[n]
    BY <1>1, <2>1 DEF List
  <2>3. List(S)'
    <3>1. S \subseteq Kept' \ Retired'
      BY <1>1, <2>1, <2>2 DEF List, Kept
    <3>2. m_pNext'[m_pTail] # NULL => m_pNext'[m_pNext'[m_pTail]] = NULL
      BY <2>1, <2>2 DEF List
    <3>. QED  BY <1>2, <2>1, <2>2, <3>1, <3>2 DEF List
  <2>4. ASSUME NEW u \in Threads PROVE View(S, u)'
    <3>1. CASE pc[u] \in QueuePcs
      <4>1. pc'[u] = pc[u]
        BY <1>3, <3>1
      <4>2. pc[u] \in TailPcs => m_pNext'[node[u]] = m_pNext[node[u]]
        <5>. SUFFICES ASSUME pc[u] \in TailPcs PROVE m_pNext'[node[u]] = m_pNext[node[u]]
          OBVIOUS
        <5>1. Holds(u, 2, node[u]) /\ node[u] \in Cells
          BY DEF Holds, MemInv, TypeInv, NotNull, HoldsCells
        <5>. QED  BY <1>1, <1>4, <5>1 DEF Slots
      <4>3. m_pNext'[m_pTail] = m_pNext[m_pTail]
        BY <2>1, <2>2 DEF List
      <4>. QED  BY <1>2, <2>1, <4>1, <4>2, <4>3 DEF View
    <3>2. CASE pc[u] \notin QueuePcs
      BY <1>3, <3>2 DEF View, QueuePcs, HeadPcs, NextPcs
    <3>. QED  BY <3>1, <3>2
  <2>. QED  BY <2>3, <2>4
<1>. QED  BY <1>1, <1>6, <1>7, <1>8, <1>9, <1>10, <1>11

-----------------------------------------------------------------------------
(* What the queue does to memory.                                          *)

\* A new node becomes the link of the node that t holds.
Links(t) == /\ pc[t] = "enq_link" /\ pc'[t] = "enq_swing" /\ m_pNext[node[t]] = NULL
            /\ m_pNext' = [m_pNext EXCEPT ![node[t]] = new[t]] /\ node'[t] = node[t]

\* Node n is made for an enqueue.
Makes(t, n) == /\ n \in Node \ live /\ live' = live \cup {n} /\ new'[t] = n
               /\ pc[t] = "idle" /\ phase = "open"

\* The head, which t holds, leaves the queue.
Unlinks(t) == pc[t] = "deq_take" /\ m_pHead = node[t] /\ node'[t] = node[t] /\ m_pHead' = next[t]

\* Node n is retired.
Retires(t, n) == /\ n \in Node /\ RetirePush(t, n)
                 /\ \/ pc[t] = "deq_dispose" /\ n = node[t] /\ pc'[t] # "deq_dispose"
                    \/ pc[t] = "destroy" /\ n = m_pHead /\ phase' = "destroyed"

LEMMA QueueMemory ==
    ASSUME TypeInv, NEW t \in Threads, QueueMove(t)
    PROVE  /\ UNCHANGED live \/ \E n \in Node : Makes(t, n)
           /\ UNCHANGED m_pNext \/ Links(t)
           /\ UNCHANGED m_arrRetired \/ \E n \in Node : Retires(t, n)
           /\ pc'[t] \in NewPcs => (\E n \in Node : Makes(t, n))
                                    \/ (pc[t] \in NewPcs /\ new'[t] = new[t])
           /\ pc'[t] = "deq_dispose" => Unlinks(t) /\ UNCHANGED <<live, m_arrRetired, m_pNext>>
<1>. Mine(t) /\ HoldsCells(t)
  BY QueueIsMine DEF TypeInv, NotNull
<1>. USE DEF Mine, Goto, At, Enter, TypeInv, RecInv, GcTypes, CodeTypes, LocalTypes
<1>1. UNCHANGED live \/ \E n \in Node : Makes(t, n)
  BY DEF Makes, KeepGc, Choices, QueueMove, QueueStep, EnqLoad, EnqAssign,
     EnqCheck, EnqNext, EnqHelp, EnqLink, EnqSwing, DeqLoad, DeqAssign, DeqCheck, DeqNext,
     DeqAssignNext, DeqCheckNext, DeqValid, DeqTail, DeqHelp, DeqTake, DeqDispose, Leave, Clear,
     Destroy, Enqueue, Dequeue, Close
<1>2. UNCHANGED m_pNext \/ Links(t)
  BY DEF Links, Go, queue, QueueMove, QueueStep, EnqLoad, EnqAssign,
     EnqCheck, EnqNext, EnqHelp, EnqLink, EnqSwing, DeqLoad, DeqAssign, DeqCheck, DeqNext,
     DeqAssignNext, DeqCheckNext, DeqValid, DeqTail, DeqHelp, DeqTake, DeqDispose, Leave, Clear,
     Destroy, Enqueue, Dequeue, Close
<1>3. UNCHANGED m_arrRetired \/ \E n \in Node : Retires(t, n)
  <2>1. CASE DeqDispose(t)
    BY <2>1 DEF Retires, DeqDispose, Dispose, HoldsCells, Cells
  <2>2. CASE Destroy(t)
    <3>1. m_pHead \in Cells
      BY <2>2, InUse DEF Destroy, QueuePcs
    <3>. QED  BY <2>2, <3>1 DEF Retires, Destroy, Dispose, Cells
  <2>3. CASE UNCHANGED m_arrRetired
    BY <2>3
  <2>. QED
    BY <2>1, <2>2, <2>3 DEF KeepGc, QueueMove, QueueStep, EnqLoad, EnqAssign,
     EnqCheck, EnqNext, EnqHelp, EnqLink, EnqSwing, DeqLoad, DeqAssign, DeqCheck, DeqNext,
     DeqAssignNext, DeqCheckNext, DeqValid, DeqTail, DeqHelp, DeqTake, DeqDispose, Leave, Clear,
     Destroy, Enqueue, Dequeue, Close
<1>4. pc'[t] \in NewPcs => (\E n \in Node : Makes(t, n)) \/ (pc[t] \in NewPcs /\ new'[t] = new[t])
  BY DEF NewPcs, Makes, Choices, Again, Go, locals, Dispose, QueueMove, QueueStep, EnqLoad,
     EnqAssign,
     EnqCheck, EnqNext, EnqHelp, EnqLink, EnqSwing, DeqLoad, DeqAssign, DeqCheck, DeqNext,
     DeqAssignNext, DeqCheckNext, DeqValid, DeqTail, DeqHelp, DeqTake, DeqDispose, Leave, Clear,
     Destroy, Enqueue, Dequeue, Close
<1>5. pc'[t] = "deq_dispose" => Unlinks(t) /\ UNCHANGED <<live, m_arrRetired, m_pNext>>
  BY DEF Unlinks, Again, Go, KeepGc, Dispose, QueueMove, QueueStep, EnqLoad, EnqAssign,
     EnqCheck, EnqNext, EnqHelp, EnqLink, EnqSwing, DeqLoad, DeqAssign, DeqCheck, DeqNext,
     DeqAssignNext, DeqCheckNext, DeqValid, DeqTail, DeqHelp, DeqTake, DeqDispose, Leave, Clear,
     Destroy, Enqueue, Dequeue, Close
<1>. QED  BY <1>1, <1>2, <1>3, <1>4, <1>5

LEMMA OwnLinkRead ==
    ASSUME TypeInv, NEW t \in Threads, QueueMove(t), LinkRead(t)
    PROVE  LinkRead(t)'
<1>. Mine(t) /\ HoldsCells(t)
  BY QueueIsMine DEF TypeInv, NotNull
<1>. USE DEF LinkRead, Mine, Goto, At, TypeInv, RecInv, GcTypes, CodeTypes, LocalTypes, QueueTypes,
     KeepGc, Again, Go, locals, Dispose, queue, HoldsCells, HeadPcs, TailPcs
<1>1. CASE EnqLoad(t)
  BY <1>1 DEF EnqLoad
<1>2. CASE EnqAssign(t)
  BY <1>2 DEF EnqAssign
<1>3. CASE EnqCheck(t)
  BY <1>3 DEF EnqCheck
<1>4. CASE EnqNext(t)
  BY <1>4 DEF EnqNext
<1>5. CASE EnqHelp(t)
  BY <1>5 DEF EnqHelp
<1>6. CASE EnqLink(t)
  BY <1>6 DEF EnqLink
<1>7. CASE EnqSwing(t)
  BY <1>7 DEF EnqSwing
<1>8. CASE DeqLoad(t)
  BY <1>8 DEF DeqLoad
<1>9. CASE DeqAssign(t)
  BY <1>9 DEF DeqAssign
<1>10. CASE DeqCheck(t)
  BY <1>10 DEF DeqCheck
<1>11. CASE DeqNext(t)
  BY <1>11 DEF DeqNext
<1>12. CASE DeqAssignNext(t)
  BY <1>12 DEF DeqAssignNext
<1>13. CASE DeqCheckNext(t)
  BY <1>13 DEF DeqCheckNext
<1>14. CASE DeqValid(t)
  BY <1>14 DEF DeqValid
<1>15. CASE DeqTail(t)
  BY <1>15 DEF DeqTail
<1>16. CASE DeqHelp(t)
  BY <1>16 DEF DeqHelp
<1>17. CASE DeqTake(t)
  BY <1>17 DEF DeqTake
<1>18. CASE DeqDispose(t)
  BY <1>18 DEF DeqDispose
<1>19. CASE Leave(t)
  BY <1>19 DEF Leave
<1>20. CASE Clear(t)
  BY <1>20 DEF Clear
<1>21. CASE Destroy(t)
  BY <1>21 DEF Destroy
<1>22. CASE Enqueue(t)
  BY <1>22 DEF Enqueue
<1>23. CASE Dequeue(t)
  BY <1>23 DEF Dequeue
<1>24. CASE Close(t)
  BY <1>24 DEF Close
<1>. QED
  BY <1>1, <1>2, <1>3, <1>4, <1>5, <1>6, <1>7, <1>8, <1>9, <1>10, <1>11, <1>12,
     <1>13, <1>14, <1>15, <1>16, <1>17, <1>18, <1>19, <1>20, <1>21, <1>22, <1>23, <1>24
          DEF QueueMove, QueueStep

\* A node that is retired is in nobody's hands.
LEMMA RetiredByOne ==
    ASSUME MemInv, NEW t \in Threads, QueueMove(t), NEW n \in Node, Retires(t, n)
    PROVE  /\ n \in live \ Retired
           /\ \A u \in Threads : pc[u] \in NewPcs => new[u] # n
           /\ \A u \in Threads \ {t} : pc[u] = "deq_dispose" => node[u] # n
           /\ \A S \in SUBSET Cells : phase' \in {"open", "closed"} /\ View(S, t) => n \notin S
<1>. n # Dummy
  BY QueueAssumption
<1>1. CASE pc[t] = "deq_dispose" /\ n = node[t]
  BY <1>1 DEF MemInv, ThreadInv, UnlinkedOnce, NewIsPrivate, View, Kept
<1>2. CASE pc[t] = "destroy" /\ n = m_pHead /\ phase' = "destroyed"
  <2>1. t = Owner /\ \A u \in Threads \ {t} : pc[u] = "idle"
    BY <1>2 DEF MemInv, TypeInv, Alone, InClear
  <2>2. PICK S \in SUBSET Cells : List(S)
    BY <1>2, QueueShape DEF QueuePcs
  <2>3. n \in live \ Retired
    BY <1>2, <2>2 DEF List, Kept
  <2>. QED  BY <1>2, <2>1, <2>3 DEF NewPcs
<1>. QED  BY <1>1, <1>2 DEF Retires

\* The head that is unlinked was in the queue.
LEMMA UnlinkedWasQueued ==
    ASSUME MemInv, NEW t \in Threads, Unlinks(t)
    PROVE  /\ m_pHead \in Kept \ Retired
           /\ \A u \in Threads : pc[u] \in NewPcs => new[u] # m_pHead
           /\ \A u \in Threads : pc[u] = "deq_dispose" => node[u] # m_pHead
<1>1. PICK S \in SUBSET Cells : List(S) /\ \A u \in Threads : View(S, u)
  BY QueueShape DEF Unlinks, QueuePcs, HeadPcs
<1>. QED  BY <1>1 DEF List, View

LEMMA RetiredNodes ==
    ASSUME MemInv, NEW t \in Threads, QueueMove(t)
    PROVE  \/ Retired' = Retired /\ UNCHANGED m_arrRetired
           \/ \E n \in Node : Retires(t, n) /\ Retired' = Retired \cup {n}
<1>1. CASE UNCHANGED m_arrRetired
  BY <1>1 DEF Retired
<1>2. ASSUME NEW n \in Node, Retires(t, n)
      PROVE  Retired' = Retired \cup {n}
  <2>1. m_pHzpRec[t] \in Records
    BY QueueIsMine, RecordsUsed DEF MemInv, TypeInv
  <2>2. \A r \in Records : m_arrRetired'[r] =
            IF r = m_pHzpRec[t] THEN m_arrRetired[r] \cup {n} ELSE m_arrRetired[r]
    BY <1>2, <2>1 DEF Retires, RetirePush, MemInv, TypeInv, RecInv, GcTypes, RecordTypes
  <2>3. ASSUME NEW x \in Retired' PROVE x \in Retired \cup {n}
    <3>1. PICK r \in Records : x \in m_arrRetired'[r]
      BY DEF Retired
    <3>2. x \in m_arrRetired[r] \cup {n}
      BY <2>2, <3>1
    <3>. QED  BY <3>2 DEF Retired
  <2>4. ASSUME NEW x \in Retired PROVE x \in Retired'
    <3>1. PICK r \in Records : x \in m_arrRetired[r]
      BY DEF Retired
    <3>2. x \in m_arrRetired'[r]
      BY <2>2, <3>1
    <3>. QED  BY <3>2 DEF Retired
  <2>5. n \in Retired'
    BY <2>1, <2>2 DEF Retired
  <2>. QED  BY <2>3, <2>4, <2>5
<1>. QED  BY <1>1, <1>2, QueueMemory DEF MemInv

LEMMA QueueKeepsRetired ==
    ASSUME MemInv, NEW t \in Threads, QueueMove(t)
    PROVE  RetiredOnce'
<1>1. live \subseteq live'
  BY QueueMemory DEF MemInv, Makes
<1>2. CASE UNCHANGED m_arrRetired
  BY <1>1, <1>2 DEF MemInv, RetiredOnce, Retired
<1>3. ASSUME NEW n \in Node, Retires(t, n)
      PROVE  RetiredOnce'
  <2>1. n \in live \ Retired
    BY <1>3, RetiredByOne
  <2>2. m_pHzpRec[t] \in Records
    BY QueueIsMine, RecordsUsed DEF MemInv, TypeInv
  <2>3. \A r \in Records : m_arrRetired'[r] =
            IF r = m_pHzpRec[t] THEN m_arrRetired[r] \cup {n} ELSE m_arrRetired[r]
    BY <1>3, <2>2 DEF Retires, RetirePush, MemInv, TypeInv, RecInv, GcTypes, RecordTypes
  <2>4. \A r \in Records : m_arrRetired[r] \subseteq live /\ n \notin m_arrRetired[r]
    BY <2>1 DEF MemInv, RetiredOnce, Retired
  <2>5. \A r \in Records : m_arrRetired'[r] \subseteq live'
    BY <1>1, <2>1, <2>3, <2>4
  <2>6. Retired' \subseteq live'
    BY <2>5 DEF Retired
  <2>7. ASSUME NEW r \in Records, NEW s \in Records, r # s
        PROVE  m_arrRetired'[r] \cap m_arrRetired'[s] = {}
    <3>1. m_arrRetired[r] \cap m_arrRetired[s] = {}
      BY <2>7 DEF MemInv, RetiredOnce
    <3>. QED  BY <2>3, <2>4, <2>7, <3>1
  <2>. QED  BY <2>6, <2>7 DEF RetiredOnce
<1>. QED  BY <1>2, <1>3, QueueMemory DEF MemInv

LEMMA QueueKeepsLinks ==
    ASSUME MemInv, NEW t \in Threads, QueueMove(t), NEW u \in Threads
    PROVE  LinkRead(u)' /\ FreshLinks'
<1>1. Mine(t)
  BY QueueIsMine DEF MemInv
<1>2. \A n \in Cells : m_pNext'[n] = m_pNext[n] \/ (Links(t) /\ n = node[t] /\ m_pNext[n] = NULL)
  BY QueueMemory DEF MemInv, TypeInv, QueueTypes, Links
<1>3. LinkRead(u)'
  <2>1. CASE u = t
    BY <2>1, OwnLinkRead DEF MemInv, ThreadInv
  <2>2. CASE u # t
    <3>. SUFFICES ASSUME pc'[u] \in HeadPcs \cup TailPcs PROVE LinkRead(u)'
      BY DEF LinkRead, HeadPcs, TailPcs
    <3>1. pc'[u] = pc[u] /\ node'[u] = node[u] /\ next'[u] = next[u] /\ new'[u] = new[u]
      BY <1>1, <2>2, OthersStay DEF MemInv
    <3>2. node[u] \in Cells /\ (pc[u] = "enq_swing" => new[u] # NULL)
      BY <3>1, CollectorAssumption DEF MemInv, TypeInv, NotNull, HoldsCells
    <3>3. LinkRead(u)
      BY DEF MemInv, ThreadInv
    <3>4. m_pNext'[node[u]] = m_pNext[node[u]] \/ m_pNext[node[u]] = NULL
      BY <1>2, <3>2
    <3>. QED  BY <3>1, <3>2, <3>3, <3>4 DEF LinkRead
  <2>. QED  BY <2>1, <2>2
<1>4. FreshLinks'
  <2>1. live \subseteq live'
    BY QueueMemory DEF MemInv, Makes
  <2>2. phase # "ended"
    <3>1. pc[t] = "idle" => phase = "open"
      BY DEF At, HelpDone, QueueMove, QueueStep, EnqLoad, EnqAssign, EnqCheck, EnqNext, EnqHelp,
         EnqLink, EnqSwing, DeqLoad, DeqAssign, DeqCheck, DeqNext, DeqAssignNext, DeqCheckNext,
         DeqValid, DeqTail, DeqHelp, DeqTake, DeqDispose, Leave, Clear, Destroy, Enqueue, Dequeue,
         Close
    <3>. QED  BY <3>1 DEF MemInv, TypeInv, Alone
  <2>3. Links(t) => node[t] \in Kept
    <3>. SUFFICES ASSUME Links(t) PROVE node[t] \in Kept
      OBVIOUS
    <3>1. Holds(t, 2, node[t]) /\ node[t] \in Cells
      BY DEF Links, Holds, TailPcs, MemInv, TypeInv, NotNull, HoldsCells
    <3>. QED  BY <3>1 DEF MemInv, ThreadInv, HeldAlive, Slots
  <2>4. ASSUME NEW n \in Node \ live' PROVE m_pNext'[n] = NULL
    <3>1. n \in Cells /\ n \notin Kept /\ m_pNext[n] = NULL
      BY <2>1, <2>2, QueueAssumption DEF Cells, Kept, MemInv, FreshLinks
    <3>. QED  BY <1>2, <2>3, <3>1
  <2>. QED  BY <2>4 DEF FreshLinks
<1>. QED  BY <1>3, <1>4

LEMMA QueueKeepsHolds ==
    ASSUME MemInv, NEW t \in Threads, QueueMove(t),
           NEW u \in Threads, NEW i \in Slots, NEW n \in Cells, Holds(u, i, n)'
    PROVE  \/ Holds(u, i, n)
           \/ n \in Kept \ Retired /\ \A v \in Threads : pc[v] \in NewPcs => new[v] # n
<1>1. CASE u = t
  BY <1>1, NewlyHeld
<1>2. CASE u # t
  BY <1>2, QueueIsMine, OthersStay DEF MemInv
<1>. QED  BY <1>1, <1>2

LEMMA QueueKeepsNew ==
    ASSUME MemInv, NEW t \in Threads, QueueMove(t), NEW u \in Threads
    PROVE  NewIsPrivate(u)'
<1>. SUFFICES ASSUME pc'[u] \in NewPcs PROVE NewIsPrivate(u)'
  BY DEF NewIsPrivate
<1>1. Mine(t)
  BY QueueIsMine DEF MemInv
<1>2. \A v \in Threads \ {t} : pc'[v] = pc[v] /\ node'[v] = node[v] /\ new'[v] = new[v]
  BY <1>1, OthersStay DEF MemInv
<1>3. live \subseteq live' /\ Retired \subseteq live /\ live \subseteq Node /\ Dummy \notin Node
  BY QueueMemory, QueueAssumption DEF MemInv, Makes, RetiredOnce, TypeInv, RecInv, GcTypes,
     LifeTypes
<1>4. CASE u = t /\ \E n \in Node : Makes(t, n)
  <2>1. PICK n \in Node : Makes(t, n)
    BY <1>4
  <2>2. n \in live' /\ new'[t] = n /\ n \notin Kept
    BY <2>1, <1>3 DEF Makes, Kept
  <2>3. n \notin Retired'
    BY <1>3, <2>1, RetiredNodes DEF Makes, Retires
  <2>4. m_pNext'[n] = NULL
    <3>1. m_pNext[n] = NULL
      BY <2>1 DEF Makes, MemInv, FreshLinks
    <3>2. m_pNext' = m_pNext
      BY <2>1, QueueMemory DEF Makes, Links, MemInv
    <3>. QED  BY <3>1, <3>2
  <2>5. \A v \in Threads \ {u} : pc'[v] \in NewPcs => new'[v] # n
    BY <1>2, <1>4, <2>2 DEF MemInv, ThreadInv, NewIsPrivate, Kept
  <2>6. ASSUME NEW v \in Threads, NEW i \in Slots PROVE ~Holds(v, i, n)'
    <3>1. n \in Cells
      BY DEF Cells
    <3>. QED  BY <2>2, <3>1, QueueKeepsHolds DEF MemInv, ThreadInv, HeldAlive
  <2>7. ASSUME NEW v \in Threads, pc'[v] = "deq_dispose" PROVE node'[v] # n
    <3>1. v # t
      BY <1>4, <2>7 DEF NewPcs
    <3>. QED  BY <1>2, <2>2, <2>7, <3>1 DEF MemInv, ThreadInv, UnlinkedOnce
  <2>. QED  BY <1>4, <2>2, <2>3, <2>4, <2>5, <2>6, <2>7 DEF NewIsPrivate
<1>5. CASE pc[u] \in NewPcs /\ new'[u] = new[u]
  <2>1. /\ new[u] \in live \ Retired /\ m_pNext[new[u]] = NULL
        /\ \A v \in Threads \ {u} : pc[v] \in NewPcs => new[v] # new[u]
        /\ \A v \in Threads, i \in Slots : ~Holds(v, i, new[u])
        /\ \A v \in Threads : pc[v] = "deq_dispose" => node[v] # new[u]
    BY <1>5 DEF MemInv, ThreadInv, NewIsPrivate
  <2>2. new[u] \in live' \ Retired' /\ new[u] \in Cells
    BY <1>3, <1>5, <2>1, RetiredNodes, RetiredByOne DEF Cells
  <2>3. m_pNext'[new[u]] = NULL
    <3>1. Links(t) => node[t] # new[u]
      BY <2>1 DEF Links, Holds, TailPcs, Slots
    <3>. QED  BY <2>1, <2>2, <3>1, QueueMemory DEF Links, MemInv, TypeInv, QueueTypes
  <2>4. ASSUME NEW v \in Threads \ {u}, pc'[v] \in NewPcs PROVE new'[v] # new[u]
    BY <1>2, <2>1, <2>4, QueueMemory DEF Makes, MemInv
  <2>5. \A v \in Threads, i \in Slots : ~Holds(v, i, new[u])'
    BY <1>5, <2>1, <2>2, QueueKeepsHolds
  <2>6. ASSUME NEW v \in Threads, pc'[v] = "deq_dispose" PROVE node'[v] # new[u]
    <3>1. CASE v = t
      <4>1. Unlinks(t)
        BY <2>6, <3>1, QueueMemory DEF MemInv
      <4>. QED  BY <1>5, <3>1, <4>1, UnlinkedWasQueued DEF Unlinks
    <3>2. CASE v # t
      BY <1>2, <2>1, <2>6, <3>2
    <3>. QED  BY <3>1, <3>2
  <2>. QED  BY <1>5, <2>2, <2>3, <2>4, <2>5, <2>6 DEF NewIsPrivate
<1>. QED  BY <1>2, <1>4, <1>5, QueueMemory DEF MemInv

LEMMA QueueKeepsUnlinked ==
    ASSUME MemInv, NEW t \in Threads, QueueMove(t), NEW u \in Threads
    PROVE  UnlinkedOnce(u)'
<1>. SUFFICES ASSUME pc'[u] = "deq_dispose" PROVE UnlinkedOnce(u)'
  BY DEF UnlinkedOnce
<1>1. \A v \in Threads \ {t} : pc'[v] = pc[v] /\ node'[v] = node[v]
  BY QueueIsMine, OthersStay DEF MemInv
<1>2. Kept \subseteq Kept'
  BY QueueMemory DEF MemInv, Makes, Kept
<1>3. CASE u = t
  <2>1. Unlinks(t) /\ UNCHANGED <<live, m_arrRetired, m_pNext>>
    BY <1>3, QueueMemory DEF MemInv
  <2>2. Retired' = Retired
    BY <2>1 DEF Retired
  <2>. QED  BY <1>1, <1>2, <1>3, <2>1, <2>2, UnlinkedWasQueued DEF UnlinkedOnce, Unlinks
<1>4. CASE u # t
  <2>1. /\ pc[u] = "deq_dispose" /\ node'[u] = node[u] /\ node[u] \in Kept \ Retired
        /\ \A v \in Threads \ {u} : pc[v] = "deq_dispose" => node[v] # node[u]
    BY <1>1, <1>4 DEF MemInv, ThreadInv, UnlinkedOnce
  <2>2. node[u] \in Kept' \ Retired'
    BY <1>2, <1>4, <2>1, RetiredNodes, RetiredByOne
  <2>3. pc'[t] = "deq_dispose" => node'[t] # node[u]
    BY <2>1, QueueMemory, UnlinkedWasQueued DEF MemInv, Unlinks
  <2>. QED  BY <1>1, <1>4, <2>1, <2>2, <2>3 DEF UnlinkedOnce
<1>. QED  BY <1>3, <1>4

-----------------------------------------------------------------------------
(* The shape of the queue.                                                 *)

\* The tail moves on to the link of the node that t holds.
Swings(t) == /\ pc[t] \in {"enq_help", "enq_swing", "deq_help"} /\ m_pTail = node[t]
             /\ m_pTail' = IF pc[t] = "enq_swing" THEN new[t] ELSE next[t]
             /\ pc'[t] \notin HeadPcs \cup TailPcs \cup {"deq_dispose"}
             /\ UNCHANGED <<m_pHead, m_pNext>>

LEMMA QueuePointers ==
    ASSUME TypeInv, NEW t \in Threads, QueueMove(t)
    PROVE  \/ phase' \notin {"open", "closed"}
           \/ UNCHANGED <<m_pHead, m_pTail, m_pNext>> /\ ~Unlinks(t)
           \/ Links(t) /\ UNCHANGED <<m_pHead, m_pTail>>
           \/ Unlinks(t) /\ UNCHANGED <<m_pTail, m_pNext>> /\ pc'[t] = "deq_dispose"
           \/ Swings(t)
<1>. Mine(t)
  BY QueueIsMine
<1>. USE DEF Mine, Goto, At, Enter, HelpDone, TypeInv, RecInv, GcTypes, CodeTypes, KeepGc, Again,
     Go,
     locals, queue, Unlinks, Swings, Links, SwingTail, HeadPcs, TailPcs
<1>1. CASE EnqLoad(t)
  BY <1>1 DEF EnqLoad
<1>2. CASE EnqAssign(t)
  BY <1>2 DEF EnqAssign
<1>3. CASE EnqCheck(t)
  BY <1>3 DEF EnqCheck
<1>4. CASE EnqNext(t)
  BY <1>4 DEF EnqNext
<1>5. CASE EnqHelp(t)
  BY <1>5 DEF EnqHelp
<1>6. CASE EnqLink(t)
  BY <1>6 DEF EnqLink
<1>7. CASE EnqSwing(t)
  BY <1>7 DEF EnqSwing
<1>8. CASE DeqLoad(t)
  BY <1>8 DEF DeqLoad
<1>9. CASE DeqAssign(t)
  BY <1>9 DEF DeqAssign
<1>10. CASE DeqCheck(t)
  BY <1>10 DEF DeqCheck
<1>11. CASE DeqNext(t)
  BY <1>11 DEF DeqNext
<1>12. CASE DeqAssignNext(t)
  BY <1>12 DEF DeqAssignNext
<1>13. CASE DeqCheckNext(t)
  BY <1>13 DEF DeqCheckNext
<1>14. CASE DeqValid(t)
  BY <1>14 DEF DeqValid
<1>15. CASE DeqTail(t)
  BY <1>15 DEF DeqTail
<1>16. CASE DeqHelp(t)
  BY <1>16 DEF DeqHelp
<1>17. CASE DeqTake(t)
  BY <1>17 DEF DeqTake
<1>18. CASE DeqDispose(t)
  BY <1>18 DEF DeqDispose
<1>19. CASE Leave(t)
  BY <1>19 DEF Leave
<1>20. CASE Clear(t)
  BY <1>20 DEF Clear
<1>21. CASE Destroy(t)
  BY <1>21 DEF Destroy
<1>22. CASE Enqueue(t)
  BY <1>22 DEF Enqueue
<1>23. CASE Dequeue(t)
  BY <1>23 DEF Dequeue
<1>24. CASE Close(t)
  BY <1>24 DEF Close
<1>. QED
  BY <1>1, <1>2, <1>3, <1>4, <1>5, <1>6, <1>7, <1>8, <1>9, <1>10, <1>11, <1>12,
     <1>13, <1>14, <1>15, <1>16, <1>17, <1>18, <1>19, <1>20, <1>21, <1>22, <1>23, <1>24
          DEF QueueMove, QueueStep

\* A step that leaves the pointers alone leaves its thread with a view of them.
LEMMA OwnView ==
    ASSUME TypeInv, NEW t \in Threads, QueueMove(t), UNCHANGED <<m_pHead, m_pTail, m_pNext>>,
           ~Unlinks(t), NEW S \in SUBSET Cells, List(S), View(S, t),
           \A n \in Node : Makes(t, n) => n \notin S
    PROVE  View(S, t)'
<1>. Mine(t) /\ m_pNext[m_pTail] # m_pTail
  BY QueueIsMine, CollectorAssumption, QueueAssumption DEF List, Cells
<1>1. pc'[t] \in NewPcs => new'[t] \notin S
  BY QueueMemory DEF View, Makes
<1>2. pc'[t] # "deq_dispose"
  BY QueueMemory
<1>. USE DEF View, Mine, Goto, At, TypeInv, RecInv, GcTypes, CodeTypes, LocalTypes, KeepGc,
     Again, Go,
     locals, Dispose, queue, HeadPcs, TailPcs, List
<1>3. /\ pc'[t] \in HeadPcs /\ node'[t] \in S => node'[t] = m_pHead
      /\ pc'[t] = "deq_take" /\ m_pHead = node'[t] => m_pTail # node'[t]
  <2>1. CASE EnqLoad(t)
    BY <2>1 DEF EnqLoad
  <2>2. CASE EnqAssign(t)
    BY <2>2 DEF EnqAssign
  <2>3. CASE EnqCheck(t)
    BY <2>3 DEF EnqCheck
  <2>4. CASE EnqNext(t)
    BY <2>4 DEF EnqNext
  <2>5. CASE EnqHelp(t)
    BY <2>5 DEF EnqHelp
  <2>6. CASE EnqLink(t)
    BY <2>6 DEF EnqLink
  <2>7. CASE EnqSwing(t)
    BY <2>7 DEF EnqSwing
  <2>8. CASE DeqLoad(t)
    BY <2>8 DEF DeqLoad
  <2>9. CASE DeqAssign(t)
    BY <2>9 DEF DeqAssign
  <2>10. CASE DeqCheck(t)
    BY <2>10 DEF DeqCheck
  <2>11. CASE DeqNext(t)
    BY <2>11 DEF DeqNext
  <2>12. CASE DeqAssignNext(t)
    BY <2>12 DEF DeqAssignNext
  <2>13. CASE DeqCheckNext(t)
    BY <2>13 DEF DeqCheckNext
  <2>14. CASE DeqValid(t)
    BY <2>14 DEF DeqValid
  <2>15. CASE DeqTail(t)
    BY <2>15 DEF DeqTail
  <2>16. CASE DeqHelp(t)
    BY <2>16 DEF DeqHelp
  <2>17. CASE DeqTake(t)
    BY <2>17 DEF DeqTake
  <2>18. CASE DeqDispose(t)
    BY <2>18 DEF DeqDispose
  <2>19. CASE Leave(t)
    BY <2>19 DEF Leave
  <2>20. CASE Clear(t)
    BY <2>20 DEF Clear
  <2>21. CASE Destroy(t)
    BY <2>21 DEF Destroy
  <2>22. CASE Enqueue(t)
    BY <2>22 DEF Enqueue
  <2>23. CASE Dequeue(t)
    BY <2>23 DEF Dequeue
  <2>24. CASE Close(t)
    BY <2>24 DEF Close
  <2>. QED
    BY <2>1, <2>2, <2>3, <2>4, <2>5, <2>6, <2>7, <2>8, <2>9, <2>10, <2>11, <2>12,
       <2>13, <2>14, <2>15, <2>16, <2>17, <2>18, <2>19, <2>20, <2>21, <2>22, <2>23, <2>24
            DEF QueueMove, QueueStep
<1>4. /\ pc'[t] \in TailPcs /\ m_pNext[node'[t]] = NULL => node'[t] \in S
      /\ pc'[t] \in TailPcs => m_pNext[m_pTail] # node'[t]
  <2>1. CASE EnqLoad(t)
    BY <2>1 DEF EnqLoad
  <2>2. CASE EnqAssign(t)
    BY <2>2 DEF EnqAssign
  <2>3. CASE EnqCheck(t)
    BY <2>3 DEF EnqCheck
  <2>4. CASE EnqNext(t)
    BY <2>4 DEF EnqNext
  <2>5. CASE EnqHelp(t)
    BY <2>5 DEF EnqHelp
  <2>6. CASE EnqLink(t)
    BY <2>6 DEF EnqLink
  <2>7. CASE EnqSwing(t)
    BY <2>7 DEF EnqSwing
  <2>8. CASE DeqLoad(t)
    BY <2>8 DEF DeqLoad
  <2>9. CASE DeqAssign(t)
    BY <2>9 DEF DeqAssign
  <2>10. CASE DeqCheck(t)
    BY <2>10 DEF DeqCheck
  <2>11. CASE DeqNext(t)
    BY <2>11 DEF DeqNext
  <2>12. CASE DeqAssignNext(t)
    BY <2>12 DEF DeqAssignNext
  <2>13. CASE DeqCheckNext(t)
    BY <2>13 DEF DeqCheckNext
  <2>14. CASE DeqValid(t)
    BY <2>14 DEF DeqValid
  <2>15. CASE DeqTail(t)
    BY <2>15 DEF DeqTail
  <2>16. CASE DeqHelp(t)
    BY <2>16 DEF DeqHelp
  <2>17. CASE DeqTake(t)
    BY <2>17 DEF DeqTake
  <2>18. CASE DeqDispose(t)
    BY <2>18 DEF DeqDispose
  <2>19. CASE Leave(t)
    BY <2>19 DEF Leave
  <2>20. CASE Clear(t)
    BY <2>20 DEF Clear
  <2>21. CASE Destroy(t)
    BY <2>21 DEF Destroy
  <2>22. CASE Enqueue(t)
    BY <2>22 DEF Enqueue
  <2>23. CASE Dequeue(t)
    BY <2>23 DEF Dequeue
  <2>24. CASE Close(t)
    BY <2>24 DEF Close
  <2>. QED
    BY <2>1, <2>2, <2>3, <2>4, <2>5, <2>6, <2>7, <2>8, <2>9, <2>10, <2>11, <2>12,
       <2>13, <2>14, <2>15, <2>16, <2>17, <2>18, <2>19, <2>20, <2>21, <2>22, <2>23, <2>24
            DEF QueueMove, QueueStep
<1>. QED  BY <1>1, <1>2, <1>3, <1>4

\* What the shape of the queue leaves out after a step is what it left out before.
LEMMA StillInside ==
    ASSUME MemInv, NEW t \in Threads, QueueMove(t), phase' \in {"open", "closed"},
           NEW S \in SUBSET Cells, List(S), View(S, t)
    PROVE  S \subseteq Kept' \ Retired'
<1>1. Kept \subseteq Kept'
  BY QueueMemory DEF MemInv, Makes, Kept
<1>. QED  BY <1>1, RetiredNodes, RetiredByOne DEF List

LEMMA QuietShape ==
    ASSUME MemInv, NEW t \in Threads, QueueMove(t), phase' \in {"open", "closed"},
           UNCHANGED <<m_pHead, m_pTail, m_pNext>>, ~Unlinks(t),
           NEW S \in SUBSET Cells, List(S), \A u \in Threads : View(S, u)
    PROVE  List(S)' /\ \A u \in Threads : View(S, u)'
<1>1. List(S)'
  BY StillInside DEF List
<1>2. ASSUME NEW n \in Node, Makes(t, n) PROVE n \notin S
  BY <1>2, QueueAssumption DEF Makes, List, Kept
<1>3. View(S, t)'
  BY <1>2, OwnView DEF MemInv
<1>4. ASSUME NEW u \in Threads \ {t} PROVE View(S, u)'
  BY QueueIsMine, OthersStay DEF View, MemInv
<1>. QED  BY <1>1, <1>3, <1>4

\* The tail moves to the last node.
LEMMA SwingShape ==
    ASSUME MemInv, NEW t \in Threads, QueueMove(t), phase' \in {"open", "closed"}, Swings(t),
           NEW S \in SUBSET Cells, List(S), \A u \in Threads : View(S, u)
    PROVE  List(S)' /\ \A u \in Threads : View(S, u)'
<1>1. m_pTail' = m_pNext[m_pTail] /\ m_pTail' # NULL
  BY CollectorAssumption DEF Swings, MemInv, ThreadInv, LinkRead, TypeInv, NotNull,
         HoldsCells, NextPcs
<1>2. m_pTail' \in S /\ m_pNext[m_pTail'] = NULL /\ m_pTail' # m_pHead
  BY <1>1 DEF List
<1>3. List(S)'
  BY <1>2, StillInside DEF List, Swings
<1>4. ASSUME NEW u \in Threads \ {t} PROVE View(S, u)'
  <2>1. pc'[u] = pc[u] /\ node'[u] = node[u] /\ new'[u] = new[u]
    BY QueueIsMine, OthersStay DEF MemInv
  <2>2. pc[u] \in TailPcs => node[u] # NULL
    BY QueueAssumption, CollectorAssumption DEF MemInv, TypeInv, NotNull, HoldsCells, Cells
  <2>. QED  BY <1>2, <2>1, <2>2 DEF View, Swings
<1>5. View(S, t)'
  <2>1. pc'[t] \in NewPcs => new'[t] = new[t] /\ pc[t] \in NewPcs
    BY QueueMemory DEF MemInv, Makes, Swings
  <2>. QED  BY <2>1 DEF View, Swings, HeadPcs
<1>. QED  BY <1>3, <1>4, <1>5

\* The last node of the queue gets a link, and its new successor is the last.
LEMMA LinkShape ==
    ASSUME MemInv, NEW t \in Threads, QueueMove(t), phase' \in {"open", "closed"}, Links(t),
           UNCHANGED <<m_pHead, m_pTail>>,
           NEW S \in SUBSET Cells, List(S), \A u \in Threads : View(S, u),
           NEW x, x = node[t], NEW z, z = new[t], NEW T, T = S \cup {z}
    PROVE  T \in SUBSET Cells /\ List(T)' /\ \A u \in Threads : View(T, u)'
<1>1. /\ z \in live \ Retired /\ m_pNext[z] = NULL /\ z # NULL /\ z \in Cells
      /\ \A u \in Threads \ {t} : pc[u] \in NewPcs => new[u] # z
      /\ \A u \in Threads, i \in Slots : ~Holds(u, i, z)
      /\ \A u \in Threads : pc[u] = "deq_dispose" => node[u] # z
  BY CollectorAssumption DEF Links, NewPcs, MemInv, ThreadInv, NewIsPrivate, TypeInv, NotNull,
     HoldsCells, Cells
<1>2. x \in S /\ z \notin S /\ m_pNext[x] = NULL /\ m_pTail = x
  <2>1. x \in S /\ z \notin S /\ m_pNext[x] = NULL /\ m_pNext[m_pTail] # x
    BY DEF Links, View, NewPcs, TailPcs
  <2>2. m_pNext[m_pTail] = NULL
    <3>. SUFFICES ASSUME m_pNext[m_pTail] # NULL PROVE FALSE
      OBVIOUS
    <3>1. m_pNext[m_pTail] \in S /\ m_pNext[m_pNext[m_pTail]] = NULL
      BY DEF List
    <3>. QED  BY <2>1, <3>1 DEF List
  <2>. QED  BY <2>1, <2>2 DEF List
<1>3. \A n \in Cells : m_pNext'[n] = IF n = x THEN z ELSE m_pNext[n]
  BY DEF Links, MemInv, TypeInv, QueueTypes
<1>4. List(T)'
  <2>1. T \subseteq Kept' \ Retired'
    <3>1. z \in Kept' /\ z \notin Retired'
      BY <1>1, QueueMemory, RetiredNodes DEF MemInv, Makes, Kept, Links, Retires
    <3>. QED  BY <3>1, StillInside
  <2>2. \A y \in T : m_pNext'[y] # m_pHead /\ m_pNext'[y] \in T \cup {NULL}
    BY <1>1, <1>2, <1>3, CollectorAssumption, QueueAssumption DEF List, Cells
  <2>3. ASSUME NEW y \in T, NEW w \in T, m_pNext'[y] = m_pNext'[w]
        PROVE  y = w
    <3>1. \A v \in S \ {x} : m_pNext'[v] = m_pNext[v] /\ m_pNext[v] \in S
      BY <1>2, <1>3 DEF List
    <3>2. m_pNext'[x] = z /\ m_pNext'[z] = NULL /\ NULL \notin S
      BY <1>1, <1>2, <1>3, CollectorAssumption, QueueAssumption DEF Cells
    <3>. QED  BY <1>1, <1>2, <2>3, <3>1, <3>2 DEF List
  <2>4. m_pNext'[m_pTail] = z /\ m_pNext'[z] = NULL
    BY <1>1, <1>2, <1>3
  <2>5. m_pHead' \in T /\ m_pTail' \in T
    BY DEF List
  <2>. QED  BY <2>1, <2>2, <2>3, <2>4, <2>5 DEF List
<1>5. ASSUME NEW u \in Threads PROVE View(T, u)'
  <2>1. node'[u] = node[u] /\ (u # t => pc'[u] = pc[u] /\ new'[u] = new[u])
    BY QueueIsMine, OthersStay DEF MemInv, Links
  <2>2. pc[u] \in HeadPcs \cup TailPcs => node[u] # z /\ node[u] \in Cells
    BY <1>1 DEF Holds, Slots, MemInv, TypeInv, NotNull, HoldsCells
  <2>3. m_pNext'[m_pTail'] = z
    BY <1>1, <1>2, <1>3
  <2>4. pc[u] \in TailPcs /\ m_pNext'[node[u]] = NULL => node[u] \in S
    BY <1>1, <1>2, <1>3, <2>2 DEF View
  <2>5. CASE u = t
    BY <2>1, <2>2, <2>3, <2>4, <2>5 DEF View, Links, HeadPcs, TailPcs, NewPcs
  <2>6. CASE u # t
    BY <1>1, <2>1, <2>2, <2>3, <2>4, <2>6 DEF View, HeadPcs
  <2>. QED  BY <2>5, <2>6
<1>. QED  BY <1>1, <1>4, <1>5

\* The head leaves the queue, and its successor is the head.
LEMMA UnlinkShape ==
    ASSUME MemInv, NEW t \in Threads, QueueMove(t), phase' \in {"open", "closed"}, Unlinks(t),
           UNCHANGED <<m_pTail, m_pNext>>, pc'[t] = "deq_dispose",
           NEW S \in SUBSET Cells, List(S), \A u \in Threads : View(S, u),
           NEW h, h = m_pHead, NEW T, T = S \ {h}
    PROVE  List(T)' /\ \A u \in Threads : View(T, u)'
<1>1. h \in S /\ m_pHead' = m_pNext[h] /\ m_pHead' \in S /\ m_pHead' # h /\ m_pTail # h
  <2>1. next[t] = m_pNext[h] /\ next[t] # NULL
    BY CollectorAssumption DEF Unlinks, MemInv, ThreadInv, LinkRead, TypeInv, NotNull,
       HoldsCells, NextPcs
  <2>2. m_pTail # h
    BY DEF Unlinks, View
  <2>. QED  BY <2>1, <2>2 DEF Unlinks, List
<1>2. List(T)'
  <2>1. T \subseteq Kept' \ Retired'
    BY StillInside
  <2>2. \A y \in T : m_pNext[y] # m_pHead' /\ m_pNext[y] \in T \cup {NULL}
    BY <1>1 DEF List
  <2>. QED  BY <1>1, <2>1, <2>2 DEF List
<1>3. ASSUME NEW u \in Threads PROVE View(T, u)'
  <2>1. u # t => pc'[u] = pc[u] /\ node'[u] = node[u] /\ new'[u] = new[u]
    BY QueueIsMine, OthersStay DEF MemInv
  <2>2. CASE u = t
    BY <2>2 DEF View, Unlinks, HeadPcs, TailPcs, NewPcs
  <2>3. CASE u # t
    <3>1. pc[u] \in TailPcs /\ m_pNext[node[u]] = NULL => node[u] \in T
      BY <1>1, CollectorAssumption, QueueAssumption DEF View, List, Cells
    <3>2. pc[u] \in HeadPcs => node[u] \notin T
      BY DEF View
    <3>. QED  BY <1>1, <2>1, <2>3, <3>1, <3>2 DEF View, HeadPcs
  <2>. QED  BY <2>2, <2>3
<1>. QED  BY <1>2, <1>3

LEMMA QueueKeepsShape ==
    ASSUME MemInv, NEW t \in Threads, QueueMove(t)
    PROVE  Shape'
<1>. SUFFICES ASSUME phase' \in {"open", "closed"}
              PROVE  \E S \in SUBSET Cells : List(S)' /\ \A u \in Threads : View(S, u)'
  BY DEF Shape
<1>1. phase \in {"open", "closed"}
  BY DEF MemInv, TypeInv, QueueTypes, KeepGc, QueueMove, QueueStep, EnqLoad, EnqAssign, EnqCheck,
         EnqNext, EnqHelp, EnqLink, EnqSwing, DeqLoad, DeqAssign, DeqCheck, DeqNext,
         DeqAssignNext, DeqCheckNext, DeqValid, DeqTail, DeqHelp, DeqTake, DeqDispose, Leave,
         Clear, Destroy, Enqueue, Dequeue, Close
<1>2. PICK S \in SUBSET Cells : List(S) /\ \A u \in Threads : View(S, u)
  BY <1>1 DEF MemInv, Shape
<1>3. CASE UNCHANGED <<m_pHead, m_pTail, m_pNext>> /\ ~Unlinks(t)
  BY <1>2, <1>3, QuietShape
<1>4. CASE Links(t) /\ UNCHANGED <<m_pHead, m_pTail>>
  BY <1>2, <1>4, LinkShape
<1>5. CASE Unlinks(t) /\ UNCHANGED <<m_pTail, m_pNext>> /\ pc'[t] = "deq_dispose"
  BY <1>2, <1>5, UnlinkShape
<1>6. CASE Swings(t)
  BY <1>2, <1>6, SwingShape
<1>. QED  BY <1>3, <1>4, <1>5, <1>6, QueuePointers DEF MemInv

-----------------------------------------------------------------------------
(* The invariant, and what follows from it.                                *)

LEMMA QueueKeeps ==
    ASSUME MemInv, NEW t \in Threads, QueueMove(t)
    PROVE  MemInv'
<1>1. TypeInv' /\ RetiredOnce' /\ Shape'
  BY QueueKeepsTypes, QueueKeepsRetired, QueueKeepsShape DEF MemInv
<1>2. ASSUME NEW u \in Threads PROVE ThreadInv(u)'
  <2>1. Guarded(u)'
    BY GuardsKept DEF MemInv, ThreadInv
  <2>2. Seen(u)'
    BY SeenKept
  <2>3. HeldAlive(u)'
    <3>1. Kept \subseteq Kept'
      BY QueueMemory DEF MemInv, Makes, Kept
    <3>. QED  BY <3>1, QueueKeepsHolds DEF HeldAlive, MemInv, ThreadInv
  <2>4. NewIsPrivate(u)' /\ UnlinkedOnce(u)' /\ LinkRead(u)'
    BY QueueKeepsNew, QueueKeepsUnlinked, QueueKeepsLinks
  <2>. QED  BY <2>1, <2>2, <2>3, <2>4 DEF ThreadInv
<1>3. FreshLinks'
  BY QueueKeepsLinks
<1>. QED  BY <1>1, <1>2, <1>3 DEF MemInv

LEMMA CollectorKeepsAll ==
    ASSUME MemInv, NEW t \in Threads, GcMove(t)
    PROVE  MemInv'
<1>1. TypeInv' /\ RetiredOnce' /\ Shape' /\ FreshLinks'
  BY GcKeepsTypes, CollectorKeepsMemory DEF MemInv
<1>2. ASSUME NEW u \in Threads PROVE ThreadInv(u)'
  <2>1. Guarded(u)' /\ Seen(u)'
    BY GuardsKept, SeenKept DEF MemInv, ThreadInv
  <2>. QED  BY <2>1, CollectorKeepsMemory DEF ThreadInv
<1>. QED  BY <1>1, <1>2 DEF MemInv

\* When the queue is destroyed nobody holds anything.
LEMMA DestructKeepsAll ==
    ASSUME MemInv, Destruct
    PROVE  MemInv'
<1>1. TypeInv'
  BY DestructKeepsTypes DEF MemInv
<1>2. UNCHANGED <<pc, node, next, new>> /\ phase' = "ended" /\ \A u \in Threads : pc[u] = "idle"
  BY DEF Destruct, DestroyRecords, locals, MemInv, TypeInv, Alone, At
<1>3. Retired' = {} /\ RetiredOnce'
  BY DEF Destruct, DestroyRecords, Retired, RetiredOnce
<1>4. FreshLinks' /\ Shape'
  BY <1>2 DEF FreshLinks, Shape
<1>5. ASSUME NEW u \in Threads PROVE ThreadInv(u)'
  BY <1>2 DEF ThreadInv, Guarded, Seen, Scanning, HeldAlive, Holds, NewIsPrivate, UnlinkedOnce,
     LinkRead,
     HeadPcs, TailPcs, NextPcs, NewPcs
<1>. QED  BY <1>1, <1>3, <1>4, <1>5 DEF MemInv

LEMMA StutterKeepsAll ==
    ASSUME MemInv, UNCHANGED vars
    PROVE  MemInv'
<1>. USE DEF vars, gcVars, records, lifetimes, cursors, queue, locals
<1>1. TypeInv'
  BY TypesStutter DEF MemInv
<1>2. RetiredOnce' /\ FreshLinks' /\ Shape'
  BY DEF MemInv, RetiredOnce, Retired, FreshLinks, Shape, List, View, Kept
<1>3. ASSUME NEW u \in Threads PROVE ThreadInv(u)'
  BY DEF MemInv, ThreadInv, Guarded, Seen, Scanning, Ahead, HeldAlive, Holds, NewIsPrivate,
     UnlinkedOnce,
     LinkRead, Kept, Retired
<1>. QED  BY <1>1, <1>2, <1>3 DEF MemInv

LEMMA InitMemory == Init => MemInv
<1>. SUFFICES ASSUME Init PROVE MemInv
  OBVIOUS
<1>1. TypeInv
  BY InitTypes
<1>2. /\ \A t \in Threads : pc[t] = "idle"
      /\ Retired = {} /\ RetiredOnce /\ m_pHead = Dummy /\ m_pTail = Dummy
      /\ \A n \in Cells : m_pNext[n] = NULL
  BY DEF Init, GcInit, Retired, RetiredOnce, Cells
<1>3. FreshLinks
  BY <1>2 DEF FreshLinks, Cells
<1>4. List({Dummy}) /\ \A t \in Threads : View({Dummy}, t)
  BY <1>2, QueueAssumption DEF List, View, Kept, Cells, HeadPcs, TailPcs, NewPcs
<1>5. Shape
  BY <1>4 DEF Shape, Cells
<1>6. ASSUME NEW u \in Threads PROVE ThreadInv(u)
  BY <1>2 DEF ThreadInv, Guarded, Seen, Scanning, HeldAlive, Holds, NewIsPrivate, UnlinkedOnce,
     LinkRead,
     HeadPcs, TailPcs, NextPcs, NewPcs
<1>. QED  BY <1>1, <1>2, <1>3, <1>5, <1>6 DEF MemInv

LEMMA MemoryInvariant == Spec => []MemInv
<1>1. MemInv /\ [Next]_vars => MemInv'
  BY NextSplit, QueueKeeps, CollectorKeepsAll, DestructKeepsAll, StutterKeepsAll
<1>. QED  BY <1>1, InitMemory, PTL DEF Spec

\* No link and no value of a node is read or written after the node was freed, however
\* many threads scan, help and retire, and whatever node is allocated again.
THEOREM MemorySafe == Spec => []NoUseAfterFree
<1>1. MemInv => NoUseAfterFree
  <2>. SUFFICES ASSUME MemInv, NEW t \in Threads PROVE Touches(t) \subseteq live \cup {Dummy}
    BY DEF NoUseAfterFree
  <2>1. CASE pc[t] \in {"enq_next", "enq_link", "deq_next", "deq_check_next"}
    <3>1. node[t] \in Cells /\ \E i \in Slots : Holds(t, i, node[t])
      BY <2>1 DEF Holds, Slots, HeadPcs, TailPcs, MemInv, TypeInv, NotNull, HoldsCells
    <3>. QED  BY <2>1, <3>1 DEF Touches, MemInv, ThreadInv, HeldAlive, Kept
  <2>2. CASE pc[t] = "deq_dispose"
    <3>1. next[t] \in Cells /\ Holds(t, 2, next[t])
      BY <2>2 DEF Holds, NextPcs, MemInv, TypeInv, NotNull, HoldsCells, Cells
    <3>. QED  BY <2>2, <3>1 DEF Touches, Slots, MemInv, ThreadInv, HeldAlive, Kept
  <2>. QED  BY <2>1, <2>2 DEF Touches
<1>. QED  BY <1>1, MemoryInvariant, PTL

-----------------------------------------------------------------------------
(* The order of the queue.  A path is a sequence of nodes, each linked to  *)
(* the next and the last to nothing.  Chain, which follows the links from  *)
(* m_pHead, is the path that begins there.                                 *)

Path(h, f, s) ==
    /\ s \in Seq(Cells)
    /\ h = IF s = <<>> THEN NULL ELSE s[1]
    /\ \A i \in 1..Len(s) : f[s[i]] = IF i = Len(s) THEN NULL ELSE s[i + 1]
    /\ \A i, j \in 1..Len(s) : s[i] = s[j] => i = j

IsHops(hop, h, f) ==
    hop = [k \in 0..Cardinality(Node) |->
            IF k = 0 THEN h
            ELSE LET n == hop[k - 1] IN IF n = NULL THEN NULL ELSE f[n]]

HopsFrom(h, f) == CHOOSE hop : IsHops(hop, h, f)

ChainFrom(h, f) ==
    LET hop == HopsFrom(h, f)
        last == Cardinality({k \in DOMAIN hop : hop[k] # NULL})
    IN [k \in 1..last |-> hop[k - 1]]

\* Chain depends on the head and the links alone, before a step and after it.
LEMMA ChainDepends == Chain = ChainFrom(m_pHead, m_pNext)
BY DEF Chain, ChainFrom, HopsFrom, IsHops

LEMMA ChainDependsNext == Chain' = ChainFrom(m_pHead', m_pNext')
BY DEF Chain, ChainFrom, HopsFrom, IsHops

\* A set that has 0, and the successor of each number it has, has them all: among the
\* intervals 0..i that end outside of it there would be a smallest one.
LEMMA NatInSet ==
    ASSUME NEW S, 0 \in S, \A i \in Nat : i \in S => i + 1 \in S
    PROVE  Nat \subseteq S
<1>. DEFINE R == StrictSubsetOrdering(Nat)
            T == {0..i : i \in Nat \ S}
<1>1. SUFFICES ASSUME T # {} PROVE FALSE
  OBVIOUS
<1>2. IsWellFoundedOn(R, FiniteSubsetsOf(Nat))
  BY FS_StrictSubsetOrderingWellFounded
<1>3. ASSUME NEW i \in Nat PROVE 0..i \in FiniteSubsetsOf(Nat)
  <2>1. 0 \in Int /\ i \in Int
    OBVIOUS
  <2>2. IsFiniteSet(0..i)
    BY <2>1, FS_Interval, Zenon
  <2>3. 0..i \in SUBSET Nat
    OBVIOUS
  <2>. QED  BY <2>2, <2>3, Zenon DEF FiniteSubsetsOf
<1>4. T \subseteq FiniteSubsetsOf(Nat)
  BY <1>3
<1>5. PICK x \in T : \A y \in T : ~(<<y, x>> \in R)
  <2>. HIDE DEF R, T
  <2>. QED  BY <1>1, <1>2, <1>4, WFMin
<1>6. PICK i \in Nat \ S : x = 0..i
  OBVIOUS
<1>7. i - 1 \in Nat \ S
  BY <1>6
<1>8. 0..(i - 1) \subseteq 0..i /\ 0..(i - 1) # 0..i /\ 0..i \in SUBSET Nat
  BY <1>6, <1>7
<1>9. <<0..(i - 1), 0..i>> \in R
  BY <1>8 DEF StrictSubsetOrdering
<1>. QED  BY <1>5, <1>6, <1>7, <1>9

LEMMA CellsFinite == IsFiniteSet(Cells) /\ Cardinality(Cells) = Cardinality(Node) + 1
                     /\ Cardinality(Node) \in Nat /\ NULL \notin Cells
<1>1. IsFiniteSet(Node) /\ Dummy \notin Node /\ NULL \notin Cells
  BY CollectorAssumption, QueueAssumption DEF Cells
<1>. QED  BY <1>1, FS_AddElement, FS_CardinalityType DEF Cells

\* No path is longer than all cells together.
LEMMA PathIsShort ==
    ASSUME NEW h, NEW f, NEW s, Path(h, f, s)
    PROVE  Len(s) \in Nat /\ Len(s) <= Cardinality(Node) + 1
<1>1. Len(s) \in Nat /\ s \in [1..Len(s) -> Cells]
  BY DEF Path
<1>2. s \in Injection(1..Len(s), Cells)
  BY <1>1 DEF Path, Injection, IsInjective
<1>3. Cardinality(1..Len(s)) <= Cardinality(Cells)
  BY <1>2, CellsFinite, FS_Injection
<1>4. Cardinality(1..Len(s)) = Len(s)
  <2>1. 1 \in Int /\ Len(s) \in Int /\ Len(s) - 1 + 1 = Len(s)
    BY <1>1
  <2>2. Cardinality(1..Len(s)) = IF 1 > Len(s) THEN 0 ELSE Len(s) - 1 + 1
    BY <2>1, FS_Interval, Zenon
  <2>. QED  BY <1>1, <2>2
<1>. QED  BY <1>1, <1>3, <1>4, CellsFinite

\* Hops follow the links.
Hopping(hop, h, f, m) ==
    \A k \in 0..m :
        hop[k] = IF k = 0 THEN h ELSE IF hop[k - 1] = NULL THEN NULL ELSE f[hop[k - 1]]

LEMMA HopsAreOne ==
    ASSUME NEW h, NEW f, NEW m \in Nat, NEW p, NEW q, Hopping(p, h, f, m), Hopping(q, h, f, m)
    PROVE  \A k \in 0..m : p[k] = q[k]
<1>. DEFINE T == {k \in Nat : k <= m => p[k] = q[k]}
<1>1. 0 \in T
  <2>1. 0 \in 0..m
    OBVIOUS
  <2>. QED  BY <2>1 DEF Hopping
<1>2. ASSUME NEW k \in Nat, k \in T PROVE k + 1 \in T
  <2>1. CASE k + 1 <= m
    <3>1. (k + 1) - 1 = k /\ k + 1 \in 0..m /\ k + 1 # 0 /\ p[k] = q[k]
      BY <1>2, <2>1
    <3>2. p[k + 1] = IF p[k] = NULL THEN NULL ELSE f[p[k]]
      BY <3>1 DEF Hopping
    <3>3. q[k + 1] = IF q[k] = NULL THEN NULL ELSE f[q[k]]
      BY <3>1 DEF Hopping
    <3>. QED  BY <3>1, <3>2, <3>3
  <2>. QED  BY <2>1
<1>3. Nat \subseteq T
  <2>. HIDE DEF T
  <2>. QED  BY <1>1, <1>2, NatInSet
<1>. QED  BY <1>3

\* The hops along a path are its nodes, and then nothing.
LEMMA HopsAlongPath ==
    ASSUME NEW h, NEW f, NEW s, Path(h, f, s)
    PROVE  HopsFrom(h, f) = [k \in 0..Cardinality(Node) |-> IF k < Len(s) THEN s[k + 1] ELSE NULL]
<1>. DEFINE M == Cardinality(Node)
            g == [k \in 0..M |-> IF k < Len(s) THEN s[k + 1] ELSE NULL]
            hop == HopsFrom(h, f)
<1>1. M \in Nat /\ Len(s) \in Nat /\ \A i \in 1..Len(s) : s[i] \in Cells /\ s[i] # NULL
  BY CellsFinite, PathIsShort DEF Path
<1>2. Hopping(g, h, f, M)
  <2>1. ASSUME NEW k \in 0..M
        PROVE  g[k] = IF k = 0 THEN h ELSE IF g[k - 1] = NULL THEN NULL ELSE f[g[k - 1]]
    <3>1. CASE k = 0
      BY <1>1, <3>1 DEF Path
    <3>2. CASE k # 0 /\ k - 1 < Len(s)
      <4>1. g[k - 1] = s[k] /\ k \in 1..Len(s) /\ s[k] # NULL
        BY <1>1, <3>2
      <4>. QED  BY <1>1, <3>2, <4>1 DEF Path
    <3>3. CASE k # 0 /\ ~(k - 1 < Len(s))
      BY <1>1, <3>3
    <3>. QED  BY <3>1, <3>2, <3>3
  <2>. HIDE DEF g, M
  <2>. QED  BY <2>1 DEF Hopping
<1>3. IsHops(g, h, f)
  <2>. DEFINE b == [k \in 0..M |-> IF k = 0 THEN h ELSE IF g[k - 1] = NULL THEN NULL ELSE f[g[k - 1]]]
  <2>1. g = [k \in 0..M |-> g[k]]
    OBVIOUS
  <2>2. g = b
    <3>. HIDE DEF g
    <3>. QED  BY <1>2, <2>1 DEF Hopping
  <2>. HIDE DEF g
  <2>. QED  BY <2>2 DEF IsHops
<1>4. IsHops(hop, h, f)
  BY <1>3 DEF HopsFrom
<1>5. Hopping(hop, h, f, M) /\ hop = [k \in 0..M |-> hop[k]]
  <2>. HIDE DEF hop
  <2>. QED  BY <1>4 DEF IsHops, Hopping
<1>6. \A k \in 0..M : hop[k] = g[k]
  <2>. HIDE DEF hop, g, M
  <2>. QED  BY <1>1, <1>2, <1>5, HopsAreOne
<1>7. g = [k \in 0..M |-> g[k]]
  OBVIOUS
<1>8. hop = g
  <2>. HIDE DEF hop, g
  <2>. QED  BY <1>5, <1>6, <1>7
<1>. QED  BY <1>8

LEMMA ChainOfPath ==
    ASSUME NEW h, NEW f, NEW s, Path(h, f, s)
    PROVE  ChainFrom(h, f) = s
<1>. DEFINE M == Cardinality(Node)
            hop == HopsFrom(h, f)
            some == {k \in DOMAIN hop : hop[k] # NULL}
<1>1. /\ M \in Nat /\ Len(s) \in Nat /\ Len(s) <= M + 1
      /\ \A i \in 1..Len(s) : s[i] # NULL
  BY CellsFinite, PathIsShort DEF Path
<1>2. hop = [k \in 0..M |-> IF k < Len(s) THEN s[k + 1] ELSE NULL]
  BY HopsAlongPath
<1>3. ChainFrom(h, f) = [k \in 1..Cardinality(some) |-> hop[k - 1]]
  BY DEF ChainFrom
<1>. HIDE DEF hop, M
<1>4. DOMAIN hop = 0..M /\ \A k \in 0..M : hop[k] = IF k < Len(s) THEN s[k + 1] ELSE NULL
  BY <1>2
<1>5. some = 0..(Len(s) - 1)
  BY <1>1, <1>4
<1>. HIDE DEF some
<1>6. Cardinality(some) = Len(s)
  <2>1. 0 \in Int /\ Len(s) - 1 \in Int /\ (Len(s) - 1) - 0 + 1 = Len(s)
    BY <1>1
  <2>2. Cardinality(0..(Len(s) - 1)) = IF 0 > Len(s) - 1 THEN 0 ELSE (Len(s) - 1) - 0 + 1
    BY <2>1, FS_Interval, Zenon
  <2>3. 0 > Len(s) - 1 => Len(s) = 0
    BY <1>1
  <2>. QED  BY <1>5, <2>1, <2>2, <2>3
<1>7. ChainFrom(h, f) = [k \in 1..Len(s) |-> hop[k - 1]]
  BY <1>3, <1>6
<1>8. \A k \in 1..Len(s) : hop[k - 1] = s[k]
  BY <1>1, <1>4
<1>9. s = [k \in 1..Len(s) |-> s[k]]
  BY DEF Path
<1>. QED  BY <1>7, <1>8, <1>9
-----------------------------------------------------------------------------
(* What becomes of a path.                                                 *)

LEMMA PathNodes ==
    ASSUME NEW h, NEW f, NEW s, Path(h, f, s)
    PROVE  /\ Len(s) \in Nat /\ s \in Seq(Cells)
           /\ \A i \in 1..Len(s) : s[i] \in Cells /\ s[i] # NULL
           /\ \A i \in 1..Len(s) : f[s[i]] = NULL <=> i = Len(s)
           /\ h = NULL <=> s = <<>>
           /\ s = <<>> <=> Len(s) = 0
<1>1. Len(s) \in Nat /\ s \in Seq(Cells) /\ \A i \in 1..Len(s) : s[i] \in Cells /\ s[i] # NULL
  BY CellsFinite DEF Path
<1>2. s = <<>> <=> Len(s) = 0
  BY <1>1
<1>3. h = NULL <=> s = <<>>
  BY <1>1, <1>2 DEF Path
<1>4. ASSUME NEW i \in 1..Len(s) PROVE f[s[i]] = NULL <=> i = Len(s)
  <2>1. CASE i = Len(s)
    BY <2>1 DEF Path
  <2>2. CASE i # Len(s)
    <3>1. i + 1 \in 1..Len(s)
      BY <1>1, <2>2
    <3>. QED  BY <1>1, <2>2, <3>1 DEF Path
  <2>. QED  BY <2>1, <2>2
<1>. QED  BY <1>1, <1>2, <1>3, <1>4

\* Links of other nodes do not matter.
LEMMA PathKept ==
    ASSUME NEW h, NEW f, NEW g, NEW s, Path(h, f, s), \A i \in 1..Len(s) : g[s[i]] = f[s[i]]
    PROVE  Path(h, g, s)
BY DEF Path

\* A node linked to the last one.
LEMMA PathAppended ==
    ASSUME NEW h, NEW f \in [Cells -> Node \cup {NULL}], NEW s, Path(h, f, s), s # <<>>,
           NEW x, x = s[Len(s)], NEW n \in Node, f[n] = NULL, \A i \in 1..Len(s) : s[i] # n
    PROVE  Path(h, [f EXCEPT ![x] = n], Append(s, n))
<1>. DEFINE g == [f EXCEPT ![x] = n]
            L == Len(s)
            p == Append(s, n)
<1>1. /\ L \in Nat \ {0} /\ s \in Seq(Cells) /\ n \in Cells /\ x \in Cells /\ x # n
      /\ \A i \in 1..L : s[i] \in Cells
  BY PathNodes DEF Cells
<1>2. p \in Seq(Cells) /\ Len(p) = L + 1 /\ p[L + 1] = n /\ \A i \in 1..L : p[i] = s[i]
  BY <1>1
<1>. HIDE DEF p
<1>3. h = IF p = <<>> THEN NULL ELSE p[1]
  BY <1>1, <1>2 DEF Path
<1>4. ASSUME NEW i \in 1..(L + 1) PROVE g[p[i]] = IF i = L + 1 THEN NULL ELSE p[i + 1]
  <2>1. CASE i = L + 1
    BY <1>1, <1>2, <2>1
  <2>2. CASE i = L
    BY <1>1, <1>2, <2>2
  <2>3. CASE i \in 1..L /\ i # L
    <3>1. s[i] # x /\ i + 1 \in 1..L /\ f[s[i]] = s[i + 1]
      BY <1>1, <2>3 DEF Path
    <3>. QED  BY <1>1, <1>2, <2>3, <3>1
  <2>. QED  BY <1>1, <2>1, <2>2, <2>3
<1>5. ASSUME NEW i \in 1..(L + 1), NEW j \in 1..(L + 1), p[i] = p[j] PROVE i = j
  <2>1. CASE i \in 1..L /\ j \in 1..L
    BY <1>2, <1>5, <2>1 DEF Path
  <2>2. CASE i = L + 1 \/ j = L + 1
    BY <1>1, <1>2, <1>5, <2>2
  <2>. QED  BY <1>1, <2>1, <2>2
<1>. QED  BY <1>2, <1>3, <1>4, <1>5 DEF Path

\* The path from the second node.
LEMMA PathShortened ==
    ASSUME NEW h, NEW f, NEW s, Path(h, f, s), s # <<>>
    PROVE  Path(f[h], f, Tail(s))
<1>. DEFINE L == Len(s)
            p == Tail(s)
<1>1. L \in Nat \ {0} /\ s \in Seq(Cells) /\ h = s[1]
  BY PathNodes DEF Path
<1>2. p \in Seq(Cells) /\ Len(p) = L - 1 /\ \A i \in 1..(L - 1) : p[i] = s[i + 1]
  BY <1>1
<1>. HIDE DEF p
<1>3. p = <<>> <=> L = 1
  <2>1. p = <<>> <=> Len(p) = 0
    BY <1>2
  <2>. QED  BY <1>1, <1>2, <2>1
<1>4. f[h] = IF p = <<>> THEN NULL ELSE p[1]
  <2>1. f[s[1]] = IF 1 = L THEN NULL ELSE s[2]
    <3>1. 1 \in 1..L /\ 1 + 1 = 2
      BY <1>1
    <3>. QED  BY <3>1 DEF Path
  <2>. QED  BY <1>1, <1>2, <1>3, <2>1
<1>5. ASSUME NEW i \in 1..(L - 1) PROVE f[p[i]] = IF i = L - 1 THEN NULL ELSE p[i + 1]
  <2>1. i + 1 \in 1..L /\ f[s[i + 1]] = IF i + 1 = L THEN NULL ELSE s[(i + 1) + 1]
    BY <1>1 DEF Path
  <2>2. i # L - 1 => i + 1 \in 1..(L - 1)
    BY <1>1
  <2>. QED  BY <1>1, <1>2, <2>1, <2>2
<1>6. ASSUME NEW i \in 1..(L - 1), NEW j \in 1..(L - 1), p[i] = p[j] PROVE i = j
  <2>1. i + 1 \in 1..L /\ j + 1 \in 1..L /\ s[i + 1] = s[j + 1]
    BY <1>1, <1>2, <1>6
  <2>2. i + 1 = j + 1
    BY <2>1 DEF Path
  <2>. QED  BY <2>2
<1>. QED  BY <1>2, <1>4, <1>5, <1>6 DEF Path

\* A set that contains the head and the link of every node it contains contains the path.
LEMMA PathInside ==
    ASSUME NEW h, NEW f, NEW s, Path(h, f, s), s # <<>>,
           NEW S, h \in S, \A x \in S : f[x] \in S \cup {NULL}
    PROVE  \A i \in 1..Len(s) : s[i] \in S
<1>. DEFINE T == {k \in Nat : k + 1 \in 1..Len(s) => s[k + 1] \in S}
<1>1. Len(s) \in Nat \ {0}
  BY PathNodes
<1>2. 0 \in T
  BY <1>1 DEF Path
<1>3. ASSUME NEW k \in Nat, k \in T PROVE k + 1 \in T
  <2>1. CASE (k + 1) + 1 \in 1..Len(s)
    <3>1. k + 1 \in 1..Len(s) /\ k + 1 # Len(s) /\ s[k + 1] \in S
      BY <1>1, <1>3, <2>1
    <3>2. f[s[k + 1]] = s[(k + 1) + 1] /\ s[(k + 1) + 1] # NULL
      BY <2>1, <3>1, PathNodes DEF Path
    <3>. QED  BY <3>1, <3>2
  <2>. QED  BY <2>1
<1>4. Nat \subseteq T
  <2>. HIDE DEF T
  <2>. QED  BY <1>2, <1>3, NatInSet
<1>5. ASSUME NEW i \in 1..Len(s) PROVE s[i] \in S
  <2>1. i - 1 \in Nat /\ (i - 1) + 1 = i
    BY <1>1
  <2>2. i - 1 \in T
    BY <1>4, <2>1
  <2>. QED  BY <2>1, <2>2
<1>. QED  BY <1>5
-----------------------------------------------------------------------------
(* The invariant: the nodes from m_pHead on are a path; a thread that has  *)
(* seen no link behind a head has seen it at the head; the destructor has  *)
(* emptied the queue before it disposes of the last node; and every node   *)
(* that is allocated is in one of four places.                             *)

Ordered ==
    /\ Path(m_pHead, m_pNext, Chain)
    /\ m_pHead = NULL <=> phase \in {"destroyed", "ended"}

\* Which statements belong to which call.
CallOf(t) ==
    /\ pc[t] = "idle" <=> call[t] = "none"
    /\ pc[t] \in Allocating => call[t] = "attach"
    /\ pc[t] \in NewPcs \cup {"enq_swing"} => call[t] = "enqueue"
    /\ call[t] = "enqueue" => pc[t] \in NewPcs \cup {"enq_swing", "leave"}
    /\ Looking(t) \/ Disposing(t) => call[t] \in {"dequeue", "clear"}

\* A head that is out of the queue has a link: none is seen only behind the head.
EmptySeen(t) == pc[t] \in HeadPcs /\ m_pNext[node[t]] = NULL => node[t] = m_pHead

\* The destructor, alone in the queue, finds at the end what it has read at the beginning.
Clearing(t) == call[t] = "clear" =>
    /\ pc[t] \in {"deq_next", "deq_assign_next", "deq_check_next", "deq_valid"} => node[t] = m_pHead
    /\ pc[t] \in {"deq_assign_next", "deq_check_next", "deq_valid"} => next[t] = m_pNext[node[t]]
    /\ pc[t] \in GcPcs => next[t] # NULL
    /\ pc[t] = "leave" /\ next[t] = NULL => m_pNext[m_pHead] = NULL
    /\ pc[t] = "destroy" => m_pNext[m_pHead] = NULL

InChain(n) == \E i \in 1..Len(Chain) : Chain[i] = n

Accounted == \A n \in live :
    \/ InChain(n)
    \/ \E u \in Threads : pc[u] \in NewPcs /\ new[u] = n
    \/ \E u \in Threads : Disposing(u) /\ node[u] = n
    \/ n \in Retired

OrderInv == MemInv /\ Ordered /\ Accounted
            /\ \A t \in Threads : CallOf(t) /\ EmptySeen(t) /\ Clearing(t)
-----------------------------------------------------------------------------
(* What the statements of a thread do to what it knows.                    *)

LEMMA OwnCall ==
    ASSUME TypeInv, NEW t \in Threads, QueueMove(t), CallOf(t)
    PROVE  CallOf(t)'
<1>. Mine(t)
  BY QueueIsMine
<1>. USE DEF Mine, Goto, At, Enter, HelpDone, TypeInv, RecInv, GcTypes, CodeTypes, KeepGc, Again,
     Go,
     CallOf, Looking, Disposing, NewPcs, Allocating
<1>1. CASE EnqLoad(t)
  BY <1>1 DEF EnqLoad
<1>2. CASE EnqAssign(t)
  BY <1>2 DEF EnqAssign
<1>3. CASE EnqCheck(t)
  BY <1>3 DEF EnqCheck
<1>4. CASE EnqNext(t)
  BY <1>4 DEF EnqNext
<1>5. CASE EnqHelp(t)
  BY <1>5 DEF EnqHelp
<1>6. CASE EnqLink(t)
  BY <1>6 DEF EnqLink
<1>7. CASE EnqSwing(t)
  BY <1>7 DEF EnqSwing
<1>8. CASE DeqLoad(t)
  BY <1>8 DEF DeqLoad
<1>9. CASE DeqAssign(t)
  BY <1>9 DEF DeqAssign
<1>10. CASE DeqCheck(t)
  BY <1>10 DEF DeqCheck
<1>11. CASE DeqNext(t)
  BY <1>11 DEF DeqNext
<1>12. CASE DeqAssignNext(t)
  BY <1>12 DEF DeqAssignNext
<1>13. CASE DeqCheckNext(t)
  BY <1>13 DEF DeqCheckNext
<1>14. CASE DeqValid(t)
  BY <1>14 DEF DeqValid
<1>15. CASE DeqTail(t)
  BY <1>15 DEF DeqTail
<1>16. CASE DeqHelp(t)
  BY <1>16 DEF DeqHelp
<1>17. CASE DeqTake(t)
  BY <1>17 DEF DeqTake
<1>18. CASE DeqDispose(t)
  BY <1>18 DEF DeqDispose, Dispose
<1>19. CASE Leave(t)
  BY <1>19 DEF Leave
<1>20. CASE Clear(t)
  BY <1>20 DEF Clear, Alone, InClear
<1>21. CASE Destroy(t)
  BY <1>21 DEF Destroy, Dispose
<1>22. CASE Enqueue(t)
  BY <1>22 DEF Enqueue
<1>23. CASE Dequeue(t)
  BY <1>23 DEF Dequeue
<1>24. CASE Close(t)
  BY <1>24 DEF Close
<1>. QED
  BY <1>1, <1>2, <1>3, <1>4, <1>5, <1>6, <1>7, <1>8, <1>9, <1>10, <1>11, <1>12,
     <1>13, <1>14, <1>15, <1>16, <1>17, <1>18, <1>19, <1>20, <1>21, <1>22, <1>23, <1>24
          DEF QueueMove, QueueStep

LEMMA OwnClearing ==
    ASSUME TypeInv, NEW t \in Threads, QueueMove(t), Clearing(t), CallOf(t)
    PROVE  Clearing(t)'
<1>. Mine(t)
  BY QueueIsMine
<1>. pc[t] \in NextPcs => next[t] # NULL
  BY CollectorAssumption DEF TypeInv, NotNull, HoldsCells
<1>. USE DEF Mine, Goto, At, Enter, HelpDone, TypeInv, RecInv, GcTypes, CodeTypes, KeepGc, Again,
     Go,
     Clearing, CallOf, NewPcs, Allocating, Helping, GcPcs, NextPcs, LocalTypes, queue, locals
<1>1. CASE EnqLoad(t)
  BY <1>1 DEF EnqLoad
<1>2. CASE EnqAssign(t)
  BY <1>2 DEF EnqAssign
<1>3. CASE EnqCheck(t)
  BY <1>3 DEF EnqCheck
<1>4. CASE EnqNext(t)
  BY <1>4 DEF EnqNext
<1>5. CASE EnqHelp(t)
  BY <1>5 DEF EnqHelp
<1>6. CASE EnqLink(t)
  BY <1>6 DEF EnqLink
<1>7. CASE EnqSwing(t)
  BY <1>7 DEF EnqSwing
<1>8. CASE DeqLoad(t)
  BY <1>8 DEF DeqLoad
<1>9. CASE DeqAssign(t)
  BY <1>9 DEF DeqAssign
<1>10. CASE DeqCheck(t)
  BY <1>10 DEF DeqCheck
<1>11. CASE DeqNext(t)
  BY <1>11 DEF DeqNext
<1>12. CASE DeqAssignNext(t)
  BY <1>12 DEF DeqAssignNext
<1>13. CASE DeqCheckNext(t)
  BY <1>13 DEF DeqCheckNext
<1>14. CASE DeqValid(t)
  BY <1>14 DEF DeqValid
<1>15. CASE DeqTail(t)
  BY <1>15 DEF DeqTail
<1>16. CASE DeqHelp(t)
  BY <1>16 DEF DeqHelp
<1>17. CASE DeqTake(t)
  BY <1>17 DEF DeqTake
<1>18. CASE DeqDispose(t)
  BY <1>18 DEF DeqDispose, Dispose
<1>19. CASE Leave(t)
  BY <1>19 DEF Leave
<1>20. CASE Clear(t)
  BY <1>20 DEF Clear
<1>21. CASE Destroy(t)
  BY <1>21 DEF Destroy, Dispose
<1>22. CASE Enqueue(t)
  BY <1>22 DEF Enqueue
<1>23. CASE Dequeue(t)
  BY <1>23 DEF Dequeue
<1>24. CASE Close(t)
  BY <1>24 DEF Close
<1>. QED
  BY <1>1, <1>2, <1>3, <1>4, <1>5, <1>6, <1>7, <1>8, <1>9, <1>10, <1>11, <1>12,
     <1>13, <1>14, <1>15, <1>16, <1>17, <1>18, <1>19, <1>20, <1>21, <1>22, <1>23, <1>24
          DEF QueueMove, QueueStep

LEMMA OwnEmptySeen ==
    ASSUME TypeInv, NEW t \in Threads, QueueMove(t), EmptySeen(t)
    PROVE  EmptySeen(t)'
<1>. Mine(t)
  BY QueueIsMine
<1>. USE DEF Mine, Goto, At, Enter, HelpDone, TypeInv, RecInv, GcTypes, CodeTypes, KeepGc, Again,
     Go,
     EmptySeen, HeadPcs, LocalTypes, queue, locals
<1>1. CASE EnqLoad(t)
  BY <1>1 DEF EnqLoad
<1>2. CASE EnqAssign(t)
  BY <1>2 DEF EnqAssign
<1>3. CASE EnqCheck(t)
  BY <1>3 DEF EnqCheck
<1>4. CASE EnqNext(t)
  BY <1>4 DEF EnqNext
<1>5. CASE EnqHelp(t)
  BY <1>5 DEF EnqHelp
<1>6. CASE EnqLink(t)
  BY <1>6 DEF EnqLink
<1>7. CASE EnqSwing(t)
  BY <1>7 DEF EnqSwing
<1>8. CASE DeqLoad(t)
  BY <1>8 DEF DeqLoad
<1>9. CASE DeqAssign(t)
  BY <1>9 DEF DeqAssign
<1>10. CASE DeqCheck(t)
  BY <1>10 DEF DeqCheck
<1>11. CASE DeqNext(t)
  BY <1>11 DEF DeqNext
<1>12. CASE DeqAssignNext(t)
  BY <1>12 DEF DeqAssignNext
<1>13. CASE DeqCheckNext(t)
  BY <1>13 DEF DeqCheckNext
<1>14. CASE DeqValid(t)
  BY <1>14 DEF DeqValid
<1>15. CASE DeqTail(t)
  BY <1>15 DEF DeqTail
<1>16. CASE DeqHelp(t)
  BY <1>16 DEF DeqHelp
<1>17. CASE DeqTake(t)
  BY <1>17 DEF DeqTake
<1>18. CASE DeqDispose(t)
  BY <1>18 DEF DeqDispose, Dispose
<1>19. CASE Leave(t)
  BY <1>19 DEF Leave
<1>20. CASE Clear(t)
  BY <1>20 DEF Clear
<1>21. CASE Destroy(t)
  BY <1>21 DEF Destroy, Dispose
<1>22. CASE Enqueue(t)
  BY <1>22 DEF Enqueue
<1>23. CASE Dequeue(t)
  BY <1>23 DEF Dequeue
<1>24. CASE Close(t)
  BY <1>24 DEF Close
<1>. QED
  BY <1>1, <1>2, <1>3, <1>4, <1>5, <1>6, <1>7, <1>8, <1>9, <1>10, <1>11, <1>12,
     <1>13, <1>14, <1>15, <1>16, <1>17, <1>18, <1>19, <1>20, <1>21, <1>22, <1>23, <1>24
          DEF QueueMove, QueueStep

\* What happens to the node that a thread has in its hands.
Hands(t) ==
    /\ \A n \in Node : Makes(t, n) => pc'[t] \in NewPcs
    /\ pc[t] \in NewPcs => Links(t) \/ (pc'[t] \in NewPcs /\ new'[t] = new[t])
    /\ Disposing(t) => node[t] = Dummy \/ RetirePush(t, node[t])
    /\ pc[t] = "destroy" => m_pHead = Dummy \/ RetirePush(t, m_pHead)

LEMMA HandsOf ==
    ASSUME TypeInv, NEW t \in Threads, QueueMove(t)
    PROVE  Hands(t)
<1>. Mine(t)
  BY QueueIsMine
<1>. USE DEF Mine, Goto, At, Enter, HelpDone, TypeInv, RecInv, GcTypes, CodeTypes, KeepGc, Again,
     Go,
     Hands, Makes, Links, Disposing, NewPcs, locals, LocalTypes
<1>1. CASE EnqLoad(t)
  BY <1>1 DEF EnqLoad
<1>2. CASE EnqAssign(t)
  BY <1>2 DEF EnqAssign
<1>3. CASE EnqCheck(t)
  BY <1>3 DEF EnqCheck
<1>4. CASE EnqNext(t)
  BY <1>4 DEF EnqNext
<1>5. CASE EnqHelp(t)
  BY <1>5 DEF EnqHelp
<1>6. CASE EnqLink(t)
  BY <1>6 DEF EnqLink
<1>7. CASE EnqSwing(t)
  BY <1>7 DEF EnqSwing
<1>8. CASE DeqLoad(t)
  BY <1>8 DEF DeqLoad
<1>9. CASE DeqAssign(t)
  BY <1>9 DEF DeqAssign
<1>10. CASE DeqCheck(t)
  BY <1>10 DEF DeqCheck
<1>11. CASE DeqNext(t)
  BY <1>11 DEF DeqNext
<1>12. CASE DeqAssignNext(t)
  BY <1>12 DEF DeqAssignNext
<1>13. CASE DeqCheckNext(t)
  BY <1>13 DEF DeqCheckNext
<1>14. CASE DeqValid(t)
  BY <1>14 DEF DeqValid
<1>15. CASE DeqTail(t)
  BY <1>15 DEF DeqTail
<1>16. CASE DeqHelp(t)
  BY <1>16 DEF DeqHelp
<1>17. CASE DeqTake(t)
  BY <1>17 DEF DeqTake
<1>18. CASE DeqDispose(t)
  BY <1>18 DEF DeqDispose, Dispose
<1>19. CASE Leave(t)
  BY <1>19 DEF Leave
<1>20. CASE Clear(t)
  BY <1>20 DEF Clear
<1>21. CASE Destroy(t)
  BY <1>21 DEF Destroy, Dispose
<1>22. CASE Enqueue(t)
  BY <1>22 DEF Enqueue
<1>23. CASE Dequeue(t)
  BY <1>23 DEF Dequeue
<1>24. CASE Close(t)
  BY <1>24 DEF Close
<1>. QED
  BY <1>1, <1>2, <1>3, <1>4, <1>5, <1>6, <1>7, <1>8, <1>9, <1>10, <1>11, <1>12,
     <1>13, <1>14, <1>15, <1>16, <1>17, <1>18, <1>19, <1>20, <1>21, <1>22, <1>23, <1>24
          DEF QueueMove, QueueStep

\* The queue is destroyed by one step, after which only the return of that call is left.
LEMMA QueueEnds ==
    ASSUME TypeInv, NEW t \in Threads, QueueMove(t), phase' \notin {"open", "closed"}
    PROVE  \/ Destroy(t) /\ phase \in {"open", "closed"}
           \/ Leave(t) /\ phase \in {"destroyed", "ended"}
<1>1. CASE phase \in {"open", "closed"}
  BY <1>1 DEF QueueMove, QueueStep, KeepGc, EnqLoad, EnqAssign, EnqCheck, EnqNext, EnqHelp,
     EnqLink, EnqSwing, DeqLoad, DeqAssign, DeqCheck, DeqNext, DeqAssignNext, DeqCheckNext,
     DeqValid, DeqTail, DeqHelp, DeqTake, DeqDispose, Leave, Clear, Destroy, Enqueue, Dequeue, Close
<1>2. CASE phase \in {"destroyed", "ended"}
  <2>1. pc[t] \notin QueuePcs
    BY <1>2 DEF TypeInv, Alone, QueuePcs, HeadPcs, NextPcs, TailPcs, NewPcs
  <2>. QED  BY <1>2, <2>1 DEF QueueMove, QueueStep, KeepGc, EnqLoad, EnqAssign, EnqCheck,
               EnqNext, EnqHelp, EnqLink, EnqSwing, DeqLoad, DeqAssign, DeqCheck, DeqNext,
               DeqAssignNext, DeqCheckNext, DeqValid, DeqTail, DeqHelp, DeqTake, DeqDispose,
               Leave, Clear, Destroy, Enqueue, Dequeue, Close, At, QueuePcs, HeadPcs, NextPcs,
               TailPcs, NewPcs
<1>. QED  BY <1>1, <1>2 DEF TypeInv, QueueTypes
\* An unlinked node is disposed of next.
LEMMA UnlinkGoesOn ==
    ASSUME TypeInv, NEW t \in Threads, QueueMove(t), Unlinks(t)
    PROVE  pc'[t] = "deq_dispose"
<1>1. DeqTake(t)
  BY DEF Unlinks, QueueMove, QueueStep, EnqLoad, EnqAssign, EnqCheck,
         EnqNext, EnqHelp, EnqLink, EnqSwing, DeqLoad, DeqAssign, DeqCheck, DeqNext,
         DeqAssignNext, DeqCheckNext, DeqValid, DeqTail, DeqHelp, DeqDispose, Leave,
         Clear, Destroy, Enqueue, Dequeue, Close, At, HelpDone, Enter
<1>. QED  BY <1>1 DEF DeqTake, Go, Goto, Unlinks, TypeInv, RecInv, GcTypes, CodeTypes

-----------------------------------------------------------------------------
(* What a step does to the chain.                                          *)

LEMMA NewChain ==
    ASSUME NEW s, Path(m_pHead', m_pNext', s)
    PROVE  Chain' = s /\ Path(m_pHead, m_pNext, Chain)'
<1>1. Chain' = s
  BY ChainOfPath, ChainDependsNext
<1>. QED  BY <1>1

LEMMA ChainNodes ==
    ASSUME Ordered
    PROVE  /\ Len(Chain) \in Nat /\ Chain \in Seq(Cells)
           /\ \A i \in 1..Len(Chain) : Chain[i] \in Cells
           /\ \A i \in 1..Len(Chain) : m_pNext[Chain[i]] = NULL <=> i = Len(Chain)
           /\ m_pHead = NULL <=> Chain = <<>>
           /\ Chain # <<>> => Len(Chain) >= 1 /\ Chain[1] = m_pHead
<1>1. Path(m_pHead, m_pNext, Chain)
  BY DEF Ordered
<1>2. Chain # <<>> => Chain[1] = m_pHead
  BY <1>1 DEF Path
<1>. QED  BY <1>1, <1>2, PathNodes

\* The nodes of the chain are in the queue, and its last node is the one without a link.
LEMMA ChainInShape ==
    ASSUME MemInv, Ordered, phase \in {"open", "closed"}, NEW S \in SUBSET Cells, List(S)
    PROVE  /\ Chain # <<>>
           /\ \A i \in 1..Len(Chain) : Chain[i] \in S
           /\ \A x \in S : m_pNext[x] = NULL => x = Chain[Len(Chain)]
<1>1. Path(m_pHead, m_pNext, Chain) /\ Chain # <<>>
  BY ChainNodes DEF Ordered
<1>2. m_pHead \in S /\ \A x \in S : m_pNext[x] \in S \cup {NULL}
  BY DEF List
<1>3. \A i \in 1..Len(Chain) : Chain[i] \in S
  BY <1>1, <1>2, PathInside
<1>4. Len(Chain) \in 1..Len(Chain) /\ m_pNext[Chain[Len(Chain)]] = NULL
  BY <1>1, ChainNodes
<1>. QED  BY <1>1, <1>3, <1>4 DEF List

ChainMoves(t) ==
    \/ Chain' = Chain /\ ~Links(t) /\ ~Unlinks(t) /\ ~Destroy(t)
    \/ Links(t) /\ Chain # <<>> /\ Chain' = Append(Chain, new[t])
    \/ /\ Unlinks(t) /\ Chain' = Tail(Chain)
       /\ Len(Chain) >= 2 /\ Chain[1] = node[t] /\ Chain[2] = next[t]
    \/ Destroy(t) /\ Chain = <<m_pHead>> /\ Chain' = <<>>

LEMMA LinkMovesChain ==
    ASSUME OrderInv, NEW t \in Threads, Links(t), m_pHead' = m_pHead,
           phase \in {"open", "closed"}
    PROVE  ChainMoves(t) /\ Path(m_pHead, m_pNext, Chain)'
<1>1. PICK S \in SUBSET Cells : List(S) /\ View(S, t)
  BY DEF OrderInv, MemInv, Shape
<1>2. /\ Chain # <<>> /\ \A i \in 1..Len(Chain) : Chain[i] \in S
      /\ \A x \in S : m_pNext[x] = NULL => x = Chain[Len(Chain)]
  BY <1>1, ChainInShape DEF OrderInv
<1>3. node[t] \in S /\ new[t] \notin S
  BY <1>1 DEF View, Links, TailPcs, NewPcs
<1>4. node[t] = Chain[Len(Chain)]
  BY <1>2, <1>3 DEF Links
<1>5. new[t] \in Node /\ m_pNext[new[t]] = NULL
  BY DEF OrderInv, MemInv, TypeInv, NotNull, HoldsCells, ThreadInv, NewIsPrivate, Links, NewPcs
<1>6. m_pNext \in [Cells -> Node \cup {NULL}] /\ Path(m_pHead, m_pNext, Chain)
  BY DEF OrderInv, MemInv, TypeInv, QueueTypes, Ordered
<1>7. \A i \in 1..Len(Chain) : Chain[i] # new[t]
  BY <1>2, <1>3
<1>8. Path(m_pHead, [m_pNext EXCEPT ![node[t]] = new[t]], Append(Chain, new[t]))
  BY <1>2, <1>4, <1>5, <1>6, <1>7, PathAppended
<1>9. Path(m_pHead', m_pNext', Append(Chain, new[t]))
  BY <1>8 DEF Links
<1>. QED  BY <1>2, <1>9, NewChain DEF ChainMoves

LEMMA UnlinkMovesChain ==
    ASSUME OrderInv, NEW t \in Threads, Unlinks(t), m_pNext' = m_pNext,
           phase \in {"open", "closed"}
    PROVE  ChainMoves(t) /\ Path(m_pHead, m_pNext, Chain)'
<1>1. Path(m_pHead, m_pNext, Chain) /\ Chain # <<>>
  BY ChainNodes DEF OrderInv, Ordered
<1>2. next[t] \in Node /\ next[t] # NULL /\ m_pHead = node[t] /\ next[t] = m_pNext[m_pHead]
  BY CollectorAssumption DEF OrderInv, MemInv, TypeInv, NotNull, HoldsCells, ThreadInv, LinkRead,
     Unlinks, NextPcs
<1>3. Path(m_pHead', m_pNext', Tail(Chain))
  BY <1>1, <1>2, PathShortened DEF Unlinks
<1>4. Len(Chain) \in Nat /\ Chain[1] = m_pHead /\ Len(Chain) >= 1 /\ 1 # Len(Chain)
  <2>1. 1 \in 1..Len(Chain) /\ Chain[1] = m_pHead /\ Len(Chain) \in Nat
    BY <1>1, ChainNodes DEF OrderInv
  <2>. QED  BY <1>2, <2>1, ChainNodes DEF OrderInv
<1>5. m_pNext[Chain[1]] = Chain[2]
  <2>1. 1 \in 1..Len(Chain) /\ 1 + 1 = 2
    BY <1>4
  <2>. QED  BY <1>1, <1>4, <2>1 DEF Path
<1>6. Len(Chain) >= 2
  <2>1. \A n \in Nat : n >= 1 /\ 1 # n => n >= 2
    OBVIOUS
  <2>. QED  BY <1>4, <2>1, Zenon
<1>. QED  BY <1>2, <1>3, <1>4, <1>5, <1>6, NewChain DEF ChainMoves

LEMMA DestroyMovesChain ==
    ASSUME OrderInv, NEW t \in Threads, Destroy(t), phase \in {"open", "closed"}
    PROVE  ChainMoves(t) /\ Path(m_pHead, m_pNext, Chain)' /\ m_pHead' = NULL /\ phase' = "destroyed"
<1>1. Path(m_pHead, m_pNext, Chain) /\ Chain # <<>> /\ Len(Chain) \in Nat /\ Len(Chain) >= 1
      /\ Chain[1] = m_pHead /\ Chain \in Seq(Cells)
  BY ChainNodes DEF OrderInv, Ordered
<1>2. m_pNext[m_pHead] = NULL
  BY DEF OrderInv, MemInv, TypeInv, Alone, InClear, Clearing, Destroy, At
<1>3. Len(Chain) = 1
  <2>1. \A n \in Nat : n >= 1 => 1 \in 1..n
    OBVIOUS
  <2>2. 1 \in 1..Len(Chain)
    BY <1>1, <2>1, Zenon
  <2>. QED  BY <1>1, <1>2, <2>2, ChainNodes DEF OrderInv
<1>4. Chain = <<m_pHead>>
  BY <1>1, <1>3
<1>5. Path(NULL, m_pNext', <<>>)
  BY DEF Path
<1>6. m_pHead' = NULL /\ phase' = "destroyed"
  BY DEF Destroy
<1>. QED  BY <1>4, <1>5, <1>6, NewChain DEF ChainMoves

LEMMA QueueMovesChain ==
    ASSUME OrderInv, NEW t \in Threads, QueueMove(t)
    PROVE  ChainMoves(t) /\ Ordered'
<1>. TypeInv /\ TypeInv'
  BY QueueKeepsTypes DEF OrderInv, MemInv
<1>1. CASE phase' \notin {"open", "closed"}
  <2>1. CASE Destroy(t) /\ phase \in {"open", "closed"}
    BY <2>1, DestroyMovesChain DEF Ordered
  <2>2. CASE Leave(t) /\ phase \in {"destroyed", "ended"}
    <3>1. /\ UNCHANGED <<m_pHead, m_pNext, phase>> /\ pc[t] \in {"leave", "help"}
      BY <2>2 DEF Leave, queue, At, HelpDone
    <3>2. ~Links(t) /\ ~Unlinks(t) /\ ~Destroy(t)
      BY <3>1 DEF Links, Unlinks, Destroy, At
    <3>3. Path(m_pHead', m_pNext', Chain)
      BY <3>1 DEF OrderInv, Ordered
    <3>. QED  BY <3>1, <3>2, <3>3, NewChain DEF ChainMoves, OrderInv, Ordered
  <2>. QED  BY <1>1, <2>1, <2>2, QueueEnds
<1>2. CASE phase' \in {"open", "closed"}
  <2>1. phase \in {"open", "closed"} /\ ~Destroy(t)
    BY <1>2 DEF TypeInv, QueueTypes, KeepGc, QueueMove, QueueStep, EnqLoad, EnqAssign, EnqCheck,
         EnqNext, EnqHelp, EnqLink, EnqSwing, DeqLoad, DeqAssign, DeqCheck, DeqNext,
         DeqAssignNext, DeqCheckNext, DeqValid, DeqTail, DeqHelp, DeqTake, DeqDispose, Leave,
         Clear, Destroy, Enqueue, Dequeue, Close
  <2>2. m_pHead' # NULL
    BY <1>2, CellsFinite DEF TypeInv, NotNull
  <2>3. ChainMoves(t) /\ Path(m_pHead, m_pNext, Chain)'
    <3>1. CASE UNCHANGED <<m_pHead, m_pTail, m_pNext>> /\ ~Unlinks(t)
      <4>1. ~Links(t)
        <5>. SUFFICES ASSUME Links(t) PROVE FALSE
          OBVIOUS
        <5>1. new[t] \in Node /\ new[t] # NULL /\ node[t] \in Cells
          BY CollectorAssumption DEF TypeInv, NotNull, HoldsCells, Links, NewPcs, TailPcs
        <5>. QED  BY <3>1, <5>1 DEF Links, TypeInv, QueueTypes
      <4>2. Path(m_pHead', m_pNext', Chain)
        BY <3>1 DEF OrderInv, Ordered
      <4>. QED  BY <2>1, <3>1, <4>1, <4>2, NewChain DEF ChainMoves
    <3>2. CASE Links(t) /\ UNCHANGED <<m_pHead, m_pTail>>
      BY <2>1, <3>2, LinkMovesChain
    <3>3. CASE Unlinks(t) /\ UNCHANGED <<m_pTail, m_pNext>> /\ pc'[t] = "deq_dispose"
      BY <2>1, <3>3, UnlinkMovesChain
    <3>4. CASE Swings(t)
      <4>1. ~Links(t) /\ ~Unlinks(t) /\ UNCHANGED <<m_pHead, m_pNext>>
        BY <3>4 DEF Swings, Links, Unlinks
      <4>2. Path(m_pHead', m_pNext', Chain)
        BY <4>1 DEF OrderInv, Ordered
      <4>. QED  BY <2>1, <4>1, <4>2, NewChain DEF ChainMoves
    <3>. QED  BY <1>2, <3>1, <3>2, <3>3, <3>4, QueuePointers
  <2>. QED  BY <1>2, <2>2, <2>3 DEF Ordered
<1>. QED  BY <1>1, <1>2

LEMMA CollectorKeepsChain ==
    ASSUME OrderInv, NEW t \in Threads, GcMove(t)
    PROVE  Chain' = Chain /\ Ordered'
<1>1. Path(m_pHead, m_pNext, Chain) /\ UNCHANGED <<m_pHead, phase>>
  BY GcIsMine DEF OrderInv, MemInv, Ordered
<1>2. ASSUME NEW i \in 1..Len(Chain) PROVE m_pNext'[Chain[i]] = m_pNext[Chain[i]]
  <2>1. phase \in {"open", "closed"}
    BY ChainNodes DEF OrderInv, Ordered, MemInv, TypeInv, QueueTypes
  <2>2. PICK S \in SUBSET Cells : List(S)
    BY <2>1 DEF OrderInv, MemInv, Shape
  <2>3. Chain[i] \in Cells /\ Chain[i] \in Kept \ Retired
    BY <2>1, <2>2, ChainInShape DEF OrderInv, List
  <2>. QED  BY <2>3, GcMemory DEF OrderInv
<1>3. Path(m_pHead', m_pNext', Chain)
  BY <1>1, <1>2, PathKept
<1>. QED  BY <1>1, <1>3, NewChain DEF OrderInv, Ordered
-----------------------------------------------------------------------------
(* What the threads know is kept.                                          *)

\* Once the destructor has begun, only its thread takes steps.
LEMMA OnlyOwner ==
    ASSUME TypeInv, NEW t \in Threads, QueueMove(t) \/ GcMove(t), phase # "open"
    PROVE  t = Owner
<1>. SUFFICES ASSUME t # Owner PROVE FALSE
  OBVIOUS
<1>1. pc[t] = "idle"
  BY DEF TypeInv, Alone
<1>2. ~GcMove(t)
  BY <1>1, GcIsMine
<1>3. ~QueueMove(t)
  BY <1>1 DEF QueueMove, QueueStep, EnqLoad, EnqAssign, EnqCheck,
         EnqNext, EnqHelp, EnqLink, EnqSwing, DeqLoad, DeqAssign, DeqCheck, DeqNext,
         DeqAssignNext, DeqCheckNext, DeqValid, DeqTail, DeqHelp, DeqTake, DeqDispose, Leave,
         Clear, Destroy, Enqueue, Dequeue, Close, At, HelpDone
<1>. QED  BY <1>2, <1>3

\* The calls of the collector, and those that it is called from.
GcCall(t) ==
    \/ call'[t] = call[t]
    \/ /\ call[t] \in {"none", "attach", "detach"}
       /\ call'[t] \in {"none", "attach", "detach"}

LEMMA CollectorsCall ==
    ASSUME TypeInv, NEW t \in Threads, GcMove(t), CallOf(t)
    PROVE  CallOf(t)' /\ GcCall(t)
<1>1. Mine(t) /\ pc[t] \in GcPcs
  BY GcIsMine
<1>. USE DEF Mine, Goto, Enter, TypeInv, RecInv, GcTypes, CodeTypes, CallOf, GcCall, Looking,
     Disposing,
     NewPcs, Allocating, AttachReturn, HelpDone, Scanning
<1>2. CASE Attach(t)
  BY <1>1, <1>2 DEF Attach
<1>3. CASE Detach(t)
  BY <1>1, <1>3 DEF Detach
<1>4. CASE End(t)
  BY <1>1, <1>4 DEF End
<1>5. CASE AllocOwn(t)
  BY <1>1, <1>5 DEF AllocOwn
<1>6. CASE AllocUnfree(t)
  BY <1>1, <1>6 DEF AllocUnfree
<1>7. CASE AllocNew(t)
  BY <1>1, <1>7 DEF AllocNew
<1>8. CASE ScanOwn(t)
  BY <1>1, <1>8 DEF ScanOwn
<1>9. CASE ScanRecord(t)
  BY <1>1, <1>9 DEF ScanRecord
<1>10. CASE ScanSlot(t)
  BY <1>1, <1>10 DEF ScanSlot
<1>11. CASE ScanFree(t)
  BY <1>1, <1>11 DEF ScanFree
<1>12. CASE HelpSkip(t)
  BY <1>1, <1>12 DEF HelpSkip
<1>13. CASE HelpOwn(t)
  BY <1>1, <1>13 DEF HelpOwn
<1>14. CASE HelpMove(t)
  BY <1>1, <1>14 DEF HelpMove
<1>15. CASE HelpRelease(t)
  BY <1>1, <1>15 DEF HelpRelease
<1>16. CASE DetachRelease(t)
  BY <1>1, <1>16 DEF DetachRelease
<1>17. CASE HelpMoveFull(t)
  BY <1>1, <1>17 DEF HelpMoveFull
<1>. QED
  BY <1>2, <1>3, <1>4, <1>5, <1>6, <1>7, <1>8, <1>9, <1>10, <1>11, <1>12, <1>13, <1>14, <1>15, <1>16,
     <1>17 DEF GcMove, Lifetime, GcLifetime, GcStep

\* The locals of the other threads, their calls included.
LEMMA OthersKeep ==
    ASSUME TypeInv, NEW t \in Threads, Mine(t), NEW u \in Threads \ {t}
    PROVE  /\ pc'[u] = pc[u] /\ call'[u] = call[u]
           /\ node'[u] = node[u] /\ next'[u] = next[u] /\ new'[u] = new[u]
BY OthersStay DEF TypeInv, RecInv, GcTypes, CodeTypes, Mine

LEMMA CallsKept ==
    ASSUME OrderInv, NEW t \in Threads, QueueMove(t) \/ GcMove(t), NEW u \in Threads
    PROVE  CallOf(u)'
<1>1. TypeInv /\ Mine(t) /\ CallOf(u)
  BY QueueIsMine, GcIsMine DEF OrderInv, MemInv
<1>2. CASE u = t
  BY <1>1, <1>2, OwnCall, CollectorsCall
<1>3. CASE u # t
  BY <1>1, <1>3, OthersKeep DEF CallOf, Looking, Disposing
<1>. QED  BY <1>2, <1>3

LEMMA ClearingKept ==
    ASSUME OrderInv, NEW t \in Threads, QueueMove(t) \/ GcMove(t), NEW u \in Threads
    PROVE  Clearing(u)'
<1>1. TypeInv /\ Mine(t) /\ Clearing(u) /\ CallOf(u) /\ InClear(u)
  BY QueueIsMine, GcIsMine DEF OrderInv, MemInv, TypeInv, Alone
<1>2. CASE u = t /\ QueueMove(t)
  BY <1>1, <1>2, OwnClearing
<1>3. CASE u = t /\ GcMove(t)
  <2>1. pc[t] \in GcPcs /\ pc'[t] \in GcPcs /\ next'[t] = next[t]
    BY <1>1, <1>3, GcIsMine DEF locals
  <2>2. call'[t] = "clear" => call[t] = "clear"
    BY <1>1, <1>3, CollectorsCall DEF GcCall
  <2>. QED  BY <1>1, <1>3, <2>1, <2>2 DEF Clearing, GcPcs, Helping
<1>4. CASE u # t
  <2>1. call'[u] = call[u]
    BY <1>1, <1>4, OthersKeep
  <2>2. call[u] # "clear"
    BY <1>1, <1>4, OnlyOwner DEF InClear
  <2>. QED  BY <2>1, <2>2 DEF Clearing
<1>. QED  BY <1>2, <1>3, <1>4

LEMMA EmptySeenKept ==
    ASSUME OrderInv, NEW t \in Threads, QueueMove(t), NEW u \in Threads
    PROVE  EmptySeen(u)'
<1>1. TypeInv /\ TypeInv' /\ Mine(t) /\ EmptySeen(u)
  BY QueueIsMine, QueueKeepsTypes DEF OrderInv, MemInv
<1>2. CASE u = t
  BY <1>1, <1>2, OwnEmptySeen
<1>3. CASE u # t /\ phase' \notin {"open", "closed"}
  <2>1. pc'[u] \notin HeadPcs
    BY <1>1, <1>3 DEF TypeInv, QueueTypes, Alone, QueuePcs, HeadPcs
  <2>. QED  BY <2>1 DEF EmptySeen
<1>4. CASE u # t /\ phase' \in {"open", "closed"}
  <2>. SUFFICES ASSUME pc[u] \in HeadPcs, m_pNext'[node[u]] = NULL PROVE node[u] = m_pHead'
    BY <1>1, <1>4, OthersKeep DEF EmptySeen
  <2>1. node[u] \in Cells
    BY <1>1 DEF TypeInv, NotNull, HoldsCells
  <2>2. CASE UNCHANGED <<m_pHead, m_pTail, m_pNext>> \/ Swings(t)
    BY <1>1, <2>2 DEF EmptySeen, Swings
  <2>3. CASE Links(t) /\ UNCHANGED <<m_pHead, m_pTail>>
    <3>1. new[t] # NULL
      BY <1>1, <2>3, CollectorAssumption DEF TypeInv, NotNull, HoldsCells, Links, NewPcs
    <3>2. m_pNext[node[u]] = NULL
      BY <1>1, <2>1, <2>3, <3>1 DEF Links, TypeInv, QueueTypes
    <3>. QED  BY <1>1, <2>3, <3>2 DEF EmptySeen
  <2>4. CASE Unlinks(t) /\ UNCHANGED <<m_pTail, m_pNext>>
    <3>1. next[t] # NULL /\ next[t] = m_pNext[m_pHead]
      BY <1>1, <2>4, CollectorAssumption
         DEF OrderInv, MemInv, TypeInv, NotNull, HoldsCells, ThreadInv, LinkRead, Unlinks, NextPcs
    <3>. QED  BY <1>1, <2>4, <3>1 DEF EmptySeen
  <2>. QED  BY <1>1, <1>4, <2>2, <2>3, <2>4, QueuePointers
<1>. QED  BY <1>2, <1>3, <1>4

LEMMA EmptySeenByCollector ==
    ASSUME OrderInv, NEW t \in Threads, GcMove(t), NEW u \in Threads
    PROVE  EmptySeen(u)'
<1>1. MemInv /\ EmptySeen(u)
  BY DEF OrderInv
<1>2. UNCHANGED <<m_pHead, node>> /\ (pc'[u] \in HeadPcs => pc[u] \in HeadPcs)
  BY <1>1, CollectorKeepsPcs DEF QueuePcs
<1>3. ASSUME pc[u] \in HeadPcs PROVE m_pNext'[node[u]] = m_pNext[node[u]]
  <2>1. node[u] \in Cells /\ Holds(u, 1, node[u]) /\ 1 \in Slots
    BY <1>1, <1>3 DEF MemInv, TypeInv, NotNull, HoldsCells, Holds, Slots
  <2>2. node[u] \notin live \ live'
    BY <1>1, <2>1, HeldIsNotFreed
  <2>. QED  BY <1>1, <2>1, <2>2, GcMemory
<1>. QED  BY <1>1, <1>2, <1>3 DEF EmptySeen
-----------------------------------------------------------------------------
(* Every node is accounted for.                                            *)

\* A node that was retired, or is retired now.
LEMMA RetiredNow ==
    ASSUME MemInv, NEW t \in Threads, QueueMove(t), pc[t] \notin Allocating \cup {"idle"},
           NEW n \in Node, RetirePush(t, n)
    PROVE  n \in Retired'
<1>1. m_pHzpRec[t] \in Records
  BY OwnRecord DEF MemInv
<1>2. n \in m_arrRetired'[m_pHzpRec[t]]
  BY <1>1 DEF RetirePush, MemInv, TypeInv, RecInv, GcTypes, RecordTypes
<1>. QED  BY <1>1, <1>2 DEF Retired

LEMMA RetiredStays ==
    ASSUME MemInv, NEW t \in Threads, GcMove(t), NEW n \in Retired, n \in live'
    PROVE  n \in Retired'
<1>1. PICK r \in Records : n \in m_arrRetired[r]
  BY DEF Retired
<1>. m_arrRetired \in [Records -> SUBSET Node]
  BY DEF MemInv, TypeInv, RecInv, GcTypes, RecordTypes
<1>2. CASE UNCHANGED <<m_arrRetired, live>>
  BY <1>1, <1>2 DEF Retired
<1>3. CASE /\ Scanning(t) /\ pNode[t] = 0 /\ m_pHzpRec[t] \in Records
           /\ live' = live \ (m_arrRetired[m_pHzpRec[t]] \ marked[t])
           /\ m_arrRetired' = [m_arrRetired EXCEPT ![m_pHzpRec[t]] = marked[t]]
  <2>1. n \in m_arrRetired'[r]
    BY <1>1, <1>3
  <2>. QED  BY <2>1 DEF Retired
<1>4. CASE /\ pc[t] = "help_move" /\ live' = live /\ m_pHzpRec[t] \in Records
           /\ hprec[t] \in Records \ {m_pHzpRec[t]} /\ m_idOwner[hprec[t]] = t
           /\ \E moved \in SUBSET m_arrRetired[hprec[t]] : Moved(t, moved)
  <2>1. n \in m_arrRetired'[r] \/ n \in m_arrRetired'[m_pHzpRec[t]]
    BY <1>1, <1>4 DEF Moved
  <2>. QED  BY <1>4, <2>1 DEF Retired
<1>. QED  BY <1>2, <1>3, <1>4, ArraysMove

\* What a step of the queue makes of a node in the queue.
LEMMA ChainPasses ==
    ASSUME OrderInv, NEW t \in Threads, QueueMove(t), NEW n \in Node, InChain(n)
    PROVE  \/ InChain(n)'
           \/ pc'[t] = "deq_dispose" /\ node'[t] = n
           \/ n \in Retired'
<1>1. PICK i \in 1..Len(Chain) : Chain[i] = n
  BY DEF InChain
<1>2. Len(Chain) \in Nat /\ Chain \in Seq(Cells)
  BY ChainNodes DEF OrderInv
<1>3. CASE Chain' = Chain
  BY <1>1, <1>3 DEF InChain
<1>4. CASE Chain' = Append(Chain, new[t])
  <2>1. i \in 1..Len(Append(Chain, new[t])) /\ Append(Chain, new[t])[i] = n
    BY <1>1, <1>2
  <2>. QED  BY <1>4, <2>1 DEF InChain
<1>5. CASE Unlinks(t) /\ Chain' = Tail(Chain) /\ Len(Chain) >= 2 /\ Chain[1] = node[t]
  <2>1. CASE i = 1
    <3>1. pc'[t] = "deq_dispose" /\ node'[t] = node[t]
      BY <1>5, UnlinkGoesOn DEF OrderInv, MemInv, Unlinks
    <3>. QED  BY <1>1, <1>5, <2>1, <3>1
  <2>2. CASE i # 1
    <3>1. i - 1 \in 1..Len(Tail(Chain)) /\ Tail(Chain)[i - 1] = n
      BY <1>1, <1>2, <1>5, <2>2
    <3>. QED  BY <1>5, <3>1 DEF InChain
  <2>. QED  BY <2>1, <2>2
<1>6. CASE Destroy(t) /\ Chain = <<m_pHead>>
  <2>1. n = m_pHead /\ n # Dummy /\ pc[t] = "destroy"
    BY <1>1, <1>6, QueueAssumption DEF Destroy, At
  <2>2. RetirePush(t, n)
    BY <2>1, HandsOf DEF Hands, OrderInv, MemInv
  <2>. QED  BY <2>1, <2>2, RetiredNow DEF OrderInv, Allocating
<1>. QED  BY <1>3, <1>4, <1>5, <1>6, QueueMovesChain DEF ChainMoves

LEMMA QueueAccounts ==
    ASSUME OrderInv, NEW t \in Threads, QueueMove(t)
    PROVE  Accounted'
<1>. SUFFICES ASSUME NEW n \in live'
              PROVE  \/ InChain(n)'
                     \/ \E u \in Threads : pc'[u] \in NewPcs /\ new'[u] = n
                     \/ \E u \in Threads : pc'[u] = "deq_dispose" /\ node'[u] = n
                     \/ n \in Retired'
  BY DEF Accounted, Disposing
<1>1. MemInv /\ TypeInv /\ Mine(t) /\ Hands(t)
  BY QueueIsMine, HandsOf DEF OrderInv, MemInv
<1>2. CASE n \notin live
  <2>1. PICK m \in Node : Makes(t, m)
    BY <1>1, <1>2, QueueMemory
  <2>2. pc'[t] \in NewPcs /\ new'[t] = n
    BY <1>1, <1>2, <2>1 DEF Hands, Makes
  <2>. QED  BY <2>2
<1>3. CASE n \in live
  <2>. n \in Node
    BY <1>1, <1>3 DEF TypeInv, RecInv, GcTypes, LifeTypes
  <2>1. CASE InChain(n)
    BY <2>1, ChainPasses
  <2>2. ASSUME NEW u \in Threads, pc[u] \in NewPcs, new[u] = n
        PROVE  InChain(n)' \/ (pc'[u] \in NewPcs /\ new'[u] = n)
    <3>1. CASE u # t
      BY <1>1, <2>2, <3>1, OthersKeep
    <3>2. CASE u = t /\ Links(t)
      <4>1. Chain' = Append(Chain, n) /\ Chain \in Seq(Cells) /\ Len(Chain) \in Nat
        <5>1. ~Unlinks(t) /\ ~Destroy(t)
          BY <3>2 DEF Links, Unlinks, Destroy, At
        <5>. QED  BY <2>2, <3>2, <5>1, QueueMovesChain, ChainNodes DEF ChainMoves, OrderInv
      <4>2. Len(Chain) + 1 \in 1..Len(Append(Chain, n)) /\ Append(Chain, n)[Len(Chain) + 1] = n
        BY <4>1
      <4>. QED  BY <4>1, <4>2 DEF InChain
    <3>3. CASE u = t /\ ~Links(t)
      BY <1>1, <2>2, <3>3 DEF Hands
    <3>. QED  BY <3>1, <3>2, <3>3
  <2>3. ASSUME NEW u \in Threads, Disposing(u), node[u] = n
        PROVE  n \in Retired' \/ (pc'[u] = "deq_dispose" /\ node'[u] = n)
    <3>1. CASE u # t
      BY <1>1, <2>3, <3>1, OthersKeep DEF Disposing
    <3>2. CASE u = t
      <4>1. n # Dummy /\ pc[t] = "deq_dispose"
        BY <2>3, <3>2, QueueAssumption DEF Disposing
      <4>2. RetirePush(t, n)
        BY <1>1, <2>3, <3>2, <4>1 DEF Hands
      <4>. QED  BY <1>1, <4>1, <4>2, RetiredNow DEF Allocating
    <3>. QED  BY <3>1, <3>2
  <2>4. CASE n \in Retired
    BY <1>1, <2>4, RetiredNodes
  <2>. QED  BY <1>3, <2>1, <2>2, <2>3, <2>4 DEF OrderInv, Accounted
<1>. QED  BY <1>2, <1>3

LEMMA CollectorAccounts ==
    ASSUME OrderInv, NEW t \in Threads, GcMove(t)
    PROVE  Accounted'
<1>. SUFFICES ASSUME NEW n \in live'
              PROVE  \/ InChain(n)'
                     \/ \E u \in Threads : pc'[u] \in NewPcs /\ new'[u] = n
                     \/ \E u \in Threads : pc'[u] = "deq_dispose" /\ node'[u] = n
                     \/ n \in Retired'
  BY DEF Accounted, Disposing
<1>1. n \in live /\ MemInv /\ TypeInv
  BY GcMemory DEF OrderInv, MemInv
<1>2. CASE InChain(n)
  BY <1>2, CollectorKeepsChain DEF InChain
<1>3. CASE n \in Retired
  BY <1>1, <1>3, RetiredStays
<1>4. ASSUME NEW u \in Threads, pc[u] \in NewPcs \cup {"deq_dispose"}
      PROVE  pc'[u] = pc[u] /\ node'[u] = node[u] /\ new'[u] = new[u]
  BY <1>1, <1>4, CollectorKeepsPcs DEF QueuePcs, NextPcs
<1>. QED  BY <1>1, <1>2, <1>3, <1>4 DEF OrderInv, Accounted, Disposing
-----------------------------------------------------------------------------
(* The invariant of the order, and what follows from it.                   *)

LEMMA QueueKeepsOrder ==
    ASSUME OrderInv, NEW t \in Threads, QueueMove(t)
    PROVE  OrderInv'
<1>1. MemInv' /\ Ordered' /\ Accounted'
  BY QueueKeeps, QueueMovesChain, QueueAccounts DEF OrderInv
<1>2. ASSUME NEW u \in Threads PROVE CallOf(u)' /\ EmptySeen(u)' /\ Clearing(u)'
  BY CallsKept, EmptySeenKept, ClearingKept
<1>. QED  BY <1>1, <1>2 DEF OrderInv

LEMMA CollectorKeepsOrder ==
    ASSUME OrderInv, NEW t \in Threads, GcMove(t)
    PROVE  OrderInv'
<1>1. MemInv' /\ Ordered' /\ Accounted'
  BY CollectorKeepsAll, CollectorKeepsChain, CollectorAccounts DEF OrderInv
<1>2. ASSUME NEW u \in Threads PROVE CallOf(u)' /\ EmptySeen(u)' /\ Clearing(u)'
  BY CallsKept, EmptySeenByCollector, ClearingKept
<1>. QED  BY <1>1, <1>2 DEF OrderInv

LEMMA DestructKeepsOrder ==
    ASSUME OrderInv, Destruct
    PROVE  OrderInv' /\ Chain' = Chain
<1>1. /\ UNCHANGED <<pc, call, node, next, new, m_pHead, m_pNext>>
      /\ phase = "destroyed" /\ phase' = "ended" /\ \A u \in Threads : pc[u] = "idle"
      /\ live' = live \ Retired
  BY DEF Destruct, DestroyRecords, Retired, locals, queue, OrderInv, MemInv, TypeInv, Alone, At
<1>2. Chain' = Chain /\ Path(m_pHead, m_pNext, Chain)'
  BY <1>1, NewChain DEF OrderInv, Ordered
<1>3. MemInv' /\ Ordered'
  BY <1>1, <1>2, DestructKeepsAll DEF OrderInv, Ordered
<1>4. Accounted'
  BY <1>1, <1>2 DEF OrderInv, Accounted, InChain, NewPcs, Disposing
<1>5. ASSUME NEW u \in Threads PROVE CallOf(u)' /\ EmptySeen(u)' /\ Clearing(u)'
  <2>1. call[u] = "none"
    BY <1>1 DEF OrderInv, CallOf
  <2>. QED  BY <1>1, <2>1 DEF OrderInv, CallOf, Looking, Disposing, EmptySeen, Clearing, HeadPcs
<1>. QED  BY <1>2, <1>3, <1>4, <1>5 DEF OrderInv

LEMMA StutterKeepsOrder ==
    ASSUME OrderInv, UNCHANGED vars
    PROVE  OrderInv'
<1>1. /\ UNCHANGED <<pc, call, node, next, new, m_pHead, m_pNext, phase, live, m_arrRetired>>
  BY DEF vars, gcVars, queue, locals
<1>2. Chain' = Chain /\ Path(m_pHead, m_pNext, Chain)'
  BY <1>1, NewChain DEF OrderInv, Ordered
<1>3. MemInv' /\ Ordered'
  BY <1>1, <1>2, StutterKeepsAll DEF OrderInv, Ordered
<1>4. Accounted'
  BY <1>1, <1>2 DEF OrderInv, Accounted, InChain, Disposing, Retired
<1>5. ASSUME NEW u \in Threads PROVE CallOf(u)' /\ EmptySeen(u)' /\ Clearing(u)'
  BY <1>1 DEF OrderInv, CallOf, Looking, Disposing, EmptySeen, Clearing
<1>. QED  BY <1>3, <1>4, <1>5 DEF OrderInv

LEMMA InitOrder == Init => OrderInv /\ Chain = <<Dummy>>
<1>. SUFFICES ASSUME Init PROVE OrderInv /\ Chain = <<Dummy>>
  OBVIOUS
<1>1. /\ \A t \in Threads : pc[t] = "idle" /\ call[t] = "none"
      /\ m_pHead = Dummy /\ m_pNext[Dummy] = NULL /\ phase = "open" /\ live = {}
  BY DEF Init, GcInit
<1>2. Path(m_pHead, m_pNext, <<Dummy>>)
  BY <1>1 DEF Path, Cells
<1>3. Chain = <<Dummy>>
  BY <1>2, ChainOfPath, ChainDepends
<1>4. MemInv /\ Ordered
  BY <1>1, <1>2, <1>3, InitMemory, QueueAssumption DEF Ordered
<1>5. Accounted
  BY <1>1 DEF Accounted
<1>6. ASSUME NEW u \in Threads PROVE CallOf(u) /\ EmptySeen(u) /\ Clearing(u)
  BY <1>1 DEF CallOf, Looking, Disposing, EmptySeen, Clearing, HeadPcs, NewPcs, Allocating
<1>. QED  BY <1>3, <1>4, <1>5, <1>6 DEF OrderInv

LEMMA OrderInvariant == Spec => []OrderInv
<1>1. OrderInv /\ [Next]_vars => OrderInv'
  BY NextSplit, QueueKeepsOrder, CollectorKeepsOrder, DestructKeepsOrder, StutterKeepsOrder
<1>. QED  BY <1>1, InitOrder, PTL DEF Spec

\* m_pTail is the last node or the one before: it is in the queue, and at most one step
\* away from the node without a link; it is never behind the head.
LEMMA TailInChain ==
    ASSUME OrderInv
    PROVE  TailIsClose
<1>. SUFFICES ASSUME phase \in {"open", "closed"}
              PROVE  \E i \in {Len(Chain) - 1, Len(Chain)} \ {0} : m_pTail = Chain[i]
  BY DEF TailIsClose
<1>. DEFINE L == Len(Chain)
<1>1. PICK S \in SUBSET Cells : List(S)
  BY DEF OrderInv, MemInv, Shape
<1>2. /\ Chain # <<>> /\ \A i \in 1..L : Chain[i] \in S
      /\ \A x \in S : m_pNext[x] = NULL => x = Chain[L]
  BY <1>1, ChainInShape DEF OrderInv
<1>3. L \in Nat /\ L >= 1 /\ Chain[1] = m_pHead
  BY <1>2, ChainNodes DEF OrderInv
<1>4. CASE m_pNext[m_pTail] = NULL
  <2>1. m_pTail = Chain[L]
    BY <1>1, <1>2, <1>4 DEF List
  <2>2. L # 0
    BY <1>3
  <2>. QED  BY <2>1, <2>2
<1>5. CASE m_pNext[m_pTail] # NULL
  <2>1. m_pNext[m_pTail] = Chain[L] /\ m_pTail \in S
    BY <1>1, <1>2, <1>5 DEF List
  <2>2. L # 1
    BY <1>1, <1>3, <2>1 DEF List
  <2>3. L - 1 \in 1..L /\ L - 1 # L /\ (L - 1) + 1 = L /\ L - 1 # 0
    <3>1. \A n \in Nat : n >= 1 /\ n # 1 => n - 1 \in 1..n /\ n - 1 # n /\ (n - 1) + 1 = n /\ n - 1 # 0
      OBVIOUS
    <3>. QED  BY <1>3, <2>2, <3>1, Zenon
  <2>4. m_pNext[Chain[L - 1]] = Chain[L]
    BY <2>3 DEF OrderInv, Ordered, Path
  <2>5. m_pTail = Chain[L - 1]
    BY <1>1, <1>2, <2>1, <2>3, <2>4 DEF List
  <2>. QED  BY <2>3, <2>5
<1>. QED  BY <1>4, <1>5

\* m_pTail is the last node or the one before, however many threads help it on or come late.
THEOREM TailStaysClose == Spec => []TailIsClose
BY OrderInvariant, TailInChain, PTL
-----------------------------------------------------------------------------
(* Every node has one holder.                                              *)

LEMMA TwoParts ==
    ASSUME NEW A, NEW B, IsFiniteSet(A), IsFiniteSet(B), A \cap B = {}
    PROVE  IsFiniteSet(A \cup B) /\ Cardinality(A \cup B) = Cardinality(A) + Cardinality(B)
<1>1. Cardinality(A \cap B) = 0
  BY FS_EmptySet, Zenon
<1>2. /\ IsFiniteSet(A \cup B)
      /\ Cardinality(A \cup B) = Cardinality(A) + Cardinality(B) - Cardinality(A \cap B)
  BY FS_Union, Zenon
<1>3. Cardinality(A) \in Nat /\ Cardinality(B) \in Nat
  BY FS_CardinalityType, Zenon
<1>4. \A a, b, c, d \in Nat : c = 0 /\ TRUE => a + b - c = a + b
  OBVIOUS
<1>. QED  BY <1>1, <1>2, <1>3, <1>4

LEMMA FourParts ==
    ASSUME NEW A, NEW B, NEW C, NEW D,
           IsFiniteSet(A), IsFiniteSet(B), IsFiniteSet(C), IsFiniteSet(D),
           A \cap B = {}, (A \cup B) \cap C = {}, (A \cup B \cup C) \cap D = {}
    PROVE  Cardinality(A \cup B \cup C \cup D)
             = Cardinality(A) + Cardinality(B) + Cardinality(C) + Cardinality(D)
<1>1. IsFiniteSet(A \cup B) /\ Cardinality(A \cup B) = Cardinality(A) + Cardinality(B)
  BY TwoParts, Zenon
<1>2. /\ IsFiniteSet((A \cup B) \cup C)
      /\ Cardinality((A \cup B) \cup C) = Cardinality(A \cup B) + Cardinality(C)
  BY <1>1, TwoParts, Zenon
<1>3. Cardinality((A \cup B \cup C) \cup D) = Cardinality((A \cup B) \cup C) + Cardinality(D)
  BY <1>2, TwoParts, Zenon
<1>. QED  BY <1>1, <1>2, <1>3, Zenon

\* The arrays hold as many entries as there are retired nodes.
LEMMA ArraysCount ==
    ASSUME MemInv, NEW A, A = {a \in Records \X Node : a[2] \in m_arrRetired[a[1]]}
    PROVE  {a[2] : a \in A} = Retired /\ Cardinality(A) = Cardinality(Retired)
<1>. DEFINE f == [a \in A |-> a[2]]
<1>1. m_arrRetired \in [Records -> SUBSET Node]
  BY DEF MemInv, TypeInv, RecInv, GcTypes, RecordTypes
<1>2. {a[2] : a \in A} = Retired
  <2>1. ASSUME NEW n \in Retired PROVE \E a \in A : a[2] = n
    <3>1. PICK r \in Records : n \in m_arrRetired[r]
      BY DEF Retired
    <3>2. <<r, n>> \in A
      BY <1>1, <3>1
    <3>. QED  BY <3>2
  <2>2. \A a \in A : a[2] \in Retired
    BY DEF Retired
  <2>. QED  BY <2>1, <2>2
<1>3. f \in Injection(A, Retired)
  <2>1. f \in [A -> Retired]
    BY <1>2
  <2>2. ASSUME NEW a \in A, NEW b \in A, f[a] = f[b] PROVE a = b
    <3>1. a[1] = b[1]
      BY <2>2 DEF MemInv, RetiredOnce
    <3>. QED  BY <2>2, <3>1
  <2>. HIDE DEF f
  <2>. QED  BY <2>1, <2>2 DEF Injection, IsInjective
<1>4. f \in Surjection(A, Retired)
  <2>1. f \in [A -> Retired] /\ \A n \in Retired : \E a \in A : f[a] = n
    BY <1>2
  <2>. HIDE DEF f
  <2>. QED  BY <2>1 DEF Surjection
<1>5. IsFiniteSet(Retired)
  <2>1. Retired \subseteq Node
    BY <1>1 DEF Retired
  <2>. QED  BY <2>1, CollectorAssumption, FS_Subset
<1>. HIDE DEF f
<1>6. Cardinality(A) = Cardinality(Retired)
  BY <1>3, <1>4, <1>5, FS_Injection
<1>. QED  BY <1>2, <1>6

\* The nodes in the queue, in the hands of the enqueues that made them, and in those of
\* the dequeues that unlinked them.
Queued == {Chain[i] : i \in DOMAIN Chain} \ {Dummy}
Made == {new[t] : t \in {u \in Threads : Linking(u)}}
Unlinked == {node[t] : t \in {u \in Threads : Disposing(u)}} \ {Dummy}

\* The four places of a node are apart, and they are all there is.
LEMMA PlacesApart ==
    ASSUME OrderInv
    PROVE  /\ live = Queued \cup Made \cup Unlinked \cup Retired
           /\ Queued \cap Made = {} /\ (Queued \cup Made) \cap Unlinked = {}
           /\ (Queued \cup Made \cup Unlinked) \cap Retired = {}
<1>1. \A u \in Threads : Linking(u) <=> pc[u] \in NewPcs
  BY DEF OrderInv, CallOf, Linking, NewPcs
<1>2. ASSUME NEW n \in Made PROVE \E u \in Threads : pc[u] \in NewPcs /\ new[u] = n
  BY <1>1, <1>2 DEF Made
<1>3. ASSUME NEW n \in Unlinked
      PROVE  n # Dummy /\ \E u \in Threads : pc[u] = "deq_dispose" /\ node[u] = n
  BY <1>3 DEF Unlinked, Disposing
<1>4. DOMAIN Chain = 1..Len(Chain) /\ \A i \in 1..Len(Chain) : Chain[i] \in Cells
  BY ChainNodes DEF OrderInv
<1>5. ASSUME NEW n \in Queued
      PROVE  /\ n \in live \ Retired
             /\ \A u \in Threads : pc[u] \in NewPcs => new[u] # n
             /\ \A u \in Threads : pc[u] = "deq_dispose" => node[u] # n
  <2>1. PICK i \in 1..Len(Chain) : Chain[i] = n /\ n # Dummy
    BY <1>4, <1>5 DEF Queued
  <2>2. phase \in {"open", "closed"}
    BY <2>1, ChainNodes DEF OrderInv, Ordered, MemInv, TypeInv, QueueTypes
  <2>3. PICK S \in SUBSET Cells : List(S) /\ \A u \in Threads : View(S, u)
    BY <2>2 DEF OrderInv, MemInv, Shape
  <2>4. n \in S
    BY <2>1, <2>2, <2>3, ChainInShape DEF OrderInv
  <2>. QED  BY <2>1, <2>3, <2>4 DEF List, View, Kept
<1>6. ASSUME NEW n \in Made
      PROVE  /\ n \in live \ Retired
             /\ \A u \in Threads : pc[u] = "deq_dispose" => node[u] # n
  BY <1>2, <1>6 DEF OrderInv, MemInv, ThreadInv, NewIsPrivate
<1>7. ASSUME NEW n \in Unlinked PROVE n \in live \ Retired
  BY <1>3, <1>7 DEF OrderInv, MemInv, ThreadInv, UnlinkedOnce, Kept
<1>8. ASSUME NEW n \in live PROVE n \in Queued \cup Made \cup Unlinked \cup Retired
  <2>1. n # Dummy
    BY QueueAssumption DEF OrderInv, MemInv, TypeInv, RecInv, GcTypes, LifeTypes
  <2>2. CASE InChain(n)
    BY <1>4, <2>1, <2>2 DEF InChain, Queued
  <2>3. ASSUME NEW u \in Threads, pc[u] \in NewPcs, new[u] = n PROVE n \in Made
    BY <1>1, <2>3 DEF Made
  <2>4. ASSUME NEW u \in Threads, Disposing(u), node[u] = n PROVE n \in Unlinked
    BY <2>1, <2>4 DEF Unlinked
  <2>. QED  BY <1>8, <2>2, <2>3, <2>4 DEF OrderInv, Accounted
<1>9. Retired \subseteq live
  BY DEF OrderInv, MemInv, RetiredOnce
<1>10. Queued \cap Made = {}
  BY <1>2, <1>5
<1>11. (Queued \cup Made) \cap Unlinked = {}
  BY <1>3, <1>5, <1>6
<1>12. (Queued \cup Made \cup Unlinked) \cap Retired = {}
  BY <1>5, <1>6, <1>7
<1>13. live = Queued \cup Made \cup Unlinked \cup Retired
  BY <1>5, <1>6, <1>7, <1>8, <1>9
<1>. QED  BY <1>10, <1>11, <1>12, <1>13

LEMMA NodesHaveOneHolder ==
    ASSUME OrderInv
    PROVE  OneHolder
<1>. DEFINE A == {a \in Records \X Node : a[2] \in m_arrRetired[a[1]]}
<1>1. {a[2] : a \in A} = Retired /\ Cardinality(A) = Cardinality(Retired)
  BY ArraysCount DEF OrderInv
<1>2. IsFiniteSet(live)
  BY CollectorAssumption, FS_Subset DEF OrderInv, MemInv, TypeInv, RecInv, GcTypes, LifeTypes
<1>3. /\ IsFiniteSet(Queued) /\ IsFiniteSet(Made) /\ IsFiniteSet(Unlinked)
      /\ IsFiniteSet(Retired)
  BY <1>2, PlacesApart, FS_Subset
<1>4. Cardinality(live) = Cardinality(Queued) + Cardinality(Made) + Cardinality(Unlinked)
                            + Cardinality(Retired)
  BY <1>3, PlacesApart, FourParts
<1>. HIDE DEF A
<1>. QED  BY <1>1, <1>4, PlacesApart DEF OneHolder, Queued, Made, Unlinked, A

\* No node is lost, none is retired twice, and none is in two hands: each allocated node is
\* in the queue, with the enqueue that made it, with the dequeue that unlinked it, or in one
\* array of retired nodes.
THEOREM EveryNodeHasOneHolder == Spec => []OneHolder
BY OrderInvariant, NodesHaveOneHolder, PTL
-----------------------------------------------------------------------------
(* The queue that the links implement.                                     *)

\* What thread t has called or will return, and what it has seen, as Abstract says it.
Pending(t) ==
    IF call[t] = "enqueue"
    THEN IF Linking(t) THEN <<"enqueue", new[t]>> ELSE <<"return", new[t]>>
    ELSE IF call[t] \notin {"dequeue", "clear"} \/ pc[t] \in {"clear", "destroy"}
    THEN <<"idle">>
    ELSE IF Looking(t) THEN <<"dequeue">> ELSE <<"return", next[t]>>

SawEmpty(t) ==
    /\ pc[t] \in {"deq_assign_next", "deq_check_next", "deq_valid"}
    /\ next[t] = NULL

Pend == [t \in Threads |-> Pending(t)]
Saw == [t \in Threads |-> SawEmpty(t)]

LEMMA MapsInit ==
    ASSUME Items = <<>>, Pend = [t \in Threads |-> <<"idle">>], Saw = [t \in Threads |-> FALSE]
    PROVE  Abstract!Init
BY DEF Abstract!Init, Abstract!Idle, Pend, Pending, Saw, SawEmpty

LEMMA MapsStutter ==
    ASSUME Items' = Items, Pend' = Pend, Saw' = Saw
    PROVE  UNCHANGED Abstract!vars
BY DEF Abstract!vars, Pend, Pending, Saw, SawEmpty

LEMMA MapsCall ==
    ASSUME NEW t \in Threads, Pend[t] = <<"idle">>,
           NEW c \in {<<"dequeue">>} \cup {<<"enqueue", x>> : x \in Node},
           Pend' = [Pend EXCEPT ![t] = c], Items' = Items, Saw' = Saw
    PROVE  Abstract!Call(t)
BY DEF Abstract!Call, Abstract!Idle, Abstract!Becomes, Abstract!Dequeuing, Abstract!Enqueuing,
       Pend, Pending, Saw, SawEmpty

LEMMA MapsEnqueue ==
    ASSUME NEW t \in Threads, NEW x, Pend[t] = <<"enqueue", x>>,
           Pend' = [Pend EXCEPT ![t] = <<"return", x>>], Items' = Append(Items, x), Saw' = Saw
    PROVE  Abstract!Enqueue(t)
BY DEF Abstract!Enqueue, Abstract!Becomes, Abstract!Returning, Pend, Pending, Saw, SawEmpty

LEMMA MapsDequeue ==
    ASSUME NEW t \in Threads, Pend[t] = <<"dequeue">>, Items # <<>>,
           Pend' = [Pend EXCEPT ![t] = <<"return", Head(Items)>>],
           Items' = Tail(Items), Saw' = Saw
    PROVE  Abstract!Dequeue(t)
BY DEF Abstract!Dequeue, Abstract!Dequeuing, Abstract!Becomes, Abstract!Returning,
       Pend, Pending, Saw, SawEmpty

LEMMA MapsLook ==
    ASSUME NEW t \in Threads, Pend[t] = <<"dequeue">>, NEW b \in BOOLEAN, b => Items = <<>>,
           Pend' = Pend, Items' = Items, Saw' = [Saw EXCEPT ![t] = b]
    PROVE  Abstract!Look(t)
BY DEF Abstract!Look, Abstract!Dequeuing, Pend, Pending, Saw, SawEmpty

LEMMA MapsNothing ==
    ASSUME NEW t \in Threads, Pend[t] = <<"dequeue">>, Saw[t], Items' = Items,
           Pend' = [Pend EXCEPT ![t] = <<"return", NULL>>], Saw' = [Saw EXCEPT ![t] = FALSE]
    PROVE  Abstract!DequeueNothing(t)
BY DEF Abstract!DequeueNothing, Abstract!Dequeuing, Abstract!Becomes, Abstract!Returning,
       Pend, Pending, Saw, SawEmpty

LEMMA MapsReturn ==
    ASSUME NEW t \in Threads, NEW x, Pend[t] = <<"return", x>>,
           Pend' = [Pend EXCEPT ![t] = <<"idle">>], Items' = Items, Saw' = Saw
    PROVE  Abstract!Return(t)
BY DEF Abstract!Return, Abstract!Idle, Abstract!Becomes, Pend, Pending, Saw, SawEmpty

\* A step of thread t changes the call and the answer of t alone.
LEMMA OthersAnswer ==
    ASSUME TypeInv, NEW t \in Threads, Mine(t)
    PROVE  /\ Pend' = [Pend EXCEPT ![t] = Pending(t)']
           /\ Saw' = [Saw EXCEPT ![t] = SawEmpty(t)']
<1>1. ASSUME NEW u \in Threads \ {t}
      PROVE  Pending(u)' = Pending(u) /\ SawEmpty(u)' = SawEmpty(u)
  BY <1>1, OthersKeep DEF Pending, Linking, Looking, SawEmpty
<1>2. Pend' = [u \in Threads |-> Pending(u)'] /\ Saw' = [u \in Threads |-> SawEmpty(u)']
  BY DEF Pend, Saw
<1>3. Pend = [u \in Threads |-> Pending(u)] /\ Saw = [u \in Threads |-> SawEmpty(u)]
  BY DEF Pend, Saw
<1>. QED  BY <1>1, <1>2, <1>3

\* Most steps are not seen from outside.
Quiet(t) == Pending(t)' = Pending(t) /\ SawEmpty(t)' = SawEmpty(t)

LEMMA QuietStep ==
    ASSUME TypeInv, NEW t \in Threads, Mine(t), CallOf(t), InClear(t),
           \/ EnqLoad(t) \/ EnqAssign(t) \/ EnqCheck(t) \/ EnqNext(t) \/ EnqHelp(t)
           \/ EnqSwing(t) \/ DeqLoad(t) \/ DeqAssign(t) \/ DeqCheck(t) \/ DeqAssignNext(t)
           \/ DeqTail(t) \/ DeqHelp(t) \/ DeqDispose(t) \/ Destroy(t) \/ Close(t)
    PROVE  Quiet(t)
<1>. USE DEF Mine, Goto, At, Enter, TypeInv, RecInv, GcTypes, CodeTypes, KeepGc, Again, Go,
     LocalTypes, locals, CallOf, InClear, Quiet, Pending, Linking, Looking, SawEmpty, NewPcs
<1>1. CASE EnqLoad(t)
  BY <1>1 DEF EnqLoad
<1>2. CASE EnqAssign(t)
  BY <1>2 DEF EnqAssign
<1>3. CASE EnqCheck(t)
  BY <1>3 DEF EnqCheck
<1>4. CASE EnqNext(t)
  BY <1>4 DEF EnqNext
<1>5. CASE EnqHelp(t)
  BY <1>5 DEF EnqHelp
<1>6. CASE EnqSwing(t)
  BY <1>6 DEF EnqSwing
<1>7. CASE DeqLoad(t)
  BY <1>7 DEF DeqLoad
<1>8. CASE DeqAssign(t)
  BY <1>8 DEF DeqAssign
<1>9. CASE DeqCheck(t)
  BY <1>9 DEF DeqCheck
<1>10. CASE DeqAssignNext(t)
  BY <1>10 DEF DeqAssignNext
<1>11. CASE DeqTail(t)
  BY <1>11 DEF DeqTail
<1>12. CASE DeqHelp(t)
  BY <1>12 DEF DeqHelp
<1>13. CASE DeqDispose(t)
  BY <1>13 DEF DeqDispose, Dispose
<1>14. CASE Destroy(t)
  BY <1>14 DEF Destroy, Dispose
<1>15. CASE Close(t)
  BY <1>15 DEF Close
<1>. QED
  BY <1>1, <1>2, <1>3, <1>4, <1>5, <1>6, <1>7, <1>8, <1>9, <1>10, <1>11, <1>12, <1>13, <1>14, <1>15

LEMMA QuietImplements ==
    ASSUME TypeInv, NEW t \in Threads, Mine(t), Quiet(t), Items' = Items
    PROVE  UNCHANGED Abstract!vars
<1>1. Pend' = [Pend EXCEPT ![t] = Pend[t]] /\ Saw' = [Saw EXCEPT ![t] = Saw[t]]
  BY OthersAnswer DEF Quiet, Pend, Saw
<1>2. Pend = [u \in Threads |-> Pend[u]] /\ Saw = [u \in Threads |-> Saw[u]]
  BY DEF Pend, Saw
<1>. HIDE DEF Pend, Saw
<1>. QED  BY <1>1, <1>2, MapsStutter

LEMMA TailOf ==
    ASSUME NEW s \in Seq(Cells), NEW n \in Nat, Len(s) = n, n >= 1
    PROVE  /\ s # <<>> /\ Tail(s) \in Seq(Cells) /\ Len(Tail(s)) = n - 1
           /\ \A i \in 1..(n - 1) : Tail(s)[i] = s[i + 1]
           /\ n = 1 => Tail(s) = <<>>
           /\ n >= 2 => Tail(s) # <<>> /\ Head(Tail(s)) = s[2]
<1>. DEFINE p == Tail(s)
<1>1. s # <<>> /\ p \in Seq(Cells) /\ Len(p) = n - 1 /\ \A i \in 1..(n - 1) : p[i] = s[i + 1]
  OBVIOUS
<1>. HIDE DEF p
<1>2. (p = <<>> <=> Len(p) = 0) /\ Head(p) = p[1]
  BY <1>1
<1>3. n >= 2 => p[1] = s[2]
  <2>1. n >= 2 => 1 \in 1..(n - 1) /\ 1 + 1 = 2
    OBVIOUS
  <2>. QED  BY <1>1, <2>1
<1>4. n = 1 => p = <<>>
  BY <1>1, <1>2
<1>5. n >= 2 => p # <<>>
  BY <1>1, <1>2
<1>6. \A i \in 1..(n - 1) : p[i] = s[i + 1]
  BY <1>1
<1>. QED  BY <1>1, <1>2, <1>3, <1>4, <1>5, <1>6 DEF p

\* Taking the first node away and linking a new one to the last do not meet.
LEMMA TailOfAppend ==
    ASSUME NEW s \in Seq(Cells), NEW x \in Cells, s # <<>>
    PROVE  Append(s, x) # <<>> /\ Tail(Append(s, x)) = Append(Tail(s), x)
<1>. DEFINE n == Len(s)
            a == Append(s, x)
            p == Tail(a)
            q == Append(Tail(s), x)
<1>1. n \in Nat /\ n >= 1
  OBVIOUS
<1>2. a \in Seq(Cells) /\ Len(a) = n + 1 /\ a[n + 1] = x /\ \A i \in 1..n : a[i] = s[i]
  BY <1>1
<1>. HIDE DEF n, a
<1>3. p \in Seq(Cells) /\ Len(p) = n /\ a # <<>> /\ \A i \in 1..n : p[i] = a[i + 1]
  <2>1. n + 1 \in Nat /\ n + 1 >= 1 /\ (n + 1) - 1 = n
    BY <1>1
  <2>2. /\ a # <<>> /\ Tail(a) \in Seq(Cells) /\ Len(Tail(a)) = (n + 1) - 1
        /\ \A i \in 1..((n + 1) - 1) : Tail(a)[i] = a[i + 1]
    BY <1>2, <2>1, TailOf
  <2>. QED  BY <2>1, <2>2
<1>4. /\ Tail(s) \in Seq(Cells) /\ Len(Tail(s)) = n - 1
      /\ \A i \in 1..(n - 1) : Tail(s)[i] = s[i + 1]
  <2>1. Len(s) = n
    BY DEF n
  <2>. QED  BY <1>1, <2>1, TailOf
<1>5. q \in Seq(Cells) /\ Len(q) = n /\ q[n] = x /\ \A i \in 1..(n - 1) : q[i] = s[i + 1]
  <2>. DEFINE r == Tail(s)
  <2>. HIDE DEF r
  <2>1. r \in Seq(Cells) /\ Len(r) = n - 1 /\ \A i \in 1..(n - 1) : r[i] = s[i + 1]
    BY <1>4 DEF r
  <2>2. Append(r, x) \in Seq(Cells) /\ Len(Append(r, x)) = n
        /\ Append(r, x)[n] = x /\ \A i \in 1..(n - 1) : Append(r, x)[i] = r[i]
    BY <1>1, <2>1
  <2>3. q = Append(r, x)
    BY DEF r
  <2>. HIDE DEF q
  <2>. QED  BY <2>1, <2>2, <2>3
<1>. HIDE DEF p, q
<1>6. ASSUME NEW i \in 1..n PROVE p[i] = q[i]
  <2>1. CASE i = n
    BY <1>1, <1>2, <1>3, <1>5, <2>1
  <2>2. CASE i # n
    <3>1. i \in 1..(n - 1) /\ i + 1 \in 1..n
      BY <1>1, <2>2
    <3>. QED  BY <1>2, <1>3, <1>5, <3>1
  <2>. QED  BY <2>1, <2>2
<1>7. p = [i \in 1..n |-> p[i]] /\ q = [i \in 1..n |-> q[i]]
  BY <1>3, <1>5
<1>8. p = q
  BY <1>6, <1>7
<1>. QED  BY <1>3, <1>8 DEF p, q, a

\* What the three changes of the chain are to the items.
LEMMA ItemsKept ==
    ASSUME OrderInv, NEW t \in Threads, QueueMove(t), ~Links(t), ~Unlinks(t)
    PROVE  Items' = Items
<1>1. CASE Chain' = Chain
  BY <1>1 DEF Items
<1>2. CASE Chain = <<m_pHead>> /\ Chain' = <<>>
  <2>1. Tail(<<m_pHead>>) = <<>>
    OBVIOUS
  <2>. QED  BY <1>2, <2>1 DEF Items
<1>. QED  BY <1>1, <1>2, QueueMovesChain DEF ChainMoves

LEMMA ItemsLinked ==
    ASSUME OrderInv, NEW t \in Threads, QueueMove(t), Links(t)
    PROVE  Items' = Append(Items, new[t])
<1>1. Chain # <<>> /\ Chain' = Append(Chain, new[t]) /\ Chain \in Seq(Cells) /\ new[t] \in Cells
  <2>1. ~Unlinks(t) /\ ~Destroy(t) /\ new[t] \in Cells
    BY DEF Links, Unlinks, Destroy, At, OrderInv, MemInv, TypeInv, NotNull, HoldsCells, NewPcs,
       Cells
  <2>. QED  BY <2>1, QueueMovesChain, ChainNodes DEF ChainMoves, OrderInv
<1>. QED  BY <1>1, TailOfAppend DEF Items

LEMMA ItemsUnlinked ==
    ASSUME OrderInv, NEW t \in Threads, QueueMove(t), Unlinks(t)
    PROVE  Items # <<>> /\ Head(Items) = next[t] /\ Items' = Tail(Items)
<1>1. /\ Chain' = Tail(Chain) /\ Len(Chain) >= 2 /\ Chain[2] = next[t]
      /\ Chain \in Seq(Cells) /\ Len(Chain) \in Nat
  <2>1. ~Links(t) /\ ~Destroy(t)
    BY DEF Links, Unlinks, Destroy, At
  <2>2. Chain' = Tail(Chain) /\ Len(Chain) >= 2 /\ Chain[2] = next[t]
    BY <2>1, QueueMovesChain DEF ChainMoves
  <2>. QED  BY <2>2, ChainNodes DEF OrderInv
<1>2. Chain # <<>> /\ Tail(Chain) # <<>> /\ Head(Tail(Chain)) = Chain[2]
  <2>1. \A n \in Nat : n >= 2 => n >= 1
    OBVIOUS
  <2>. QED  BY <1>1, <2>1, TailOf
<1>. QED  BY <1>1, <1>2 DEF Items

\* A head without a link is the only node: there are no items.
LEMMA NoItems ==
    ASSUME OrderInv, NEW t \in Threads, pc[t] \in HeadPcs, m_pNext[node[t]] = NULL
    PROVE  Items = <<>>
<1>1. m_pNext[m_pHead] = NULL /\ m_pHead # NULL
  <2>1. m_pHead \in Cells
    BY InUse DEF OrderInv, MemInv, QueuePcs
  <2>. QED  BY <2>1, CellsFinite DEF OrderInv, EmptySeen
<1>2. Chain # <<>> /\ Len(Chain) \in Nat /\ Len(Chain) >= 1 /\ Chain[1] = m_pHead
      /\ Chain \in Seq(Cells)
  BY <1>1, ChainNodes DEF OrderInv
<1>3. Len(Chain) = 1
  <2>1. \A n \in Nat : n >= 1 => 1 \in 1..n
    OBVIOUS
  <2>2. 1 \in 1..Len(Chain)
    BY <1>2, <2>1, Zenon
  <2>. QED  BY <1>1, <1>2, <2>2, ChainNodes DEF OrderInv
<1>4. Tail(Chain) = <<>>
  <2>1. 1 \in Nat /\ 1 >= 1
    OBVIOUS
  <2>. QED  BY <1>2, <1>3, <2>1, TailOf
<1>. QED  BY <1>2, <1>4 DEF Items
-----------------------------------------------------------------------------
(* Each step of the links is a step of the queue, or none.                 *)

\* What holds before every step of thread t.
Ready(t) ==
    /\ OrderInv /\ TypeInv /\ TypeInv' /\ Mine(t) /\ CallOf(t) /\ InClear(t)
    /\ Pend[t] = Pending(t) /\ Saw[t] = SawEmpty(t)
    /\ Pend' = [Pend EXCEPT ![t] = Pending(t)'] /\ Saw' = [Saw EXCEPT ![t] = SawEmpty(t)']
    /\ Pend = [u \in Threads |-> Pend[u]] /\ Saw = [u \in Threads |-> Saw[u]]

LEMMA ReadyToStep ==
    ASSUME OrderInv, NEW t \in Threads, QueueMove(t)
    PROVE  Ready(t)
<1>1. TypeInv /\ TypeInv' /\ Mine(t) /\ CallOf(t) /\ InClear(t)
  BY QueueIsMine, QueueKeepsTypes DEF OrderInv, MemInv, TypeInv, Alone
<1>2. Pend[t] = Pending(t) /\ Saw[t] = SawEmpty(t)
      /\ Pend = [u \in Threads |-> Pend[u]] /\ Saw = [u \in Threads |-> Saw[u]]
  BY DEF Pend, Saw
<1>. QED  BY <1>1, <1>2, OthersAnswer DEF Ready

\* A call of enqueue.
LEMMA EnqueueCalls ==
    ASSUME NEW t \in Threads, Ready(t), Enqueue(t), Items' = Items
    PROVE  Abstract!Call(t)
<1>1. call[t] = "none" /\ pc[t] = "idle" /\ call'[t] = "enqueue" /\ pc'[t] = "enq_load"
  BY DEF Ready, CallOf, Enqueue, Enter, Goto, TypeInv, RecInv, GcTypes, CodeTypes
<1>2. new'[t] \in Node
  BY <1>1 DEF Ready, TypeInv, NotNull, HoldsCells, NewPcs
<1>3. /\ Pending(t) = <<"idle">> /\ Pending(t)' = <<"enqueue", new'[t]>>
      /\ SawEmpty(t) = FALSE /\ SawEmpty(t)' = FALSE
  BY <1>1 DEF Pending, Linking, SawEmpty
<1>4. Saw' = Saw
  BY <1>3 DEF Ready
<1>. QED  BY <1>2, <1>3, <1>4, MapsCall DEF Ready

\* A call of dequeue, and one that the destructor makes.
LEMMA DequeueCalls ==
    ASSUME NEW t \in Threads, Ready(t), Dequeue(t) \/ Clear(t), Items' = Items
    PROVE  Abstract!Call(t)
<1>1. /\ pc'[t] = "deq_load" /\ call'[t] \in {"dequeue", "clear"}
      /\ call[t] = "none" \/ (pc[t] = "clear" /\ call[t] = "clear")
      /\ pc[t] \in {"idle", "clear"}
  BY DEF Ready, CallOf, InClear, Dequeue, Clear, KeepGc, At, Enter, Goto, TypeInv, RecInv, GcTypes,
         CodeTypes
<1>2. /\ Pending(t) = <<"idle">> /\ Pending(t)' = <<"dequeue">>
      /\ SawEmpty(t) = FALSE /\ SawEmpty(t)' = FALSE
  BY <1>1 DEF Pending, Looking, SawEmpty
<1>3. Saw' = Saw
  BY <1>2 DEF Ready
<1>. QED  BY <1>2, <1>3, MapsCall DEF Ready

\* The link of an enqueue.
LEMMA LinkEnqueues ==
    ASSUME NEW t \in Threads, Ready(t), QueueMove(t), Links(t)
    PROVE  Abstract!Enqueue(t)
<1>1. /\ pc[t] = "enq_link" /\ pc'[t] = "enq_swing" /\ call[t] = "enqueue" /\ call'[t] = "enqueue"
      /\ new'[t] = new[t]
  <2>1. EnqLink(t)
    BY DEF Links, QueueMove, QueueStep, EnqLoad, EnqAssign, EnqCheck,
           EnqNext, EnqHelp, EnqSwing, DeqLoad, DeqAssign, DeqCheck, DeqNext,
           DeqAssignNext, DeqCheckNext, DeqValid, DeqTail, DeqHelp, DeqTake, DeqDispose, Leave,
           Clear, Destroy, Enqueue, Dequeue, Close, At, HelpDone, Enter
  <2>. QED  BY <2>1 DEF Links, Ready, CallOf, NewPcs, EnqLink, KeepGc
<1>2. /\ Pending(t) = <<"enqueue", new[t]>> /\ Pending(t)' = <<"return", new[t]>>
      /\ SawEmpty(t) = FALSE /\ SawEmpty(t)' = FALSE
  BY <1>1 DEF Pending, Linking, SawEmpty
<1>3. Saw' = Saw
  BY <1>2 DEF Ready
<1>. QED  BY <1>2, <1>3, ItemsLinked, MapsEnqueue DEF Ready

\* The head taken by a dequeue.
LEMMA TakeDequeues ==
    ASSUME NEW t \in Threads, Ready(t), QueueMove(t), Unlinks(t)
    PROVE  Abstract!Dequeue(t)
<1>1. /\ pc[t] = "deq_take" /\ pc'[t] = "deq_dispose" /\ next'[t] = next[t]
      /\ call[t] \in {"dequeue", "clear"} /\ call'[t] = call[t]
  <2>1. DeqTake(t) /\ pc[t] = "deq_take" /\ m_pHead = node[t]
    BY DEF Unlinks, QueueMove, QueueStep, EnqLoad, EnqAssign, EnqCheck,
           EnqNext, EnqHelp, EnqLink, EnqSwing, DeqLoad, DeqAssign, DeqCheck, DeqNext,
           DeqAssignNext, DeqCheckNext, DeqValid, DeqTail, DeqHelp, DeqDispose, Leave,
           Clear, Destroy, Enqueue, Dequeue, Close, At, HelpDone, Enter
  <2>. QED  BY <2>1, UnlinkGoesOn DEF Ready, CallOf, Looking, DeqTake, KeepGc, Go
<1>2. /\ Pending(t) = <<"dequeue">> /\ Pending(t)' = <<"return", next[t]>>
      /\ SawEmpty(t) = FALSE /\ SawEmpty(t)' = FALSE
  BY <1>1 DEF Pending, Looking, SawEmpty
<1>3. Saw' = Saw
  BY <1>2 DEF Ready
<1>4. Items # <<>> /\ Head(Items) = next[t] /\ Items' = Tail(Items)
  BY ItemsUnlinked DEF Ready
<1>. QED  BY <1>2, <1>3, <1>4, MapsDequeue DEF Ready

\* The link of the head is read: none means that the queue is empty at this instant.
LEMMA NextLooks ==
    ASSUME NEW t \in Threads, Ready(t), DeqNext(t), Items' = Items
    PROVE  Abstract!Look(t)
<1>1. /\ pc[t] = "deq_next" /\ pc'[t] = "deq_assign_next" /\ call'[t] = call[t]
      /\ call[t] \in {"dequeue", "clear"} /\ next'[t] = m_pNext[node[t]]
  BY DEF Ready, CallOf, Looking, DeqNext, KeepGc, At, Goto, TypeInv, RecInv, GcTypes, CodeTypes,
     LocalTypes
<1>2. /\ Pending(t) = <<"dequeue">> /\ Pending(t)' = <<"dequeue">>
      /\ SawEmpty(t)' = (next'[t] = NULL)
  BY <1>1 DEF Pending, Looking, SawEmpty
<1>3. SawEmpty(t)' \in BOOLEAN /\ (SawEmpty(t)' => Items = <<>>)
  BY <1>1, <1>2, NoItems DEF Ready, HeadPcs
<1>4. Pend' = Pend
  BY <1>2 DEF Ready
<1>. QED  BY <1>2, <1>3, <1>4, MapsLook DEF Ready

\* A dequeue reads again: what it saw it forgets.
LEMMA RetryLooks ==
    ASSUME NEW t \in Threads, Ready(t), Items' = Items, Pending(t) = <<"dequeue">>,
           Pending(t)' = <<"dequeue">>, SawEmpty(t)' = FALSE
    PROVE  Abstract!Look(t)
<1>1. Pend' = Pend
  BY DEF Ready
<1>. QED  BY <1>1, MapsLook DEF Ready

LEMMA CheckLooks ==
    ASSUME NEW t \in Threads, Ready(t), DeqCheckNext(t), Items' = Items
    PROVE  Abstract!Look(t) \/ Quiet(t)
<1>1. /\ pc[t] = "deq_check_next" /\ pc'[t] \in {"deq_valid", "deq_next"} /\ call'[t] = call[t]
      /\ call[t] \in {"dequeue", "clear"} /\ next'[t] = next[t]
  BY DEF Ready, CallOf, Looking, DeqCheckNext, KeepGc, At, Goto, TypeInv, RecInv, GcTypes,
     CodeTypes, locals
<1>2. Pending(t) = <<"dequeue">> /\ Pending(t)' = <<"dequeue">>
  BY <1>1 DEF Pending, Looking
<1>3. CASE pc'[t] = "deq_valid"
  <2>1. SawEmpty(t)' = SawEmpty(t)
    BY <1>1, <1>3 DEF SawEmpty
  <2>. QED  BY <1>2, <2>1 DEF Quiet
<1>4. CASE pc'[t] = "deq_next"
  BY <1>2, <1>4, RetryLooks DEF SawEmpty
<1>. QED  BY <1>1, <1>3, <1>4

\* The answer that the queue is empty is given after it was seen empty.
LEMMA ValidAnswers ==
    ASSUME NEW t \in Threads, Ready(t), DeqValid(t), Items' = Items
    PROVE  Abstract!Look(t) \/ Abstract!DequeueNothing(t) \/ Quiet(t)
<1>1. /\ pc[t] = "deq_valid" /\ call'[t] = call[t] /\ call[t] \in {"dequeue", "clear"}
      /\ \/ pc'[t] = "deq_load"
         \/ pc'[t] = "leave" /\ next[t] = NULL /\ next'[t] = NULL
         \/ pc'[t] = "deq_tail" /\ next[t] # NULL /\ next'[t] = next[t]
  BY DEF Ready, CallOf, Looking, DeqValid, KeepGc, At, Go, Again, Goto, TypeInv, RecInv, GcTypes,
     CodeTypes,
         LocalTypes
<1>2. Pending(t) = <<"dequeue">> /\ SawEmpty(t) = (next[t] = NULL) /\ SawEmpty(t)' = FALSE
  BY <1>1 DEF Pending, Looking, SawEmpty
<1>3. CASE pc'[t] = "deq_load"
  <2>1. Pending(t)' = <<"dequeue">>
    BY <1>1, <1>3 DEF Pending, Looking
  <2>. QED  BY <1>2, <2>1, RetryLooks
<1>4. CASE pc'[t] = "leave" /\ next[t] = NULL /\ next'[t] = NULL
  <2>1. Pending(t)' = <<"return", NULL>>
    BY <1>1, <1>4 DEF Pending, Looking
  <2>. QED  BY <1>2, <1>4, <2>1, MapsNothing DEF Ready
<1>5. CASE pc'[t] = "deq_tail" /\ next[t] # NULL /\ next'[t] = next[t]
  <2>1. Pending(t)' = <<"dequeue">>
    BY <1>1, <1>5 DEF Pending, Looking
  <2>. QED  BY <1>2, <1>5, <2>1 DEF Quiet
<1>. QED  BY <1>1, <1>3, <1>4, <1>5

\* The return of a call.
LEMMA LeaveReturns ==
    ASSUME NEW t \in Threads, Ready(t), Leave(t), Items' = Items
    PROVE  Abstract!Return(t) \/ Quiet(t)
<1>1. /\ pc[t] \in {"leave", "help"} /\ pc'[t] \in {"idle", "clear", "destroy"}
      /\ IF call[t] = "clear" THEN call'[t] = "clear" /\ pc'[t] # "idle" ELSE call'[t] = "none"
  BY DEF Ready, Leave, HelpDone, At, Goto, TypeInv, RecInv, GcTypes, CodeTypes
<1>2. Pending(t)' = <<"idle">> /\ SawEmpty(t) = FALSE /\ SawEmpty(t)' = FALSE
  BY <1>1 DEF Pending, SawEmpty
<1>3. Saw' = Saw
  BY <1>2 DEF Ready
<1>4. CASE call[t] \in {"enqueue", "dequeue", "clear"}
  <2>1. \E x : Pending(t) = <<"return", x>>
    <3>1. CASE call[t] = "enqueue"
      <4>1. ~Linking(t)
        BY <1>1, <3>1 DEF Ready, CallOf, Linking, NewPcs
      <4>. QED  BY <3>1, <4>1 DEF Pending
    <3>2. CASE call[t] \in {"dequeue", "clear"}
      BY <1>1, <3>2 DEF Pending, Looking
    <3>. QED  BY <1>4, <3>1, <3>2
  <2>. QED  BY <1>2, <1>3, <2>1, MapsReturn DEF Ready
<1>5. CASE call[t] \notin {"enqueue", "dequeue", "clear"}
  BY <1>2, <1>5 DEF Pending, Quiet
<1>. QED  BY <1>4, <1>5

\* A step of the queue.
LEMMA QueueImplements ==
    ASSUME OrderInv, NEW t \in Threads, QueueMove(t)
    PROVE  Abstract!Next \/ UNCHANGED Abstract!vars
<1>1. Ready(t)
  BY ReadyToStep
<1>2. /\ Abstract!Call(t) \/ Abstract!Return(t) \/ Abstract!Enqueue(t) \/ Abstract!Dequeue(t)
         \/ Abstract!Look(t) \/ Abstract!DequeueNothing(t) => Abstract!Next
  BY DEF Abstract!Next
<1>3. CASE Links(t)
  BY <1>1, <1>2, <1>3, LinkEnqueues
<1>4. CASE Unlinks(t)
  BY <1>1, <1>2, <1>4, TakeDequeues
<1>5. CASE ~Links(t) /\ ~Unlinks(t)
  <2>1. Items' = Items
    BY <1>5, ItemsKept
  <2>2. CASE Quiet(t)
    BY <1>1, <2>1, <2>2, QuietImplements DEF Ready
  <2>3. CASE Enqueue(t)
    BY <1>1, <1>2, <2>1, <2>3, EnqueueCalls
  <2>4. CASE Dequeue(t) \/ Clear(t)
    BY <1>1, <1>2, <2>1, <2>4, DequeueCalls
  <2>5. CASE DeqNext(t)
    BY <1>1, <1>2, <2>1, <2>5, NextLooks
  <2>6. CASE DeqCheckNext(t)
    BY <1>1, <1>2, <2>1, <2>2, <2>6, CheckLooks
  <2>7. CASE DeqValid(t)
    BY <1>1, <1>2, <2>1, <2>2, <2>7, ValidAnswers
  <2>8. CASE Leave(t)
    BY <1>1, <1>2, <2>1, <2>2, <2>8, LeaveReturns
  <2>9. CASE EnqLink(t)
    <3>1. Quiet(t)
      BY <1>1, <1>5, <2>9 DEF Links, EnqLink, Ready, Mine, Goto, At, TypeInv, RecInv, GcTypes,
         CodeTypes, KeepGc,
         Again, Go, LocalTypes, CallOf, Quiet, Pending, Linking, Looking, SawEmpty, NewPcs
    <3>. QED  BY <2>2, <3>1
  <2>10. CASE DeqTake(t)
    <3>1. Quiet(t)
      BY <1>1, <1>5, <2>10 DEF Unlinks, DeqTake, Ready, Mine, Goto, At, TypeInv, RecInv, GcTypes,
         CodeTypes, KeepGc,
         Again, Go, LocalTypes, CallOf, Quiet, Pending, Linking, Looking, SawEmpty, NewPcs
    <3>. QED  BY <2>2, <3>1
  <2>. QED
    BY <1>1, <2>2, <2>3, <2>4, <2>5, <2>6, <2>7, <2>8, <2>9, <2>10, QuietStep
       DEF Ready, QueueMove, QueueStep
<1>. QED  BY <1>3, <1>4, <1>5

\* The collector and the ends of threads are not seen.
LEMMA CollectorImplements ==
    ASSUME OrderInv, NEW t \in Threads, GcMove(t)
    PROVE  UNCHANGED Abstract!vars
<1>1. /\ TypeInv /\ Mine(t) /\ CallOf(t) /\ InClear(t) /\ GcCall(t)
      /\ pc[t] \in GcPcs /\ pc'[t] \in GcPcs /\ UNCHANGED locals
  BY GcIsMine, CollectorsCall DEF OrderInv, MemInv, TypeInv, Alone
<1>2. SawEmpty(t) = FALSE /\ SawEmpty(t)' = FALSE /\ ~Looking(t) /\ ~Looking(t)'
      /\ pc[t] \notin {"clear", "destroy"} /\ pc'[t] \notin {"clear", "destroy"}
  BY <1>1 DEF SawEmpty, Looking, GcPcs, Helping
<1>3. call[t] # "enqueue"
  BY <1>1 DEF CallOf, GcPcs, Helping, NewPcs
<1>4. Pending(t)' = Pending(t)
  BY <1>1, <1>2, <1>3 DEF Pending, GcCall, locals
<1>5. Items' = Items
  BY CollectorKeepsChain DEF Items
<1>. QED  BY <1>1, <1>2, <1>4, <1>5, QuietImplements DEF Quiet

\* Steps that change neither a call nor what it has read.
LEMMA SameAnswers ==
    ASSUME UNCHANGED <<pc, call, next, new>>, Items' = Items
    PROVE  UNCHANGED Abstract!vars
<1>1. Pend' = Pend /\ Saw' = Saw
  BY DEF Pend, Saw, Pending, Linking, Looking, SawEmpty
<1>. QED  BY <1>1, MapsStutter

\* Every enqueue and every dequeue of the links takes effect at one instant between its call
\* and its return, and the values come out in the order in which they went in; a dequeue
\* that finds nothing has seen the queue empty since it was called.
THEOREM Linearizable == Spec => ImplementsQueue
<1>1. Init => Abstract!Init
  <2>. SUFFICES ASSUME Init PROVE Abstract!Init
    OBVIOUS
  <2>1. Items = <<>>
    <3>1. Chain = <<Dummy>> /\ <<Dummy>> # <<>> /\ Tail(<<Dummy>>) = <<>>
      BY InitOrder
    <3>. QED  BY <3>1 DEF Items
  <2>2. \A t \in Threads : pc[t] = "idle" /\ call[t] = "none"
    BY DEF Init, GcInit
  <2>3. Pend = [t \in Threads |-> <<"idle">>] /\ Saw = [t \in Threads |-> FALSE]
    BY <2>2 DEF Pend, Saw, Pending, SawEmpty
  <2>. QED  BY <2>1, <2>3, MapsInit
<1>2. OrderInv /\ [Next]_vars => [Abstract!Next]_(Abstract!vars)
  <2>. SUFFICES ASSUME OrderInv, [Next]_vars PROVE Abstract!Next \/ UNCHANGED Abstract!vars
    OBVIOUS
  <2>1. CASE Next
    <3>1. CASE Destruct
      <4>1. UNCHANGED <<pc, call, next, new>> /\ Items' = Items
        BY <3>1, DestructKeepsOrder DEF Destruct, DestroyRecords, locals, Items
      <4>. QED  BY <4>1, SameAnswers
    <3>2. CASE \E t \in Threads : QueueMove(t) \/ GcMove(t)
      BY <3>2, QueueImplements, CollectorImplements
    <3>. QED  BY <2>1, <3>1, <3>2, NextSplit
  <2>2. CASE UNCHANGED vars
    <3>1. UNCHANGED <<pc, call, next, new>> /\ Items' = Items
      <4>1. UNCHANGED <<m_pHead, m_pNext, pc, call, next, new>>
        BY <2>2 DEF vars, gcVars, queue, locals
      <4>2. Chain' = Chain
        BY <4>1, ChainDepends, ChainDependsNext
      <4>. QED  BY <4>1, <4>2 DEF Items
    <3>. QED  BY <3>1, SameAnswers
  <2>. QED  BY <2>1, <2>2
<1>. QED  BY <1>1, <1>2, OrderInvariant, PTL DEF Spec, ImplementsQueue, Abstract!Spec
=============================================================================
