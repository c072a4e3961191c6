--------------------------- MODULE HazardPointers ---------------------------
(***************************************************************************)
(* The hazard-pointer collector of libcds (cds/gc/details/hp.h,            *)
(* cds/gc/impl/hp_decl.h, src/hp_gc.cpp under src/src/libcds).  A thread   *)
(* attaches to a record, which holds its hazard pointers and the nodes it  *)
(* has retired.  A scan reads the hazard pointers of all records, one at a *)
(* time, and frees the retired nodes that none of them holds.  HelpScan    *)
(* takes over the retired nodes of records whose threads have left.        *)
(*                                                                         *)
(* Every step makes at most one access to memory that other threads share. *)
(* Memory is sequentially consistent: the read-modify-write of sync() after *)
(* each store of a hazard pointer is a full fence on the machines the      *)
(* program is built for.                                                   *)
(***************************************************************************)
EXTENDS Integers, FiniteSets

CONSTANTS
    Threads,     \* threads that use the collector
    Transient,   \* those that may leave: detach, or end without detaching
    Node,        \* heap addresses of the nodes that are retired and freed
    NULL,        \* nullptr, and the null thread id
    Classic,     \* m_nScanType = classic; the default is inplace
    MaxAttach    \* bound on the times threads attach

ASSUME CollectorAssumption ==
    /\ IsFiniteSet(Threads) /\ IsFiniteSet(Node) /\ Transient \subseteq Threads
    /\ NULL \notin Threads \cup Node
    /\ Classic \in BOOLEAN
    /\ MaxAttach \in Nat

\* Records are numbered in the order in which they are pushed on the list: the list
\* runs from m_pListHead, the last number, down to 1, and 0 ends it.
\* An attachment allocates one record at most.
Records == 1..MaxAttach

\* m_nHazardPointerCount: the queue needs two.
Slots == 1..2

VARIABLES
    m_pListHead, \* the newest record
    m_idOwner,   \* m_idOwner[r]: the thread that owns record r, or NULL
    m_bFree,     \* m_bFree[r]: no thread uses the hazard pointers of r
    m_hzp,       \* m_hzp[r][i]: the hazard pointers of r
    m_arrRetired,\* m_arrRetired[r]: the nodes retired into r
    m_pHzpRec,   \* m_pHzpRec[t]: the record of thread t, or 0
    running,     \* the threads that have not ended
    attached,    \* how often threads have attached (bound)
    live,        \* the nodes that are allocated
    pc,          \* pc[t]: the next statement of thread t
    call,        \* call[t]: the function of the interface that t is in
    hprec,       \* hprec[t]: where t is in the list, in alloc_hp_record and HelpScan
    pNode, slot, \* pNode[t], slot[t]: where t is in its scan
    marked       \* marked[t]: the retired nodes that the scan has seen guarded

records == <<m_pListHead, m_idOwner, m_bFree>>
lifetimes == <<m_pHzpRec, running, attached>>
cursors == <<hprec, pNode, slot, marked>>
gcVars == <<records, m_hzp, m_arrRetired, lifetimes, live, pc, call, cursors>>

GcInit ==
    /\ m_pListHead = 0
    /\ m_idOwner = [r \in Records |-> NULL]
    /\ m_bFree = [r \in Records |-> TRUE]
    /\ m_hzp = [r \in Records |-> [i \in Slots |-> NULL]]
    /\ m_arrRetired = [r \in Records |-> {}]
    /\ m_pHzpRec = [t \in Threads |-> 0]
    /\ running = Threads
    /\ attached = 0
    /\ live = {}
    /\ pc = [t \in Threads |-> "idle"]
    /\ call = [t \in Threads |-> "none"]
    /\ hprec = [t \in Threads |-> 0]
    /\ pNode = [t \in Threads |-> 0]
    /\ slot = [t \in Threads |-> 0]
    /\ marked = [t \in Threads |-> {}]

Goto(t, label) == pc' = [pc EXCEPT ![t] = label]
Enter(t, c) == pc[t] = "idle" /\ t \in running /\ call' = [call EXCEPT ![t] = c]
Attached(t) == m_pHzpRec[t] # 0
-----------------------------------------------------------------------------
(* ThreadGC::init and alloc_hp_record: the first record of the list that   *)
(* nobody owns, or else a new one.                                         *)

Attach(t) ==
    /\ ~Attached(t) /\ attached < MaxAttach
    /\ Enter(t, "attach")
    /\ attached' = attached + 1
    /\ hprec' = [hprec EXCEPT ![t] = m_pListHead]
    /\ Goto(t, "alloc")
    /\ UNCHANGED <<records, m_hzp, m_arrRetired, m_pHzpRec, running, live, pNode, slot, marked>>

\* The CAS of m_idOwner from the null thread id.
AllocOwn(t) ==
    /\ pc[t] = "alloc" /\ hprec[t] # 0
    /\ IF m_idOwner[hprec[t]] = NULL
       THEN /\ m_idOwner' = [m_idOwner EXCEPT ![hprec[t]] = t]
            /\ Goto(t, "alloc_unfree")
            /\ UNCHANGED hprec
       ELSE /\ hprec' = [hprec EXCEPT ![t] = @ - 1]
            /\ UNCHANGED <<m_idOwner, pc>>
    /\ UNCHANGED <<m_pListHead, m_bFree, m_hzp, m_arrRetired, lifetimes, live, call, pNode, slot, marked>>

AttachReturn(t, r) ==
    /\ m_pHzpRec' = [m_pHzpRec EXCEPT ![t] = r]
    /\ hprec' = [hprec EXCEPT ![t] = 0]
    /\ call' = [call EXCEPT ![t] = "none"]
    /\ Goto(t, "idle")
    /\ UNCHANGED <<m_hzp, m_arrRetired, running, attached, live, pNode, slot, marked>>

AllocUnfree(t) ==
    /\ pc[t] = "alloc_unfree"
    /\ m_bFree' = [m_bFree EXCEPT ![hprec[t]] = FALSE]
    /\ AttachReturn(t, hprec[t])
    /\ UNCHANGED <<m_pListHead, m_idOwner>>

\* A new record is private until the CAS of m_pListHead, which is retried until it
\* succeeds.
AllocNew(t) ==
    /\ pc[t] = "alloc" /\ hprec[t] = 0
    /\ m_pListHead' = m_pListHead + 1
    /\ m_idOwner' = [m_idOwner EXCEPT ![m_pListHead'] = t]
    /\ m_bFree' = [m_bFree EXCEPT ![m_pListHead'] = FALSE]
    /\ AttachReturn(t, m_pListHead')
-----------------------------------------------------------------------------
(* Guards, and ThreadGC::retirePtr.  The caller adds its own program       *)
(* counter and variables.                                                  *)

Assign(t, i, n) == m_hzp' = [m_hzp EXCEPT ![m_pHzpRec[t]][i] = n]

FreeGuards(t) == m_hzp' = [m_hzp EXCEPT ![m_pHzpRec[t]] = [i \in Slots |-> NULL]]

RetirePush(t, n) ==
    m_arrRetired' = [m_arrRetired EXCEPT ![m_pHzpRec[t]] = @ \cup {n}]

\* A scan loads m_pListHead and begins its search of guarded pointers.
ScanFrom(t) ==
    /\ pNode' = [pNode EXCEPT ![t] = m_pListHead]
    /\ slot' = [slot EXCEPT ![t] = 0]
    /\ marked' = [marked EXCEPT ![t] = {}]
-----------------------------------------------------------------------------
(* GarbageCollector::Scan.  classic_scan collects all hazard pointers and  *)
(* searches the retired nodes among them, inplace_scan marks the nodes.    *)
(* "scan" is the one before HelpScan, "rescan" the one HelpScan makes after *)
(* it has taken over a record, "move_scan" the one it makes when the array *)
(* of the thread has filled up in between.                                 *)

Scanning(t) == pc[t] \in {"scan", "rescan", "move_scan"}

NextRecord(t) ==
    /\ pNode' = [pNode EXCEPT ![t] = @ - 1]
    /\ slot' = [slot EXCEPT ![t] = 0]

Mark(t, hptrs) ==
    marked' = [marked EXCEPT ![t] = @ \cup (hptrs \cap m_arrRetired[m_pHzpRec[t]])]

\* Nobody else writes the hazard pointers of the thread's own record: they are read in
\* one step.
ScanOwn(t) ==
    /\ Scanning(t) /\ pNode[t] = m_pHzpRec[t]
    /\ Mark(t, {m_hzp[pNode[t]][i] : i \in Slots})
    /\ NextRecord(t)
    /\ UNCHANGED <<records, m_hzp, m_arrRetired, lifetimes, live, pc, call, hprec>>

\* if ( !pNode->m_bFree.load() ), a test that classic_scan does not make.
ScanRecord(t) ==
    /\ Scanning(t) /\ pNode[t] \notin {0, m_pHzpRec[t]} /\ slot[t] = 0
    /\ IF m_bFree[pNode[t]] /\ ~Classic
       THEN NextRecord(t)
       ELSE slot' = [slot EXCEPT ![t] = 1] /\ UNCHANGED pNode
    /\ UNCHANGED <<records, m_hzp, m_arrRetired, lifetimes, live, pc, call, hprec, marked>>

ScanSlot(t) ==
    /\ Scanning(t) /\ slot[t] # 0
    /\ Mark(t, {m_hzp[pNode[t]][slot[t]]})
    /\ IF slot[t] + 1 \in Slots
       THEN slot' = [slot EXCEPT ![t] = @ + 1] /\ UNCHANGED pNode
       ELSE NextRecord(t)
    /\ UNCHANGED <<records, m_hzp, m_arrRetired, lifetimes, live, pc, call, hprec>>

\* Unmarked nodes are freed, marked ones stay.  HelpScan then starts from
\* m_pListHead, goes on with the next record, or goes on moving nodes.
ScanFree(t) ==
    /\ Scanning(t) /\ pNode[t] = 0
    /\ live' = live \ (m_arrRetired[m_pHzpRec[t]] \ marked[t])
    /\ m_arrRetired' = [m_arrRetired EXCEPT ![m_pHzpRec[t]] = marked[t]]
    /\ marked' = [marked EXCEPT ![t] = {}]
    /\ hprec' = [hprec EXCEPT ![t] = CASE pc[t] = "scan" -> m_pListHead
                                        [] pc[t] = "rescan" -> @ - 1
                                        [] pc[t] = "move_scan" -> @]
    /\ Goto(t, IF pc[t] = "move_scan" THEN "help_move" ELSE "help")
    /\ UNCHANGED <<records, m_hzp, lifetimes, call, pNode, slot>>
-----------------------------------------------------------------------------
(* GarbageCollector::HelpScan.                                             *)

\* A record that is free has no retired nodes; the CAS on the thread's own record
\* always fails.
HelpSkip(t) ==
    /\ pc[t] = "help" /\ hprec[t] # 0
    /\ IF m_bFree[hprec[t]] \/ hprec[t] = m_pHzpRec[t]
       THEN hprec' = [hprec EXCEPT ![t] = @ - 1] /\ UNCHANGED pc
       ELSE Goto(t, "help_own") /\ UNCHANGED hprec
    /\ UNCHANGED <<records, m_hzp, m_arrRetired, lifetimes, live, call, pNode, slot, marked>>

\* Defect: the owner is tested but the record is not taken.
HelpWithoutOwning(t) ==
    /\ pc[t] = "help_own"
    /\ IF m_idOwner[hprec[t]] \notin running
       THEN Goto(t, "help_move") /\ UNCHANGED hprec
       ELSE Goto(t, "help") /\ hprec' = [hprec EXCEPT ![t] = @ - 1]
    /\ UNCHANGED <<records, m_hzp, m_arrRetired, lifetimes, live, call, pNode, slot, marked>>

\* The CAS of m_idOwner from the null thread id or from a thread that has ended.
HelpOwn(t) ==
    /\ pc[t] = "help_own"
    /\ IF m_idOwner[hprec[t]] \notin running
       THEN /\ m_idOwner' = [m_idOwner EXCEPT ![hprec[t]] = t]
            /\ Goto(t, "help_move")
            /\ UNCHANGED hprec
       ELSE /\ hprec' = [hprec EXCEPT ![t] = @ - 1]
            /\ Goto(t, "help")
            /\ UNCHANGED m_idOwner
    /\ UNCHANGED <<m_pListHead, m_bFree, m_hzp, m_arrRetired, lifetimes, live, call, pNode, slot, marked>>

\* Defect: the source is not cleared.
HelpCopy(t) ==
    /\ pc[t] = "help_move"
    /\ m_arrRetired' = [m_arrRetired EXCEPT ![m_pHzpRec[t]] = @ \cup m_arrRetired[hprec[t]]]
    /\ m_bFree' = [m_bFree EXCEPT ![hprec[t]] = TRUE]
    /\ Goto(t, "help_release")
    /\ UNCHANGED <<m_pListHead, m_idOwner, m_hzp, lifetimes, live, call, cursors>>

\* dest.isFull(): the array of the thread fills up when some nodes are moved, and is
\* scanned before the loop goes on.  The model's array has no capacity: it may be full
\* after any push.
HelpMoveFull(t) ==
    /\ pc[t] = "help_move"
    /\ \E moved \in SUBSET m_arrRetired[hprec[t]] \ {{}} :
        m_arrRetired' = [m_arrRetired EXCEPT
            ![m_pHzpRec[t]] = @ \cup moved,
            ![hprec[t]] = @ \ moved]
    /\ ScanFrom(t)
    /\ Goto(t, "move_scan")
    /\ UNCHANGED <<records, m_hzp, lifetimes, live, call, hprec>>

\* The arrays belong to the thread: moving the (other) nodes and clearing the source
\* are one step with the store of m_bFree that publishes it.
HelpMove(t) ==
    /\ pc[t] = "help_move"
    /\ m_arrRetired' = [m_arrRetired EXCEPT
            ![m_pHzpRec[t]] = @ \cup m_arrRetired[hprec[t]],
            ![hprec[t]] = {}]
    /\ m_bFree' = [m_bFree EXCEPT ![hprec[t]] = TRUE]
    /\ Goto(t, "help_release")
    /\ UNCHANGED <<m_pListHead, m_idOwner, m_hzp, lifetimes, live, call, cursors>>

HelpRelease(t) ==
    /\ pc[t] = "help_release"
    /\ m_idOwner' = [m_idOwner EXCEPT ![hprec[t]] = NULL]
    /\ ScanFrom(t)
    /\ Goto(t, "rescan")
    /\ UNCHANGED <<m_pListHead, m_bFree, m_hzp, m_arrRetired, lifetimes, live, call, hprec>>

HelpDone(t) == pc[t] = "help" /\ hprec[t] = 0
-----------------------------------------------------------------------------
(* ThreadGC::fini and free_hp_record: clear, Scan, HelpScan, give up the   *)
(* record.                                                                 *)

Detach(t) ==
    /\ t \in Transient /\ Attached(t)
    /\ Enter(t, "detach")
    /\ FreeGuards(t)
    /\ ScanFrom(t)
    /\ Goto(t, "scan")
    /\ UNCHANGED <<records, m_arrRetired, lifetimes, live, hprec>>

DetachRelease(t) ==
    /\ HelpDone(t) /\ call[t] = "detach"
    /\ m_idOwner' = [m_idOwner EXCEPT ![m_pHzpRec[t]] = NULL]
    /\ m_pHzpRec' = [m_pHzpRec EXCEPT ![t] = 0]
    /\ call' = [call EXCEPT ![t] = "none"]
    /\ Goto(t, "idle")
    /\ UNCHANGED <<m_pListHead, m_bFree, m_hzp, m_arrRetired, running, attached, live, cursors>>

\* A thread's function returns without detachThread: is_thread_alive is false from
\* then on.
End(t) ==
    /\ t \in Transient \cap running /\ pc[t] = "idle" /\ Attached(t)
    /\ running' = running \ {t}
    /\ UNCHANGED <<records, m_hzp, m_arrRetired, m_pHzpRec, attached, live, pc, call, cursors>>

\* GarbageCollector::Destruct( true ), when no thread uses it any more.  detachAllThread
\* clears the guards of every record that has an owner, frees the retired nodes, of
\* which none is guarded then, and gives the record up; ~GarbageCollector frees what is
\* left and deletes the records.  The pointer of a thread to its record, which nothing
\* reads any more, becomes 0, and hprec is 0 in every thread: none is in a function.
DestroyRecords ==
    /\ m_hzp' = [r \in Records |-> [i \in Slots |-> NULL]]
    /\ live' = live \ UNION {m_arrRetired[r] : r \in Records}
    /\ m_arrRetired' = [r \in Records |-> {}]
    /\ m_idOwner' = [r \in Records |-> NULL]
    /\ m_bFree' = [r \in Records |-> TRUE]
    /\ m_pListHead' = 0
    /\ m_pHzpRec' = [t \in Threads |-> 0]
    /\ hprec' = [t \in Threads |-> 0]
    /\ UNCHANGED <<running, attached, pc, call, pNode, slot, marked>>

GcLifetime(t) == Attach(t) \/ Detach(t) \/ End(t)

GcStep(t) ==
    \/ AllocOwn(t) \/ AllocUnfree(t) \/ AllocNew(t)
    \/ ScanOwn(t) \/ ScanRecord(t) \/ ScanSlot(t) \/ ScanFree(t)
    \/ HelpSkip(t) \/ HelpOwn(t) \/ HelpMoveFull(t) \/ HelpMove(t) \/ HelpRelease(t)
    \/ DetachRelease(t)
=============================================================================
