------------------------------ MODULE MSQueue -------------------------------
(***************************************************************************)
(* The lock-free queue of libcds, cds::container::MSQueue<cds::gc::HP>     *)
(* (cds/container/msqueue.h and cds/intrusive/msqueue.h), on the           *)
(* hazard-pointer collector.  A node of the queue holds one value, which   *)
(* never changes; the address stands for it.  m_Dummy is a node inside the *)
(* queue object, never retired.  One action per access to shared memory.   *)
(***************************************************************************)
EXTENDS HazardPointers, Sequences

CONSTANTS
    Dummy,    \* the address of m_Dummy
    Owner,    \* the thread that destroys the queue
    Filling,  \* the threads whose arrays of retired nodes may fill
    MaxLoad   \* bound on the nodes allocated and the attachments together

ASSUME QueueAssumption ==
    /\ Dummy \notin Node \cup Threads \cup {NULL}
    /\ Owner \in Threads /\ Filling \subseteq Threads
    /\ MaxLoad \in Nat

VARIABLES
    m_pHead, m_pTail,
    m_pNext,   \* m_pNext[n]: the link of node n
    phase,     \* of the queue and the collector: "open", "closed", "destroyed", "ended"
    node,      \* node[t]: t in enqueue, h in do_dequeue
    next,      \* next[t]: pNext in both
    new        \* new[t]: pNew in enqueue

queue == <<m_pHead, m_pTail, m_pNext>>
locals == <<node, next, new>>
vars == <<gcVars, queue, phase, locals>>

Init ==
    /\ GcInit
    /\ m_pHead = Dummy /\ m_pTail = Dummy
    /\ m_pNext = [n \in Node \cup {Dummy} |-> NULL]
    /\ phase = "open"
    /\ node = [t \in Threads |-> NULL]
    /\ next = [t \in Threads |-> NULL]
    /\ new = [t \in Threads |-> NULL]

At(t, label) == pc[t] = label

\* What a step of the queue that reads or writes links leaves alone.
KeepGc == UNCHANGED <<records, m_hzp, m_arrRetired, lifetimes, live, call, cursors>>

\* The head of the loop, at which the locals t, h and pNext hold nothing.
Again(t, label) ==
    /\ Goto(t, label)
    /\ node' = [node EXCEPT ![t] = NULL]
    /\ next' = [next EXCEPT ![t] = NULL]

Go(t, label) == Goto(t, label) /\ UNCHANGED <<node, next>>
-----------------------------------------------------------------------------
(* enqueue.                                                                *)

InBounds == Cardinality(live') + attached' <= MaxLoad

Referenced ==
    {m_pNext[n] : n \in DOMAIN m_pNext} \cup {node[t] : t \in Threads}
    \cup {next[t] : t \in Threads} \cup {m_hzp[r][i] : r \in Records, i \in Slots}

\* The free cells that malloc may choose from: those that something still refers to,
\* and one of the others, which are all alike.
Choices ==
    LET free == Node \ live
        fresh == free \ Referenced
    IN (free \cap Referenced) \cup (IF fresh = {} THEN {} ELSE {CHOOSE n \in fresh : TRUE})

\* alloc_node: a cell of the heap that is not in use, with a null link.
Enqueue(t) ==
    /\ phase = "open" /\ Attached(t)
    /\ Enter(t, "enqueue")
    /\ \E n \in Choices :
        /\ live' = live \cup {n}
        /\ new' = [new EXCEPT ![t] = n]
    /\ Goto(t, "enq_load")
    /\ UNCHANGED <<records, m_hzp, m_arrRetired, lifetimes, cursors, queue, phase, node, next>>
    /\ InBounds

\* Guard::protect: load, then store the hazard pointer and load again until the
\* two loads agree.
EnqLoad(t) ==
    /\ At(t, "enq_load")
    /\ node' = [node EXCEPT ![t] = m_pTail]
    /\ Goto(t, "enq_assign")
    /\ KeepGc /\ UNCHANGED <<queue, phase, next, new>>

EnqAssign(t) ==
    /\ At(t, "enq_assign")
    /\ Assign(t, 2, node[t])
    /\ Goto(t, "enq_check")
    /\ UNCHANGED <<records, m_arrRetired, lifetimes, live, call, cursors, queue, phase, locals>>

\* Defect: the pointer is guarded but not loaded again.
EnqNoCheck(t) ==
    /\ At(t, "enq_check")
    /\ Goto(t, "enq_next")
    /\ KeepGc /\ UNCHANGED <<queue, phase, locals>>

EnqCheck(t) ==
    /\ At(t, "enq_check")
    /\ node' = [node EXCEPT ![t] = m_pTail]
    /\ Goto(t, IF m_pTail = node[t] THEN "enq_next" ELSE "enq_assign")
    /\ KeepGc /\ UNCHANGED <<queue, phase, next, new>>

EnqNext(t) ==
    /\ At(t, "enq_next")
    /\ next' = [next EXCEPT ![t] = m_pNext[node[t]]]
    /\ Goto(t, IF m_pNext[node[t]] = NULL THEN "enq_link" ELSE "enq_help")
    /\ KeepGc /\ UNCHANGED <<queue, phase, node, new>>

\* The compare_exchange of m_pTail.  The weak one is taken as strong, as it is on
\* the machines the program is built for.
SwingTail(t, to) == m_pTail' = IF m_pTail = node[t] THEN to ELSE m_pTail

\* Defect: an enqueuer waits until the one before it has moved the tail.
EnqNoHelp(t) ==
    /\ At(t, "enq_help")
    /\ Again(t, "enq_load")
    /\ KeepGc /\ UNCHANGED <<queue, phase, new>>

EnqHelp(t) ==
    /\ At(t, "enq_help")
    /\ SwingTail(t, next[t])
    /\ Again(t, "enq_load")
    /\ KeepGc /\ UNCHANGED <<m_pHead, m_pNext, phase, new>>

\* Defect: a store in place of the CAS.
EnqStore(t) ==
    /\ At(t, "enq_link")
    /\ m_pNext' = [m_pNext EXCEPT ![node[t]] = new[t]]
    /\ Goto(t, "enq_swing")
    /\ KeepGc /\ UNCHANGED <<m_pHead, m_pTail, phase, locals>>

EnqLink(t) ==
    /\ At(t, "enq_link")
    /\ IF m_pNext[node[t]] = NULL
       THEN m_pNext' = [m_pNext EXCEPT ![node[t]] = new[t]] /\ Go(t, "enq_swing")
       ELSE Again(t, "enq_load") /\ UNCHANGED m_pNext
    /\ KeepGc /\ UNCHANGED <<m_pHead, m_pTail, phase, new>>

EnqSwing(t) ==
    /\ At(t, "enq_swing")
    /\ SwingTail(t, new[t])
    /\ Again(t, "leave")
    /\ KeepGc /\ UNCHANGED <<m_pHead, m_pNext, phase, new>>
-----------------------------------------------------------------------------
(* dequeue: do_dequeue, the copy of the value, dispose_result.             *)

Dequeue(t) ==
    /\ phase = "open" /\ Attached(t)
    /\ Enter(t, "dequeue")
    /\ Goto(t, "deq_load")
    /\ UNCHANGED <<records, m_hzp, m_arrRetired, lifetimes, live, cursors, queue, phase, locals>>

\* GuardArray::protect of m_pHead into guard 0.
DeqLoad(t) ==
    /\ At(t, "deq_load")
    /\ node' = [node EXCEPT ![t] = m_pHead]
    /\ Goto(t, "deq_assign")
    /\ KeepGc /\ UNCHANGED <<queue, phase, next, new>>

DeqAssign(t) ==
    /\ At(t, "deq_assign")
    /\ Assign(t, 1, node[t])
    /\ Goto(t, "deq_check")
    /\ UNCHANGED <<records, m_arrRetired, lifetimes, live, call, cursors, queue, phase, locals>>

DeqCheck(t) ==
    /\ At(t, "deq_check")
    /\ IF m_pHead = node[t] THEN Go(t, "deq_next") ELSE Again(t, "deq_load")
    /\ KeepGc /\ UNCHANGED <<queue, phase, new>>

\* GuardArray::protect of h->m_pNext into guard 1.
DeqNext(t) ==
    /\ At(t, "deq_next")
    /\ next' = [next EXCEPT ![t] = m_pNext[node[t]]]
    /\ Goto(t, "deq_assign_next")
    /\ KeepGc /\ UNCHANGED <<queue, phase, node, new>>

DeqAssignNext(t) ==
    /\ At(t, "deq_assign_next")
    /\ Assign(t, 2, next[t])
    /\ Goto(t, "deq_check_next")
    /\ UNCHANGED <<records, m_arrRetired, lifetimes, live, call, cursors, queue, phase, locals>>

DeqCheckNext(t) ==
    /\ At(t, "deq_check_next")
    /\ Goto(t, IF m_pNext[node[t]] = next[t] THEN "deq_valid" ELSE "deq_next")
    /\ KeepGc /\ UNCHANGED <<queue, phase, locals>>

\* if ( m_pHead.load() != h ) continue; if ( pNext == nullptr ) return false;
DeqValid(t) ==
    /\ At(t, "deq_valid")
    /\ IF m_pHead # node[t] THEN Again(t, "deq_load")
       ELSE Go(t, IF next[t] = NULL THEN "leave" ELSE "deq_tail")
    /\ KeepGc /\ UNCHANGED <<queue, phase, new>>

\* Defect: a dequeue does not care for a tail that lags.
DeqPassTail(t) ==
    /\ At(t, "deq_tail")
    /\ Goto(t, "deq_take")
    /\ KeepGc /\ UNCHANGED <<queue, phase, locals>>

DeqTail(t) ==
    /\ At(t, "deq_tail")
    /\ Goto(t, IF m_pTail = node[t] THEN "deq_help" ELSE "deq_take")
    /\ KeepGc /\ UNCHANGED <<queue, phase, locals>>

DeqHelp(t) ==
    /\ At(t, "deq_help")
    /\ SwingTail(t, next[t])
    /\ Again(t, "deq_load")
    /\ KeepGc /\ UNCHANGED <<m_pHead, m_pNext, phase, new>>

DeqTake(t) ==
    /\ At(t, "deq_take")
    /\ IF m_pHead = node[t]
       THEN m_pHead' = next[t] /\ Go(t, "deq_dispose")
       ELSE Again(t, "deq_load") /\ UNCHANGED m_pHead
    /\ KeepGc /\ UNCHANGED <<m_pTail, m_pNext, phase, new>>

\* dispose_node.  retirePtr scans if the push fills the array, whose capacity is at
\* least 1600: the model lets every push fill it or not.
Dispose(t, n) ==
    IF n = Dummy
    THEN Goto(t, "leave") /\ UNCHANGED <<m_arrRetired, pNode, slot, marked>>
    ELSE /\ RetirePush(t, n)
         /\ \/ Goto(t, "leave") /\ UNCHANGED <<pNode, slot, marked>>
            \/ t \in Filling /\ Goto(t, "scan") /\ ScanFrom(t)

\* Defect: the dummy node inside the queue is retired like the others.
DeqDisposeAny(t) ==
    /\ At(t, "deq_dispose")
    /\ RetirePush(t, node[t])
    /\ Go(t, "leave")
    /\ UNCHANGED <<records, m_hzp, lifetimes, live, call, cursors, queue, phase, new>>

\* The value is copied from the node of pNext while both guards are held; the array of
\* retired nodes belongs to the thread.
DeqDispose(t) ==
    /\ At(t, "deq_dispose")
    /\ Dispose(t, node[t])
    /\ node' = [node EXCEPT ![t] = NULL]
    /\ UNCHANGED <<records, m_hzp, lifetimes, live, call, hprec, queue, phase, next, new>>
-----------------------------------------------------------------------------
(* The return of a call, and the destructors.                              *)

\* The destructors of the guards, also after the scan of a retirement.
Leave(t) ==
    /\ At(t, "leave") \/ (HelpDone(t) /\ call[t] # "detach")
    /\ FreeGuards(t)
    /\ node' = [node EXCEPT ![t] = NULL]
    /\ next' = [next EXCEPT ![t] = NULL]
    /\ new' = [new EXCEPT ![t] = NULL]
    /\ IF call[t] = "clear"
       THEN Goto(t, IF next[t] = NULL THEN "destroy" ELSE "clear") /\ UNCHANGED call
       ELSE Goto(t, "idle") /\ call' = [call EXCEPT ![t] = "none"]
    /\ UNCHANGED <<records, m_arrRetired, lifetimes, live, cursors, queue, phase>>

\* ~MSQueue, when the other threads have been joined: clear() dequeues until nothing
\* is left ...
Close(t) ==
    /\ t = Owner /\ phase = "open" /\ Attached(t)
    /\ \A u \in running \ {Owner} : At(u, "idle") /\ ~Attached(u)
    /\ Enter(t, "clear")
    /\ phase' = "closed"
    /\ Goto(t, "clear")
    /\ UNCHANGED <<records, m_hzp, m_arrRetired, lifetimes, live, cursors, queue, locals>>

Clear(t) ==
    /\ At(t, "clear")
    /\ Goto(t, "deq_load")
    /\ KeepGc /\ UNCHANGED <<queue, phase, locals>>

\* ... and then the last node is disposed of.
Destroy(t) ==
    /\ At(t, "destroy")
    /\ m_pHead' = NULL /\ m_pTail' = NULL
    /\ phase' = "destroyed"
    /\ call' = [call EXCEPT ![t] = "destroy"]
    /\ Dispose(t, m_pHead)
    /\ UNCHANGED <<records, m_hzp, lifetimes, live, hprec, m_pNext, locals>>

\* ~HP, at the end of main().
Destruct ==
    /\ phase = "destroyed"
    /\ At(Owner, "idle")
    /\ phase' = "ended"
    /\ DestroyRecords
    /\ UNCHANGED <<queue, locals>>

\* The nodes a scan frees get a null link first: clear_links in the disposer.
Disposer == m_pNext' = [n \in DOMAIN m_pNext |->
                            IF n \in live \ live' THEN NULL ELSE m_pNext[n]]

Lifetime(t) == /\ phase = "open" \/ (t = Owner /\ phase # "ended")
               /\ GcLifetime(t) /\ InBounds
               /\ UNCHANGED <<queue, phase, locals>>

QueueStep(t) ==
    \/ EnqLoad(t) \/ EnqAssign(t) \/ EnqCheck(t) \/ EnqNext(t) \/ EnqHelp(t)
    \/ EnqLink(t) \/ EnqSwing(t)
    \/ DeqLoad(t) \/ DeqAssign(t) \/ DeqCheck(t) \/ DeqNext(t) \/ DeqAssignNext(t)
    \/ DeqCheckNext(t) \/ DeqValid(t) \/ DeqTail(t) \/ DeqHelp(t) \/ DeqTake(t)
    \/ DeqDispose(t)
    \/ Leave(t) \/ Clear(t) \/ Destroy(t)

\* A step of a call that has begun.
Step(t) ==
    \/ QueueStep(t)
    \/ GcStep(t) /\ Disposer /\ UNCHANGED <<m_pHead, m_pTail, phase, locals>>

Next ==
    \/ \E t \in Threads : Lifetime(t) \/ Enqueue(t) \/ Dequeue(t) \/ Close(t) \/ Step(t)
    \/ Destruct

\* Some thread takes steps; which one is up to the scheduler.
Fairness == WF_vars(\E t \in Threads : Step(t))

Spec == Init /\ [][Next]_vars /\ Fairness
-----------------------------------------------------------------------------
Cells == Node \cup {Dummy}

\* The nodes from m_pHead on, as far as the links lead.
Chain ==
    LET hop[k \in 0..Cardinality(Node)] ==
            IF k = 0 THEN m_pHead
            ELSE LET n == hop[k - 1] IN IF n = NULL THEN NULL ELSE m_pNext[n]
        last == Cardinality({k \in DOMAIN hop : hop[k] # NULL})
    IN [k \in 1..last |-> hop[k - 1]]

\* Every node is the dummy of the queue or an item.
Items == IF Chain = <<>> THEN <<>> ELSE Tail(Chain)

TypeOK ==
    /\ m_pListHead \in 0..MaxAttach
    /\ m_idOwner \in [Records -> Threads \cup {NULL}]
    /\ m_bFree \in [Records -> BOOLEAN]
    /\ m_hzp \in [Records -> [Slots -> Cells \cup {NULL}]]
    /\ m_arrRetired \in [Records -> SUBSET Node]
    /\ m_pHzpRec \in [Threads -> 0..MaxAttach]
    /\ running \subseteq Threads
    /\ attached \in 0..MaxAttach
    /\ live \subseteq Node
    /\ hprec \in [Threads -> 0..MaxAttach]
    /\ pNode \in [Threads -> 0..MaxAttach]
    /\ slot \in [Threads -> 0..2]
    /\ marked \in [Threads -> SUBSET Node]
    /\ m_pHead \in Cells \cup {NULL} /\ m_pTail \in Cells \cup {NULL}
    /\ m_pNext \in [Cells -> Node \cup {NULL}]
    /\ node \in [Threads -> Cells \cup {NULL}]
    /\ next \in [Threads -> Node \cup {NULL}]
    /\ new \in [Threads -> Node \cup {NULL}]

\* The nodes that the next statement of t reads or writes.
Touches(t) ==
    IF pc[t] \in {"enq_next", "enq_link", "deq_next", "deq_check_next"} THEN {node[t]}
    ELSE IF pc[t] = "deq_dispose" THEN {next[t]}
    ELSE {}

\* No link and no value of a node is read or written after the node was freed: a
\* validated hazard pointer keeps its node (hp_decl.h protect, hp_gc.cpp inplace_scan).
\* A node freed and allocated again meanwhile would be caught when it was freed.
NoUseAfterFree == \A t \in Threads : Touches(t) \subseteq live \cup {Dummy}

Looking(t) == pc[t] \in {"deq_load", "deq_assign", "deq_check", "deq_next",
    "deq_assign_next", "deq_check_next", "deq_valid", "deq_tail", "deq_help", "deq_take"}
Linking(t) == call[t] = "enqueue" /\ pc[t] \notin {"enq_swing", "leave"}
Disposing(t) == pc[t] = "deq_dispose"

\* Every allocated node is in one place: in the queue, in the hands of the enqueue that
\* made it or of the dequeue that unlinked it, or among the retired nodes of one record.
\* None is retired twice, none leaks, also when HelpScan moves the nodes of a thread
\* that has left, and none is left when the queue and the collector are destroyed.
OneHolder ==
    LET inQueue == {Chain[i] : i \in DOMAIN Chain} \ {Dummy}
        linking == {new[t] : t \in {u \in Threads : Linking(u)}}
        unlinked == {node[t] : t \in {u \in Threads : Disposing(u)}} \ {Dummy}
        arrays == {a \in Records \X Node : a[2] \in m_arrRetired[a[1]]}
    IN /\ live = inQueue \cup linking \cup unlinked \cup {a[2] : a \in arrays}
       /\ Cardinality(live) = Cardinality(inQueue) + Cardinality(linking)
                                + Cardinality(unlinked) + Cardinality(arrays)

\* m_pTail is the last node or the one before, never behind m_pHead and never outside
\* of the list, whatever helpers and late enqueuers do to it.
TailIsClose ==
    phase \in {"open", "closed"} =>
        LET last == Len(Chain) IN \E i \in {last - 1, last} \ {0} : m_pTail = Chain[i]

\* A record marked free has no retired nodes (the comment at hp_gc.cpp:323) and is not
\* the record of a running thread, whose hazard pointers a scan must see; and no
\* two threads share a record.
FreeRecordsAreUnused ==
    /\ \A r \in Records : m_bFree[r] => m_arrRetired[r] = {}
    /\ \A t \in running : Attached(t) =>
            ~m_bFree[m_pHzpRec[t]] /\ m_idOwner[m_pHzpRec[t]] = t

\* Each call takes effect at one instant, first in first out; an enqueue at the CAS of
\* the last link, a dequeue at the CAS of m_pHead, an empty one where it read the link.
Abstract == INSTANCE LinearQueue WITH
    Item <- Node,
    Nothing <- NULL,
    items <- Items,
    pending <- [t \in Threads |->
        IF call[t] = "enqueue"
        THEN IF Linking(t) THEN <<"enqueue", new[t]>> ELSE <<"return", new[t]>>
        ELSE IF call[t] \notin {"dequeue", "clear"} \/ pc[t] \in {"clear", "destroy"}
        THEN <<"idle">>
        ELSE IF Looking(t) THEN <<"dequeue">> ELSE <<"return", next[t]>>],
    sawEmpty <- [t \in Threads |->
        /\ pc[t] \in {"deq_assign_next", "deq_check_next", "deq_valid"}
        /\ next[t] = NULL]

ImplementsQueue == Abstract!Spec

\* Lock-freedom: while calls are in progress, some call returns, even if all threads
\* but one stop where they are.
Returns(t) == pc[t] \notin {"idle", "clear"} /\ pc'[t] \in {"idle", "clear"}

LockFree ==
    \/ []<>(\A t \in Threads : call[t] = "none")
    \/ []<><<\E t \in Threads : Returns(t)>>_vars
=============================================================================
