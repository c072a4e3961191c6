---------------------------- MODULE BlockingList ----------------------------
(***************************************************************************)
(* blocking::list (src/src/threadsafe/blocking/list.h): a singly linked    *)
(* list of heap cells between m_front and m_back, a counter m_size, and    *)
(* one mutex held by every method from its first statement to its return.  *)
(* A method is modelled by the steps it takes while it holds the mutex, so *)
(* that the exclusion is the mutex's doing and not the model's.            *)
(***************************************************************************)
EXTENDS Integers, Sequences, FiniteSets

CONSTANTS
    Threads,      \* threads that call the list
    Owner,        \* the one of them that destroys it
    Values,       \* the values of type T
    Addr,         \* heap addresses of cells
    NULL,         \* nullptr
    Freed,        \* what a read of a deleted cell returns
    SizeModulus,  \* number of values of uint32_t m_size: 2^32 in the code
    MaxFail       \* bound on the allocations that fail

ASSUME ListAssumption ==
    /\ IsFiniteSet(Addr) /\ IsFiniteSet(Threads)
    /\ Owner \in Threads /\ NULL \notin Threads
    /\ NULL \notin Addr /\ Freed \notin Addr /\ NULL # Freed
    /\ Freed \notin Values /\ NULL \notin Values /\ "false" \notin Values
    /\ SizeModulus \in Nat /\ MaxFail \in Nat
    /\ SizeModulus > Cardinality(Addr) + MaxFail

VARIABLES
    m_front, m_back, m_size,
    m_mutex,     \* the thread that holds the mutex, or NULL
    next, val,   \* m_next and m_val of the cell at each address
    pc,          \* pc[t]: the next statement of thread t
    call,        \* call[t]: the method and argument thread t is in
    cell,        \* cell[t]: the local cell of push_back, old_front of pop_front
    out,         \* out[t]: the value pop_front has read
    result,      \* result[t]: what the last method of t returned
    alive,       \* the destructor has not started
    order,       \* history: the addresses of the list's cells, front to back
    failed       \* history: how many allocations have failed

fields == <<m_front, m_back, m_size>>
heap == <<next, val>>
locals == <<call, cell, out, result>>
vars == <<fields, m_mutex, heap, pc, locals, alive, order, failed>>

Calls == {<<"pop">>, <<"empty">>} \cup {<<"push", v>> : v \in Values}

\* What a method returns other than a value of the list.
Codes == {"none", "ok", "bad_alloc", "false", "empty", "nonempty"}

Init ==
    /\ m_front = NULL /\ m_back = NULL /\ m_size = 0
    /\ m_mutex = NULL
    /\ next = [a \in Addr |-> Freed]
    /\ val = [a \in Addr |-> Freed]
    /\ pc = [t \in Threads |-> "idle"]
    /\ call = [t \in Threads |-> <<"idle">>]
    /\ cell = [t \in Threads |-> NULL]
    /\ out = [t \in Threads |-> NULL]
    /\ result = [t \in Threads |-> "none"]
    /\ alive = TRUE
    /\ order = <<>>
    /\ failed = 0

FreeCells == {a \in Addr : next[a] = Freed}

\* The bound on the heap: a push starts only if a cell is left for it.
HeapRoom ==
    Cardinality({t \in Threads : call[t][1] = "push"}) < Cardinality(FreeCells)

Goto(t, label) == pc' = [pc EXCEPT ![t] = label]

\* A call starts; from the destructor's start on, only its own pop_fronts do, and
\* they stop at the first that returns false.
Begin(t, c) ==
    /\ pc[t] = "idle"
    /\ alive \/ (t = Owner /\ c = <<"pop">> /\ result[t] # "false")
    /\ c[1] = "push" => HeapRoom
    /\ call' = [call EXCEPT ![t] = c]
    /\ Goto(t, c[1])
    /\ UNCHANGED <<fields, m_mutex, heap, cell, out, result, alive, order, failed>>

\* std::unique_lock<std::mutex> lock(m_mutex) on entry ...
Lock(t) ==
    /\ m_mutex = NULL
    /\ m_mutex' = t

\* ... and its destructor on return or on an exception.
Return(t, r) ==
    /\ m_mutex' = NULL
    /\ call' = [call EXCEPT ![t] = <<"idle">>]
    /\ cell' = [cell EXCEPT ![t] = NULL]
    /\ out' = [out EXCEPT ![t] = NULL]
    /\ result' = [result EXCEPT ![t] = r]
    /\ Goto(t, "idle")

PushLock(t) ==
    /\ pc[t] = "push"
    /\ Lock(t)
    /\ Goto(t, "push_size")
    /\ UNCHANGED <<fields, heap, locals, alive, order, failed>>

PushSize(t) ==
    /\ pc[t] = "push_size"
    /\ m_size' = (m_size + 1) % SizeModulus
    /\ Goto(t, "push_new")
    /\ UNCHANGED <<m_front, m_back, m_mutex, heap, locals, alive, order, failed>>

PushNew(t) ==
    /\ pc[t] = "push_new"
    /\ \E a \in FreeCells :
        /\ cell' = [cell EXCEPT ![t] = a]
        /\ next' = [next EXCEPT ![a] = NULL]
        /\ val' = [val EXCEPT ![a] = call[t][2]]
    /\ Goto(t, "push_link")
    /\ UNCHANGED <<fields, m_mutex, call, out, result, alive, order, failed>>

\* operator new throws std::bad_alloc: m_size has been incremented and stays so.
PushBadAlloc(t) ==
    /\ pc[t] = "push_new"
    /\ failed < MaxFail
    /\ failed' = failed + 1
    /\ Return(t, "bad_alloc")
    /\ UNCHANGED <<fields, heap, alive, order>>

PushFirst(t) ==
    /\ pc[t] = "push_link"
    /\ m_front = NULL
    /\ m_front' = cell[t] /\ m_back' = cell[t]
    /\ order' = Append(order, cell[t])
    /\ Return(t, "ok")
    /\ UNCHANGED <<m_size, heap, alive, failed>>

PushLink(t) ==
    /\ pc[t] = "push_link"
    /\ m_front # NULL
    /\ next' = [next EXCEPT ![m_back] = cell[t]]
    /\ Goto(t, "push_back")
    /\ UNCHANGED <<fields, m_mutex, val, locals, alive, order, failed>>

\* Defect: m_back is not moved to the new last cell.
PushBackStays(t) ==
    /\ pc[t] = "push_back"
    /\ order' = Append(order, cell[t])
    /\ Return(t, "ok")
    /\ UNCHANGED <<fields, heap, alive, failed>>

PushBack(t) ==
    /\ pc[t] = "push_back"
    /\ m_back' = cell[t]
    /\ order' = Append(order, cell[t])
    /\ Return(t, "ok")
    /\ UNCHANGED <<m_front, m_size, heap, alive, failed>>

PopLock(t) ==
    /\ pc[t] = "pop"
    /\ Lock(t)
    /\ Goto(t, "pop_take")
    /\ UNCHANGED <<fields, heap, locals, alive, order, failed>>

PopNothing(t) ==
    /\ pc[t] = "pop_take"
    /\ m_front = NULL
    /\ Return(t, "false")
    /\ UNCHANGED <<fields, heap, alive, order, failed>>

\* Defect: m_size is not decremented.
PopTakeKeepsSize(t) ==
    /\ pc[t] = "pop_take"
    /\ m_front # NULL
    /\ out' = [out EXCEPT ![t] = val[m_front]]
    /\ Goto(t, "pop_unlink")
    /\ UNCHANGED <<fields, m_mutex, heap, call, cell, result, alive, order, failed>>

PopTake(t) ==
    /\ pc[t] = "pop_take"
    /\ m_front # NULL
    /\ m_size' = (m_size - 1) % SizeModulus
    /\ out' = [out EXCEPT ![t] = val[m_front]]
    /\ Goto(t, "pop_unlink")
    /\ UNCHANGED <<m_front, m_back, m_mutex, heap, call, cell, result, alive, order, failed>>

\* delete: what the cell held can no longer be relied on.
Delete(a) ==
    /\ next' = [next EXCEPT ![a] = Freed]
    /\ val' = [val EXCEPT ![a] = Freed]

\* Defect: m_back still points to the deleted last cell.
PopLastDangles(t) ==
    /\ pc[t] = "pop_unlink"
    /\ m_front = m_back
    /\ Delete(m_front)
    /\ m_front' = NULL
    /\ order' = Tail(order)
    /\ Return(t, out[t])
    /\ UNCHANGED <<m_back, m_size, alive, failed>>

PopLast(t) ==
    /\ pc[t] = "pop_unlink"
    /\ m_front = m_back
    /\ Delete(m_front)
    /\ m_front' = NULL /\ m_back' = NULL
    /\ order' = Tail(order)
    /\ Return(t, out[t])
    /\ UNCHANGED <<m_size, alive, failed>>

\* Defect: the first cell is deleted before its m_next is read.
PopUnlinkDeleted(t) ==
    /\ pc[t] = "pop_unlink"
    /\ m_front # m_back
    /\ Delete(m_front)
    /\ cell' = [cell EXCEPT ![t] = m_front]
    /\ m_front' = Freed
    /\ Goto(t, "pop_delete")
    /\ UNCHANGED <<m_back, m_size, m_mutex, call, out, result, alive, order, failed>>

PopUnlink(t) ==
    /\ pc[t] = "pop_unlink"
    /\ m_front # m_back
    /\ cell' = [cell EXCEPT ![t] = m_front]
    /\ m_front' = next[m_front]
    /\ Goto(t, "pop_delete")
    /\ UNCHANGED <<m_back, m_size, m_mutex, heap, call, out, result, alive, order, failed>>

\* Defect: the unlinked cell is not deleted.
PopDeleteLeaks(t) ==
    /\ pc[t] = "pop_delete"
    /\ order' = Tail(order)
    /\ Return(t, out[t])
    /\ UNCHANGED <<fields, heap, alive, failed>>

PopDelete(t) ==
    /\ pc[t] = "pop_delete"
    /\ Delete(cell[t])
    /\ order' = Tail(order)
    /\ Return(t, out[t])
    /\ UNCHANGED <<fields, alive, failed>>

Empty(t) ==
    /\ pc[t] = "empty"
    /\ m_mutex = NULL
    /\ Return(t, IF m_size > 0 THEN "nonempty" ELSE "empty")
    /\ UNCHANGED <<fields, heap, alive, order, failed>>

\* ~list: its owner runs it when no thread is in a method.
Destroy ==
    /\ alive
    /\ \A t \in Threads : pc[t] = "idle"
    /\ alive' = FALSE
    /\ result' = [result EXCEPT ![Owner] = "none"]
    /\ UNCHANGED <<fields, m_mutex, heap, pc, call, cell, out, order, failed>>

Step(t) ==
    \/ \E c \in Calls : Begin(t, c)
    \/ PushLock(t) \/ PushSize(t) \/ PushNew(t) \/ PushBadAlloc(t)
    \/ PushFirst(t) \/ PushLink(t) \/ PushBack(t)
    \/ PopLock(t) \/ PopNothing(t) \/ PopTake(t)
    \/ PopLast(t) \/ PopUnlink(t) \/ PopDelete(t)
    \/ Empty(t)

Next == (\E t \in Threads : Step(t)) \/ Destroy

Spec == Init /\ [][Next]_vars

-----------------------------------------------------------------------------
Labels == {"idle", "push", "push_size", "push_new", "push_link", "push_back",
           "pop", "pop_take", "pop_unlink", "pop_delete", "empty"}

TypeOK ==
    /\ m_front \in Addr \cup {NULL}
    /\ m_back \in Addr \cup {NULL}
    /\ m_size \in 0..(SizeModulus - 1)
    /\ m_mutex \in Threads \cup {NULL}
    /\ next \in [Addr -> Addr \cup {NULL, Freed}]
    /\ val \in [Addr -> Values \cup {Freed}]
    /\ pc \in [Threads -> Labels]
    /\ call \in [Threads -> Calls \cup {<<"idle">>}]
    /\ cell \in [Threads -> Addr \cup {NULL}]
    /\ out \in [Threads -> Values \cup {NULL}]
    /\ result \in [Threads -> Values \cup Codes]
    /\ alive \in BOOLEAN
    /\ order \in Seq(Addr)
    /\ failed \in 0..MaxFail

\* The list is well formed whenever the mutex is free: m_front is the first cell
\* and m_back the last, each cell's m_next is the following one and the last one's
\* is nullptr, no cell occurs twice, and both pointers are null when there is no
\* cell.  A dangling m_back after the last element is popped, a link to a deleted
\* cell, or two threads inside at once, violates it.
Linked ==
    m_mutex = NULL =>
        /\ order = <<>> => m_front = NULL /\ m_back = NULL
        /\ order # <<>> =>
            /\ m_front = order[1]
            /\ m_back = order[Len(order)]
            /\ next[m_back] = NULL
        /\ \A i \in 1..(Len(order) - 1) : next[order[i]] = order[i + 1]
        /\ \A i, j \in 1..Len(order) : order[i] = order[j] => i = j

\* No cell leaks and none is deleted while it is in the list: whenever the mutex is
\* free the allocated cells are those of the list, so that none is left once the
\* destructor's loop has ended.
NoLeak ==
    /\ m_mutex = NULL =>
        \A a \in Addr : next[a] # Freed <=> \E i \in 1..Len(order) : order[i] = a
    /\ ~alive /\ result[Owner] = "false" => FreeCells = Addr

\* m_size, when no thread is inside a method, is the number of cells plus the
\* number of push_backs whose allocation failed: m_size++ comes before new.
SizeAccounts ==
    m_mutex = NULL => m_size = Len(order) + failed

\* The values in the list, front to back.
Contents == [i \in 1..Len(order) |-> val[order[i]]]

Fifo == INSTANCE FifoQueue WITH queue <- Contents, degraded <- (failed > 0)

\* Every behaviour of the linked list is one of the first-in first-out queue: a call
\* takes effect at one instant, pop_front returns the oldest value and never fails
\* while there is one, empty() tells the truth, a failed push_back adds nothing.
ImplementsFifo == Fifo!Spec
=============================================================================
