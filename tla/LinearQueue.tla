---------------------------- MODULE LinearQueue -----------------------------
(***************************************************************************)
(* What a lock-free queue promises: each enqueue, and each dequeue that    *)
(* returns an item, takes effect at one instant between its call and its   *)
(* return, and the items leave in the order in which they came.  A dequeue *)
(* may answer that the queue is empty if it was empty at some instant      *)
(* since the call, which the caller can tell from nothing it does later:   *)
(* the queue may hold items again by the time the answer is decided.       *)
(***************************************************************************)
EXTENDS Sequences

CONSTANTS Threads, Item, Nothing

VARIABLES
    items,    \* the queue, oldest item first
    pending,  \* pending[t]: what thread t has called, or the outcome it will return
    sawEmpty  \* sawEmpty[t]: the dequeue of t has seen the queue empty

vars == <<items, pending, sawEmpty>>

Idle == <<"idle">>
Dequeuing == <<"dequeue">>
Enqueuing(x) == <<"enqueue", x>>
Returning(r) == <<"return", r>>

Init ==
    /\ items = <<>>
    /\ pending = [t \in Threads |-> Idle]
    /\ sawEmpty = [t \in Threads |-> FALSE]

Becomes(t, state) == pending' = [pending EXCEPT ![t] = state]

Call(t) ==
    /\ pending[t] = Idle
    /\ \E c \in {Dequeuing} \cup {Enqueuing(x) : x \in Item} : Becomes(t, c)
    /\ UNCHANGED <<items, sawEmpty>>

Enqueue(t) ==
    /\ pending[t][1] = "enqueue"
    /\ items' = Append(items, pending[t][2])
    /\ Becomes(t, Returning(pending[t][2]))
    /\ UNCHANGED sawEmpty

Dequeue(t) ==
    /\ pending[t] = Dequeuing
    /\ items # <<>>
    /\ items' = Tail(items)
    /\ Becomes(t, Returning(Head(items)))
    /\ UNCHANGED sawEmpty

\* What a dequeue saw it may also forget, and look again.
Look(t) ==
    /\ pending[t] = Dequeuing
    /\ \E b \in BOOLEAN : (b => items = <<>>) /\ sawEmpty' = [sawEmpty EXCEPT ![t] = b]
    /\ UNCHANGED <<items, pending>>

DequeueNothing(t) ==
    /\ sawEmpty[t]
    /\ pending[t] = Dequeuing
    /\ Becomes(t, Returning(Nothing))
    /\ sawEmpty' = [sawEmpty EXCEPT ![t] = FALSE]
    /\ UNCHANGED items

Return(t) ==
    /\ pending[t][1] = "return"
    /\ Becomes(t, Idle)
    /\ UNCHANGED <<items, sawEmpty>>

Next == \E t \in Threads :
    \/ Call(t) \/ Return(t)
    \/ Enqueue(t) \/ Dequeue(t)
    \/ Look(t) \/ DequeueNothing(t)

Spec == Init /\ [][Next]_vars
=============================================================================
