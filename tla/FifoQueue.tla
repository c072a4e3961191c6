----------------------------- MODULE FifoQueue -----------------------------
(***************************************************************************)
(* What blocking::list (src/src/threadsafe/blocking/list.h) promises its   *)
(* callers: a first-in first-out queue shared by threads, every call of    *)
(* which takes effect at one instant between its invocation and its        *)
(* return.  BlockingList, the linked list under its mutex, is shown to     *)
(* implement this specification.                                           *)
(***************************************************************************)
EXTENDS Sequences

CONSTANTS Threads,  \* the threads that call the list
          Owner,    \* the thread that destroys the list
          Values    \* the values it holds (CTask pointers, ints)

VARIABLES queue,    \* the values in the list, oldest first
          call,     \* call[t]: the call thread t is in, or <<"idle">>
          result,   \* result[t]: what the last call of t returned
          degraded, \* a push_back has failed to allocate its cell
          alive     \* the destructor has not started

vars == <<queue, call, result, degraded, alive>>

Calls == {<<"pop">>, <<"empty">>} \cup {<<"push", v>> : v \in Values}

Init ==
    /\ queue = <<>>
    /\ call = [t \in Threads |-> <<"idle">>]
    /\ result = [t \in Threads |-> "none"]
    /\ degraded = FALSE
    /\ alive = TRUE

\* Once the destructor runs, only its own pops begin.
Begin(t, c) ==
    /\ alive \/ (t = Owner /\ c = <<"pop">>)
    /\ call[t] = <<"idle">>
    /\ call' = [call EXCEPT ![t] = c]
    /\ UNCHANGED <<queue, result, degraded, alive>>

Return(t, r) ==
    /\ call' = [call EXCEPT ![t] = <<"idle">>]
    /\ result' = [result EXCEPT ![t] = r]
    /\ UNCHANGED alive

Push(t, v) ==
    /\ call[t] = <<"push", v>>
    /\ queue' = Append(queue, v)
    /\ Return(t, "ok")
    /\ UNCHANGED degraded

\* A push that throws leaves the contents as they were.
PushFail(t, v) ==
    /\ call[t] = <<"push", v>>
    /\ degraded' = TRUE
    /\ Return(t, "bad_alloc")
    /\ UNCHANGED queue

Pop(t) ==
    /\ call[t] = <<"pop">>
    /\ queue # <<>>
    /\ queue' = Tail(queue)
    /\ Return(t, Head(queue))
    /\ UNCHANGED degraded

PopNothing(t) ==
    /\ call[t] = <<"pop">>
    /\ queue = <<>>
    /\ Return(t, "false")
    /\ UNCHANGED <<queue, degraded>>

\* empty() never answers TRUE for a list that holds a value; it answers FALSE for
\* one that holds none only after a failed push.
Empty(t, r) ==
    /\ call[t] = <<"empty">>
    /\ r = "empty" => queue = <<>>
    /\ r = "nonempty" => queue # <<>> \/ degraded
    /\ Return(t, r)
    /\ UNCHANGED <<queue, degraded>>

\* The destructor starts when no call is in progress; it then pops the contents.
Destroy ==
    /\ alive
    /\ \A t \in Threads : call[t] = <<"idle">>
    /\ alive' = FALSE
    /\ result' = [result EXCEPT ![Owner] = "none"]
    /\ UNCHANGED <<queue, call, degraded>>

Next ==
    \/ \E t \in Threads :
        \/ \E c \in Calls : Begin(t, c)
        \/ \E v \in Values : Push(t, v) \/ PushFail(t, v)
        \/ Pop(t)
        \/ PopNothing(t)
        \/ \E r \in {"empty", "nonempty"} : Empty(t, r)
    \/ Destroy

Spec == Init /\ [][Next]_vars
=============================================================================
