------------------------- MODULE BlockingListProofs -------------------------
(***************************************************************************)
(* Proofs about BlockingList: its types, that the list is well formed,     *)
(* leaks nothing and counts right whenever the mutex is free, and that     *)
(* every behaviour of it is one of FifoQueue, for any threads, values and  *)
(* addresses.  The invariant says, for each statement of the thread that   *)
(* holds the mutex, how far the list is from being well formed.            *)
(***************************************************************************)
EXTENDS BlockingList, TLAPS, SequenceTheorems, FiniteSetTheorems

\* The statements under the mutex, and the one its holder is at.
Inside == {"push_size", "push_new", "push_link", "push_back",
           "pop_take", "pop_unlink", "pop_delete"}
Stage == IF m_mutex \in Threads THEN pc[m_mutex] ELSE "idle"

Queued(a) == \E i \in 1..Len(order) : order[i] = a
NoTwice == \A i, j \in 1..Len(order) : order[i] = order[j] => i = j

Pushing == {"push_link", "push_back"}

\* A thread is past its lock exactly while it holds the mutex.
Exclusive == \A t \in Threads : pc[t] \in Inside <=> m_mutex = t

\* The call a thread is in, from its statement.
InCall ==
    \A t \in Threads :
        /\ pc[t] = "idle" <=> call[t] = <<"idle">>
        /\ pc[t] \in {"push", "push_size", "push_new"} \cup Pushing =>
               \E v \in Values : call[t] = <<"push", v>>
        /\ pc[t] \in {"pop", "pop_take", "pop_unlink", "pop_delete"} => call[t] = <<"pop">>
        /\ pc[t] = "empty" => call[t] = <<"empty">>

\* What the holder knows: its new cell is apart from the list; the list it takes from
\* is not empty; it has read the first value; the cell it unlinked is still the first.
HolderKnows ==
    /\ Stage \in Pushing =>
        /\ cell[m_mutex] \in Addr /\ ~Queued(cell[m_mutex])
        /\ next[cell[m_mutex]] = NULL
        /\ call[m_mutex] = <<"push", val[cell[m_mutex]]>>
    /\ Stage = "push_back" => order # <<>>
    /\ Stage \in {"pop_unlink", "pop_delete"} =>
        order # <<>> /\ out[m_mutex] = val[order[1]]
    /\ Stage = "pop_delete" => Len(order) > 1 /\ cell[m_mutex] = order[1]

\* The pointers and links, at every statement.
Shape ==
    /\ NoTwice
    /\ \A i \in 1..(Len(order) - 1) : next[order[i]] = order[i + 1]
    /\ order = <<>> => m_front = NULL /\ m_back = NULL
    /\ order # <<>> =>
        /\ m_front = order[IF Stage = "pop_delete" THEN 2 ELSE 1]
        /\ m_back = order[Len(order)]
        /\ next[m_back] = IF Stage = "push_back" THEN cell[m_mutex] ELSE NULL

\* The allocated cells are those of the list and the one about to be linked.
Heap ==
    \A a \in Addr :
        /\ next[a] # Freed <=> Queued(a) \/ (Stage \in Pushing /\ a = cell[m_mutex])
        /\ next[a] # Freed => val[a] \in Values

\* m_size runs ahead of the list within both methods; it may be full at push_new,
\* where no allocation is left that could succeed or fail.
Total ==
    Len(order) + failed + (IF Stage \in {"push_new"} \cup Pushing THEN 1
                           ELSE IF Stage \in {"pop_unlink", "pop_delete"} THEN -1 ELSE 0)
Sizes == m_size = IF Total = SizeModulus THEN 0 ELSE Total

\* The destructor runs alone, and what it has popped to the end is empty.
Closing ==
    /\ ~alive => \A t \in Threads \ {Owner} : pc[t] = "idle"
    /\ ~alive /\ result[Owner] = "false" => order = <<>> /\ pc[Owner] = "idle"

IInv ==
    TypeOK /\ Exclusive /\ InCall /\ HolderKnows /\ Shape /\ Heap /\ Sizes /\ Closing

-----------------------------------------------------------------------------
(* Facts about the sequence of cells. *)

\* The list has no more cells than there are addresses, and fewer if one is elsewhere.
LEMMA OrderFits ==
    ASSUME TypeOK, NoTwice
    PROVE  /\ Len(order) \in Nat /\ Cardinality(Addr) \in Nat
           /\ Len(order) <= Cardinality(Addr)
           /\ \A a \in Addr : ~Queued(a) => Len(order) + 1 <= Cardinality(Addr)
<1>. DEFINE D == 1..Len(order)
<1>1. /\ Len(order) \in Nat /\ order \in [D -> Addr]
      /\ IsFiniteSet(Addr) /\ Cardinality(Addr) \in Nat
  BY ListAssumption, LenProperties, FS_CardinalityType DEF TypeOK
<1>2. IsFiniteSet(D) /\ Cardinality(D) = Len(order)
  <2>1. 1 \in Int /\ Len(order) \in Int
    BY <1>1
  <2>2. IsFiniteSet(D) /\ Cardinality(D) = IF 1 > Len(order) THEN 0 ELSE Len(order) - 1 + 1
    BY <2>1, FS_Interval, Zenon
  <2>. QED  BY <1>1, <2>2
<1>3. order \in Injection(D, Addr)
  BY <1>1 DEF NoTwice, Injection, IsInjective
<1>4. Len(order) <= Cardinality(Addr)
  BY <1>1, <1>2, <1>3, FS_Injection
<1>5. ASSUME NEW a \in Addr, ~Queued(a)
      PROVE  Len(order) + 1 <= Cardinality(Addr)
  <2>1. order \in Injection(D, Addr \ {a})
    BY <1>1, <1>3, <1>5 DEF Queued, Injection, IsInjective
  <2>2. IsFiniteSet(Addr \ {a}) /\ Cardinality(Addr \ {a}) = Cardinality(Addr) - 1
    BY <1>1, FS_RemoveElement
  <2>3. Cardinality(D) <= Cardinality(Addr \ {a})
    BY <2>1, <2>2, FS_Injection
  <2>. QED  BY <1>1, <1>2, <2>2, <2>3
<1>. QED  BY <1>1, <1>4, <1>5

\* What linking a cell does to the sequence.
LEMMA AppendCell ==
    ASSUME order \in Seq(Addr), NEW a \in Addr, order' = Append(order, a)
    PROVE  /\ order' \in Seq(Addr) /\ order' # <<>>
           /\ Len(order) \in Nat /\ Len(order') = Len(order) + 1
           /\ \A i \in 1..Len(order) : order'[i] = order[i]
           /\ order'[Len(order) + 1] = a
           /\ \A b : Queued(b)' <=> Queued(b) \/ b = a
           /\ NoTwice /\ ~Queued(a) => NoTwice'
<1>1. /\ order' \in Seq(Addr) /\ order' # <<>>
      /\ Len(order) \in Nat /\ Len(order') = Len(order) + 1
      /\ \A i \in 1..Len(order) : order'[i] = order[i]
      /\ order'[Len(order) + 1] = a
  BY AppendProperties, LenProperties
<1>2. \A i \in 1..Len(order') : i \in 1..Len(order) \/ i = Len(order) + 1
  BY <1>1
<1>3. \A b : Queued(b)' <=> Queued(b) \/ b = a
  BY <1>1, <1>2 DEF Queued
<1>4. ASSUME NoTwice, ~Queued(a) PROVE NoTwice'
  <2>1. \A i \in 1..Len(order) : order[i] # a
    BY <1>4 DEF Queued
  <2>. QED  BY <1>1, <1>2, <1>4, <2>1 DEF NoTwice
<1>. QED  BY <1>1, <1>3, <1>4

\* What unlinking the first cell does to it.
LEMMA TailCell ==
    ASSUME order \in Seq(Addr), order # <<>>, NoTwice, order' = Tail(order)
    PROVE  /\ order' \in Seq(Addr) /\ order[1] \in Addr
           /\ Len(order) \in Nat \ {0} /\ Len(order') = Len(order) - 1
           /\ \A i \in 1..Len(order') : order'[i] = order[i + 1]
           /\ \A b : Queued(b)' <=> Queued(b) /\ b # order[1]
           /\ NoTwice'
           /\ order' = <<>> <=> Len(order) = 1
<1>1. /\ order' \in Seq(Addr) /\ order[1] \in Addr
      /\ Len(order) \in Nat \ {0} /\ Len(order') = Len(order) - 1
      /\ \A i \in 1..Len(order') : order'[i] = order[i + 1]
  BY HeadTailProperties, EmptySeq, ElementOfSeq
<1>2. order' = <<>> <=> Len(order) = 1
  BY <1>1, EmptySeq
<1>3. \A i \in 1..Len(order') : i + 1 \in 1..Len(order) /\ i + 1 # 1
  BY <1>1
<1>4. \A i \in 1..Len(order) : i = 1 \/ (i - 1 \in 1..Len(order') /\ (i - 1) + 1 = i)
  BY <1>1
<1>5. ASSUME NEW b, Queued(b)' PROVE Queued(b) /\ b # order[1]
  <2>1. PICK i \in 1..Len(order') : order'[i] = b
    BY <1>5 DEF Queued
  <2>2. order[i + 1] = b /\ i + 1 \in 1..Len(order) /\ i + 1 # 1 /\ 1 \in 1..Len(order)
    BY <1>1, <1>3, <2>1
  <2>. QED  BY <2>2 DEF Queued, NoTwice
<1>6. ASSUME NEW b, Queued(b), b # order[1] PROVE Queued(b)'
  <2>1. PICK i \in 1..Len(order) : order[i] = b
    BY <1>6 DEF Queued
  <2>2. i - 1 \in 1..Len(order') /\ order'[i - 1] = b
    BY <1>1, <1>4, <1>6, <2>1
  <2>. QED  BY <2>2 DEF Queued
<1>7. NoTwice'
  <2>. SUFFICES ASSUME NEW i \in 1..Len(order'), NEW j \in 1..Len(order'),
                       order'[i] = order'[j]
                PROVE  i = j
    BY DEF NoTwice
  <2>1. i + 1 = j + 1
    BY <1>1, <1>3 DEF NoTwice
  <2>. QED  BY <2>1
<1>. QED  BY <1>1, <1>2, <1>5, <1>6, <1>7

\* The remainder of m_size, where it is at most one past its range.
LEMMA Remainder ==
    ASSUME NEW m \in Nat \ {0}, NEW x \in 0..m
    PROVE  x % m = IF x = m THEN 0 ELSE x
  OBVIOUS

-----------------------------------------------------------------------------
(* Every step keeps the invariant. *)

\* The holder of the mutex is at the stage, and no other thread is inside.
LEMMA HolderStage ==
    ASSUME TypeOK, Exclusive
    PROVE  /\ m_mutex = NULL => Stage = "idle" /\ \A t \in Threads : pc[t] \notin Inside
           /\ \A t \in Threads : pc[t] \in Inside =>
                  m_mutex = t /\ Stage = pc[t]
           /\ m_mutex # NULL => m_mutex \in Threads /\ Stage \in Inside
  BY ListAssumption DEF TypeOK, Exclusive, Stage

\* A list that is not empty has a first and a last cell.
LEMMA FirstCell ==
    ASSUME order \in Seq(Addr), order # <<>>
    PROVE  /\ Len(order) \in Nat \ {0}
           /\ order[1] \in Addr /\ order[Len(order)] \in Addr
  BY EmptySeq, ElementOfSeq

LEMMA InitIInv == Init => IInv
<1>. SUFFICES ASSUME Init PROVE IInv
  OBVIOUS
<1>. USE ListAssumption DEF Init
<1>1. order \in Seq(Addr) /\ Len(order) = 0
  BY EmptySeq
<1>2. TypeOK
  <2>1. Cardinality(Addr) \in Nat
    BY FS_CardinalityType
  <2>. QED  BY <1>1, <2>1 DEF TypeOK, Codes, Labels
<1>3. Exclusive /\ InCall /\ Closing
  BY DEF Exclusive, InCall, Closing, Inside, Pushing
<1>4. Stage = "idle"
  BY DEF Stage
<1>5. HolderKnows /\ Shape /\ Heap
  BY <1>1, <1>4 DEF HolderKnows, Shape, NoTwice, Heap, Queued, Pushing
<1>6. Sizes
  <2>1. Cardinality(Addr) \in Nat
    BY FS_CardinalityType
  <2>. QED  BY <1>1, <1>4, <2>1 DEF Sizes, Total, Pushing
<1>. QED  BY <1>2, <1>3, <1>5, <1>6 DEF IInv

\* Taking the mutex.
LEMMA PushLockKeeps ==
    ASSUME IInv, NEW t \in Threads, PushLock(t)
    PROVE  IInv'
<1>. USE ListAssumption DEF IInv, PushLock, fields, heap, locals, Goto, Lock, Return
<1>1. Stage = "idle" /\ Stage' = "push_size"
  BY HolderStage DEF Inside, Stage, TypeOK
<1>2. TypeOK'
  BY DEF TypeOK, Calls, Codes, Labels
<1>3. Exclusive'
  BY <1>1 DEF Exclusive, Inside, TypeOK
<1>4. InCall'
  BY <1>1 DEF InCall, Pushing, TypeOK, Calls
<1>5. HolderKnows'
  BY <1>1 DEF HolderKnows, Pushing, Queued, TypeOK, Inside
<1>6. Shape'
  BY <1>1 DEF Shape, NoTwice
<1>7. Heap'
  BY <1>1 DEF Heap, Queued, Pushing
<1>8. Sizes'
  BY <1>1 DEF Sizes, Total, Pushing
<1>9. Closing'
  BY <1>1 DEF Closing, TypeOK
<1>. QED  BY <1>2, <1>3, <1>4, <1>5, <1>6, <1>7, <1>8, <1>9

\* Taking the mutex.
LEMMA PopLockKeeps ==
    ASSUME IInv, NEW t \in Threads, PopLock(t)
    PROVE  IInv'
<1>. USE ListAssumption DEF IInv, PopLock, fields, heap, locals, Goto, Lock, Return
<1>1. Stage = "idle" /\ Stage' = "pop_take"
  BY HolderStage DEF Inside, Stage, TypeOK
<1>2. TypeOK'
  BY DEF TypeOK, Calls, Codes, Labels
<1>3. Exclusive'
  BY <1>1 DEF Exclusive, Inside, TypeOK
<1>4. InCall'
  BY <1>1 DEF InCall, Pushing, TypeOK, Calls
<1>5. HolderKnows'
  BY <1>1 DEF HolderKnows, Pushing, Queued, TypeOK, Inside
<1>6. Shape'
  BY <1>1 DEF Shape, NoTwice
<1>7. Heap'
  BY <1>1 DEF Heap, Queued, Pushing
<1>8. Sizes'
  BY <1>1 DEF Sizes, Total, Pushing
<1>9. Closing'
  BY <1>1 DEF Closing, TypeOK
<1>. QED  BY <1>2, <1>3, <1>4, <1>5, <1>6, <1>7, <1>8, <1>9

\* pop_front finds no cell.
LEMMA PopNothingKeeps ==
    ASSUME IInv, NEW t \in Threads, PopNothing(t)
    PROVE  IInv'
<1>. USE ListAssumption DEF IInv, PopNothing, fields, heap, locals, Goto, Lock, Return
<1>1. Stage = "pop_take" /\ m_mutex = t /\ Stage' = "idle"
  BY HolderStage DEF Inside, Stage, TypeOK
<1>2. TypeOK'
  BY DEF TypeOK, Calls, Codes, Labels
<1>3. Exclusive'
  BY <1>1 DEF Exclusive, Inside, TypeOK
<1>4. InCall'
  BY <1>1 DEF InCall, Pushing, TypeOK, Calls
<1>5. HolderKnows'
  BY <1>1 DEF HolderKnows, Pushing, Queued, TypeOK, Inside
<1>6. Shape'
  BY <1>1 DEF Shape, NoTwice
<1>7. Heap'
  BY <1>1 DEF Heap, Queued, Pushing
<1>8. Sizes'
  BY <1>1 DEF Sizes, Total, Pushing
<1>9. Closing'
  <2>1. order = <<>>
    BY <1>1, FirstCell DEF Shape, TypeOK
  <2>. QED  BY <1>1, <2>1 DEF Closing, TypeOK
<1>. QED  BY <1>2, <1>3, <1>4, <1>5, <1>6, <1>7, <1>8, <1>9

\* empty().
LEMMA EmptyKeeps ==
    ASSUME IInv, NEW t \in Threads, Empty(t)
    PROVE  IInv'
<1>. USE ListAssumption DEF IInv, Empty, fields, heap, locals, Goto, Lock, Return
<1>1. Stage = "idle" /\ Stage' = "idle"
  BY HolderStage DEF Inside, Stage, TypeOK
<1>2. TypeOK'
  BY DEF TypeOK, Calls, Codes, Labels
<1>3. Exclusive'
  BY <1>1 DEF Exclusive, Inside, TypeOK
<1>4. InCall'
  BY <1>1 DEF InCall, Pushing, TypeOK, Calls
<1>5. HolderKnows'
  BY <1>1 DEF HolderKnows, Pushing, Queued, TypeOK, Inside
<1>6. Shape'
  BY <1>1 DEF Shape, NoTwice
<1>7. Heap'
  BY <1>1 DEF Heap, Queued, Pushing
<1>8. Sizes'
  BY <1>1 DEF Sizes, Total, Pushing
<1>9. Closing'
  BY <1>1 DEF Closing, TypeOK
<1>. QED  BY <1>2, <1>3, <1>4, <1>5, <1>6, <1>7, <1>8, <1>9

\* A call begins.
LEMMA BeginKeeps ==
    ASSUME IInv, NEW t \in Threads, NEW c \in Calls, Begin(t, c)
    PROVE  IInv'
<1>. USE ListAssumption DEF IInv, Begin, fields, heap, locals, Goto, Lock, Return
<1>1. m_mutex # t /\ Stage' = Stage
  BY HolderStage DEF Inside, Stage, TypeOK
<1>2. TypeOK'
  BY DEF TypeOK, Calls, Codes, Labels
<1>3. Exclusive'
  <2>1. c[1] \in {"pop", "push", "empty"}
    BY DEF Calls
  <2>. QED  BY <1>1, <2>1 DEF Exclusive, Inside, TypeOK
<1>4. InCall'
  BY <1>1 DEF InCall, Pushing, TypeOK, Calls
<1>5. HolderKnows'
  BY <1>1 DEF HolderKnows, Pushing, Queued, TypeOK, Inside
<1>6. Shape'
  BY <1>1 DEF Shape, NoTwice
<1>7. Heap'
  BY <1>1 DEF Heap, Queued, Pushing
<1>8. Sizes'
  BY <1>1 DEF Sizes, Total, Pushing
<1>9. Closing'
  BY <1>1 DEF Closing, TypeOK
<1>. QED  BY <1>2, <1>3, <1>4, <1>5, <1>6, <1>7, <1>8, <1>9

\* m_size++: it is full only if no cell is free and no failure is left.
LEMMA PushSizeKeeps ==
    ASSUME IInv, NEW t \in Threads, PushSize(t)
    PROVE  IInv'
<1>. USE ListAssumption DEF IInv, PushSize, fields, heap, locals, Goto, Lock, Return
<1>1. Stage = "push_size" /\ m_mutex = t /\ Stage' = "push_new"
  BY HolderStage DEF Inside, Stage, TypeOK
<1>a. /\ Len(order) + failed \in 0..(SizeModulus - 1) /\ m_size = Len(order) + failed
      /\ SizeModulus \in Nat \ {0}
  BY <1>1, OrderFits DEF Shape, Sizes, Total, Pushing, TypeOK
<1>b. m_size' = IF m_size + 1 = SizeModulus THEN 0 ELSE m_size + 1
  <2>1. m_size + 1 \in 0..SizeModulus
    BY <1>a DEF TypeOK
  <2>2. (m_size + 1) % SizeModulus = IF m_size + 1 = SizeModulus THEN 0 ELSE m_size + 1
    BY <1>a, <2>1, Remainder, Zenon
  <2>. QED  BY <2>2
<1>2. TypeOK'
  <2>1. pc' \in [Threads -> Labels]
    BY DEF TypeOK, Labels
  <2>. HIDE DEF PushSize
  <2>2. m_size' \in 0..(SizeModulus - 1)
    BY <1>a, <1>b
  <2>. QED  BY <2>1, <2>2 DEF TypeOK, PushSize
<1>3. Exclusive'
  BY <1>1 DEF Exclusive, Inside, TypeOK
<1>4. InCall'
  BY <1>1 DEF InCall, Pushing, TypeOK, Calls
<1>5. HolderKnows'
  BY <1>1 DEF HolderKnows, Pushing, Queued, TypeOK, Inside
<1>6. Shape'
  BY <1>1 DEF Shape, NoTwice
<1>7. Heap'
  BY <1>1 DEF Heap, Queued, Pushing
<1>8. Sizes'
  BY <1>1, <1>a, <1>b DEF Sizes, Total, Pushing
<1>9. Closing'
  BY <1>1 DEF Closing, TypeOK
<1>. QED  BY <1>2, <1>3, <1>4, <1>5, <1>6, <1>7, <1>8, <1>9

\* The allocation fails, and m_size stays incremented.
LEMMA PushBadAllocKeeps ==
    ASSUME IInv, NEW t \in Threads, PushBadAlloc(t)
    PROVE  IInv'
<1>. USE ListAssumption DEF IInv, PushBadAlloc, fields, heap, locals, Goto, Lock, Return
<1>1. Stage = "push_new" /\ m_mutex = t /\ Stage' = "idle"
  BY HolderStage DEF Inside, Stage, TypeOK
<1>a. /\ Len(order) + failed + 1 \in 0..(SizeModulus - 1)
      /\ m_size = Len(order) + failed + 1
  BY <1>1, OrderFits DEF Shape, Sizes, Total, Pushing, TypeOK
<1>2. TypeOK'
  BY <1>1 DEF TypeOK, Calls, Codes, Labels
<1>3. Exclusive'
  BY <1>1 DEF Exclusive, Inside, TypeOK
<1>4. InCall'
  BY <1>1 DEF InCall, Pushing, TypeOK, Calls
<1>5. HolderKnows'
  BY <1>1 DEF HolderKnows, Pushing, Queued, TypeOK, Inside
<1>6. Shape'
  BY <1>1 DEF Shape, NoTwice
<1>7. Heap'
  BY <1>1 DEF Heap, Queued, Pushing
<1>8. Sizes'
  BY <1>1, <1>a DEF Sizes, Total, Pushing, TypeOK
<1>9. Closing'
  BY <1>1 DEF Closing, TypeOK
<1>. QED  BY <1>2, <1>3, <1>4, <1>5, <1>6, <1>7, <1>8, <1>9

\* The last cell is linked to the new one.
LEMMA PushLinkKeeps ==
    ASSUME IInv, NEW t \in Threads, PushLink(t)
    PROVE  IInv'
<1>. USE ListAssumption DEF IInv, PushLink, fields, heap, locals, Goto, Lock, Return
<1>1. Stage = "push_link" /\ m_mutex = t /\ Stage' = "push_back"
  BY HolderStage DEF Inside, Stage, TypeOK
<1>a. /\ order # <<>> /\ m_back = order[Len(order)] /\ m_back \in Addr
      /\ Len(order) \in Nat \ {0} /\ Queued(m_back)
      /\ \A i \in 1..(Len(order) - 1) : order[i] # m_back
      /\ cell[t] \in Addr /\ ~Queued(cell[t]) /\ cell[t] # m_back
  BY <1>1, FirstCell DEF Shape, HolderKnows, Queued, NoTwice, TypeOK, Pushing
<1>2. TypeOK'
  BY <1>1, <1>a DEF TypeOK, Labels
<1>3. Exclusive'
  BY <1>1 DEF Exclusive, Inside, TypeOK
<1>4. InCall'
  BY <1>1 DEF InCall, Pushing, TypeOK, Calls
<1>5. HolderKnows'
  BY <1>1, <1>a DEF HolderKnows, Pushing, Queued, TypeOK
<1>6. Shape'
  BY <1>1, <1>a DEF Shape, NoTwice, TypeOK
<1>7. Heap'
  BY <1>1, <1>a DEF Heap, Queued, Pushing, TypeOK
<1>8. Sizes'
  BY <1>1 DEF Sizes, Total, Pushing
<1>9. Closing'
  BY <1>1 DEF Closing, TypeOK
<1>. QED  BY <1>2, <1>3, <1>4, <1>5, <1>6, <1>7, <1>8, <1>9

\* m_back moves to the new cell, which is the last one now.
LEMMA PushBackKeeps ==
    ASSUME IInv, NEW t \in Threads, PushBack(t)
    PROVE  IInv'
<1>. USE ListAssumption DEF IInv, PushBack, fields, heap, locals, Goto, Lock, Return
<1>1. Stage = "push_back" /\ m_mutex = t /\ Stage' = "idle"
  BY HolderStage DEF Inside, Stage, TypeOK
<1>a. /\ cell[t] \in Addr /\ ~Queued(cell[t]) /\ next[cell[t]] = NULL
      /\ order # <<>> /\ order \in Seq(Addr)
      /\ m_back = order[Len(order)] /\ next[m_back] = cell[t]
      /\ m_front = order[1] /\ Len(order) \in Nat \ {0}
      /\ Len(order) + 1 + failed < SizeModulus
  BY <1>1, FirstCell, OrderFits DEF Shape, HolderKnows, TypeOK, Pushing
<1>b. /\ order' \in Seq(Addr) /\ order' # <<>> /\ Len(order') = Len(order) + 1
      /\ \A i \in 1..Len(order) : order'[i] = order[i]
      /\ order'[Len(order) + 1] = cell[t]
      /\ \A b : Queued(b)' <=> Queued(b) \/ b = cell[t]
      /\ NoTwice'
  BY <1>a, AppendCell DEF Shape
<1>2. TypeOK'
  BY <1>1, <1>a, <1>b DEF TypeOK, Labels, Codes
<1>3. Exclusive'
  BY <1>1 DEF Exclusive, Inside, TypeOK
<1>4. InCall'
  BY <1>1 DEF InCall, Pushing, TypeOK, Calls
<1>5. HolderKnows'
  BY <1>1 DEF HolderKnows, Pushing
<1>6. Shape'
  <2>1. ASSUME NEW i \in 1..(Len(order') - 1) PROVE next[order'[i]] = order'[i + 1]
    <3>1. CASE i = Len(order)
      BY <1>a, <1>b, <3>1
    <3>2. CASE i # Len(order)
      BY <1>a, <1>b, <2>1, <3>2 DEF Shape
    <3>. QED  BY <3>1, <3>2
  <2>. QED  BY <1>1, <1>a, <1>b, <2>1 DEF Shape
<1>7. Heap'
  BY <1>1, <1>a, <1>b DEF Heap, Pushing
<1>8. Sizes'
  BY <1>1, <1>a, <1>b DEF Sizes, Total, Pushing, TypeOK
<1>9. Closing'
  BY <1>1 DEF Closing, TypeOK
<1>. QED  BY <1>2, <1>3, <1>4, <1>5, <1>6, <1>7, <1>8, <1>9

\* The new cell is the only one.
LEMMA PushFirstKeeps ==
    ASSUME IInv, NEW t \in Threads, PushFirst(t)
    PROVE  IInv'
<1>. USE ListAssumption DEF IInv, PushFirst, fields, heap, locals, Goto, Lock, Return
<1>1. Stage = "push_link" /\ m_mutex = t /\ Stage' = "idle"
  BY HolderStage DEF Inside, Stage, TypeOK
<1>a. /\ cell[t] \in Addr /\ ~Queued(cell[t]) /\ next[cell[t]] = NULL
      /\ order = <<>> /\ order \in Seq(Addr) /\ Len(order) = 0
      /\ Len(order) + 1 + failed < SizeModulus
  BY <1>1, FirstCell, EmptySeq, OrderFits DEF Shape, HolderKnows, TypeOK, Pushing
<1>b. /\ order' \in Seq(Addr) /\ order' # <<>> /\ Len(order') = 1
      /\ order'[1] = cell[t]
      /\ \A b : Queued(b)' <=> Queued(b) \/ b = cell[t]
      /\ NoTwice'
  BY <1>a, AppendCell DEF Shape
<1>2. TypeOK'
  BY <1>1, <1>a, <1>b DEF TypeOK, Labels, Codes
<1>3. Exclusive'
  BY <1>1 DEF Exclusive, Inside, TypeOK
<1>4. InCall'
  BY <1>1 DEF InCall, Pushing, TypeOK, Calls
<1>5. HolderKnows'
  BY <1>1 DEF HolderKnows, Pushing
<1>6. Shape'
  BY <1>1, <1>a, <1>b DEF Shape
<1>7. Heap'
  BY <1>1, <1>a, <1>b DEF Heap, Pushing
<1>8. Sizes'
  BY <1>1, <1>a, <1>b DEF Sizes, Total, Pushing, TypeOK
<1>9. Closing'
  BY <1>1 DEF Closing, TypeOK
<1>. QED  BY <1>2, <1>3, <1>4, <1>5, <1>6, <1>7, <1>8, <1>9

\* The cell is allocated, apart from those of the list.
LEMMA PushNewKeeps ==
    ASSUME IInv, NEW t \in Threads, PushNew(t)
    PROVE  IInv'
<1>. USE ListAssumption DEF IInv, PushNew, fields, heap, locals, Goto, Lock, Return
<1>1. Stage = "push_new" /\ m_mutex = t /\ Stage' = "push_link"
  BY HolderStage DEF Inside, Stage, TypeOK
<1>a. PICK a \in Addr : /\ next[a] = Freed /\ ~Queued(a)
                        /\ cell' = [cell EXCEPT ![t] = a]
                        /\ next' = [next EXCEPT ![a] = NULL]
                        /\ val' = [val EXCEPT ![a] = call[t][2]]
  BY <1>1 DEF FreeCells, Heap
<1>b. PICK v \in Values : call[t] = <<"push", v>>
  BY <1>1 DEF InCall, Exclusive, Inside
<1>c. /\ \A i \in 1..Len(order) : order[i] \in Addr /\ order[i] # a
      /\ order # <<>> => m_back \in Addr /\ m_back # a
  BY <1>1, <1>a, FirstCell, ElementOfSeq DEF Queued, Shape, TypeOK
<1>2. TypeOK'
  BY <1>a, <1>b DEF TypeOK, Labels
<1>3. Exclusive'
  BY <1>1 DEF Exclusive, Inside, TypeOK
<1>4. InCall'
  BY <1>1 DEF InCall, Pushing, TypeOK, Calls
<1>5. HolderKnows'
  BY <1>1, <1>a, <1>b DEF HolderKnows, Pushing, Queued, TypeOK
<1>6. Shape'
  <2>1. \A i \in 1..(Len(order) - 1) : i \in 1..Len(order) /\ i + 1 \in 1..Len(order)
    BY LenProperties DEF TypeOK
  <2>2. \A b \in Addr : b # a => next'[b] = next[b]
    BY <1>a DEF TypeOK
  <2>. HIDE DEF PushNew
  <2>3. UNCHANGED <<order, m_front, m_back>>
    BY DEF PushNew
  <2>. QED  BY <1>1, <1>c, <2>1, <2>2, <2>3 DEF Shape, NoTwice
<1>7. Heap'
  BY <1>1, <1>a, <1>b DEF Heap, Queued, Pushing, TypeOK
<1>8. Sizes'
  BY <1>1 DEF Sizes, Total, Pushing
<1>9. Closing'
  BY <1>1 DEF Closing, TypeOK
<1>. QED  BY <1>2, <1>3, <1>4, <1>5, <1>6, <1>7, <1>8, <1>9

\* m_size goes down and the first value is read.
LEMMA PopTakeKeeps ==
    ASSUME IInv, NEW t \in Threads, PopTake(t)
    PROVE  IInv'
<1>. USE ListAssumption DEF IInv, PopTake, fields, heap, locals, Goto, Lock, Return
<1>1. Stage = "pop_take" /\ m_mutex = t /\ Stage' = "pop_unlink"
  BY HolderStage DEF Inside, Stage, TypeOK
<1>a. /\ order # <<>> /\ m_front = order[1] /\ m_front \in Addr /\ Queued(m_front)
      /\ Len(order) \in Nat \ {0}
  BY <1>1, FirstCell DEF Shape, Queued, TypeOK
<1>b. /\ Len(order) + failed \in 1..(SizeModulus - 1) /\ m_size = Len(order) + failed
      /\ SizeModulus \in Nat \ {0}
  BY <1>1, <1>a, OrderFits DEF Shape, Sizes, Total, Pushing, TypeOK
<1>c. m_size' = m_size - 1
  <2>1. m_size - 1 \in 0..SizeModulus /\ m_size - 1 # SizeModulus
    BY <1>b
  <2>2. (m_size - 1) % SizeModulus = IF m_size - 1 = SizeModulus THEN 0 ELSE m_size - 1
    BY <1>b, <2>1, Remainder, Zenon
  <2>. QED  BY <2>1, <2>2
<1>d. val[m_front] \in Values
  BY <1>a DEF Heap
<1>2. TypeOK'
  <2>1. pc' \in [Threads -> Labels] /\ out' \in [Threads -> Values \cup {NULL}]
    BY <1>d DEF TypeOK, Labels
  <2>2. UNCHANGED <<m_front, m_back, m_mutex, heap, call, cell, result, alive, order, failed>>
    OBVIOUS
  <2>. HIDE DEF PopTake
  <2>3. m_size' \in 0..(SizeModulus - 1)
    BY <1>b, <1>c
  <2>. QED  BY <2>1, <2>2, <2>3 DEF TypeOK
<1>3. Exclusive'
  BY <1>1 DEF Exclusive, Inside, TypeOK
<1>4. InCall'
  BY <1>1 DEF InCall, Pushing, TypeOK, Calls
<1>5. HolderKnows'
  BY <1>1, <1>a DEF HolderKnows, Pushing, Queued, TypeOK
<1>6. Shape'
  BY <1>1 DEF Shape, NoTwice
<1>7. Heap'
  BY <1>1 DEF Heap, Queued, Pushing
<1>8. Sizes'
  <2>. UNCHANGED <<order, failed>>
    OBVIOUS
  <2>. HIDE DEF PopTake
  <2>. QED  BY <1>1, <1>b, <1>c DEF Sizes, Total, Pushing
<1>9. Closing'
  BY <1>1 DEF Closing, TypeOK
<1>. QED  BY <1>2, <1>3, <1>4, <1>5, <1>6, <1>7, <1>8, <1>9

\* The only cell is deleted and both pointers are cleared.
LEMMA PopLastKeeps ==
    ASSUME IInv, NEW t \in Threads, PopLast(t)
    PROVE  IInv'
<1>. USE ListAssumption DEF IInv, PopLast, fields, heap, locals, Goto, Lock, Return
<1>1. Stage = "pop_unlink" /\ m_mutex = t /\ Stage' = "idle"
  BY HolderStage DEF Inside, Stage, TypeOK
<1>a. /\ order \in Seq(Addr) /\ order # <<>> /\ m_front = order[1] /\ m_front \in Addr
      /\ m_back = order[Len(order)] /\ Len(order) \in Nat \ {0}
      /\ out[t] = val[m_front] /\ Queued(m_front)
  BY <1>1, FirstCell DEF Shape, HolderKnows, Queued, TypeOK
<1>b. Len(order) = 1
  BY <1>a, 1 \in 1..Len(order), Len(order) \in 1..Len(order) DEF Shape, NoTwice
<1>c. /\ order' = <<>> /\ order' \in Seq(Addr) /\ Len(order') = 0
      /\ \A b : ~Queued(b)'
      /\ \A b : Queued(b) => b = m_front
  BY <1>a, <1>b, TailCell, EmptySeq DEF Shape, Queued
<1>d. out[t] \in Values
  BY <1>a DEF Heap
<1>2. TypeOK'
  BY <1>1, <1>a, <1>c, <1>d DEF TypeOK, Labels, Delete
<1>3. Exclusive'
  BY <1>1 DEF Exclusive, Inside, TypeOK
<1>4. InCall'
  BY <1>1 DEF InCall, Pushing, TypeOK, Calls
<1>5. HolderKnows'
  BY <1>1 DEF HolderKnows, Pushing
<1>6. Shape'
  <2>1. m_front' = NULL /\ m_back' = NULL
    OBVIOUS
  <2>. HIDE DEF PopLast
  <2>2. \A i \in 1..(Len(order') - 1) : FALSE
    BY <1>c
  <2>3. NoTwice'
    BY <1>c DEF NoTwice
  <2>. QED  BY <1>c, <2>1, <2>2, <2>3 DEF Shape
<1>7. Heap'
  BY <1>1, <1>a, <1>c DEF Heap, Pushing, Delete, TypeOK
<1>8. Sizes'
  <2>1. m_size = Len(order) + failed - 1
    BY <1>1, <1>a, OrderFits DEF Sizes, Total, Pushing, Shape, TypeOK
  <2>2. m_size' = m_size /\ failed' = failed /\ m_size \in 0..(SizeModulus - 1) /\ failed \in Nat
    BY DEF TypeOK
  <2>. HIDE DEF PopLast
  <2>. QED  BY <1>1, <1>b, <1>c, <2>1, <2>2 DEF Sizes, Total, Pushing
<1>9. Closing'
  BY <1>1, <1>a, <1>d DEF Closing, TypeOK
<1>. QED  BY <1>2, <1>3, <1>4, <1>5, <1>6, <1>7, <1>8, <1>9

\* The second cell becomes the first; the old one is still allocated.
LEMMA PopUnlinkKeeps ==
    ASSUME IInv, NEW t \in Threads, PopUnlink(t)
    PROVE  IInv'
<1>. USE ListAssumption DEF IInv, PopUnlink, fields, heap, locals, Goto, Lock, Return
<1>1. Stage = "pop_unlink" /\ m_mutex = t /\ Stage' = "pop_delete"
  BY HolderStage DEF Inside, Stage, TypeOK
<1>a. /\ order \in Seq(Addr) /\ order # <<>> /\ m_front = order[1] /\ m_front \in Addr
      /\ m_back = order[Len(order)] /\ Len(order) \in Nat \ {0}
  BY <1>1, FirstCell DEF Shape, TypeOK
<1>b. Len(order) > 1
  BY <1>a
<1>c. m_front' = order[2] /\ order[2] \in Addr
  BY <1>a, <1>b, 1 \in 1..(Len(order) - 1), 2 \in 1..Len(order), ElementOfSeq DEF Shape
<1>2. TypeOK'
  BY <1>a, <1>c DEF TypeOK, Labels
<1>3. Exclusive'
  BY <1>1 DEF Exclusive, Inside, TypeOK
<1>4. InCall'
  BY <1>1 DEF InCall, Pushing, TypeOK, Calls
<1>5. HolderKnows'
  BY <1>1, <1>a, <1>b DEF HolderKnows, Pushing, TypeOK
<1>6. Shape'
  BY <1>1, <1>c DEF Shape, NoTwice
<1>7. Heap'
  BY <1>1 DEF Heap, Queued, Pushing
<1>8. Sizes'
  BY <1>1 DEF Sizes, Total, Pushing
<1>9. Closing'
  BY <1>1 DEF Closing, TypeOK
<1>. QED  BY <1>2, <1>3, <1>4, <1>5, <1>6, <1>7, <1>8, <1>9

\* The unlinked cell is deleted.
LEMMA PopDeleteKeeps ==
    ASSUME IInv, NEW t \in Threads, PopDelete(t)
    PROVE  IInv'
<1>. USE ListAssumption DEF IInv, PopDelete, fields, heap, locals, Goto, Lock, Return
<1>1. Stage = "pop_delete" /\ m_mutex = t /\ Stage' = "idle"
  BY HolderStage DEF Inside, Stage, TypeOK
<1>a. /\ order \in Seq(Addr) /\ order # <<>> /\ cell[t] = order[1] /\ order[1] \in Addr
      /\ m_front = order[2] /\ m_back = order[Len(order)] /\ next[m_back] = NULL
      /\ Len(order) \in Nat \ {0} /\ Len(order) > 1
      /\ out[t] = val[order[1]] /\ Queued(order[1])
  BY <1>1, FirstCell DEF Shape, HolderKnows, Queued, TypeOK
<1>b. /\ order' \in Seq(Addr) /\ order' # <<>> /\ Len(order') = Len(order) - 1
      /\ \A i \in 1..Len(order') : order'[i] = order[i + 1]
      /\ \A b : Queued(b)' <=> Queued(b) /\ b # order[1]
      /\ NoTwice'
  BY <1>a, TailCell DEF Shape
<1>c. \A b \in Addr : b # order[1] => next'[b] = next[b] /\ val'[b] = val[b]
  BY <1>a DEF Delete, TypeOK
<1>d. out[t] \in Values
  BY <1>a DEF Heap
<1>2. TypeOK'
  BY <1>1, <1>a, <1>b, <1>d DEF TypeOK, Labels, Delete
<1>3. Exclusive'
  BY <1>1 DEF Exclusive, Inside, TypeOK
<1>4. InCall'
  BY <1>1 DEF InCall, Pushing, TypeOK, Calls
<1>5. HolderKnows'
  BY <1>1 DEF HolderKnows, Pushing
<1>6. Shape'
  <2>1. \A i \in 1..Len(order') : order'[i] \in Addr /\ order'[i] # order[1]
    <3>. SUFFICES ASSUME NEW i \in 1..Len(order')
                  PROVE  order'[i] \in Addr /\ order'[i] # order[1]
      OBVIOUS
    <3>1. PICK b \in Addr : b = order'[i]
      BY <1>b, ElementOfSeq
    <3>2. Queued(b)'
      BY <3>1 DEF Queued
    <3>. QED  BY <1>b, <3>1, <3>2
  <2>2. ASSUME NEW i \in 1..(Len(order') - 1) PROVE next'[order'[i]] = order'[i + 1]
    <3>1. /\ i \in 1..Len(order') /\ i + 1 \in 1..Len(order')
          /\ i + 1 \in 1..(Len(order) - 1)
      BY <1>a, <1>b
    <3>2. order'[i] = order[i + 1] /\ order'[i + 1] = order[(i + 1) + 1]
      BY <1>b, <3>1
    <3>3. next[order[i + 1]] = order[(i + 1) + 1]
      BY <3>1 DEF Shape
    <3>. QED  BY <1>c, <2>1, <3>1, <3>2, <3>3
  <2>3. /\ Len(order') \in 1..Len(order') /\ 1 \in 1..Len(order')
        /\ order'[1] = order[2] /\ order'[Len(order')] = order[Len(order)]
    BY <1>a, <1>b
  <2>4. next'[m_back] = NULL
    BY <1>a, <1>c, <2>1, <2>3
  <2>. QED  BY <1>1, <1>a, <1>b, <2>2, <2>3, <2>4 DEF Shape
<1>7. Heap'
  BY <1>1, <1>a, <1>b, <1>c DEF Heap, Pushing, Delete, TypeOK
<1>8. Sizes'
  <2>1. m_size = Len(order) + failed - 1 /\ Len(order) + failed < SizeModulus
    BY <1>1, <1>a, OrderFits DEF Sizes, Total, Pushing, Shape, TypeOK
  <2>. QED  BY <1>1, <1>a, <1>b, <2>1 DEF Sizes, Total, Pushing, TypeOK
<1>9. Closing'
  BY <1>1, <1>a, <1>d DEF Closing, TypeOK
<1>. QED  BY <1>2, <1>3, <1>4, <1>5, <1>6, <1>7, <1>8, <1>9

\* The destructor starts.
LEMMA DestroyKeeps ==
    ASSUME IInv, Destroy
    PROVE  IInv'
<1>. USE ListAssumption DEF IInv, Destroy, fields, heap
<1>1. Stage' = Stage
  BY DEF Stage
<1>2. TypeOK'
  BY DEF TypeOK, Codes
<1>3. Exclusive' /\ InCall'
  BY DEF Exclusive, InCall
<1>4. HolderKnows' /\ Shape' /\ Heap' /\ Sizes'
  BY <1>1 DEF HolderKnows, Shape, NoTwice, Heap, Queued, Sizes, Total
<1>5. Closing'
  BY DEF Closing, TypeOK
<1>. QED  BY <1>2, <1>3, <1>4, <1>5

\* The invariant is inductive.
LEMMA NextIInv == IInv /\ [Next]_vars => IInv'
<1>. SUFFICES ASSUME IInv, [Next]_vars PROVE IInv'
  OBVIOUS
<1>1. CASE UNCHANGED vars
  BY <1>1 DEF IInv, vars, fields, heap, locals, TypeOK, Exclusive, InCall, HolderKnows, Shape,
     NoTwice, Heap, Queued, Sizes, Total, Stage, Closing
<1>2. ASSUME NEW t \in Threads, Step(t) PROVE IInv'
  BY <1>2, BeginKeeps, PushLockKeeps, PushSizeKeeps, PushNewKeeps, PushBadAllocKeeps,
     PushFirstKeeps, PushLinkKeeps, PushBackKeeps, PopLockKeeps, PopNothingKeeps,
     PopTakeKeeps, PopLastKeeps, PopUnlinkKeeps, PopDeleteKeeps, EmptyKeeps DEF Step
<1>3. CASE Destroy
  BY <1>3, DestroyKeeps
<1>. QED  BY <1>1, <1>2, <1>3 DEF Next

\* The inductive invariant holds in every reachable state of the list, for any threads,
\* values and addresses: the mutex excludes, and at each statement under it the list is
\* as far from well formed as its holder knows.
THEOREM Invariance == Spec => []IInv
  BY InitIInv, NextIInv, PTL DEF Spec

\* The variables of the list keep their types: no pointer is ever read from a deleted
\* cell, and m_size stays in its range.
THEOREM TypeCorrect == Spec => []TypeOK
  BY Invariance, PTL DEF IInv

\* Whenever the mutex of blocking::list is free, m_front and m_back are the ends of a
\* chain of distinct cells whose last m_next is nullptr, or both null.
THEOREM ListIsLinked == Spec => []Linked
<1>1. IInv => Linked
  BY HolderStage DEF IInv, Linked, Shape, NoTwice
<1>. QED  BY <1>1, Invariance, PTL

\* Whenever the mutex is free the allocated cells are those of the list, and when the
\* destructor's loop has ended none is left.
THEOREM NothingLeaks == Spec => []NoLeak
<1>1. ASSUME IInv, m_mutex = NULL, NEW a \in Addr
      PROVE  next[a] # Freed <=> \E i \in 1..Len(order) : order[i] = a
  BY <1>1, HolderStage DEF IInv, Heap, Queued, Pushing
<1>2. ASSUME IInv, ~alive, result[Owner] = "false" PROVE FreeCells = Addr
  <2>1. m_mutex = NULL /\ Len(order) = 0
    BY <1>2, HolderStage, EmptySeq, ListAssumption DEF IInv, Closing, Exclusive, Inside, TypeOK
  <2>. QED  BY <1>1, <1>2, <2>1 DEF FreeCells
<1>3. IInv => NoLeak
  BY <1>1, <1>2 DEF NoLeak
<1>. QED  BY <1>3, Invariance, PTL

\* Whenever the mutex is free m_size is the number of cells plus the number of failed
\* allocations.
THEOREM SizeIsRight == Spec => []SizeAccounts
<1>1. IInv => SizeAccounts
  <2>. SUFFICES ASSUME IInv, m_mutex = NULL PROVE m_size = Len(order) + failed
    BY DEF SizeAccounts
  <2>1. Stage = "idle"
    BY HolderStage DEF IInv
  <2>. QED  BY <2>1, OrderFits, ListAssumption DEF IInv, Shape, Sizes, Total, Pushing, TypeOK
<1>. QED  BY <1>1, Invariance, PTL

-----------------------------------------------------------------------------
(* Every step is one of FifoQueue, or leaves what it shows alone. *)

\* What the refinement mapping shows of the list.
Shows ==
    /\ Contents \in Seq(Values) /\ Len(Contents) = Len(order) /\ Len(order) \in Nat
    /\ \A i \in 1..Len(order) : Contents[i] = val[order[i]] /\ order[i] \in Addr
    /\ Contents = <<>> <=> order = <<>>

LEMMA ContentsSeq == IInv => Shows
<1>. SUFFICES ASSUME IInv PROVE Shows
  OBVIOUS
<1>1. Len(order) \in Nat
  BY LenProperties DEF IInv, TypeOK
<1>2. ASSUME NEW i \in 1..Len(order) PROVE order[i] \in Addr /\ val[order[i]] \in Values
  BY ElementOfSeq DEF IInv, TypeOK, Heap, Queued
<1>3. Contents \in Seq(Values) /\ Len(Contents) = Len(order)
  BY <1>1, <1>2 DEF Contents
<1>4. Contents = <<>> <=> order = <<>>
  BY <1>1, <1>3, EmptySeq DEF IInv, TypeOK
<1>. QED  BY <1>1, <1>2, <1>3, <1>4 DEF Contents, Shows

LEMMA ContentsSeqPrimed == IInv' => Shows'
  BY ContentsSeq, PTL

\* The contents do not change while the list and the values of its cells do not.
LEMMA ContentsStay ==
    ASSUME order' = order, \A i \in 1..Len(order) : val'[order[i]] = val[order[i]]
    PROVE  Contents' = Contents
  BY DEF Contents

\* Linking a cell appends its value.
LEMMA ContentsPush ==
    ASSUME IInv, IInv', NEW a \in Addr, order' = Append(order, a), UNCHANGED val
    PROVE  Contents' = Append(Contents, val[a])
<1>1. Shows /\ Shows' /\ order \in Seq(Addr)
  BY ContentsSeq, ContentsSeqPrimed DEF IInv, TypeOK
<1>2. /\ Len(order') = Len(order) + 1 /\ order'[Len(order) + 1] = a
      /\ \A i \in 1..Len(order) : order'[i] = order[i]
      /\ Len(order) + 1 \in 1..Len(order')
      /\ \A i \in 1..Len(order') : i \in 1..Len(order) \/ i = Len(order) + 1
  BY <1>1, AppendCell DEF Shows
<1>3. val[a] \in Values
  <2>1. Contents' \in Seq(Values) /\ Contents'[Len(order) + 1] = val[a]
        /\ Len(order) + 1 \in 1..Len(Contents')
    BY <1>1, <1>2 DEF Shows
  <2>. QED  BY <2>1, ElementOfSeq
<1>4. /\ Append(Contents, val[a]) \in Seq(Values)
      /\ Len(Append(Contents, val[a])) = Len(order) + 1
      /\ \A i \in 1..Len(order) : Append(Contents, val[a])[i] = Contents[i]
      /\ Append(Contents, val[a])[Len(order) + 1] = val[a]
  BY <1>1, <1>3, AppendProperties DEF Shows
<1>. DEFINE s == Contents'
            r == Append(Contents, val[a])
<1>5. s \in Seq(Values) /\ r \in Seq(Values) /\ Len(s) = Len(r)
  BY <1>1, <1>2, <1>4 DEF Shows
<1>6. \A i \in 1..Len(s) : s[i] = r[i]
  BY <1>1, <1>2, <1>4 DEF Shows
<1>. HIDE DEF s, r
<1>7. s = r
  BY <1>5, <1>6, SeqEqual
<1>. QED  BY <1>7 DEF s, r

\* Deleting the first cell takes the oldest value away.
LEMMA ContentsPop ==
    ASSUME IInv, IInv', order # <<>>, order' = Tail(order),
           \A b \in Addr : b # order[1] => val'[b] = val[b]
    PROVE  /\ Contents # <<>> /\ Contents' = Tail(Contents)
           /\ Head(Contents) = val[order[1]]
<1>1. Shows /\ Shows' /\ order \in Seq(Addr) /\ NoTwice
  BY ContentsSeq, ContentsSeqPrimed DEF IInv, TypeOK, Shape
<1>2. /\ Len(order) \in Nat \ {0} /\ Len(order') = Len(order) - 1
      /\ \A i \in 1..Len(order') : order'[i] = order[i + 1]
  BY <1>1, TailCell
<1>3. \A i \in 1..Len(order') :
          /\ i + 1 \in 1..Len(order) /\ order[i + 1] \in Addr
          /\ order[i + 1] # order[1]
  <2>1. \A i \in 1..Len(order') : i + 1 \in 1..Len(order) /\ i + 1 # 1 /\ 1 \in 1..Len(order)
    BY <1>2
  <2>. QED  BY <1>1, <2>1 DEF NoTwice, Shows
<1>4. /\ Contents # <<>> /\ Tail(Contents) \in Seq(Values)
      /\ Len(Tail(Contents)) = Len(order) - 1
      /\ \A i \in 1..Len(order') : Tail(Contents)[i] = Contents[i + 1]
      /\ Head(Contents) = Contents[1] /\ Contents[1] = val[order[1]]
  BY <1>1, <1>2, HeadTailProperties DEF Shows
<1>. DEFINE s == Contents'
            r == Tail(Contents)
<1>5. s \in Seq(Values) /\ r \in Seq(Values) /\ Len(s) = Len(r)
  BY <1>1, <1>2, <1>4 DEF Shows
<1>6. \A i \in 1..Len(s) : s[i] = r[i]
  BY <1>1, <1>2, <1>3, <1>4 DEF Shows
<1>. HIDE DEF s, r
<1>7. s = r
  BY <1>5, <1>6, SeqEqual
<1>. QED  BY <1>4, <1>7 DEF s, r

\* The initial list shows the initial queue.
LEMMA InitImplements == Init => Fifo!Init
<1>1. Init => Contents = <<>>
  BY InitIInv, ContentsSeq DEF Init, Shows
<1>. QED  BY <1>1, ListAssumption DEF Init, Fifo!Init

\* The steps inside a method show nothing.
LEMMA InnerSteps ==
    ASSUME IInv, NEW t \in Threads,
           \/ PushLock(t) \/ PushSize(t) \/ PushNew(t) \/ PushLink(t)
           \/ PopLock(t) \/ PopTake(t) \/ PopUnlink(t)
    PROVE  UNCHANGED Fifo!vars
<1>1. UNCHANGED <<order, call, result, failed, alive>>
  BY DEF PushLock, PushSize, PushNew, PushLink, PopLock, PopTake, PopUnlink, fields, locals
<1>2. ASSUME NEW i \in 1..Len(order) PROVE val'[order[i]] = val[order[i]]
  <2>1. CASE PushNew(t)
    <3>1. order[i] \in Addr /\ next[order[i]] # Freed
      BY ElementOfSeq DEF IInv, TypeOK, Heap, Queued
    <3>. QED  BY <2>1, <3>1 DEF PushNew, FreeCells, IInv, TypeOK
  <2>2. CASE ~PushNew(t)
    BY <2>2 DEF PushLock, PushSize, PushLink, PopLock, PopTake, PopUnlink, heap
  <2>. QED  BY <2>1, <2>2
<1>3. Contents' = Contents
  BY <1>1, <1>2, ContentsStay
<1>. QED  BY <1>1, <1>3 DEF Fifo!vars

\* The steps that end a push_back.
LEMMA PushImplements ==
    ASSUME IInv, IInv', NEW t \in Threads, PushFirst(t) \/ PushBack(t) \/ PushBadAlloc(t)
    PROVE  \E v \in Values : Fifo!Push(t, v) \/ Fifo!PushFail(t, v)
<1>1. CASE PushFirst(t) \/ PushBack(t)
  <2>1. /\ cell[t] \in Addr /\ call[t] = <<"push", val[cell[t]]>> /\ val[cell[t]] \in Values
    BY <1>1, HolderStage DEF PushFirst, PushBack, IInv, HolderKnows, Heap, Pushing, Inside
  <2>2. Contents' = Append(Contents, val[cell[t]])
    BY <1>1, <2>1, ContentsPush DEF PushFirst, PushBack, heap
  <2>. QED  BY <1>1, <2>1, <2>2 DEF PushFirst, PushBack, Return, Fifo!Push, Fifo!Return
<1>2. CASE PushBadAlloc(t)
  <2>1. PICK v \in Values : call[t] = <<"push", v>>
    BY <1>2 DEF PushBadAlloc, IInv, InCall
  <2>2. Contents' = Contents
    BY <1>2, ContentsStay DEF PushBadAlloc, heap
  <2>3. (failed' > 0) = TRUE
    BY <1>2 DEF PushBadAlloc, IInv, TypeOK
  <2>. QED  BY <1>2, <2>1, <2>2, <2>3 DEF PushBadAlloc, Return, Fifo!PushFail, Fifo!Return
<1>. QED  BY <1>1, <1>2

\* The steps that end a pop_front.
LEMMA PopImplements ==
    ASSUME IInv, IInv', NEW t \in Threads, PopNothing(t) \/ PopLast(t) \/ PopDelete(t)
    PROVE  Fifo!Pop(t) \/ Fifo!PopNothing(t)
<1>1. call[t] = <<"pop">> /\ m_mutex = t /\ Stage = pc[t]
  BY HolderStage DEF PopNothing, PopLast, PopDelete, IInv, InCall, Inside
<1>2. CASE PopNothing(t)
  <2>1. order = <<>>
    BY <1>1, <1>2, FirstCell, ListAssumption DEF PopNothing, IInv, Shape, TypeOK
  <2>2. Contents = <<>> /\ Contents' = Contents
    BY <1>2, <2>1, ContentsSeq, ContentsStay DEF PopNothing, Shows, heap
  <2>. QED  BY <1>1, <1>2, <2>2 DEF PopNothing, Return, Fifo!PopNothing, Fifo!Return
<1>3. CASE PopLast(t) \/ PopDelete(t)
  <2>1. order # <<>> /\ out[t] = val[order[1]] /\ order[1] \in Addr
    BY <1>1, <1>3, FirstCell DEF PopLast, PopDelete, IInv, HolderKnows, TypeOK
  <2>2. m_front = order[1] \/ cell[t] = order[1]
    BY <1>1, <1>3, <2>1 DEF PopLast, PopDelete, IInv, HolderKnows, Shape
  <2>3. order' = Tail(order) /\ \A b \in Addr : b # order[1] => val'[b] = val[b]
    BY <1>1, <1>3, <2>1 DEF PopLast, PopDelete, Delete, IInv, HolderKnows, Shape, TypeOK
  <2>4. /\ Contents # <<>> /\ Contents' = Tail(Contents)
        /\ Head(Contents) = val[order[1]]
    BY <2>1, <2>3, ContentsPop
  <2>. QED  BY <1>1, <1>3, <2>1, <2>4 DEF PopLast, PopDelete, Return, Fifo!Pop, Fifo!Return
<1>. QED  BY <1>2, <1>3

\* empty() answers from m_size, which a failed push_back has left too large.
LEMMA EmptyImplements ==
    ASSUME IInv, NEW t \in Threads, Empty(t)
    PROVE  \E r \in {"empty", "nonempty"} : Fifo!Empty(t, r)
<1>1. m_size = Len(order) + failed /\ Len(order) \in Nat /\ failed \in Nat
  <2>1. Stage = "idle"
    BY HolderStage DEF IInv, Empty
  <2>. QED  BY <2>1, OrderFits, ListAssumption DEF IInv, Shape, Sizes, Total, Pushing, TypeOK
<1>2. Contents = <<>> <=> Len(order) = 0
  BY ContentsSeq, EmptySeq DEF Shows, IInv, TypeOK
<1>3. Contents' = Contents
  BY ContentsStay DEF Empty, heap
<1>4. call[t] = <<"empty">>
  BY DEF IInv, InCall, Empty
<1>5. CASE m_size > 0
  BY <1>1, <1>2, <1>3, <1>4, <1>5 DEF Empty, Return, Fifo!Empty, Fifo!Return
<1>6. CASE ~(m_size > 0)
  BY <1>1, <1>2, <1>3, <1>4, <1>6 DEF Empty, Return, Fifo!Empty, Fifo!Return
<1>. QED  BY <1>5, <1>6

\* Every step of the list is a step of the queue or leaves it alone.
LEMMA StepImplements == IInv /\ IInv' /\ [Next]_vars => [Fifo!Next]_(Fifo!vars)
<1>. SUFFICES ASSUME IInv, IInv', [Next]_vars PROVE [Fifo!Next]_(Fifo!vars)
  OBVIOUS
<1>1. CASE UNCHANGED vars
  <2>1. Contents' = Contents
    BY <1>1 DEF vars, heap, Contents
  <2>. QED  BY <1>1, <2>1 DEF vars, locals, Fifo!vars
<1>2. ASSUME NEW t \in Threads, Step(t) PROVE [Fifo!Next]_(Fifo!vars)
  <2>1. CASE \E c \in Calls : Begin(t, c)
    <3>1. PICK c \in Calls : Begin(t, c)
      BY <2>1
    <3>2. Contents' = Contents /\ call[t] = <<"idle">> /\ c \in Fifo!Calls
      BY <3>1, ContentsStay DEF Begin, heap, IInv, InCall, Calls, Fifo!Calls
    <3>3. Fifo!Begin(t, c)
      BY <3>1, <3>2 DEF Begin, Fifo!Begin
    <3>. QED  BY <3>2, <3>3 DEF Fifo!Next
  <2>2. CASE PushFirst(t) \/ PushBack(t) \/ PushBadAlloc(t)
    BY <2>2, PushImplements DEF Fifo!Next
  <2>3. CASE PopNothing(t) \/ PopLast(t) \/ PopDelete(t)
    BY <2>3, PopImplements DEF Fifo!Next
  <2>4. CASE Empty(t)
    BY <2>4, EmptyImplements DEF Fifo!Next
  <2>5. CASE \/ PushLock(t) \/ PushSize(t) \/ PushNew(t) \/ PushLink(t)
             \/ PopLock(t) \/ PopTake(t) \/ PopUnlink(t)
    BY <2>5, InnerSteps
  <2>. QED  BY <1>2, <2>1, <2>2, <2>3, <2>4, <2>5 DEF Step
<1>3. CASE Destroy
  <2>1. Contents' = Contents
    BY <1>3, ContentsStay DEF Destroy, heap
  <2>2. \A t \in Threads : call[t] = <<"idle">>
    BY <1>3 DEF Destroy, IInv, InCall
  <2>. QED  BY <1>3, <2>1, <2>2 DEF Destroy, Fifo!Next, Fifo!Destroy
<1>. QED  BY <1>1, <1>2, <1>3 DEF Next

\* blocking::list implements the atomic first-in first-out queue, for any threads,
\* values and addresses: each call takes effect at one instant, in order.
THEOREM ListIsFifo == Spec => ImplementsFifo
  BY InitImplements, StepImplements, Invariance, PTL DEF Spec, ImplementsFifo, Fifo!Spec
=============================================================================
