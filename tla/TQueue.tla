------------------------------- MODULE TQueue -------------------------------
(***************************************************************************)
(* utils/tqueue/tqueue.c: a doubly linked list through the BUCKETs that    *)
(* stand before the elements, and a free list through the same fields.     *)
(* Elements are allocated in chunks of chunk_group and never given back.   *)
(* Callers hold the mutex of the queue; the free list has its own.         *)
(*                                                                         *)
(* BUCKETs are numbered in the order of their memory; 0 is the one in the  *)
(* queue itself (qctrl).                                                   *)
(***************************************************************************)
EXTENDS Integers, Sequences

CONSTANTS
  chunk_group,   \* elements in a chunk
  MaxChunks,     \* bound: chunks malloc gives
  elemkey        \* what each element is searched by

qctrl == 0
NULL_ELEM == -1
BUCKETs == 1..(chunk_group * MaxChunks)
SearchKeys == {elemkey[b] : b \in BUCKETs}

\* Q_create wants two elements or more in a chunk.
ASSUME QueueAssumption == chunk_group \in Nat /\ chunk_group >= 2 /\ MaxChunks \in Nat \ {0}

VARIABLES
  next, prev,      \* the fields of all BUCKETs
  count,
  allocate,        \* the first BUCKET of the free list
  chunks,          \* chunks allocated so far
  users            \* the elements that callers have outside the queue

tqueue == <<next, prev, count, allocate, chunks, users>>

\* Q_init, with the first touch that makes a chunk: its second BUCKET ends up
\* behind the first in the free list.
ChunkPrev(p, base) ==
  [b \in DOMAIN p |-> IF b \in (base + 2)..(base + chunk_group)
                      THEN (IF b = base + chunk_group THEN NULL_ELEM ELSE b + 1) ELSE p[b]]

QInit ==
  /\ next = [b \in BUCKETs \cup {qctrl} |-> IF b = qctrl THEN qctrl ELSE NULL_ELEM]
  /\ prev = [ChunkPrev([b \in BUCKETs \cup {qctrl} |-> IF b = qctrl THEN qctrl ELSE NULL_ELEM], 0)
             EXCEPT ![1] = 2]
  /\ count = 0 /\ allocate = 1 /\ chunks = 1
  /\ users = {}

----------------------------------------------------------------------------

ChunkAllocate(base) == base + 2

\* An empty free list gets the rest of a new chunk.
Q_newElem ==
  LET base == chunks * chunk_group
      e == IF allocate = NULL_ELEM THEN base + 1 ELSE allocate
  IN
  /\ allocate = NULL_ELEM => chunks < MaxChunks
  /\ IF allocate = NULL_ELEM
     THEN /\ prev' = ChunkPrev(prev, base)
          /\ allocate' = ChunkAllocate(base)
          /\ chunks' = chunks + 1
     ELSE /\ allocate' = prev[allocate]
          /\ UNCHANGED <<prev, chunks>>
  /\ next' = [next EXCEPT ![e] = NULL_ELEM]
  /\ users' = users \cup {e}
  /\ UNCHANGED count

Q_freeElem(e) ==
  /\ e \in users
  /\ prev' = [prev EXCEPT ![e] = allocate]
  /\ allocate' = e
  /\ users' = users \ {e}
  /\ UNCHANGED <<next, count, chunks>>

\* Faulty: the element goes to the other end.
enQFront(e) ==
  /\ e \in users
  /\ next' = [next EXCEPT ![e] = next[qctrl], ![qctrl] = e]
  /\ prev' = [prev EXCEPT ![e] = qctrl, ![next[qctrl]] = e]
  /\ count' = count + 1
  /\ users' = users \ {e}
  /\ UNCHANGED <<allocate, chunks>>

enQ(e) ==
  /\ e \in users
  /\ next' = [next EXCEPT ![e] = qctrl, ![prev[qctrl]] = e]
  /\ prev' = [prev EXCEPT ![e] = prev[qctrl], ![qctrl] = e]
  /\ count' = count + 1
  /\ users' = users \ {e}
  /\ UNCHANGED <<allocate, chunks>>

\* Faulty: the successor keeps pointing at the element that left.
Q_delElemHalf(e) ==
  /\ next' = [next EXCEPT ![prev[e]] = next[e]]
  /\ count' = count - 1
  /\ users' = users \cup {e}
  /\ UNCHANGED <<prev, allocate, chunks>>

Q_delElem(e) ==
  /\ next' = [next EXCEPT ![prev[e]] = next[e]]
  /\ prev' = [prev EXCEPT ![next[e]] = prev[e]]
  /\ count' = count - 1
  /\ users' = users \cup {e}
  /\ UNCHANGED <<allocate, chunks>>

deQ == next[qctrl] # qctrl /\ Q_delElem(next[qctrl])

\* The elements that following the links f goes through, from the first one to the end.
Linked(f, first, end, s) ==
  /\ first = IF s = <<>> THEN end ELSE s[1]
  /\ \A i \in 1..Len(s) : f[s[i]] = IF i = Len(s) THEN end ELSE s[i + 1]
ElemLists ==
  UNION {{s \in [1..n -> BUCKETs] : \A i, j \in 1..n : s[i] = s[j] => i = j} :
           n \in 0..(chunk_group * MaxChunks)}
Walk(f, first, end) == CHOOSE s \in ElemLists : Linked(f, first, end, s)

InQueue == Walk(next, next[qctrl], qctrl)

\* Where the elements are that cmp accepts.
Hits(k) == {n \in 1..Len(InQueue) : elemkey[InQueue[n]] = k}
\* The first of them.
Q_probe(k) ==
  IF Hits(k) = {} THEN NULL_ELEM
  ELSE InQueue[CHOOSE n \in Hits(k) : \A m \in Hits(k) : n <= m]

Q_find(k) == Q_probe(k) # NULL_ELEM /\ Q_delElem(Q_probe(k))

\* Users remove an element they have found in the queue.
Q_removeElem(k) ==
  \E n \in 1..Len(InQueue) : elemkey[InQueue[n]] = k /\ Q_delElem(InQueue[n])

Q_isEmpty == count = 0
Q_first == IF next[qctrl] = qctrl THEN NULL_ELEM ELSE next[qctrl]
Q_last == IF prev[qctrl] = qctrl THEN NULL_ELEM ELSE prev[qctrl]

QNext ==
  \/ Q_newElem
  \/ \E k \in SearchKeys : Q_find(k) \/ Q_removeElem(k)
  \/ \E e \in BUCKETs : Q_freeElem(e) \/ enQ(e)
  \/ deQ

QSpec == QInit /\ [][QNext]_tqueue

----------------------------------------------------------------------------
InPool == Walk(prev, allocate, NULL_ELEM)
Pool == {InPool[n] : n \in 1..Len(InPool)}

\* The two chains of the queue are mirror images, and the counter, which Q_isEmpty and the
\* callers go by, is their length; the ends agree with Q_first and Q_last.
ChainsAgree ==
  /\ count = Len(InQueue)
  /\ Walk(prev, prev[qctrl], qctrl) = [n \in 1..count |-> InQueue[count + 1 - n]]
  /\ Q_isEmpty <=> Q_first = NULL_ELEM
  /\ Q_last = IF count = 0 THEN NULL_ELEM ELSE InQueue[count]

\* Every element of the chunks is in one place: the queue, the pool, or with a user;
\* both lists go through the same fields, and no element is ever lost.
EachInOnePlace ==
  LET queued == {InQueue[n] : n \in 1..Len(InQueue)} IN
  /\ queued \cup Pool \cup users = 1..(chunks * chunk_group)
  /\ queued \cap Pool = {} /\ queued \cap users = {} /\ Pool \cap users = {}

\* The links of the intrusive queue agree in both directions, and an element is in the
\* queue, in the pool or with a user (tqueue.c: enQ, Q_delElem, Q_newElem, Q_freeElem).
QueueSound == ChainsAgree /\ EachInOnePlace

Abstract == INSTANCE AbstractQueue WITH
  Elems <- BUCKETs, key <- elemkey, seq <- InQueue, held <- users

\* Each operation is the one its users call it for: deQ takes the element that has waited
\* longest, Q_find the first one that matches, and a new element is nobody else's.
Matches ==
  /\ Q_newElem => \E e \in BUCKETs : Abstract!New(e)
  /\ \A e \in BUCKETs : (Q_freeElem(e) => Abstract!Free(e)) /\ (enQ(e) => Abstract!Enqueue(e))
  /\ deQ => Abstract!Dequeue
  /\ \A k \in SearchKeys : Q_find(k) => Abstract!Find(k)
  /\ \A k \in SearchKeys : Q_removeElem(k) => \E e \in BUCKETs : elemkey[e] = k /\ Abstract!Remove(e)

\* The linked lists implement the queue their users see, operation by operation: since the
\* abstract queue lets users remove any element, a deQ from the wrong end would still be one
\* of its steps (tqueue.c: enQ, deQ, Q_find).
QRefines == Abstract!ASpec /\ [][Matches]_tqueue
=============================================================================
