--------------------------- MODULE AbstractQueue ---------------------------
(***************************************************************************)
(* What utils/tqueue promises its users: a sequence of elements with a     *)
(* search from the front, and a pool from which elements are taken.        *)
(***************************************************************************)
EXTENDS Naturals, Sequences

CONSTANTS
  Elems,
  key     \* what a search looks for in each element

VARIABLES
  seq,    \* the elements in the queue, first to last
  held    \* the elements that users have outside the queue

aqueue == <<seq, held>>
Queued == {seq[i] : i \in 1..Len(seq)}

AInit == seq = <<>> /\ held = {}

Without(i) == [j \in 1..(Len(seq) - 1) |-> IF j < i THEN seq[j] ELSE seq[j + 1]]

\* A new element is nobody's: not held, not in the queue.
New(e) == e \notin held \cup Queued /\ held' = held \cup {e} /\ UNCHANGED seq
Free(e) == e \in held /\ held' = held \ {e} /\ UNCHANGED seq
Enqueue(e) == e \in held /\ held' = held \ {e} /\ seq' = Append(seq, e)
Dequeue ==
  /\ seq # <<>>
  /\ held' = held \cup {Head(seq)} /\ seq' = Tail(seq)
RemoveAt(i) == held' = held \cup {seq[i]} /\ seq' = Without(i)
Remove(e) == \E i \in 1..Len(seq) : seq[i] = e /\ RemoveAt(i)

\* The first element with key k leaves the queue.
Find(k) ==
  \E i \in 1..Len(seq) :
    /\ key[seq[i]] = k /\ \A j \in 1..(i - 1) : key[seq[j]] # k
    /\ RemoveAt(i)

ANext ==
  \/ \E e \in Elems : New(e) \/ Free(e) \/ Enqueue(e) \/ Remove(e)
  \/ Dequeue \/ \E e \in Elems : Find(key[e])

ASpec == AInit /\ [][ANext]_aqueue
=============================================================================
