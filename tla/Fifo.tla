-------------------------------- MODULE Fifo --------------------------------
(***************************************************************************)
(* net/netd/fifo.c: a ring of buf_size slots, one of which stays empty,    *)
(* under a mutex, with a condition variable for writers (full) and one for *)
(* readers (empty).                                                        *)
(***************************************************************************)
EXTENDS Integers, Sequences, FiniteSets

CONSTANTS
  Writers, Readers,
  buf_size,
  MaxItems,       \* bound: items written
  MaxFifoWakeups  \* bound: spurious wake-ups

ASSUME FifoAssumption ==
  /\ buf_size \in Nat \ {0, 1}
  /\ IsFiniteSet(Writers) /\ IsFiniteSet(Readers) /\ Writers \cap Readers = {}

VARIABLES
  ring, header, tail,
  fpc,             \* where each thread is: "out", asleep on "full" or "empty", "woken"
  put, got,       \* history: the items written and read, in order
  wakeups

fifo == <<ring, header, tail, fpc, put, got, wakeups>>

FifoInit ==
  /\ ring = [i \in 0..(buf_size - 1) |-> 0] /\ header = 0 /\ tail = 0
  /\ fpc = [t \in Writers \cup Readers |-> "out"]
  /\ put = <<>> /\ got = <<>> /\ wakeups = 0

NextSlot(i) == (i + 1) % buf_size
Asleep(cond) == {t \in Writers \cup Readers : fpc[t] = cond}

\* thr_cnd_signal(cond) by t, which is done: any one of the sleepers wakes up.
Signal(t, cond) ==
  IF Asleep(cond) = {} THEN fpc' = [fpc EXCEPT ![t] = "out"]
  ELSE \E s \in Asleep(cond) : fpc' = [fpc EXCEPT ![t] = "out", ![s] = "woken"]

\* Faulty: a writer signals only when the ring was empty.
SignalFirst(t, cond) ==
  IF Asleep(cond) = {} \/ header # tail THEN fpc' = [fpc EXCEPT ![t] = "out"]
  ELSE \E s \in Asleep(cond) : fpc' = [fpc EXCEPT ![t] = "out", ![s] = "woken"]

\* Both operations test again after every wake-up.
FullWait(t) ==
  /\ t \in Writers /\ fpc[t] \in {"out", "woken"}
  /\ fpc[t] = "out" => Len(put) < MaxItems
  /\ NextSlot(tail) = header
  /\ fpc' = [fpc EXCEPT ![t] = "full"]
  /\ UNCHANGED <<ring, header, tail, put, got, wakeups>>

fifo_enqueue_first(t) ==
  /\ t \in Writers /\ fpc[t] \in {"out", "woken"} /\ Len(put) < MaxItems
  /\ NextSlot(tail) # header
  /\ ring' = [ring EXCEPT ![tail] = Len(put) + 1]
  /\ tail' = NextSlot(tail)
  /\ SignalFirst(t, "empty")
  /\ put' = Append(put, Len(put) + 1)
  /\ UNCHANGED <<header, got, wakeups>>

fifo_enqueue(t) ==
  /\ t \in Writers /\ fpc[t] \in {"out", "woken"} /\ Len(put) < MaxItems
  /\ NextSlot(tail) # header
  /\ ring' = [ring EXCEPT ![tail] = Len(put) + 1]
  /\ tail' = NextSlot(tail)
  /\ Signal(t, "empty")
  /\ put' = Append(put, Len(put) + 1)
  /\ UNCHANGED <<header, got, wakeups>>

EmptyWait(t) ==
  /\ t \in Readers /\ fpc[t] \in {"out", "woken"}
  /\ tail = header
  /\ fpc' = [fpc EXCEPT ![t] = "empty"]
  /\ UNCHANGED <<ring, header, tail, put, got, wakeups>>

fifo_dequeue(t) ==
  /\ t \in Readers /\ fpc[t] \in {"out", "woken"}
  /\ tail # header
  /\ got' = Append(got, ring[header])
  /\ header' = NextSlot(header)
  /\ Signal(t, "full")
  /\ UNCHANGED <<ring, tail, put, wakeups>>

FifoSpurious(t) ==
  /\ wakeups < MaxFifoWakeups /\ fpc[t] \in {"full", "empty"}
  /\ fpc' = [fpc EXCEPT ![t] = "woken"] /\ wakeups' = wakeups + 1
  /\ UNCHANGED <<ring, header, tail, put, got>>

FifoStep(t) == FullWait(t) \/ fifo_enqueue(t) \/ EmptyWait(t) \/ fifo_dequeue(t)
FifoNext == \E t \in Writers \cup Readers : FifoStep(t) \/ FifoSpurious(t)

FifoSpec == FifoInit /\ [][FifoNext]_fifo

----------------------------------------------------------------------------
\* What is in the ring, first to last.
Contents == [i \in 1..((tail + buf_size - header) % buf_size) |-> ring[(header + i - 1) % buf_size]]

\* First in, first out: what was read and what is in the ring is what was written, in
\* order, with any number of writers and readers, full and empty.
FifoOrder == got \o Contents = put

Woken(threads) == {t \in threads : fpc[t] = "woken"}

\* No signal is lost: as long as a reader sleeps there are no more items than readers
\* that have been woken up and will take them, and likewise for writers and slots.
SignalsEnough ==
  /\ Asleep("empty") # {} => Len(Contents) <= Cardinality(Woken(Readers))
  /\ Asleep("full") # {} => buf_size - 1 - Len(Contents) <= Cardinality(Woken(Writers))

\* What is taken from the FIFO was put in, in that order, and there are signals enough
\* for what can go on.
FifoSound == FifoOrder /\ SignalsEnough
=============================================================================
