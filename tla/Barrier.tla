------------------------------ MODULE Barrier ------------------------------
(***************************************************************************)
(* The reusable thread barrier of intra/barrier.c: two sub-barriers, each  *)
(* a count of runners with its own mutex and condition variable, used in   *)
(* turns.  A thread picks the current sub-barrier with an unprotected read *)
(* of bp->sbp, so everything rests on no thread ever holding a stale one.  *)
(* Every statement that touches shared state is a step of its own.         *)
(***************************************************************************)
EXTENDS Naturals, FiniteSets

CONSTANTS
  Threads,       \* the callers; bar_init's count is their number
  Rounds,        \* bound: calls of bar_wait per thread
  MaxSpurious,   \* bound: spurious wake-ups of a condition wait
  NoThread       \* owner of a mutex nobody holds

ASSUME ThreadsAssumption == IsFiniteSet(Threads) /\ Threads # {} /\ NoThread \notin Threads
ASSUME BoundsAssumption == Rounds \in Nat /\ MaxSpurious \in Nat

VARIABLES
  sbp,        \* bp->sbp: the current sub-barrier, 0 or 1
  runners,    \* bp->sb[b].runners
  wait_lk,    \* owner of bp->sb[b].wait_lk
  pc,         \* where each thread is in bar_wait
  mysbp,      \* the local variable sbp of bar_wait
  done,       \* calls of bar_wait that have returned, per thread
  spurious    \* spurious wake-ups so far

vars == <<sbp, runners, wait_lk, pc, mysbp, done, spurious>>

maxcnt == Cardinality(Threads)

Locations ==
  {"out", "lock", "locked", "switch", "bcast", "test", "wait", "relock", "unlock"}

----------------------------------------------------------------------------
bar_init ==
  /\ sbp = 0
  /\ runners = [b \in {0, 1} |-> maxcnt]
  /\ wait_lk = [b \in {0, 1} |-> NoThread]

Init ==
  /\ bar_init
  /\ pc = [t \in Threads |-> "out"]
  /\ mysbp = [t \in Threads |-> 0]
  /\ done = [t \in Threads |-> 0]
  /\ spurious = 0

Goto(t, from, to) == pc[t] = from /\ pc' = [pc EXCEPT ![t] = to]

Acquire(t) ==
  /\ wait_lk[mysbp[t]] = NoThread
  /\ wait_lk' = [wait_lk EXCEPT ![mysbp[t]] = t]

Release(t) == wait_lk' = [wait_lk EXCEPT ![mysbp[t]] = NoThread]

----------------------------------------------------------------------------
(***************************************************************************)
(* Faulty variants of single steps.  No behaviour of Spec uses them; each  *)
(* one, put in place of the step it is named after, breaks a property.     *)
(***************************************************************************)

\* The last arrival is detected one thread too early.
LastArrivesEarly(t) ==
  /\ runners[mysbp[t]] = 2
  /\ maxcnt # 1
  /\ Goto(t, "locked", "switch")
  /\ runners' = [runners EXCEPT ![mysbp[t]] = maxcnt]
  /\ UNCHANGED <<sbp, wait_lk, mysbp, done, spurious>>

\* The waiter polls without giving up the mutex.
WaitSpinning(t) ==
  /\ runners[mysbp[t]] # maxcnt
  /\ pc[t] = "test"
  /\ UNCHANGED vars

\* "if" in place of "while" around thr_cnd_wait.
RelockWithoutTest(t) ==
  /\ Goto(t, "relock", "unlock")
  /\ Acquire(t)
  /\ UNCHANGED <<sbp, runners, mysbp, done, spurious>>

----------------------------------------------------------------------------
(***************************************************************************)
(* bar_wait                                                                *)
(***************************************************************************)
\* register struct _sb *sbp = bp->sbp;  (no lock held)
ReadSbp(t) ==
  /\ done[t] < Rounds
  /\ Goto(t, "out", "lock")
  /\ mysbp' = [mysbp EXCEPT ![t] = sbp]
  /\ UNCHANGED <<sbp, runners, wait_lk, done, spurious>>

Lock(t) ==
  /\ Goto(t, "lock", "locked")
  /\ Acquire(t)
  /\ UNCHANGED <<sbp, runners, mysbp, done, spurious>>

\* The last thread to reach a barrier of two or more resets the count ...
LastArrives(t) ==
  /\ runners[mysbp[t]] = 1
  /\ maxcnt # 1
  /\ Goto(t, "locked", "switch")
  /\ runners' = [runners EXCEPT ![mysbp[t]] = maxcnt]
  /\ UNCHANGED <<sbp, wait_lk, mysbp, done, spurious>>

\* ... switches sub-barriers ...
SwitchSbp(t) ==
  /\ Goto(t, "switch", "bcast")
  /\ sbp' = IF sbp = 0 THEN 1 ELSE 0
  /\ UNCHANGED <<runners, wait_lk, mysbp, done, spurious>>

\* ... and wakes up the waiters.
Broadcast(t) ==
  /\ pc[t] = "bcast"
  /\ pc' = [s \in Threads |->
              IF s = t THEN "unlock"
              ELSE IF pc[s] = "wait" /\ mysbp[s] = mysbp[t] THEN "relock"
              ELSE pc[s]]
  /\ UNCHANGED <<sbp, runners, wait_lk, mysbp, done, spurious>>

\* A barrier of one thread is passed without touching anything.
OnlyThreadArrives(t) ==
  /\ runners[mysbp[t]] = 1
  /\ maxcnt = 1
  /\ Goto(t, "locked", "unlock")
  /\ UNCHANGED <<sbp, runners, wait_lk, mysbp, done, spurious>>

Arrives(t) ==
  /\ runners[mysbp[t]] # 1
  /\ Goto(t, "locked", "test")
  /\ runners' = [runners EXCEPT ![mysbp[t]] = @ - 1]
  /\ UNCHANGED <<sbp, wait_lk, mysbp, done, spurious>>

\* while (sbp->runners != bp->maxcnt) thr_cnd_wait(...)
Wait(t) ==
  /\ runners[mysbp[t]] # maxcnt
  /\ Goto(t, "test", "wait")
  /\ Release(t)
  /\ UNCHANGED <<sbp, runners, mysbp, done, spurious>>

StopWaiting(t) ==
  /\ runners[mysbp[t]] = maxcnt
  /\ Goto(t, "test", "unlock")
  /\ UNCHANGED <<sbp, runners, wait_lk, mysbp, done, spurious>>

\* A condition wait may return without a broadcast.
SpuriousWakeup(t) ==
  /\ spurious < MaxSpurious
  /\ Goto(t, "wait", "relock")
  /\ spurious' = spurious + 1
  /\ UNCHANGED <<sbp, runners, wait_lk, mysbp, done>>

Relock(t) ==
  /\ Goto(t, "relock", "test")
  /\ Acquire(t)
  /\ UNCHANGED <<sbp, runners, mysbp, done, spurious>>

Unlock(t) ==
  /\ Goto(t, "unlock", "out")
  /\ Release(t)
  /\ done' = [done EXCEPT ![t] = @ + 1]
  /\ UNCHANGED <<sbp, runners, mysbp, spurious>>

----------------------------------------------------------------------------
\* What the thread itself does, as opposed to a spurious wake-up.
ThreadStep(t) ==
  \/ ReadSbp(t) \/ Lock(t)
  \/ LastArrives(t) \/ SwitchSbp(t) \/ Broadcast(t) \/ OnlyThreadArrives(t)
  \/ Arrives(t) \/ Wait(t) \/ StopWaiting(t) \/ Relock(t) \/ Unlock(t)

\* Every thread has made all its calls.
Terminated == (\A t \in Threads : pc[t] = "out" /\ done[t] = Rounds) /\ UNCHANGED vars

Next == (\E t \in Threads : ThreadStep(t) \/ SpuriousWakeup(t)) \/ Terminated

Safe == Init /\ [][Next]_vars

\* The thread scheduler runs every runnable thread.  With finitely many calls
\* and spurious wake-ups a mutex is acquired finitely often, so weak fairness
\* is enough.
Spec == Safe /\ \A t \in Threads : WF_vars(ThreadStep(t))

----------------------------------------------------------------------------
TypeOK ==
  /\ sbp \in {0, 1}
  /\ runners \in [{0, 1} -> Nat]
  /\ wait_lk \in [{0, 1} -> Threads \cup {NoThread}]
  /\ pc \in [Threads -> Locations]
  /\ mysbp \in [Threads -> {0, 1}]
  /\ done \in [Threads -> 0..Rounds]
  /\ spurious \in 0..MaxSpurious

\* Calls of bar_wait a thread has begun.
Begun(t) == done[t] + (IF pc[t] = "out" THEN 0 ELSE 1)

\* bar_wait separates rounds: a call returns only when every other thread has
\* begun its call of the same round.
Separation == \A s, t \in Threads : done[t] <= Begun(s)

\* The unprotected read of bp->sbp (barrier.c:26) is never stale when it
\* matters: a thread on its way to the mutex of a sub-barrier, or holding it
\* without having arrived, is at the current sub-barrier.
FreshSbp == \A t \in Threads : pc[t] \in {"lock", "locked"} => mysbp[t] = sbp

\* No lost wake-up: a thread asleep at a sub-barrier whose count has been reset
\* has its waker still ahead of the broadcast.
NoLostWakeup ==
  \A t \in Threads :
    pc[t] = "wait" /\ runners[mysbp[t]] = maxcnt =>
      \E s \in Threads : pc[s] \in {"switch", "bcast"} /\ mysbp[s] = mysbp[t]

\* A slow thread is never lapped: the sub-barrier it is still leaving does not
\* take new arrivals (barrier.c:39 waits for runners to equal maxcnt, which a
\* new arrival would undo).
NotLapped ==
  \A s, t \in Threads :
    (/\ pc[t] \in {"test", "wait", "relock"}
     /\ pc[s] \in {"lock", "locked", "test", "wait", "relock"}
     /\ mysbp[s] = mysbp[t])
      => done[s] = done[t]

\* What a caller of bar_wait relies on, under every interleaving and with spurious
\* wake-ups: rounds are separated, the unlocked read of bp->sbp is current, nobody
\* sleeps at a released sub-barrier and nobody is lapped.
BarrierSafe == Separation /\ FreshSbp /\ NoLostWakeup /\ NotLapped

\* Every thread returns from all its calls of bar_wait.
AllReturn == <>[](\A t \in Threads : pc[t] = "out" /\ done[t] = Rounds)

----------------------------------------------------------------------------
(***************************************************************************)
(* The inductive invariant.  At any time there is a generation g such that *)
(* every thread is either in its g-th call, at the current sub-barrier, or *)
(* still leaving the call before it, from the other sub-barrier.  Leavers  *)
(* find a full count; the current count misses exactly the threads that    *)
(* have arrived.                                                           *)
(***************************************************************************)
Owns(t) == pc[t] \in {"locked", "switch", "bcast", "test", "unlock"}

MutexInv ==
  \A t \in Threads, b \in {0, 1} : wait_lk[b] = t <=> Owns(t) /\ mysbp[t] = b

CallsInv == \A t \in Threads : pc[t] # "out" => done[t] < Rounds

Here(t, g) ==
  /\ done[t] = g
  /\ \/ pc[t] = "out"
     \/ /\ pc[t] \in {"lock", "locked", "switch", "test", "wait", "relock"}
        /\ mysbp[t] = sbp

Leaving(t, g) ==
  /\ done[t] + 1 = g
  /\ pc[t] \in {"bcast", "test", "wait", "relock", "unlock"}
  /\ mysbp[t] # sbp

Arrived(g) == {t \in Threads : done[t] = g /\ pc[t] \in {"test", "wait", "relock"}}

Phase(g) ==
  /\ \A t \in Threads : Here(t, g) \/ Leaving(t, g)
  /\ \A b \in {0, 1} : b # sbp => runners[b] = maxcnt
  /\ \A t \in Threads : pc[t] = "switch" =>
       runners[sbp] = maxcnt /\ Arrived(g) = Threads \ {t}
  /\ (\A t \in Threads : pc[t] # "switch") =>
       runners[sbp] + Cardinality(Arrived(g)) = maxcnt
  /\ \A t \in Threads : Leaving(t, g) /\ pc[t] = "wait" =>
       \E s \in Threads : pc[s] = "bcast" /\ mysbp[s] = mysbp[t]

\* A barrier of one thread never waits and never switches.
Alone ==
  /\ \A t \in Threads : pc[t] \in {"out", "lock", "locked", "unlock"} /\ mysbp[t] = sbp
  /\ runners = [b \in {0, 1} |-> 1]

\* Mutual exclusion on each sub-barrier, and the two generations that can be
\* in bar_wait at a time.
Inv ==
  /\ TypeOK
  /\ MutexInv
  /\ CallsInv
  /\ maxcnt = 1 => Alone
  /\ maxcnt # 1 => \E g \in 0..Rounds : Phase(g)

----------------------------------------------------------------------------
\* bar_wait implements the abstract barrier, fairness included.
Abstract == INSTANCE AbstractBarrier
              WITH entered <- [t \in Threads |-> Begun(t)], left <- done

ImplementsBarrier == Abstract!ASpec
=============================================================================
