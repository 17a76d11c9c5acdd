-------------------------------- MODULE Sem --------------------------------
(***************************************************************************)
(* net/netd/sem/sem.c: a counting semaphore made of a mutex and a condition *)
(* variable.  A newcomer queues behind the threads that wait or have been  *)
(* signalled and have not come back yet.                                   *)
(***************************************************************************)
EXTENDS Integers, FiniteSets

CONSTANTS
  SemThreads,
  SemValue,       \* the initial value
  MaxV,           \* bound: calls of mysem_V
  MaxSemWakeups   \* bound: spurious wake-ups

ASSUME SemAssumption == IsFiniteSet(SemThreads) /\ SemValue \in Nat

VARIABLES
  value, waiters, pendings,
  sem,            \* where each thread is: "out", "asleep", "woken", "in"
  posts, semwakeups

semaphore == <<value, waiters, pendings, sem, posts, semwakeups>>

SemInit ==
  /\ value = SemValue /\ waiters = 0 /\ pendings = 0
  /\ sem = [t \in SemThreads |-> "out"] /\ posts = 0 /\ semwakeups = 0

Sleep(t) ==
  /\ sem' = [sem EXCEPT ![t] = "asleep"] /\ waiters' = waiters + 1
  /\ UNCHANGED <<value, posts, semwakeups>>

Enter(t) ==
  /\ sem' = [sem EXCEPT ![t] = "in"] /\ value' = value - 1
  /\ UNCHANGED <<waiters, posts, semwakeups>>

\* Called: behind the others, or if there is nothing to take, to sleep.
mysem_P(t) ==
  /\ sem[t] = "out" /\ UNCHANGED pendings
  /\ IF waiters + pendings > 0 \/ value <= 0 THEN Sleep(t) ELSE Enter(t)

\* Faulty: a thread that was woken up does not test again.
mysem_P_onceagain(t) == sem[t] = "woken" /\ pendings' = pendings - 1 /\ Enter(t)

\* Woken up: while (sem->value<=0).
mysem_P_again(t) ==
  /\ sem[t] = "woken" /\ pendings' = pendings - 1
  /\ IF value <= 0 THEN Sleep(t) ELSE Enter(t)

\* A thread that has been in posts the semaphore; others may do so too.
mysem_V(t) ==
  /\ sem[t] \in {"in", "out"} /\ posts < MaxV
  /\ posts' = posts + 1 /\ value' = value + 1
  /\ IF waiters > 0
     THEN /\ waiters' = waiters - 1 /\ pendings' = pendings + 1
          /\ IF \E s \in SemThreads : sem[s] = "asleep"
             THEN \E s \in SemThreads : sem[s] = "asleep" /\ sem' = [sem EXCEPT ![t] = "out", ![s] = "woken"]
             ELSE sem' = [sem EXCEPT ![t] = "out"]
     ELSE sem' = [sem EXCEPT ![t] = "out"] /\ UNCHANGED <<waiters, pendings>>
  /\ UNCHANGED semwakeups

SemSpurious(t) ==
  /\ sem[t] = "asleep" /\ semwakeups < MaxSemWakeups
  /\ sem' = [sem EXCEPT ![t] = "woken"] /\ semwakeups' = semwakeups + 1
  /\ UNCHANGED <<value, waiters, pendings, posts>>

SemNext ==
  \E t \in SemThreads : mysem_P(t) \/ mysem_P_again(t) \/ mysem_V(t) \/ SemSpurious(t)
SemSpec == SemInit /\ [][SemNext]_semaphore

----------------------------------------------------------------------------
\* The threads that wait for the semaphore.
SemWaiting == {t \in SemThreads : sem[t] \in {"asleep", "woken"}}

\* The semaphore never lets more threads in than it has been posted for, and
\* waiters + pendings, by which a newcomer decides to queue, is the number of threads
\* that wait, although spurious wake-ups make each of the two wrong.
SemAccounts ==
  /\ value >= 0
  /\ waiters + pendings = Cardinality(SemWaiting)
=============================================================================
