-------------------------- MODULE AbstractBarrier --------------------------
(***************************************************************************)
(* What a reusable barrier promises, whatever its implementation: a thread *)
(* may leave its k-th episode only when every thread has entered its k-th  *)
(* episode.  Barrier.tla (intra/barrier.c) implements this specification.  *)
(***************************************************************************)
EXTENDS Naturals

CONSTANTS
  Threads,   \* the local MPI nodes that share the barrier
  Rounds     \* how many times each of them synchronises

VARIABLES
  entered,   \* entered[t]: barrier episodes t has begun
  left       \* left[t]: barrier episodes t has completed

avars == <<entered, left>>

AInit ==
  /\ entered = [t \in Threads |-> 0]
  /\ left = [t \in Threads |-> 0]

AEnter(t) ==
  /\ entered[t] = left[t]
  /\ entered[t] < Rounds
  /\ entered' = [entered EXCEPT ![t] = @ + 1]
  /\ UNCHANGED left

ALeave(t) ==
  /\ left[t] < entered[t]
  /\ \A s \in Threads : entered[s] > left[t]
  /\ left' = [left EXCEPT ![t] = @ + 1]
  /\ UNCHANGED entered

ANext == \E t \in Threads : AEnter(t) \/ ALeave(t)

ASafe == AInit /\ [][ANext]_avars

\* Every thread keeps calling the barrier, and one that may leave does.
ASpec ==
  /\ ASafe
  /\ \A t \in Threads : WF_avars(AEnter(t)) /\ WF_avars(ALeave(t))
=============================================================================
