----------------------------- MODULE SyncProofs -----------------------------
(***************************************************************************)
(* How threads wait for each other: the barrier, the FIFO and the          *)
(* semaphore.  No thread passes the barrier of intra/barrier.c early; the  *)
(* ring of fifo.c loses, repeats and reorders nothing and no signal is     *)
(* lost, for every size of the ring; the accounts of the semaphore are     *)
(* right: all for every number of threads and of spurious wake-ups.        *)
(***************************************************************************)
EXTENDS Barrier, Fifo, Sem, FiniteSetTheorems, SequenceTheorems, TLAPS

(* The barrier. *)
\* The count given to bar_init is a positive number.
LEMMA MaxcntPositive == maxcnt \in Nat /\ maxcnt >= 1
  <1>1. maxcnt \in Nat
    BY ThreadsAssumption, FS_CardinalityType DEF maxcnt
  <1>2. maxcnt # 0
    BY ThreadsAssumption, FS_EmptySet DEF maxcnt
  <1> QED  BY <1>1, <1>2

\* The threads that have arrived form a finite set that bounds the count.
LEMMA ArrivedFinite ==
  ASSUME NEW g
  PROVE  /\ IsFiniteSet(Arrived(g))
         /\ Cardinality(Arrived(g)) \in Nat
  <1>1. Arrived(g) \in SUBSET Threads
    BY DEF Arrived
  <1>2. IsFiniteSet(Arrived(g))
    BY <1>1, ThreadsAssumption, FS_Subset
  <1> QED  BY <1>2, FS_CardinalityType

\* A thread about to arrive sees a positive count, and sees 1 exactly when
\* everybody else has arrived: the test at barrier.c:30 finds the last thread.
LEMMA CountAtArrival ==
  ASSUME Inv, NEW g \in 0..Rounds, Phase(g), NEW t \in Threads, pc[t] = "locked"
  PROVE  /\ mysbp[t] = sbp
         /\ done[t] = g
         /\ \A s \in Threads : pc[s] # "switch"
         /\ runners[sbp] + Cardinality(Arrived(g)) = maxcnt
         /\ t \notin Arrived(g)
         /\ runners[sbp] \in Nat
         /\ runners[sbp] >= 1
         /\ runners[sbp] = 1 => Arrived(g) = Threads \ {t}
  <1>1. mysbp[t] = sbp /\ done[t] = g /\ t \notin Arrived(g)
    BY DEF Phase, Here, Leaving, Arrived
  <1>2. ASSUME NEW s \in Threads, pc[s] = "switch" PROVE FALSE
    <2>1. mysbp[s] = sbp
      BY <1>2 DEF Phase, Here, Leaving
    <2>2. wait_lk[sbp] = s /\ wait_lk[sbp] = t
      BY <1>1, <1>2, <2>1 DEF Inv, MutexInv, Owns, TypeOK
    <2> QED  BY <1>2, <2>2
  <1>3. runners[sbp] + Cardinality(Arrived(g)) = maxcnt
    BY <1>2 DEF Phase
  <1>4. /\ IsFiniteSet(Threads \ {t})
        /\ Cardinality(Threads \ {t}) = maxcnt - 1
    BY ThreadsAssumption, FS_RemoveElement DEF maxcnt
  <1>5. Arrived(g) \in SUBSET (Threads \ {t})
    BY <1>1 DEF Arrived
  <1>6. /\ Cardinality(Arrived(g)) <= maxcnt - 1
        /\ maxcnt - 1 = Cardinality(Arrived(g)) => Arrived(g) = Threads \ {t}
    BY <1>4, <1>5, FS_Subset
  <1>7. runners[sbp] \in Nat
    BY DEF Inv, TypeOK
  <1>8. runners[sbp] >= 1 /\ (runners[sbp] = 1 => Arrived(g) = Threads \ {t})
    BY <1>3, <1>6, <1>7, MaxcntPositive, ArrivedFinite
  <1> QED  BY <1>1, <1>2, <1>3, <1>7, <1>8

----------------------------------------------------------------------------
\* The initial state, right after bar_init, satisfies the invariant.
LEMMA InitInv == Init => Inv
  <1> SUFFICES ASSUME Init PROVE Inv
    OBVIOUS
  <1> USE DEF Init, bar_init
  <1>1. TypeOK
    BY MaxcntPositive, BoundsAssumption DEF TypeOK, Locations
  <1>2. MutexInv /\ CallsInv
    BY ThreadsAssumption DEF MutexInv, CallsInv, Owns
  <1>3. ASSUME maxcnt = 1 PROVE Alone
    BY <1>3 DEF Alone
  <1>4. Phase(0)
    <2>1. Arrived(0) = {}
      BY DEF Arrived
    <2>2. runners[sbp] + Cardinality(Arrived(0)) = maxcnt
      BY <2>1, MaxcntPositive, FS_EmptySet
    <2> QED  BY <2>2 DEF Phase, Here, Leaving
  <1>5. 0 \in 0..Rounds
    BY BoundsAssumption
  <1> QED  BY <1>1, <1>2, <1>3, <1>4, <1>5 DEF Inv

\* Every step keeps the types, mutual exclusion on each sub-barrier, and the
\* bound on the number of calls.
LEMMA BaseStep ==
  ASSUME Inv, Next PROVE TypeOK' /\ MutexInv' /\ CallsInv'
  <1> USE DEF Goto
  <1>0. TypeOK /\ MutexInv /\ CallsInv
    BY DEF Inv
  <1>1. ASSUME NEW t \in Threads, ReadSbp(t) PROVE TypeOK' /\ MutexInv' /\ CallsInv'
    BY <1>0, <1>1 DEF ReadSbp, TypeOK, Locations, MutexInv, Owns, CallsInv
  <1>2. ASSUME NEW t \in Threads, Lock(t) \/ Relock(t) PROVE TypeOK' /\ MutexInv' /\ CallsInv'
    <2>1. TypeOK' /\ CallsInv'
      BY <1>0, <1>2 DEF Lock, Relock, Acquire, TypeOK, Locations, CallsInv
    <2>2. MutexInv'
      BY <1>0, <1>2, ThreadsAssumption DEF Lock, Relock, Acquire, TypeOK, MutexInv, Owns
    <2> QED  BY <2>1, <2>2
  <1>3. ASSUME NEW t \in Threads, LastArrives(t) \/ SwitchSbp(t) \/ OnlyThreadArrives(t) \/ StopWaiting(t)
        PROVE TypeOK' /\ MutexInv' /\ CallsInv'
    <2>1. TypeOK' /\ CallsInv'
      BY <1>0, <1>3, MaxcntPositive
         DEF LastArrives, SwitchSbp, OnlyThreadArrives, StopWaiting, TypeOK, Locations, CallsInv
    <2>2. MutexInv'
      BY <1>0, <1>3 DEF LastArrives, SwitchSbp, OnlyThreadArrives, StopWaiting, TypeOK, MutexInv, Owns
    <2> QED  BY <2>1, <2>2
  <1>4. ASSUME NEW t \in Threads, Broadcast(t) PROVE TypeOK' /\ MutexInv' /\ CallsInv'
    <2>1. TypeOK' /\ CallsInv'
      BY <1>0, <1>4 DEF Broadcast, TypeOK, Locations, CallsInv
    <2>2. MutexInv'
      BY <1>0, <1>4 DEF Broadcast, TypeOK, MutexInv, Owns
    <2> QED  BY <2>1, <2>2
  <1>5. ASSUME NEW t \in Threads, Arrives(t) PROVE TypeOK' /\ MutexInv' /\ CallsInv'
    <2>1. runners[mysbp[t]] \in Nat /\ runners[mysbp[t]] >= 1
      <3>1. CASE maxcnt = 1
        BY <3>1, <1>0 DEF Inv, Alone, TypeOK
      <3>2. CASE maxcnt # 1
        <4>1. PICK g \in 0..Rounds : Phase(g)
          BY <3>2 DEF Inv
        <4> QED  BY <4>1, <1>5, CountAtArrival DEF Arrives
      <3> QED  BY <3>1, <3>2
    <2>2. TypeOK' /\ CallsInv'
      BY <1>0, <1>5, <2>1 DEF Arrives, TypeOK, Locations, CallsInv
    <2>3. MutexInv'
      BY <1>0, <1>5 DEF Arrives, TypeOK, MutexInv, Owns
    <2> QED  BY <2>2, <2>3
  <1>6. ASSUME NEW t \in Threads, Wait(t) PROVE TypeOK' /\ MutexInv' /\ CallsInv'
    <2>1. TypeOK' /\ CallsInv'
      BY <1>0, <1>6 DEF Wait, Release, TypeOK, Locations, CallsInv
    <2>2. MutexInv'
      BY <1>0, <1>6, ThreadsAssumption DEF Wait, Release, TypeOK, MutexInv, Owns
    <2> QED  BY <2>1, <2>2
  <1>7. ASSUME NEW t \in Threads, Unlock(t) PROVE TypeOK' /\ MutexInv' /\ CallsInv'
    <2>1. TypeOK' /\ CallsInv'
      BY <1>0, <1>7, BoundsAssumption DEF Unlock, Release, TypeOK, Locations, CallsInv
    <2>2. MutexInv'
      BY <1>0, <1>7, ThreadsAssumption DEF Unlock, Release, TypeOK, MutexInv, Owns
    <2> QED  BY <2>1, <2>2
  <1>8. ASSUME NEW t \in Threads, SpuriousWakeup(t) PROVE TypeOK' /\ MutexInv' /\ CallsInv'
    BY <1>0, <1>8, BoundsAssumption DEF SpuriousWakeup, TypeOK, Locations, MutexInv, Owns, CallsInv
  <1>9. CASE Terminated
    BY <1>0, <1>9 DEF Terminated, vars, TypeOK, MutexInv, Owns, CallsInv
  <1> QED
    BY <1>1, <1>2, <1>3, <1>4, <1>5, <1>6, <1>7, <1>8, <1>9 DEF Next, ThreadStep

\* In a barrier of one thread every step leaves the other branch untouched.
LEMMA AloneStep ==
  ASSUME Inv, Next, maxcnt = 1 PROVE Alone'
  <1> USE DEF Goto, Alone
  <1>0. TypeOK /\ Alone
    BY DEF Inv
  <1>1. ASSUME NEW t \in Threads, ThreadStep(t) PROVE Alone'
    BY <1>0, <1>1 DEF ThreadStep, ReadSbp, Lock, LastArrives, SwitchSbp, Broadcast,
                      OnlyThreadArrives, Arrives, Wait, StopWaiting, Relock, Unlock, TypeOK
  <1>2. ASSUME NEW t \in Threads, SpuriousWakeup(t) PROVE Alone'
    BY <1>0, <1>2 DEF SpuriousWakeup
  <1>3. CASE Terminated
    BY <1>0, <1>3 DEF Terminated, vars
  <1> QED  BY <1>1, <1>2, <1>3 DEF Next

\* A step that neither changes the set of arrived threads nor a count keeps
\* the generation.
LEMMA QuietStep ==
  ASSUME NEW g \in 0..Rounds, Phase(g),
         UNCHANGED <<sbp, runners>>,
         \A t \in Threads : pc'[t] = "switch" <=> pc[t] = "switch",
         Arrived(g)' = Arrived(g),
         \A t \in Threads : Here(t, g)' \/ Leaving(t, g)',
         \A t \in Threads : Leaving(t, g)' /\ pc'[t] = "wait" =>
           \E s \in Threads : pc'[s] = "bcast" /\ mysbp'[s] = mysbp'[t]
  PROVE  Phase(g)'
  BY DEF Phase

\* A thread that tests the count in its own generation has not been released,
\* and one of the previous generation has.
LEMMA CountAtTest ==
  ASSUME Inv, NEW g \in 0..Rounds, Phase(g), NEW t \in Threads, pc[t] = "test"
  PROVE  /\ Here(t, g) => runners[mysbp[t]] # maxcnt
         /\ Leaving(t, g) => runners[mysbp[t]] = maxcnt
  <1>1. ASSUME Leaving(t, g) PROVE runners[mysbp[t]] = maxcnt
    BY <1>1 DEF Phase, Leaving, Inv, TypeOK
  <1>2. ASSUME Here(t, g) PROVE runners[mysbp[t]] # maxcnt
    <2>1. mysbp[t] = sbp /\ t \in Arrived(g)
      BY <1>2 DEF Here, Arrived
    <2>2. ASSUME NEW s \in Threads, pc[s] = "switch" PROVE FALSE
      <3>1. mysbp[s] = sbp
        BY <2>2 DEF Phase, Here, Leaving
      <3>2. wait_lk[sbp] = s /\ wait_lk[sbp] = t
        BY <2>1, <2>2, <3>1 DEF Inv, MutexInv, Owns, TypeOK
      <3> QED  BY <2>2, <3>2
    <2>3. runners[sbp] + Cardinality(Arrived(g)) = maxcnt
      BY <2>2 DEF Phase
    <2>4. Cardinality(Arrived(g)) # 0
      BY <2>1, ArrivedFinite, FS_EmptySet
    <2>5. runners[sbp] \in Nat
      BY DEF Inv, TypeOK
    <2> QED  BY <2>1, <2>3, <2>4, <2>5, ArrivedFinite, MaxcntPositive
  <1> QED  BY <1>1, <1>2

\* Every step of a barrier of two or more keeps the generation or moves to the
\* next one; only SwitchSbp does the latter.
LEMMA PhaseStep ==
  ASSUME Inv, Next, maxcnt # 1 PROVE \E g \in 0..Rounds : Phase(g)'
  <1> USE DEF Goto
  <1>0. PICK g \in 0..Rounds : Phase(g)
    BY DEF Inv
  <1>T. TypeOK
    BY DEF Inv
  <1>1. ASSUME NEW t \in Threads, ReadSbp(t) PROVE Phase(g)'
    <2>1. \A s \in Threads : pc'[s] = "switch" <=> pc[s] = "switch"
      BY <1>1, <1>T DEF ReadSbp, TypeOK
    <2>2. Arrived(g)' = Arrived(g)
      BY <1>1, <1>T DEF ReadSbp, TypeOK, Arrived
    <2>3. \A s \in Threads : Here(s, g)' \/ Leaving(s, g)'
      BY <1>0, <1>1, <1>T DEF ReadSbp, TypeOK, Phase, Here, Leaving
    <2>4. \A s \in Threads : Leaving(s, g)' /\ pc'[s] = "wait" =>
            \E r \in Threads : pc'[r] = "bcast" /\ mysbp'[r] = mysbp'[s]
      BY <1>0, <1>1, <1>T DEF ReadSbp, TypeOK, Phase, Leaving
    <2> QED  BY <1>0, <1>1, <2>1, <2>2, <2>3, <2>4, QuietStep DEF ReadSbp
  <1>2. ASSUME NEW t \in Threads, Lock(t) \/ Relock(t) \/ SpuriousWakeup(t) PROVE Phase(g)'
    <2> USE DEF Lock, Relock, SpuriousWakeup
    <2>1. \A s \in Threads : pc'[s] = "switch" <=> pc[s] = "switch"
      BY <1>2, <1>T DEF TypeOK
    <2>2. Arrived(g)' = Arrived(g)
      BY <1>2, <1>T DEF TypeOK, Arrived
    <2>3. \A s \in Threads : Here(s, g)' \/ Leaving(s, g)'
      BY <1>0, <1>2, <1>T DEF TypeOK, Phase, Here, Leaving
    <2>4. \A s \in Threads : Leaving(s, g)' /\ pc'[s] = "wait" =>
            \E r \in Threads : pc'[r] = "bcast" /\ mysbp'[r] = mysbp'[s]
      BY <1>0, <1>2, <1>T DEF TypeOK, Phase, Leaving
    <2> QED  BY <1>0, <1>2, <2>1, <2>2, <2>3, <2>4, QuietStep
  <1>3. ASSUME NEW t \in Threads, Wait(t) \/ StopWaiting(t) PROVE Phase(g)'
    <2> USE DEF Wait, StopWaiting
    <2>0. /\ Wait(t) => Here(t, g) /\ ~Leaving(t, g)
          /\ StopWaiting(t) => Leaving(t, g) /\ ~Here(t, g)
      BY <1>0, <1>3, CountAtTest DEF Phase
    <2>1. \A s \in Threads : pc'[s] = "switch" <=> pc[s] = "switch"
      BY <1>3, <1>T DEF TypeOK
    <2>2. Arrived(g)' = Arrived(g)
      BY <1>3, <1>T, <2>0 DEF TypeOK, Arrived, Here, Leaving
    <2>3. \A s \in Threads : Here(s, g)' \/ Leaving(s, g)'
      BY <1>0, <1>3, <1>T, <2>0 DEF TypeOK, Phase, Here, Leaving
    <2>4. \A s \in Threads : Leaving(s, g)' /\ pc'[s] = "wait" =>
            \E r \in Threads : pc'[r] = "bcast" /\ mysbp'[r] = mysbp'[s]
      BY <1>0, <1>3, <1>T, <2>0 DEF TypeOK, Phase, Leaving, Here
    <2> QED  BY <1>0, <1>3, <2>1, <2>2, <2>3, <2>4, QuietStep
  <1>4. ASSUME NEW t \in Threads, Broadcast(t) PROVE Phase(g)'
    <2> USE DEF Broadcast
    <2>0. mysbp[t] # sbp
      BY <1>0, <1>4 DEF Phase, Here, Leaving
    <2>1. \A s \in Threads : pc'[s] = "switch" <=> pc[s] = "switch"
      BY <1>4, <1>T DEF TypeOK
    <2>2. Arrived(g)' = Arrived(g)
      BY <1>4, <1>T DEF TypeOK, Arrived
    <2>3. \A s \in Threads : Here(s, g)' \/ Leaving(s, g)'
      BY <1>0, <1>4, <1>T DEF TypeOK, Phase, Here, Leaving
    <2>4. ASSUME NEW s \in Threads, Leaving(s, g)', pc'[s] = "wait" PROVE FALSE
      <3>1. mysbp[s] = mysbp[t] /\ pc[s] = "wait"
        BY <1>4, <1>T, <2>0, <2>4 DEF TypeOK, Leaving
      <3> QED  BY <1>4, <2>4, <3>1
    <2> QED  BY <1>0, <1>4, <2>1, <2>2, <2>3, <2>4, QuietStep
  <1>5. ASSUME NEW t \in Threads, Unlock(t) PROVE Phase(g)'
    <2> USE DEF Unlock
    <2>0. Leaving(t, g)
      BY <1>0, <1>5 DEF Phase, Here
    <2>1. \A s \in Threads : pc'[s] = "switch" <=> pc[s] = "switch"
      BY <1>5, <1>T DEF TypeOK
    <2>2. Arrived(g)' = Arrived(g)
      BY <1>5, <1>T, <2>0 DEF TypeOK, Arrived, Leaving
    <2>3. \A s \in Threads : Here(s, g)' \/ Leaving(s, g)'
      BY <1>0, <1>5, <1>T, <2>0 DEF TypeOK, Phase, Here, Leaving
    <2>4. \A s \in Threads : Leaving(s, g)' /\ pc'[s] = "wait" =>
            \E r \in Threads : pc'[r] = "bcast" /\ mysbp'[r] = mysbp'[s]
      BY <1>0, <1>5, <1>T DEF TypeOK, Phase, Leaving
    <2> QED  BY <1>0, <1>5, <2>1, <2>2, <2>3, <2>4, QuietStep
  <1>6. ASSUME NEW t \in Threads, Arrives(t) PROVE Phase(g)'
    <2> USE DEF Arrives
    <2>0. /\ mysbp[t] = sbp
          /\ done[t] = g
          /\ \A s \in Threads : pc[s] # "switch"
          /\ runners[sbp] + Cardinality(Arrived(g)) = maxcnt
          /\ t \notin Arrived(g)
          /\ runners[sbp] \in Nat
      BY <1>0, <1>6, CountAtArrival
    <2>1. \A s \in Threads : pc'[s] # "switch"
      BY <1>6, <1>T, <2>0 DEF TypeOK
    <2>2. Arrived(g)' = Arrived(g) \cup {t}
      BY <1>6, <1>T, <2>0 DEF TypeOK, Arrived
    <2>3. Cardinality(Arrived(g)') = Cardinality(Arrived(g)) + 1
      BY <2>0, <2>2, ArrivedFinite, FS_AddElement
    <2>4. runners'[sbp'] + Cardinality(Arrived(g)') = maxcnt
      BY <1>6, <1>T, <2>0, <2>3, ArrivedFinite DEF TypeOK
    <2>5. \A s \in Threads : Here(s, g)' \/ Leaving(s, g)'
      BY <1>0, <1>6, <1>T DEF TypeOK, Phase, Here, Leaving
    <2>6. \A b \in {0, 1} : b # sbp' => runners'[b] = maxcnt
      BY <1>0, <1>6, <1>T, <2>0 DEF TypeOK, Phase
    <2>7. \A s \in Threads : Leaving(s, g)' /\ pc'[s] = "wait" =>
            \E r \in Threads : pc'[r] = "bcast" /\ mysbp'[r] = mysbp'[s]
      BY <1>0, <1>6, <1>T DEF TypeOK, Phase, Leaving
    <2> QED  BY <2>1, <2>4, <2>5, <2>6, <2>7 DEF Phase
  <1>7. ASSUME NEW t \in Threads, LastArrives(t) PROVE Phase(g)'
    <2> USE DEF LastArrives
    <2>0. /\ mysbp[t] = sbp
          /\ done[t] = g
          /\ \A s \in Threads : pc[s] # "switch"
          /\ Arrived(g) = Threads \ {t}
      BY <1>0, <1>7, CountAtArrival
    <2>1. Arrived(g)' = Threads \ {t}
      BY <1>7, <1>T, <2>0 DEF TypeOK, Arrived
    <2>2. \A s \in Threads : pc'[s] = "switch" <=> s = t
      BY <1>7, <1>T, <2>0 DEF TypeOK
    <2>3. \A b \in {0, 1} : runners'[b] = maxcnt
      BY <1>0, <1>7, <1>T, <2>0 DEF TypeOK, Phase
    <2>4. \A s \in Threads : Here(s, g)' \/ Leaving(s, g)'
      BY <1>0, <1>7, <1>T, <2>0 DEF TypeOK, Phase, Here, Leaving
    <2>5. \A s \in Threads : Leaving(s, g)' /\ pc'[s] = "wait" =>
            \E r \in Threads : pc'[r] = "bcast" /\ mysbp'[r] = mysbp'[s]
      BY <1>0, <1>7, <1>T DEF TypeOK, Phase, Leaving
    <2>6. sbp' \in {0, 1}
      BY <1>7, <1>T DEF TypeOK
    <2> QED  BY <2>1, <2>2, <2>3, <2>4, <2>5, <2>6 DEF Phase
  <1>8. ASSUME NEW t \in Threads, SwitchSbp(t) PROVE g + 1 \in 0..Rounds /\ Phase(g + 1)'
    <2> USE DEF SwitchSbp
    <2>0. /\ mysbp[t] = sbp /\ done[t] = g
          /\ runners[sbp] = maxcnt
          /\ Arrived(g) = Threads \ {t}
      BY <1>0, <1>8 DEF Phase, Here, Leaving
    <2>1. g + 1 \in 0..Rounds
      BY <1>8, <2>0, BoundsAssumption DEF Inv, CallsInv
    <2>2. \A s \in Threads \ {t} : done[s] = g /\ pc[s] \in {"test", "wait", "relock"} /\ mysbp[s] = sbp
      <3>1. \A s \in Threads \ {t} : done[s] = g /\ pc[s] \in {"test", "wait", "relock"}
        BY <2>0 DEF Arrived
      <3> QED  BY <1>0, <3>1 DEF Phase, Here, Leaving
    <2>3. Arrived(g + 1)' = {}
      BY <1>8, <2>0, <2>2 DEF Arrived
    <2>4. \A b \in {0, 1} : runners'[b] = maxcnt
      BY <1>0, <1>8, <2>0 DEF Phase
    <2>5. sbp' \in {0, 1} /\ sbp' # sbp
      BY <1>8, <1>T DEF TypeOK
    <2>6. runners'[sbp'] + Cardinality(Arrived(g + 1)') = maxcnt
      BY <2>3, <2>4, <2>5, FS_EmptySet, MaxcntPositive
    <2>7. \A s \in Threads : Leaving(s, g + 1)'
      BY <1>8, <1>T, <2>0, <2>2, <2>5 DEF TypeOK, Leaving
    <2>8. pc'[t] = "bcast" /\ \A s \in Threads : mysbp'[s] = mysbp'[t] /\ pc'[s] # "switch"
      BY <1>8, <1>T, <2>0, <2>2 DEF TypeOK
    <2> QED  BY <2>1, <2>4, <2>6, <2>7, <2>8 DEF Phase
  <1>9. CASE Terminated
    <2>1. Phase(g)' <=> Phase(g)
      BY <1>9 DEF Terminated, vars, Phase, Here, Leaving, Arrived
    <2> QED  BY <1>0, <2>1
  <1>10. ASSUME NEW t \in Threads PROVE ~OnlyThreadArrives(t)
    BY DEF OnlyThreadArrives
  <1> QED
    BY <1>1, <1>2, <1>3, <1>4, <1>5, <1>6, <1>7, <1>8, <1>9, <1>10 DEF Next, ThreadStep
----------------------------------------------------------------------------
\* bar_wait keeps the inductive invariant.
THEOREM Invariance == Safe => []Inv
  <1>1. Inv /\ [Next]_vars => Inv'
    <2>1. ASSUME Inv, Next PROVE Inv'
      <3>1. TypeOK' /\ MutexInv' /\ CallsInv'
        BY <2>1, BaseStep
      <3>2. maxcnt = 1 => Alone'
        BY <2>1, AloneStep
      <3>3. maxcnt # 1 => \E g \in 0..Rounds : Phase(g)'
        BY <2>1, PhaseStep
      <3> QED  BY <3>1, <3>2, <3>3 DEF Inv
    <2>2. ASSUME Inv, UNCHANGED vars PROVE Inv'
      <3>1. TypeOK' /\ MutexInv' /\ CallsInv' /\ (maxcnt = 1 => Alone')
        BY <2>2 DEF Inv, vars, TypeOK, MutexInv, Owns, CallsInv, Alone
      <3>2. ASSUME NEW g \in 0..Rounds, Phase(g) PROVE Phase(g)'
        BY <2>2, <3>2 DEF vars, Phase, Here, Leaving, Arrived
      <3> QED  BY <2>2, <3>1, <3>2 DEF Inv
    <2> QED  BY <2>1, <2>2
  <1> QED  BY <1>1, InitInv, PTL DEF Safe

\* The invariant implies what a caller of bar_wait relies on.
LEMMA InvImpliesSafety ==
  ASSUME Inv PROVE Separation /\ FreshSbp /\ NoLostWakeup /\ NotLapped
  <1>T. TypeOK
    BY DEF Inv
  <1>1. CASE maxcnt = 1
    <2>1. PICK u : Threads = {u}
      BY <1>1, ThreadsAssumption, FS_Singleton DEF maxcnt
    <2>2. Separation
      BY <1>T, <2>1 DEF Separation, Begun, TypeOK
    <2>3. FreshSbp /\ NoLostWakeup /\ NotLapped
      BY <1>1, <2>1 DEF Inv, Alone, FreshSbp, NoLostWakeup, NotLapped
    <2> QED  BY <2>2, <2>3
  <1>2. CASE maxcnt # 1
    <2>1. PICK g \in 0..Rounds : Phase(g)
      BY <1>2 DEF Inv
    <2>2. Separation
      <3>1. ASSUME NEW s \in Threads, NEW t \in Threads PROVE done[t] <= Begun(s)
        <4>1. done[s] \in Nat /\ done[t] \in Nat /\ g \in Nat
          BY <1>T DEF TypeOK
        <4>2. done[t] <= g
          BY <2>1, <4>1 DEF Phase, Here, Leaving
        <4>3. g <= Begun(s)
          BY <2>1, <4>1 DEF Phase, Here, Leaving, Begun
        <4> QED  BY <4>1, <4>2, <4>3 DEF Begun
      <3> QED  BY <3>1 DEF Separation
    <2>3. FreshSbp
      BY <2>1 DEF Phase, Here, Leaving, FreshSbp
    <2>4. NotLapped
      BY <1>T, <2>1 DEF Phase, Here, Leaving, NotLapped, TypeOK
    <2>5. NoLostWakeup
      <3>1. ASSUME NEW t \in Threads, pc[t] = "wait", runners[mysbp[t]] = maxcnt
            PROVE  \E s \in Threads : pc[s] \in {"switch", "bcast"} /\ mysbp[s] = mysbp[t]
        <4>1. CASE Leaving(t, g)
          BY <2>1, <3>1, <4>1 DEF Phase
        <4>2. CASE Here(t, g)
          <5>1. mysbp[t] = sbp /\ t \in Arrived(g)
            BY <3>1, <4>2 DEF Here, Arrived
          <5>2. Cardinality(Arrived(g)) # 0 /\ Cardinality(Arrived(g)) \in Nat
            BY <5>1, ArrivedFinite, FS_EmptySet
          <5>3. PICK s \in Threads : pc[s] = "switch"
            BY <2>1, <3>1, <5>1, <5>2, MaxcntPositive DEF Phase
          <5>4. mysbp[s] = sbp
            BY <2>1, <5>3 DEF Phase, Here, Leaving
          <5> QED  BY <5>1, <5>3, <5>4
        <4> QED  BY <2>1, <4>1, <4>2 DEF Phase
      <3> QED  BY <3>1 DEF NoLostWakeup
    <2> QED  BY <2>2, <2>3, <2>4, <2>5
  <1> QED  BY <1>1, <1>2

\* The state of the barrier always has its type; in particular the counts of
\* runners never go below zero (barrier.c:36).
THEOREM TypeCorrect == Safe => []TypeOK
  <1>1. Inv => TypeOK
    BY DEF Inv
  <1> QED  BY <1>1, Invariance, PTL

\* No call of bar_wait returns before every thread has begun its call of the
\* same round.
THEOREM SeparationHolds == Safe => []Separation
  <1>1. Inv => Separation
    BY InvImpliesSafety
  <1> QED  BY <1>1, Invariance, PTL

\* The sub-barrier read without a lock at barrier.c:26 is current until the
\* thread has arrived there.
THEOREM FreshSbpHolds == Safe => []FreshSbp
  <1>1. Inv => FreshSbp
    BY InvImpliesSafety
  <1> QED  BY <1>1, Invariance, PTL

\* Nobody sleeps at a released sub-barrier without a broadcast to come.
THEOREM NoLostWakeupHolds == Safe => []NoLostWakeup
  <1>1. Inv => NoLostWakeup
    BY InvImpliesSafety
  <1> QED  BY <1>1, Invariance, PTL

\* Two threads at the same sub-barrier are in the same round.
THEOREM NotLappedHolds == Safe => []NotLapped
  <1>1. Inv => NotLapped
    BY InvImpliesSafety
  <1> QED  BY <1>1, Invariance, PTL

\* All of it together, for every set of threads and every number of rounds.
THEOREM BarrierSafeHolds == Safe => []BarrierSafe
  <1>1. Inv => BarrierSafe
    BY InvImpliesSafety DEF BarrierSafe
  <1> QED  BY <1>1, Invariance, PTL

----------------------------------------------------------------------------
\* Only the return from bar_wait is a Leave and only the read of bp->sbp an
\* Enter of the abstract barrier; every other step is invisible to it.
LEMMA StepRefines ==
  ASSUME Inv, [Next]_vars PROVE [Abstract!ANext]_(Abstract!avars)
  <1> USE DEF Goto
  <1>T. TypeOK
    BY DEF Inv
  <1>1. ASSUME NEW t \in Threads, ReadSbp(t) PROVE Abstract!AEnter(t)
    <2>1. done[t] \in Nat /\ \A s \in Threads : done[s] \in Nat
      BY <1>T DEF TypeOK
    <2>a. Begun(t)' = Begun(t) + 1
      BY <1>1, <1>T, <2>1 DEF ReadSbp, Begun, TypeOK
    <2>b. \A s \in Threads \ {t} : Begun(s)' = Begun(s)
      BY <1>1, <1>T, <2>1 DEF ReadSbp, Begun, TypeOK
    <2>2. [s \in Threads |-> Begun(s)]' = [[s \in Threads |-> Begun(s)] EXCEPT ![t] = @ + 1]
      BY <2>a, <2>b
    <2>3. Begun(t) = done[t] /\ done[t] < Rounds
      BY <1>1, <2>1 DEF ReadSbp, Begun
    <2> QED  BY <1>1, <2>2, <2>3 DEF Abstract!AEnter, ReadSbp
  <1>2. ASSUME NEW t \in Threads, Unlock(t) PROVE Abstract!ALeave(t)
    <2>1. \A s \in Threads : done[s] \in Nat
      BY <1>T DEF TypeOK
    <2>2. [s \in Threads |-> Begun(s)]' = [s \in Threads |-> Begun(s)]
      BY <1>2, <1>T, <2>1 DEF Unlock, Begun, TypeOK
    <2>3. done' = [done EXCEPT ![t] = @ + 1]
      BY <1>2 DEF Unlock
    <2>4. done[t] < Begun(t)
      BY <1>2, <2>1 DEF Unlock, Begun
    <2>5. \A s \in Threads : Begun(s) > done[t]
      <3>1. CASE maxcnt = 1
        <4>1. PICK u : Threads = {u}
          BY <3>1, ThreadsAssumption, FS_Singleton DEF maxcnt
        <4> QED  BY <2>1, <2>4, <4>1
      <3>2. CASE maxcnt # 1
        <4>1. PICK g \in 0..Rounds : Phase(g)
          BY <3>2 DEF Inv
        <4>2. done[t] + 1 = g
          BY <1>2, <4>1 DEF Unlock, Phase, Here, Leaving
        <4> QED  BY <2>1, <4>1, <4>2 DEF Phase, Here, Leaving, Begun
      <3> QED  BY <3>1, <3>2
    <2> QED  BY <2>2, <2>3, <2>4, <2>5 DEF Abstract!ALeave
  <1>3. ASSUME NEW t \in Threads,
               \/ Lock(t) \/ LastArrives(t) \/ SwitchSbp(t) \/ OnlyThreadArrives(t) \/ Arrives(t)
               \/ Wait(t) \/ StopWaiting(t) \/ Relock(t) \/ SpuriousWakeup(t)
        PROVE UNCHANGED Abstract!avars
    BY <1>3, <1>T DEF Lock, LastArrives, SwitchSbp, OnlyThreadArrives, Arrives, Wait,
       StopWaiting, Relock, SpuriousWakeup, Abstract!avars, Begun, TypeOK
  <1>4. ASSUME NEW t \in Threads, Broadcast(t) PROVE UNCHANGED Abstract!avars
    BY <1>4, <1>T DEF Broadcast, Abstract!avars, Begun, TypeOK
  <1>5. CASE Terminated \/ UNCHANGED vars
    BY <1>5 DEF Terminated, vars, Abstract!avars, Begun
  <1> QED
    BY <1>1, <1>2, <1>3, <1>4, <1>5 DEF Next, ThreadStep, Abstract!ANext

\* The two-sub-barrier implementation refines the abstract barrier (safety).
THEOREM BarrierRefines == Safe => Abstract!ASafe
  <1>1. Init => Abstract!AInit
    BY DEF Init, bar_init, Abstract!AInit, Begun
  <1>2. Inv /\ [Next]_vars => [Abstract!ANext]_(Abstract!avars)
    BY StepRefines
  <1> QED  BY <1>1, <1>2, Invariance, PTL DEF Safe, Abstract!ASafe

----------------------------------------------------------------------------
(* The FIFO. *)
FifoThreads == Writers \cup Readers

\* How many items are in the ring.
Filled == IF tail >= header THEN tail - header ELSE tail + buf_size - header
\* The slot of the k-th item from slot h on.
Slot(h, k) == IF h + k < buf_size THEN h + k ELSE h + k - buf_size

FifoTypeOK ==
  /\ ring \in [0..(buf_size - 1) -> Nat]
  /\ header \in 0..(buf_size - 1) /\ tail \in 0..(buf_size - 1)
  /\ fpc \in [FifoThreads -> {"out", "full", "empty", "woken"}]
  /\ put \in Seq(Nat) /\ got \in Seq(Nat)

\* Readers sleep on one condition and writers on the other.
SleepApart == \A t \in FifoThreads : /\ fpc[t] = "empty" => t \in Readers
                                     /\ fpc[t] = "full" => t \in Writers

\* FifoOrder item by item.
RingHolds ==
  /\ Len(put) = Len(got) + Filled
  /\ \A i \in 1..Len(got) : got[i] = put[i]
  /\ \A i \in (Len(got) + 1)..Len(put) : ring[Slot(header, i - Len(got) - 1)] = put[i]

WakersEnough ==
  /\ Asleep("empty") # {} => Filled <= Cardinality(Woken(Readers))
  /\ Asleep("full") # {} => buf_size - 1 - Filled <= Cardinality(Woken(Writers))

FifoInv == FifoTypeOK /\ SleepApart /\ RingHolds /\ WakersEnough

----------------------------------------------------------------------------
(* The arithmetic of the ring. *)

\* The next slot, fifo.c's (x+1)%buf_size, is in the ring.
LEMMA NextSlotIs ==
  ASSUME NEW i \in 0..(buf_size - 1)
  PROVE  /\ NextSlot(i) = IF i + 1 < buf_size THEN i + 1 ELSE 0
         /\ NextSlot(i) \in 0..(buf_size - 1)
  <1>1. buf_size \in Nat \ {0} /\ i + 1 \in 0..(2 * buf_size - 1)
    BY FifoAssumption
  <1>2. (i + 1) % buf_size = IF i + 1 < buf_size THEN i + 1 ELSE i + 1 - buf_size
    BY <1>1
  <1> QED  BY <1>1, <1>2 DEF NextSlot

\* What is between header and tail is a sequence, of one element less than the ring at most.
LEMMA ContentsIs ==
  ASSUME FifoTypeOK
  PROVE  /\ Filled \in 0..(buf_size - 1)
         /\ Contents = [i \in 1..Filled |-> ring[Slot(header, i - 1)]]
         /\ Contents \in Seq(Nat) /\ Len(Contents) = Filled
  <1>1. buf_size \in Nat \ {0, 1} /\ header \in 0..(buf_size - 1) /\ tail \in 0..(buf_size - 1)
    BY FifoAssumption DEF FifoTypeOK
  <1>2. tail + buf_size - header \in 0..(2 * buf_size - 1)
    BY <1>1
  <1>3. (tail + buf_size - header) % buf_size = Filled
    <2>1. (tail + buf_size - header) % buf_size =
            IF tail + buf_size - header < buf_size THEN tail + buf_size - header
            ELSE tail + buf_size - header - buf_size
      BY <1>1, <1>2
    <2> QED  BY <1>1, <2>1 DEF Filled
  <1>4. Filled \in 0..(buf_size - 1)
    BY <1>1 DEF Filled
  <1>5. ASSUME NEW i \in 1..Filled PROVE (header + i - 1) % buf_size = Slot(header, i - 1)
    <2>1. header + i - 1 \in 0..(2 * buf_size - 1)
      BY <1>1, <1>4
    <2>2. (header + i - 1) % buf_size =
            IF header + i - 1 < buf_size THEN header + i - 1 ELSE header + i - 1 - buf_size
      BY <1>1, <2>1
    <2> QED  BY <1>1, <1>4, <2>2 DEF Slot
  <1>6. Contents = [i \in 1..Filled |-> ring[Slot(header, i - 1)]]
    BY <1>3, <1>5 DEF Contents
  <1>7. \A i \in 1..Filled : Slot(header, i - 1) \in 0..(buf_size - 1)
    BY <1>1, <1>4 DEF Slot
  <1>8. \A i \in 1..Filled : ring[Slot(header, i - 1)] \in Nat
    BY <1>7 DEF FifoTypeOK
  <1> QED  BY <1>4, <1>6, <1>8

\* The order item by item is the order.
LEMMA HeldIsOrder == FifoInv => FifoSound
  <1> SUFFICES ASSUME FifoInv PROVE FifoSound
    OBVIOUS
  <1>1. Contents = [i \in 1..Filled |-> ring[Slot(header, i - 1)]] /\ Contents \in Seq(Nat)
        /\ Len(Contents) = Filled /\ Filled \in 0..(buf_size - 1)
    BY ContentsIs DEF FifoInv
  <1>2. got \in Seq(Nat) /\ put \in Seq(Nat) /\ Len(got) \in Nat /\ Len(put) = Len(got) + Filled
    BY DEF FifoInv, FifoTypeOK, RingHolds
  <1>3. got \o Contents \in Seq(Nat) /\ Len(got \o Contents) = Len(put)
    BY <1>1, <1>2
  <1>4. ASSUME NEW i \in 1..Len(put) PROVE (got \o Contents)[i] = put[i]
    <2>1. CASE i <= Len(got)
      <3>1. (got \o Contents)[i] = got[i]
        BY <1>1, <1>2, <2>1
      <3> QED  BY <1>2, <2>1, <3>1 DEF FifoInv, RingHolds
    <2>2. CASE i > Len(got)
      <3>1. i - Len(got) \in 1..Filled
        BY <1>1, <1>2, <2>2
      <3>2. (got \o Contents)[i] = Contents[i - Len(got)]
        BY <1>1, <1>2, <2>2
      <3>3. Contents[i - Len(got)] = ring[Slot(header, i - Len(got) - 1)]
        BY <1>1, <3>1
      <3>4. i \in (Len(got) + 1)..Len(put)
        BY <1>2, <2>2
      <3>5. ring[Slot(header, i - Len(got) - 1)] = put[i]
        BY <3>4 DEF FifoInv, RingHolds
      <3> QED  BY <3>2, <3>3, <3>5
    <2> QED  BY <1>1, <1>2, <2>1, <2>2
  <1>5. FifoOrder
    BY <1>2, <1>3, <1>4, SeqEqual DEF FifoOrder
  <1>6. SignalsEnough
    BY <1>1 DEF FifoInv, WakersEnough, SignalsEnough
  <1> QED  BY <1>5, <1>6 DEF FifoSound

----------------------------------------------------------------------------
(* A thread that goes to sleep, wakes up or leaves. *)

\* The threads that have been woken up can be counted.
LEMMA WokenFinite ==
  ASSUME NEW S, IsFiniteSet(S)
  PROVE  IsFiniteSet(Woken(S)) /\ Cardinality(Woken(S)) \in Nat
  <1>1. Woken(S) \subseteq S
    BY DEF Woken
  <1>2. IsFiniteSet(Woken(S))
    BY <1>1, FS_Subset
  <1> QED  BY <1>2, FS_CardinalityType

\* A thread t that leaves was not the only one woken.
LEMMA OneLeaves ==
  ASSUME NEW S, IsFiniteSet(S), NEW t
  PROVE  IsFiniteSet(S \ {t}) /\ Cardinality(S \ {t}) \in Nat
         /\ Cardinality(S \ {t}) >= Cardinality(S) - 1
  <1>1. IsFiniteSet(S \ {t}) /\ Cardinality(S) \in Nat
    BY FS_Subset, FS_CardinalityType
  <1>2. Cardinality(S \ {t}) \in Nat
    BY <1>1, FS_CardinalityType
  <1>3. CASE t \in S
    <2>1. Cardinality(S \ {t}) = Cardinality(S) - 1
      BY <1>3, FS_RemoveElement
    <2> QED  BY <1>1, <1>2, <2>1
  <1>4. CASE t \notin S
    <2>1. S \ {t} = S
      BY <1>4
    <2> QED  BY <1>1, <1>2, <2>1
  <1> QED  BY <1>3, <1>4

\* thr_cnd_signal, by a thread of O that is done, wakes one of those of S that sleep.
LEMMA SignalWakes ==
  ASSUME FifoTypeOK, SleepApart, NEW cond \in {"full", "empty"},
         NEW S \in {Writers, Readers}, NEW O \in {Writers, Readers}, S # O,
         NEW t \in O, fpc[t] \in {"out", "woken"}, Signal(t, cond),
         \A u \in FifoThreads : fpc[u] = cond => u \in S
  PROVE  /\ fpc' \in [FifoThreads -> {"out", "full", "empty", "woken"}] /\ SleepApart'
         /\ \A c \in {"full", "empty"} : Asleep(c)' \subseteq Asleep(c)
         /\ Asleep(cond)' # {} => Cardinality(Woken(S)') = Cardinality(Woken(S)) + 1
         /\ Cardinality(Woken(O)') >= Cardinality(Woken(O)) - 1
         /\ Cardinality(Woken(S)') \in Nat /\ Cardinality(Woken(O)') \in Nat
  <1>1. IsFiniteSet(S) /\ IsFiniteSet(O) /\ S \cap O = {} /\ S \subseteq FifoThreads /\ O \subseteq FifoThreads
    BY FifoAssumption DEF FifoThreads
  <1>2. /\ IsFiniteSet(Woken(S)) /\ Cardinality(Woken(S)) \in Nat
        /\ IsFiniteSet(Woken(O)) /\ Cardinality(Woken(O)) \in Nat
    BY <1>1, WokenFinite
  <1>3. /\ IsFiniteSet(Woken(O) \ {t}) /\ Cardinality(Woken(O) \ {t}) \in Nat
        /\ Cardinality(Woken(O) \ {t}) >= Cardinality(Woken(O)) - 1
    BY <1>2, OneLeaves
  <1>4. CASE Asleep(cond) = {}
    <2>1. fpc' = [fpc EXCEPT ![t] = "out"]
      BY <1>4 DEF Signal
    <2>2. \A u \in FifoThreads : fpc'[u] = IF u = t THEN "out" ELSE fpc[u]
      BY <1>1, <2>1 DEF FifoTypeOK
    <2>3. fpc' \in [FifoThreads -> {"out", "full", "empty", "woken"}]
      BY <2>1 DEF FifoTypeOK
    <2>4. SleepApart' /\ \A c \in {"full", "empty"} : Asleep(c)' \subseteq Asleep(c)
      BY <2>2 DEF SleepApart, Asleep, FifoThreads
    <2>5. Woken(S)' = Woken(S) /\ Woken(O)' = Woken(O) \ {t}
      BY <1>1, <2>2 DEF Woken
    <2> QED  BY <1>2, <1>3, <1>4, <2>3, <2>4, <2>5
  <1>5. CASE Asleep(cond) # {}
    <2>1. PICK s \in Asleep(cond) : fpc' = [fpc EXCEPT ![t] = "out", ![s] = "woken"]
      BY <1>5 DEF Signal
    <2>2. s \in S /\ s \in FifoThreads /\ fpc[s] = cond /\ s # t
      BY <1>1 DEF Asleep, FifoThreads
    <2>3. fpc' \in [FifoThreads -> {"out", "full", "empty", "woken"}]
      BY <2>1, <2>2 DEF FifoTypeOK
    <2>4. \A u \in FifoThreads : fpc'[u] = IF u = s THEN "woken" ELSE IF u = t THEN "out" ELSE fpc[u]
      BY <1>1, <2>1, <2>2 DEF FifoTypeOK
    <2>5. SleepApart' /\ \A c \in {"full", "empty"} : Asleep(c)' \subseteq Asleep(c)
      BY <2>4 DEF SleepApart, Asleep, FifoThreads
    <2>6. Woken(S)' = Woken(S) \cup {s} /\ s \notin Woken(S) /\ Woken(O)' = Woken(O) \ {t}
      BY <1>1, <2>2, <2>4 DEF Woken
    <2>7. Cardinality(Woken(S)') = Cardinality(Woken(S)) + 1
      BY <1>2, <2>6, FS_AddElement
    <2> QED  BY <1>2, <1>3, <2>3, <2>5, <2>6, <2>7
  <1> QED  BY <1>4, <1>5

\* A thread that goes to sleep, or wakes up for no reason, alone.
LEMMA OneMoves ==
  ASSUME FifoTypeOK, SleepApart, NEW t \in FifoThreads, NEW p \in {"full", "empty", "woken"},
         fpc' = [fpc EXCEPT ![t] = p],
         p = "full" => t \in Writers, p = "empty" => t \in Readers
  PROVE  /\ fpc' \in [FifoThreads -> {"out", "full", "empty", "woken"}] /\ SleepApart'
         /\ \A u \in FifoThreads : fpc'[u] = IF u = t THEN p ELSE fpc[u]
  <1>1. fpc' \in [FifoThreads -> {"out", "full", "empty", "woken"}]
    BY DEF FifoTypeOK
  <1>2. \A u \in FifoThreads : fpc'[u] = IF u = t THEN p ELSE fpc[u]
    BY DEF FifoTypeOK
  <1> QED  BY <1>1, <1>2 DEF SleepApart

----------------------------------------------------------------------------
\* fifo_init leaves an empty ring, with nobody asleep.
LEMMA FifoInitInv == FifoInit => FifoInv
  <1> SUFFICES ASSUME FifoInit PROVE FifoInv
    OBVIOUS
  <1>1. FifoTypeOK /\ SleepApart
    BY FifoAssumption DEF FifoInit, FifoTypeOK, SleepApart, FifoThreads
  <1>2. RingHolds
    BY FifoAssumption DEF FifoInit, RingHolds, Filled
  <1>3. WakersEnough
    BY DEF FifoInit, WakersEnough, Asleep
  <1> QED  BY <1>1, <1>2, <1>3 DEF FifoInv

\* fifo_enqueue, and its wake-up of the readers when the ring was empty.
LEMMA FifoEnqueue ==
  ASSUME FifoInv, NEW t \in FifoThreads, fifo_enqueue(t)
  PROVE  FifoInv'
  <1> USE DEF FifoInv
  <1>1. /\ buf_size \in Nat \ {0, 1} /\ header \in 0..(buf_size - 1) /\ tail \in 0..(buf_size - 1)
        /\ header' = header /\ got' = got /\ put \in Seq(Nat) /\ got \in Seq(Nat)
        /\ Len(got) \in Nat /\ Len(put) \in Nat /\ ring \in [0..(buf_size - 1) -> Nat]
    BY FifoAssumption DEF FifoTypeOK, fifo_enqueue
  <1>2. NextSlot(tail) = (IF tail + 1 < buf_size THEN tail + 1 ELSE 0) /\ tail' = NextSlot(tail)
        /\ NextSlot(tail) # header
    BY <1>1, NextSlotIs DEF fifo_enqueue
  <1>3. Filled' = Filled + 1 /\ Filled \in 0..(buf_size - 2) /\ tail' \in 0..(buf_size - 1)
    BY <1>1, <1>2 DEF Filled
  <1>4. /\ put' = Append(put, Len(put) + 1) /\ put' \in Seq(Nat) /\ Len(put') = Len(put) + 1
        /\ ring' = [ring EXCEPT ![tail] = Len(put) + 1] /\ ring' \in [0..(buf_size - 1) -> Nat]
    BY <1>1 DEF fifo_enqueue
  <1>5. RingHolds'
    <2>0. Len(put) = Len(got) + Filled
      BY DEF RingHolds
    <2>1. Len(put') = Len(got') + Filled'
      BY <1>1, <1>3, <1>4, <2>0
    <2>2. \A i \in 1..Len(got') : got'[i] = put'[i]
      <3>1. Len(got) <= Len(put)
        BY <1>1, <1>3 DEF RingHolds
      <3> QED  BY <1>1, <1>4, <3>1 DEF RingHolds
    <2>3. ASSUME NEW i \in (Len(got') + 1)..Len(put')
          PROVE  ring'[Slot(header', i - Len(got') - 1)] = put'[i]
      <3>1. CASE i = Len(put) + 1
        <4>1. Slot(header', i - Len(got') - 1) = tail
          BY <1>1, <2>0, <3>1 DEF Slot, Filled
        <4> QED  BY <1>1, <1>4, <3>1, <4>1
      <3>2. CASE i # Len(put) + 1
        <4>1. i \in (Len(got) + 1)..Len(put)
          BY <1>1, <1>4, <3>2
        <4>2. Slot(header', i - Len(got') - 1) = Slot(header, i - Len(got) - 1)
          BY <1>1 DEF Slot
        <4>8. i - Len(got) - 1 \in 0..(Filled - 1)
          BY <1>1, <1>3, <2>0, <4>1
        <4>3. Slot(header, i - Len(got) - 1) # tail
          BY <1>1, <4>8 DEF Slot, Filled
        <4>4. Slot(header, i - Len(got) - 1) \in 0..(buf_size - 1)
          <5>1. PICK k \in 0..(Filled - 1) : k = i - Len(got) - 1
            BY <4>8
          <5>4. k \in 0..(buf_size - 1)
            BY <1>1, <1>3
          <5>2. buf_size \in Nat /\ header \in 0..(buf_size - 1)
            BY <1>1
          <5>3. Slot(header, k) \in 0..(buf_size - 1)
            BY <5>2, <5>4 DEF Slot
          <5> QED  BY <5>1, <5>3
        <4>5. ring'[Slot(header, i - Len(got) - 1)] = ring[Slot(header, i - Len(got) - 1)]
          BY <1>1, <1>4, <4>3, <4>4
        <4>6. ring[Slot(header, i - Len(got) - 1)] = put[i]
          BY <4>1 DEF RingHolds
        <4>7. put'[i] = put[i]
          BY <1>1, <1>4, <4>1
        <4> QED  BY <4>2, <4>5, <4>6, <4>7
      <3> QED  BY <3>1, <3>2
    <2> QED  BY <2>1, <2>2, <2>3 DEF RingHolds
  <1>6. /\ fpc' \in [FifoThreads -> {"out", "full", "empty", "woken"}] /\ SleepApart'
        /\ \A c \in {"full", "empty"} : Asleep(c)' \subseteq Asleep(c)
        /\ Asleep("empty")' # {} => Cardinality(Woken(Readers)') = Cardinality(Woken(Readers)) + 1
        /\ Cardinality(Woken(Writers)') >= Cardinality(Woken(Writers)) - 1
        /\ Cardinality(Woken(Readers)') \in Nat /\ Cardinality(Woken(Writers)') \in Nat
    <2>1. t \in Writers /\ Readers # Writers /\ fpc[t] \in {"out", "woken"} /\ Signal(t, "empty")
      BY FifoAssumption DEF fifo_enqueue
    <2>2. \A u \in FifoThreads : fpc[u] = "empty" => u \in Readers
      BY DEF SleepApart
    <2> QED  BY <2>1, <2>2, SignalWakes
  <1>7. Cardinality(Woken(Readers)) \in Nat /\ Cardinality(Woken(Writers)) \in Nat
    BY WokenFinite, FifoAssumption
  <1>8. WakersEnough'
    <2>1. Asleep("empty")' # {} => Filled' <= Cardinality(Woken(Readers)')
      <3>1. Asleep("empty")' # {} => Filled <= Cardinality(Woken(Readers))
        BY <1>6 DEF WakersEnough
      <3> QED  BY <1>3, <1>6, <1>7, <3>1
    <2>2. Asleep("full")' # {} => buf_size - 1 - Filled' <= Cardinality(Woken(Writers)')
      <3>1. Asleep("full")' # {} => buf_size - 1 - Filled <= Cardinality(Woken(Writers))
        BY <1>6 DEF WakersEnough
      <3> QED  BY <1>1, <1>3, <1>6, <1>7, <3>1
    <2> QED  BY <2>1, <2>2 DEF WakersEnough
  <1>9. FifoTypeOK'
    BY <1>1, <1>3, <1>4, <1>6 DEF FifoTypeOK
  <1> QED  BY <1>5, <1>6, <1>8, <1>9

\* fifo_dequeue, and its wake-up of the writers when the ring was full.
LEMMA FifoDequeue ==
  ASSUME FifoInv, NEW t \in FifoThreads, fifo_dequeue(t)
  PROVE  FifoInv'
  <1> USE DEF FifoInv
  <1>1. /\ buf_size \in Nat \ {0, 1} /\ header \in 0..(buf_size - 1) /\ tail \in 0..(buf_size - 1)
        /\ tail' = tail /\ put' = put /\ ring' = ring /\ put \in Seq(Nat) /\ got \in Seq(Nat)
        /\ Len(got) \in Nat /\ Len(put) \in Nat /\ ring \in [0..(buf_size - 1) -> Nat]
        /\ tail # header
    BY FifoAssumption DEF FifoTypeOK, fifo_dequeue
  <1>2. NextSlot(header) = (IF header + 1 < buf_size THEN header + 1 ELSE 0) /\ header' = NextSlot(header)
    BY <1>1, NextSlotIs DEF fifo_dequeue
  <1>3. Filled' = Filled - 1 /\ Filled \in 1..(buf_size - 1) /\ header' \in 0..(buf_size - 1)
    BY <1>1, <1>2 DEF Filled
  <1>4. got' = Append(got, ring[header]) /\ got' \in Seq(Nat) /\ Len(got') = Len(got) + 1
    BY <1>1 DEF fifo_dequeue
  <1>5. RingHolds'
    <2>0. Len(put) = Len(got) + Filled
      BY DEF RingHolds
    <2>1. Len(put') = Len(got') + Filled'
      BY <1>1, <1>3, <1>4, <2>0
    <2>2. ring[header] = put[Len(got) + 1]
      <3>1. Len(got) + 1 \in (Len(got) + 1)..Len(put)
        BY <1>1, <1>3, <2>0
      <3>2. ring[Slot(header, Len(got) + 1 - Len(got) - 1)] = put[Len(got) + 1]
        BY <3>1 DEF RingHolds
      <3>3. Slot(header, Len(got) + 1 - Len(got) - 1) = header
        BY <1>1 DEF Slot
      <3> QED  BY <3>2, <3>3
    <2>3. \A i \in 1..Len(got') : got'[i] = put'[i]
      <3>1. \A i \in 1..Len(got) : got[i] = put[i]
        BY DEF RingHolds
      <3>2. \A i \in 1..Len(got) : got'[i] = got[i]
        BY <1>1, <1>4, AppendProperties
      <3>3. got'[Len(got) + 1] = ring[header]
        BY <1>1, <1>4
      <3>4. \A i \in 1..Len(got') : i \in 1..Len(got) \/ i = Len(got) + 1
        <4>1. Len(got) \in Nat /\ Len(got') = Len(got) + 1
          BY <1>1, <1>4
        <4> QED  BY <4>1
      <3> QED  BY <1>1, <2>2, <3>1, <3>2, <3>3, <3>4
    <2>4. ASSUME NEW i \in (Len(got') + 1)..Len(put')
          PROVE  ring'[Slot(header', i - Len(got') - 1)] = put'[i]
      <3>1. i \in (Len(got) + 1)..Len(put) /\ i > Len(got) + 1
        BY <1>1, <1>4
      <3>2. Slot(header', i - Len(got') - 1) = Slot(header, i - Len(got) - 1)
        <4>1. /\ i - Len(got) - 1 \in 1..(buf_size - 1)
              /\ i - Len(got') - 1 = (i - Len(got) - 1) - 1
          BY <1>1, <1>3, <1>4, <2>0, <3>1
        <4>2. \A k \in 1..(buf_size - 1) : Slot(header', k - 1) = Slot(header, k)
          BY <1>1, <1>2 DEF Slot
        <4> QED  BY <4>1, <4>2
      <3>3. ring[Slot(header, i - Len(got) - 1)] = put[i]
        BY <3>1 DEF RingHolds
      <3> QED  BY <1>1, <3>2, <3>3
    <2> QED  BY <2>1, <2>3, <2>4 DEF RingHolds
  <1>6. /\ fpc' \in [FifoThreads -> {"out", "full", "empty", "woken"}] /\ SleepApart'
        /\ \A c \in {"full", "empty"} : Asleep(c)' \subseteq Asleep(c)
        /\ Asleep("full")' # {} => Cardinality(Woken(Writers)') = Cardinality(Woken(Writers)) + 1
        /\ Cardinality(Woken(Readers)') >= Cardinality(Woken(Readers)) - 1
        /\ Cardinality(Woken(Readers)') \in Nat /\ Cardinality(Woken(Writers)') \in Nat
    <2>1. t \in Readers /\ Readers # Writers /\ fpc[t] \in {"out", "woken"} /\ Signal(t, "full")
      BY FifoAssumption DEF fifo_dequeue
    <2>2. \A u \in FifoThreads : fpc[u] = "full" => u \in Writers
      BY DEF SleepApart
    <2> QED  BY <2>1, <2>2, SignalWakes
  <1>7. Cardinality(Woken(Readers)) \in Nat /\ Cardinality(Woken(Writers)) \in Nat
    BY WokenFinite, FifoAssumption
  <1>8. WakersEnough'
    <2>1. Asleep("empty")' # {} => Filled' <= Cardinality(Woken(Readers)')
      <3>1. Asleep("empty")' # {} => Filled <= Cardinality(Woken(Readers))
        BY <1>6 DEF WakersEnough
      <3> QED  BY <1>3, <1>6, <1>7, <3>1
    <2>2. Asleep("full")' # {} => buf_size - 1 - Filled' <= Cardinality(Woken(Writers)')
      <3>1. Asleep("full")' # {} => buf_size - 1 - Filled <= Cardinality(Woken(Writers))
        BY <1>6 DEF WakersEnough
      <3> QED  BY <1>1, <1>3, <1>6, <1>7, <3>1
    <2> QED  BY <2>1, <2>2 DEF WakersEnough
  <1>9. FifoTypeOK'
    BY <1>1, <1>3, <1>4, <1>6 DEF FifoTypeOK
  <1> QED  BY <1>5, <1>6, <1>8, <1>9

\* A thread that falls asleep, or wakes up for no reason: the ring stays as it is.
LEMMA FifoSleepOrWake ==
  ASSUME FifoInv, NEW t \in FifoThreads, FullWait(t) \/ EmptyWait(t) \/ FifoSpurious(t)
  PROVE  FifoInv'
  <1> USE DEF FifoInv
  <1>1. UNCHANGED <<ring, header, tail, put, got>>
    BY DEF FullWait, EmptyWait, FifoSpurious
  <1>2. PICK p \in {"full", "empty", "woken"} :
          /\ fpc' = [fpc EXCEPT ![t] = p]
          /\ p = "full" => t \in Writers /\ NextSlot(tail) = header /\ fpc[t] \in {"out", "woken"}
          /\ p = "empty" => t \in Readers /\ tail = header /\ fpc[t] \in {"out", "woken"}
          /\ p = "woken" => fpc[t] \in {"full", "empty"}
    BY DEF FullWait, EmptyWait, FifoSpurious
  <1>3. /\ fpc' \in [FifoThreads -> {"out", "full", "empty", "woken"}] /\ SleepApart'
        /\ \A u \in FifoThreads : fpc'[u] = IF u = t THEN p ELSE fpc[u]
    BY <1>2, OneMoves
  <1>4. RingHolds' /\ FifoTypeOK' /\ Filled' = Filled
    BY <1>1, <1>3 DEF RingHolds, FifoTypeOK, Filled, Slot
  <1>5. /\ IsFiniteSet(Woken(Readers)) /\ Cardinality(Woken(Readers)) \in Nat
        /\ IsFiniteSet(Woken(Writers)) /\ Cardinality(Woken(Writers)) \in Nat
    BY WokenFinite, FifoAssumption
  <1>6. buf_size \in Nat \ {0, 1} /\ header \in 0..(buf_size - 1) /\ tail \in 0..(buf_size - 1)
    BY FifoAssumption DEF FifoTypeOK
  <1>7. CASE p = "woken"
    <2>1. \A c \in {"full", "empty"} : Asleep(c)' \subseteq Asleep(c)
      BY <1>3, <1>7 DEF Asleep, FifoThreads
    <2>2. ASSUME NEW S \in {Readers, Writers}
          PROVE  Cardinality(Woken(S)') \in Nat /\ Cardinality(Woken(S)') >= Cardinality(Woken(S))
      <3>1. Woken(S)' = Woken(S) \cup (IF t \in S THEN {t} ELSE {}) /\ t \notin Woken(S)
        BY <1>2, <1>3, <1>7 DEF Woken, FifoThreads
      <3>2. IsFiniteSet(Woken(S)) /\ Cardinality(Woken(S)) \in Nat
        BY <1>5
      <3>3. CASE t \in S
        <4>1. Cardinality(Woken(S) \cup {t}) = Cardinality(Woken(S)) + 1
          BY <3>1, <3>2, FS_AddElement
        <4> QED  BY <3>1, <3>2, <3>3, <4>1
      <3>4. CASE t \notin S
        <4>1. Woken(S)' = Woken(S)
          BY <3>1, <3>4
        <4> QED  BY <3>2, <4>1
      <3> QED  BY <3>3, <3>4
    <2>3. Filled \in Nat
      BY <1>6 DEF Filled
    <2>4. Asleep("empty")' # {} => Filled <= Cardinality(Woken(Readers))
      BY <2>1 DEF WakersEnough
    <2>5. Asleep("full")' # {} => buf_size - 1 - Filled <= Cardinality(Woken(Writers))
      BY <2>1 DEF WakersEnough
    <2>6. Asleep("empty")' # {} => Filled' <= Cardinality(Woken(Readers)')
      BY <1>4, <1>5, <2>2, <2>3, <2>4
    <2>7. Asleep("full")' # {} => buf_size - 1 - Filled' <= Cardinality(Woken(Writers)')
      BY <1>4, <1>5, <1>6, <2>2, <2>3, <2>5
    <2>8. WakersEnough'
      BY <2>6, <2>7 DEF WakersEnough
    <2> QED  BY <1>3, <1>4, <2>8
  <1>8. CASE p = "empty"
    <2>1. Filled = 0
      BY <1>2, <1>6, <1>8 DEF Filled
    <2>2. Woken(Writers)' = Woken(Writers) /\ Asleep("full")' = Asleep("full")
      BY <1>2, <1>3, <1>8, FifoAssumption DEF Woken, Asleep, FifoThreads
    <2>3. IsFiniteSet(Woken(Readers)')
      <3>1. Woken(Readers)' \subseteq Readers
        BY DEF Woken
      <3> QED  BY <3>1, FS_Subset, FifoAssumption
    <2>4. Cardinality(Woken(Readers)') \in Nat
      BY <2>3, FS_CardinalityType
    <2>5. WakersEnough'
      BY <1>4, <2>1, <2>2, <2>4 DEF WakersEnough
    <2> QED  BY <1>3, <1>4, <2>5
  <1>9. CASE p = "full"
    <2>1. Filled = buf_size - 1
      <3>1. NextSlot(tail) = IF tail + 1 < buf_size THEN tail + 1 ELSE 0
        BY <1>6, NextSlotIs
      <3> QED  BY <1>2, <1>6, <1>9, <3>1 DEF Filled
    <2>2. Woken(Readers)' = Woken(Readers) /\ Asleep("empty")' = Asleep("empty")
      BY <1>2, <1>3, <1>9, FifoAssumption DEF Woken, Asleep, FifoThreads
    <2>3. IsFiniteSet(Woken(Writers)')
      <3>1. Woken(Writers)' \subseteq Writers
        BY DEF Woken
      <3> QED  BY <3>1, FS_Subset, FifoAssumption
    <2>4. Cardinality(Woken(Writers)') \in Nat
      BY <2>3, FS_CardinalityType
    <2>5. buf_size - 1 - Filled' = 0
      BY <1>4, <1>6, <2>1
    <2>6. WakersEnough'
      BY <1>4, <2>2, <2>4, <2>5 DEF WakersEnough
    <2> QED  BY <1>3, <1>4, <2>6
  <1> QED  BY <1>7, <1>8, <1>9

\* Every step of the two sides keeps the invariant.
LEMMA FifoStepInv == FifoInv /\ [FifoNext]_fifo => FifoInv'
  <1> SUFFICES ASSUME FifoInv, [FifoNext]_fifo PROVE FifoInv'
    OBVIOUS
  <1>1. CASE FifoNext
    <2>1. PICK t \in FifoThreads : FifoStep(t) \/ FifoSpurious(t)
      BY <1>1 DEF FifoNext, FifoThreads
    <2> QED  BY <2>1, FifoEnqueue, FifoDequeue, FifoSleepOrWake DEF FifoStep
  <1>2. CASE UNCHANGED fifo
    BY <1>2 DEF fifo, FifoInv, FifoTypeOK, SleepApart, RingHolds, WakersEnough, Filled, Slot, Asleep, Woken
  <1> QED  BY <1>1, <1>2

\* fifo_enqueue and fifo_dequeue, with any number of threads on both ends and a ring of
\* any size: what is read is what was written, in order, and nobody sleeps on while there
\* is something for it to do that no woken thread will take.
THEOREM FifoIsSound == FifoSpec => []FifoSound
  <1>1. FifoInit => FifoInv
    BY FifoInitInv
  <1>2. FifoInv /\ [FifoNext]_fifo => FifoInv'
    BY FifoStepInv
  <1>3. FifoInv => FifoSound
    BY HeldIsOrder
  <1> QED  BY <1>1, <1>2, <1>3, PTL DEF FifoSpec

-----------------------------------------------------------------------------
(* The semaphore. *)
Places == {"out", "asleep", "woken", "in"}

\* SemAccounts with the types that make it inductive.  Neither waiters nor pendings has a
\* sign: a spurious wake-up is counted in both with opposite signs.
SemInv ==
  /\ value \in Nat /\ waiters \in Int /\ pendings \in Int
  /\ sem \in [SemThreads -> Places]
  /\ SemAccounts

\* A thread that moves changes the number of waiters by one or not at all.
LEMMA Moved ==
  ASSUME SemInv, NEW t \in SemThreads, NEW p \in Places, sem' = [sem EXCEPT ![t] = p]
  PROVE  /\ Cardinality(SemWaiting) \in Nat
         /\ sem' \in [SemThreads -> Places]
         /\ t \in SemWaiting /\ p \in {"asleep", "woken"} =>
              Cardinality(SemWaiting') = Cardinality(SemWaiting)
         /\ t \in SemWaiting /\ p \in {"out", "in"} =>
              Cardinality(SemWaiting') = Cardinality(SemWaiting) - 1
         /\ t \notin SemWaiting /\ p \in {"asleep", "woken"} =>
              Cardinality(SemWaiting') = Cardinality(SemWaiting) + 1
         /\ t \notin SemWaiting /\ p \in {"out", "in"} =>
              Cardinality(SemWaiting') = Cardinality(SemWaiting)
  <1>1. SemWaiting \subseteq SemThreads /\ IsFiniteSet(SemWaiting)
    BY SemAssumption, FS_Subset DEF SemWaiting
  <1>2. sem' \in [SemThreads -> Places]
    BY DEF SemInv
  <1>3. p \in {"asleep", "woken"} => SemWaiting' = SemWaiting \cup {t}
    BY DEF SemWaiting, SemInv
  <1>4. p \in {"out", "in"} => SemWaiting' = SemWaiting \ {t}
    BY DEF SemWaiting, SemInv
  <1>5. Cardinality(SemWaiting) \in Nat
    BY <1>1, FS_CardinalityType
  <1>6. t \in SemWaiting => SemWaiting \cup {t} = SemWaiting
    OBVIOUS
  <1>7. t \notin SemWaiting => SemWaiting \ {t} = SemWaiting
    OBVIOUS
  <1>8. t \notin SemWaiting => Cardinality(SemWaiting \cup {t}) = Cardinality(SemWaiting) + 1
    BY <1>1, FS_AddElement
  <1>9. t \in SemWaiting => Cardinality(SemWaiting \ {t}) = Cardinality(SemWaiting) - 1
    BY <1>1, FS_RemoveElement
  <1> QED  BY <1>2, <1>3, <1>4, <1>5, <1>6, <1>7, <1>8, <1>9

\* mysem_init: nobody waits.
LEMMA SemInitInv == SemInit => SemInv
  <1> SUFFICES ASSUME SemInit PROVE SemInv
    OBVIOUS
  <1>1. SemWaiting = {}
    BY DEF SemInit, SemWaiting
  <1>2. Cardinality(SemWaiting) = 0
    BY <1>1, FS_EmptySet
  <1> QED  BY <1>2, SemAssumption DEF SemInit, SemInv, SemAccounts, Places

\* mysem_P, mysem_V and a wake-up keep the account of the semaphore.
LEMMA SemStep ==
  ASSUME SemInv, [SemNext]_semaphore PROVE SemInv'
  <1>1. ASSUME NEW t \in SemThreads, mysem_P(t) PROVE SemInv'
    <2>1. t \notin SemWaiting /\ "asleep" \in Places /\ "in" \in Places
      BY <1>1 DEF mysem_P, SemWaiting, Places
    <2>2. CASE Sleep(t)
      <3>1. sem' = [sem EXCEPT ![t] = "asleep"] /\ value' = value /\ waiters' = waiters + 1
            /\ pendings' = pendings
        BY <1>1, <2>2 DEF mysem_P, Sleep
      <3>2. /\ sem' \in [SemThreads -> Places] /\ Cardinality(SemWaiting) \in Nat
            /\ Cardinality(SemWaiting') = Cardinality(SemWaiting) + 1
        BY <2>1, <3>1, Moved
      <3> QED  BY <3>1, <3>2 DEF SemInv, SemAccounts
    <2>3. CASE Enter(t) /\ value > 0
      <3>1. sem' = [sem EXCEPT ![t] = "in"] /\ value' = value - 1 /\ waiters' = waiters
            /\ pendings' = pendings
        BY <1>1, <2>3 DEF mysem_P, Enter
      <3>2. /\ sem' \in [SemThreads -> Places] /\ Cardinality(SemWaiting) \in Nat
            /\ Cardinality(SemWaiting') = Cardinality(SemWaiting)
        BY <2>1, <3>1, Moved
      <3> QED  BY <2>3, <3>1, <3>2 DEF SemInv, SemAccounts
    <2> QED  BY <1>1, <2>2, <2>3 DEF mysem_P, SemInv
  <1>2. ASSUME NEW t \in SemThreads, mysem_P_again(t) PROVE SemInv'
    <2>1. t \in SemWaiting /\ "asleep" \in Places /\ "in" \in Places
      BY <1>2 DEF mysem_P_again, SemWaiting, Places
    <2>2. CASE Sleep(t)
      <3>1. sem' = [sem EXCEPT ![t] = "asleep"] /\ value' = value /\ waiters' = waiters + 1
            /\ pendings' = pendings - 1
        BY <1>2, <2>2 DEF mysem_P_again, Sleep
      <3>2. /\ sem' \in [SemThreads -> Places] /\ Cardinality(SemWaiting) \in Nat
            /\ Cardinality(SemWaiting') = Cardinality(SemWaiting)
        BY <2>1, <3>1, Moved
      <3> QED  BY <3>1, <3>2 DEF SemInv, SemAccounts
    <2>3. CASE Enter(t) /\ value > 0
      <3>1. sem' = [sem EXCEPT ![t] = "in"] /\ value' = value - 1 /\ waiters' = waiters
            /\ pendings' = pendings - 1
        BY <1>2, <2>3 DEF mysem_P_again, Enter
      <3>2. /\ sem' \in [SemThreads -> Places] /\ Cardinality(SemWaiting) \in Nat
            /\ Cardinality(SemWaiting') = Cardinality(SemWaiting) - 1
        BY <2>1, <3>1, Moved
      <3> QED  BY <2>3, <3>1, <3>2 DEF SemInv, SemAccounts
    <2> QED  BY <1>2, <2>2, <2>3 DEF mysem_P_again, SemInv
  <1>3. ASSUME NEW t \in SemThreads, mysem_V(t) PROVE SemInv'
    <2>1. value' \in Nat /\ waiters' \in Int /\ pendings' \in Int
          /\ waiters' + pendings' = waiters + pendings
      BY <1>3 DEF mysem_V, SemInv
    <2>2. sem' \in [SemThreads -> Places] /\ SemWaiting' = SemWaiting
      <3>1. CASE sem' = [sem EXCEPT ![t] = "out"]
        BY <1>3, <3>1 DEF mysem_V, SemWaiting, Places, SemInv
      <3>2. ASSUME NEW s \in SemThreads, sem[s] = "asleep",
                   sem' = [sem EXCEPT ![t] = "out", ![s] = "woken"]
            PROVE  sem' \in [SemThreads -> Places] /\ SemWaiting' = SemWaiting
        BY <1>3, <3>2 DEF mysem_V, SemWaiting, Places, SemInv
      <3> QED  BY <1>3, <3>1, <3>2 DEF mysem_V
    <2>3. Cardinality(SemWaiting') = Cardinality(SemWaiting)
      BY <2>2
    <2>4. waiters + pendings = Cardinality(SemWaiting)
      BY DEF SemInv, SemAccounts
    <2>5. waiters' + pendings' = Cardinality(SemWaiting')
      BY <2>1, <2>3, <2>4
    <2>6. value' >= 0
      BY <2>1
    <2> QED  BY <2>1, <2>2, <2>5, <2>6 DEF SemInv, SemAccounts
  <1>4. ASSUME NEW t \in SemThreads, SemSpurious(t) PROVE SemInv'
    <2>1. t \in SemWaiting /\ "woken" \in Places
      BY <1>4 DEF SemSpurious, SemWaiting, Places
    <2>2. /\ sem' \in [SemThreads -> Places]
          /\ Cardinality(SemWaiting') = Cardinality(SemWaiting)
      BY <1>4, <2>1, Moved DEF SemSpurious
    <2> QED  BY <1>4, <2>2 DEF SemSpurious, SemInv, SemAccounts
  <1>5. CASE UNCHANGED semaphore
    BY <1>5 DEF semaphore, SemWaiting, SemInv, SemAccounts
  <1> QED  BY <1>1, <1>2, <1>3, <1>4, <1>5 DEF SemNext

\* The semaphore never lets more threads in than it has been posted for, and waiters +
\* pendings is the number of threads that wait (sem.c:64-104).
THEOREM SemAccountsHolds == SemSpec => []SemAccounts
  <1>1. SemInv => SemAccounts
    BY DEF SemInv
  <1> QED  BY <1>1, SemInitInv, SemStep, PTL DEF SemSpec
=============================================================================
