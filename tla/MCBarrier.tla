----------------------------- MODULE MCBarrier -----------------------------
(***************************************************************************)
(* Barrier for TLC: a barrier of one thread, which takes a branch of its   *)
(* own, runs to its end, and then one of four.                             *)
(***************************************************************************)
EXTENDS Barrier

CONSTANTS t1, t2, t3, t4

FourThreads == {t1, t2, t3, t4}

VARIABLES sbp1, runners1, wait_lk1, pc1, mysbp1, done1, spurious1
vars1 == <<sbp1, runners1, wait_lk1, pc1, mysbp1, done1, spurious1>>

Solo == INSTANCE Barrier WITH
  Threads <- {t1}, sbp <- sbp1, runners <- runners1, wait_lk <- wait_lk1, pc <- pc1,
  mysbp <- mysbp1, done <- done1, spurious <- spurious1

SoloOver == pc1[t1] = "out" /\ done1[t1] = Rounds

BothInit == Init /\ Solo!Init
BothNext == \/ ~SoloOver /\ Solo!Next /\ UNCHANGED vars
            \/ SoloOver /\ Next /\ UNCHANGED vars1
BothSpec ==
  /\ BothInit /\ [][BothNext]_<<vars, vars1>>
  /\ WF_vars1(Solo!ThreadStep(t1)) /\ \A t \in Threads : WF_vars(SoloOver /\ ThreadStep(t))

\* The only thread of a barrier of count 1 returns from all its calls (barrier.c:31-39).
SoloReturns == Solo!AllReturn

\* With a fair scheduler every call of bar_wait returns, to one thread alone as to
\* one of four.
EveryCallReturns == AllReturn /\ SoloReturns
=============================================================================
