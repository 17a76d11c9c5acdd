------------------------- MODULE CollectivesProofs -------------------------
(***************************************************************************)
(* One node of a machine at a time is in the collectives of NETD, for any  *)
(* number of machines and nodes and any program in which no broadcast      *)
(* overlaps a reduction.                                                   *)
(***************************************************************************)
EXTENDS Collectives, SequenceTheorems, WellFoundedInduction, TLAPS

----------------------------------------------------------------------------
(***************************************************************************)
(* The invariant                                                           *)
(***************************************************************************)
Op(k) == program[k].op
\* The node of machine m that the call of NETD falls to.
NetNode(m, k) ==
  <<m, IF Op(k) \in {"Bcast", "Reduce"} THEN local_root(<<m, 0>>, program[k]) ELSE 0>>
Runs(n, k) == n = NetNode(n[1], k)

PhaseNames == {"net", "post", "take", "gather", "give",
               "arrive", "pass", "arrive_again", "pass_again"}
\* How many phases a call has, which is the one with d left, and with how many left a
\* node comes to the machines.
PhaseCount(n, k) ==
  IF ~program[k].world THEN 0
  ELSE CASE Op(k) = "Bcast" -> IF Runs(n, k) THEN 2 ELSE 1
         [] Op(k) = "Reduce" -> IF Runs(n, k) THEN 2 ELSE 1
         [] Op(k) = "Allreduce" -> IF Runs(n, k) THEN 3 ELSE 2
         [] Op(k) = "Barrier" -> IF Runs(n, k) THEN 5 ELSE 4
PhaseWith(n, k, d) ==
  CASE Op(k) = "Bcast" -> IF Runs(n, k) THEN (IF d = 2 THEN "net" ELSE "post") ELSE "take"
    [] Op(k) = "Reduce" -> IF Runs(n, k) THEN (IF d = 2 THEN "gather" ELSE "net") ELSE "give"
    [] Op(k) = "Allreduce" ->
         IF Runs(n, k) THEN (IF d = 3 THEN "gather" ELSE IF d = 2 THEN "net" ELSE "post")
         ELSE (IF d = 2 THEN "give" ELSE "take")
    [] Op(k) = "Barrier" ->
         IF d = 1 THEN "pass_again" ELSE IF d = 2 THEN "arrive_again"
         ELSE IF Runs(n, k) THEN (IF d = 3 THEN "net" ELSE IF d = 4 THEN "pass" ELSE "arrive")
         ELSE (IF d = 3 THEN "pass" ELSE "arrive")
NetWith(k) ==
  CASE Op(k) = "Bcast" -> 2 [] Op(k) = "Reduce" -> 1 [] Op(k) = "Allreduce" -> 2 [] Op(k) = "Barrier" -> 3

\* Of a node that runs the collective of call k: it has begun, it is through.
Entered(n, k) == nth[n] > k \/ (nth[n] = k /\ Len(todo[n]) < NetWith(k))
Through(n, k) == Entered(n, k) /\ (nth[n] = k => plan[n] = <<>>)
Finished(n, k) == nth[n] > k \/ (nth[n] = k /\ Len(todo[n]) = 0)

Ks == 1..Len(program)
WorldKs == {k \in Ks : program[k].world}
Same(n, p) == n[1] = p[1]

Plain(s) == s \in Seq({s[i] : i \in DOMAIN s})
CollectivesTypes ==
  /\ layout \in Seq(Nat) /\ program \in Seq(Calls) /\ ~Overlap(layout, program)
  /\ nth \in [LaidOut -> Nat] /\ todo \in [LaidOut -> Seq(PhaseNames)]
  /\ plan = [n \in LaidOut |-> plan[n]]
  /\ marks = [m \in Macs |-> marks[m]]
  /\ result = [n \in LaidOut |-> result[n]]

\* A node is in a call or between two.
Counted ==
  \A n \in LaidOut :
    /\ Plain(result[n]) /\ nth[n] <= Len(program)
    /\ Len(result[n]) <= nth[n] /\ nth[n] <= Len(result[n]) + 1
    /\ nth[n] = Len(result[n]) => Len(todo[n]) = 0 /\ plan[n] = <<>>

PhasesLeft ==
  \A n \in LaidOut : nth[n] > 0 =>
    /\ Len(todo[n]) <= PhaseCount(n, nth[n])
    /\ \A d \in 1..Len(todo[n]) : todo[n][Len(todo[n]) - d + 1] = PhaseWith(n, nth[n], d)

PlanOfRunner ==
  \A n \in LaidOut : plan[n] # <<>> =>
    nth[n] \in WorldKs /\ Runs(n, nth[n]) /\ Len(todo[n]) = NetWith(nth[n]) - 1

\* What the marks that nodes leave for each other say.
MarksTell ==
  \A p \in LaidOut : \A k \in WorldKs :
    /\ <<k, "post", p[2]>> \in marks[p[1]] => Runs(p, k) /\ Through(p, k)
    /\ <<k, "give", p[2]>> \in marks[p[1]] => nth[p] >= k
    /\ <<k, "arrive", p[2]>> \in marks[p[1]] => nth[p] >= k
    /\ <<k, "arrive_again", p[2]>> \in marks[p[1]] => nth[p] >= k /\ (Runs(p, k) => Through(p, k))

\* Nobody is done with a call other than a reduction before the machines are.
FinishedAfterNet ==
  \A p \in LaidOut : \A k \in WorldKs : Op(k) # "Reduce" /\ Finished(p, k) =>
    \E q \in LaidOut : Same(p, q) /\ Runs(q, k) /\ Through(q, k)

\* But for a broadcast, the runner has waited for all nodes of its machine.
GatheredBeforeNet ==
  \A p, q \in LaidOut : \A k \in WorldKs :
    Same(p, q) /\ Op(k) # "Bcast" /\ Runs(p, k) /\ nth[p] = k /\ Len(todo[p]) <= NetWith(k)
      => nth[q] >= k

\* The collectives of a machine come one after the other.
NetInOrder ==
  \A p, q \in LaidOut : \A j, k \in WorldKs :
    Same(p, q) /\ k < j /\ Runs(q, k) /\ Runs(p, j) /\ Entered(p, j) => Through(q, k)

CollectivesInv ==
  /\ CollectivesTypes /\ Counted
  /\ MacSize < 2 => \A n \in LaidOut : plan[n] = <<>>
  /\ MacSize >= 2 => /\ PhasesLeft /\ PlanOfRunner /\ MarksTell /\ FinishedAfterNet
                     /\ GatheredBeforeNet /\ NetInOrder

----------------------------------------------------------------------------
(***************************************************************************)
(* Nodes, calls and phases                                                 *)
(***************************************************************************)
\* A node is the pair of its machine and its rank there.
LEMMA NodeIsPair ==
  ASSUME NEW n \in LaidOut
  PROVE  n = <<n[1], n[2]>> /\ n[1] \in Macs
  BY DEF LaidOut, Macs

LEMMA KindsOfCall ==
  ASSUME program \in Seq(Calls), NEW k \in Ks
  PROVE  /\ k \in Nat /\ program[k].world \in BOOLEAN
         /\ Op(k) \in {"Bcast", "Reduce", "Allreduce", "Barrier"}
         /\ NetWith(k) \in {1, 2, 3}
         /\ Op(k) = "Bcast" => NetWith(k) = 2
         /\ Op(k) = "Reduce" => NetWith(k) = 1
         /\ Op(k) = "Allreduce" => NetWith(k) = 2
         /\ Op(k) = "Barrier" => NetWith(k) = 3
  <1>1. program[k] \in Calls /\ k \in Nat
    BY DEF Ks
  <1> QED  BY <1>1 DEF Calls, Op, NetWith

\* local_root looks at the machine of the node only.
LEMMA RunnerByRoot ==
  ASSUME program \in Seq(Calls), NEW n \in LaidOut, NEW k \in Ks
  PROVE  /\ Op(k) \in {"Bcast", "Reduce"} => (Runs(n, k) <=> n[2] = local_root(n, program[k]))
         /\ Op(k) \notin {"Bcast", "Reduce"} => (Runs(n, k) <=> n[2] = 0)
  <1>1. n = <<n[1], n[2]>>
    BY NodeIsPair
  <1>2. local_root(<<n[1], 0>>, program[k]) = local_root(n, program[k])
    BY DEF local_root
  <1> QED  BY <1>1, <1>2 DEF Runs, NetNode

LEMMA OneRunner ==
  ASSUME NEW n \in LaidOut, NEW p \in LaidOut, NEW k, Same(n, p), Runs(n, k), Runs(p, k)
  PROVE  n = p
  BY DEF Same, Runs, NetNode

LEMMA ConcatIs ==
  ASSUME NEW P, NEW s \in Seq(P), NEW t \in Seq(P), NEW u \in Seq(P), Len(u) = Len(s) + Len(t),
         \A i \in 1..Len(s) : u[i] = s[i], \A i \in 1..Len(t) : u[Len(s) + i] = t[i]
  PROVE  s \o t = u
  <1>1. s \o t \in Seq(P) /\ Len(s \o t) = Len(u)
    OBVIOUS
  <1>2. \A i \in 1..Len(u) : (s \o t)[i] = u[i]
    <2> SUFFICES ASSUME NEW i \in 1..Len(u) PROVE (s \o t)[i] = u[i]
      OBVIOUS
    <2>1. CASE i <= Len(s)
      BY <2>1
    <2>2. CASE i > Len(s)
      <3>1. i - Len(s) \in 1..Len(t) /\ i = Len(s) + (i - Len(s))
        BY <2>2
      <3> QED  BY <2>2, <3>1
    <2> QED  BY <2>1, <2>2
  <1> QED  BY <1>1, <1>2, SeqEqual

LEMMA TwoAndTwo ==
  ASSUME NEW a, NEW b, NEW c, NEW d
  PROVE  <<a, b>> \o <<c, d>> = <<a, b, c, d>>
  <1> DEFINE P == {a, b, c, d}
             s == <<a, b>>
             t == <<c, d>>
             u == <<a, b, c, d>>
  <1>0. a \in P /\ b \in P /\ c \in P /\ d \in P
    OBVIOUS
  <1> HIDE DEF P
  <1>1. s \in Seq(P) /\ Len(s) = 2 /\ s[1] = a /\ s[2] = b
    BY <1>0
  <1>2. t \in Seq(P) /\ Len(t) = 2 /\ t[1] = c /\ t[2] = d
    BY <1>0
  <1>3. u \in Seq(P) /\ Len(u) = 4 /\ u[1] = a /\ u[2] = b /\ u[3] = c /\ u[4] = d
    BY <1>0
  <1> HIDE DEF s, t, u
  <1>4. (\A i \in 1..Len(s) : u[i] = s[i]) /\ \A i \in 1..Len(t) : u[Len(s) + i] = t[i]
    BY <1>1, <1>2, <1>3
  <1>5. Len(u) = Len(s) + Len(t)
    BY <1>1, <1>2, <1>3
  <1>6. s \o t = u
    BY <1>1, <1>2, <1>3, <1>4, <1>5, ConcatIs, Zenon
  <1> QED  BY <1>6 DEF s, t, u

LEMMA OneAndTwo ==
  ASSUME NEW a, NEW b, NEW c
  PROVE  <<a>> \o <<b, c>> = <<a, b, c>>
  <1> DEFINE P == {a, b, c}
             s == <<a>>
             t == <<b, c>>
             u == <<a, b, c>>
  <1>0. a \in P /\ b \in P /\ c \in P
    OBVIOUS
  <1> HIDE DEF P
  <1>1. s \in Seq(P) /\ Len(s) = 1 /\ s[1] = a
    BY <1>0
  <1>2. t \in Seq(P) /\ Len(t) = 2 /\ t[1] = b /\ t[2] = c
    BY <1>0
  <1>3. u \in Seq(P) /\ Len(u) = 3 /\ u[1] = a /\ u[2] = b /\ u[3] = c
    BY <1>0
  <1> HIDE DEF s, t, u
  <1>4. (\A i \in 1..Len(s) : u[i] = s[i]) /\ \A i \in 1..Len(t) : u[Len(s) + i] = t[i]
    BY <1>1, <1>2, <1>3
  <1>5. Len(u) = Len(s) + Len(t)
    BY <1>1, <1>2, <1>3
  <1>6. s \o t = u
    BY <1>1, <1>2, <1>3, <1>4, <1>5, ConcatIs, Zenon
  <1> QED  BY <1>6 DEF s, t, u

LEMMA TwoAndThree ==
  ASSUME NEW a, NEW b, NEW c, NEW d, NEW e
  PROVE  <<a, b>> \o <<c, d, e>> = <<a, b, c, d, e>>
  <1> DEFINE P == {a, b, c, d, e}
             s == <<a, b>>
             t == <<c, d, e>>
             u == <<a, b, c, d, e>>
  <1>0. a \in P /\ b \in P /\ c \in P /\ d \in P /\ e \in P
    OBVIOUS
  <1> HIDE DEF P
  <1>1. s \in Seq(P) /\ Len(s) = 2 /\ s[1] = a /\ s[2] = b
    BY <1>0
  <1>2. t \in Seq(P) /\ Len(t) = 3 /\ t[1] = c /\ t[2] = d /\ t[3] = e
    BY <1>0
  <1>3. u \in Seq(P) /\ Len(u) = 5 /\ u[1] = a /\ u[2] = b /\ u[3] = c /\ u[4] = d /\ u[5] = e
    BY <1>0
  <1> HIDE DEF s, t, u
  <1>4. (\A i \in 1..Len(s) : u[i] = s[i]) /\ \A i \in 1..Len(t) : u[Len(s) + i] = t[i]
    BY <1>1, <1>2, <1>3
  <1>5. Len(u) = Len(s) + Len(t)
    BY <1>1, <1>2, <1>3
  <1>6. s \o t = u
    BY <1>1, <1>2, <1>3, <1>4, <1>5, ConcatIs, Zenon
  <1> QED  BY <1>6 DEF s, t, u

\* The phases of MPI_Barrier when there are other machines.
LEMMA BarrierPhases ==
  ASSUME MacSize >= 2, MacSize \in Nat, NEW n
  PROVE  MPI_Barrier(n) = IF n[2] = 0 THEN <<"arrive", "pass", "net", "arrive_again", "pass_again">>
                          ELSE <<"arrive", "pass", "arrive_again", "pass_again">>
  <1>1. MacSize # 1
    OBVIOUS
  <1>2. CASE n[2] = 0
    <2>1. <<"net">> \o <<"arrive_again", "pass_again">> = <<"net", "arrive_again", "pass_again">>
      BY OneAndTwo, Zenon
    <2>2. <<"arrive", "pass">> \o <<"net", "arrive_again", "pass_again">>
            = <<"arrive", "pass", "net", "arrive_again", "pass_again">>
      BY TwoAndThree, Zenon
    <2> QED  BY <1>1, <1>2, <2>1, <2>2 DEF MPI_Barrier
  <1>3. CASE n[2] # 0
    <2>1. <<>> \o <<"arrive_again", "pass_again">> = <<"arrive_again", "pass_again">>
      OBVIOUS
    <2>2. <<"arrive", "pass">> \o <<"arrive_again", "pass_again">>
            = <<"arrive", "pass", "arrive_again", "pass_again">>
      BY TwoAndTwo, Zenon
    <2> QED  BY <1>1, <1>3, <2>1, <2>2 DEF MPI_Barrier
  <1> QED  BY <1>2, <1>3

LEMMA PhasesOf ==
  ASSUME MacSize >= 2, MacSize \in Nat, program \in Seq(Calls), NEW n \in LaidOut, NEW k \in Ks
  PROVE  /\ Phases(n, program[k]) \in Seq(PhaseNames)
         /\ Len(Phases(n, program[k])) = PhaseCount(n, k)
         /\ \A d \in 1..PhaseCount(n, k) :
              Phases(n, program[k])[PhaseCount(n, k) - d + 1] = PhaseWith(n, k, d)
  <1> DEFINE ph == Phases(n, program[k])
  <1>0. Op(k) \in {"Bcast", "Reduce", "Allreduce", "Barrier"} /\ program[k].world \in BOOLEAN
    BY KindsOfCall
  <1>1. CASE ~program[k].world
    <2>0. PhaseCount(n, k) = 0
      BY <1>1 DEF PhaseCount
    <2>1. ph = <<>> /\ PhaseCount(n, k) = 0
      BY <1>1, <2>0 DEF Phases
    <2> HIDE DEF ph
    <2>2. ph \in Seq(PhaseNames) /\ Len(ph) = PhaseCount(n, k)
          /\ \A d \in 1..PhaseCount(n, k) : ph[PhaseCount(n, k) - d + 1] = PhaseWith(n, k, d)
      BY <2>1
    <2> QED  BY <2>2 DEF ph
  <1>2. CASE program[k].world /\ Op(k) = "Bcast"
    <2>1. ph = IF Runs(n, k) THEN <<"net", "post">> ELSE <<"take">>
      BY <1>2, RunnerByRoot DEF Phases, tmpi_Bcast, Op
    <2>2. PhaseCount(n, k) = IF Runs(n, k) THEN 2 ELSE 1
      BY <1>2 DEF PhaseCount
    <2> HIDE DEF ph
    <2>3. ph \in Seq(PhaseNames) /\ Len(ph) = PhaseCount(n, k)
          /\ \A d \in 1..PhaseCount(n, k) : ph[PhaseCount(n, k) - d + 1] = PhaseWith(n, k, d)
      <3>1. CASE Runs(n, k)
        <4>1. ph = <<"net", "post">> /\ PhaseCount(n, k) = 2
          BY <2>1, <2>2, <3>1
        <4>2. \A d \in 1..2 : ph[2 - d + 1] = PhaseWith(n, k, d)
          BY <1>2, <3>1, <4>1 DEF PhaseWith
        <4>3. ph \in Seq(PhaseNames) /\ Len(ph) = 2
          BY <4>1 DEF PhaseNames
        <4> QED  BY <4>1, <4>2, <4>3
      <3>2. CASE ~Runs(n, k)
        <4>1. ph = <<"take">> /\ PhaseCount(n, k) = 1
          BY <2>1, <2>2, <3>2
        <4>2. \A d \in 1..1 : ph[1 - d + 1] = PhaseWith(n, k, d)
          BY <1>2, <3>2, <4>1 DEF PhaseWith
        <4>3. ph \in Seq(PhaseNames) /\ Len(ph) = 1
          BY <4>1 DEF PhaseNames
        <4> QED  BY <4>1, <4>2, <4>3
      <3> QED  BY <3>1, <3>2
    <2> QED  BY <2>3 DEF ph
  <1>3. CASE program[k].world /\ Op(k) = "Reduce"
    <2>1. ph = IF Runs(n, k) THEN <<"gather", "net">> ELSE <<"give">>
      <3>1. MacSize > 1
        OBVIOUS
      <3>2. Runs(n, k) <=> n[2] = local_root(n, program[k])
        BY <1>3, RunnerByRoot
      <3>3. ph = tmpi_Reduce(n, program[k]) /\ rdc_root(n, program[k]) = local_root(n, program[k])
        BY <1>3, <3>1 DEF Phases, Op, rdc_root
      <3> QED  BY <3>1, <3>2, <3>3 DEF tmpi_Reduce
    <2>2. PhaseCount(n, k) = IF Runs(n, k) THEN 2 ELSE 1
      BY <1>3 DEF PhaseCount
    <2> HIDE DEF ph
    <2>3. ph \in Seq(PhaseNames) /\ Len(ph) = PhaseCount(n, k)
          /\ \A d \in 1..PhaseCount(n, k) : ph[PhaseCount(n, k) - d + 1] = PhaseWith(n, k, d)
      <3>1. CASE Runs(n, k)
        <4>1. ph = <<"gather", "net">> /\ PhaseCount(n, k) = 2
          BY <2>1, <2>2, <3>1
        <4>2. \A d \in 1..2 : ph[2 - d + 1] = PhaseWith(n, k, d)
          BY <1>3, <3>1, <4>1 DEF PhaseWith
        <4>3. ph \in Seq(PhaseNames) /\ Len(ph) = 2
          BY <4>1 DEF PhaseNames
        <4> QED  BY <4>1, <4>2, <4>3
      <3>2. CASE ~Runs(n, k)
        <4>1. ph = <<"give">> /\ PhaseCount(n, k) = 1
          BY <2>1, <2>2, <3>2
        <4>2. \A d \in 1..1 : ph[1 - d + 1] = PhaseWith(n, k, d)
          BY <1>3, <3>2, <4>1 DEF PhaseWith
        <4>3. ph \in Seq(PhaseNames) /\ Len(ph) = 1
          BY <4>1 DEF PhaseNames
        <4> QED  BY <4>1, <4>2, <4>3
      <3> QED  BY <3>1, <3>2
    <2> QED  BY <2>3 DEF ph
  <1>4. CASE program[k].world /\ Op(k) = "Allreduce"
    <2>1. ph = IF Runs(n, k) THEN <<"gather", "net", "post">> ELSE <<"give", "take">>
      BY <1>4, RunnerByRoot DEF Phases, tmpi_Allreduce, Op
    <2>2. PhaseCount(n, k) = IF Runs(n, k) THEN 3 ELSE 2
      BY <1>4 DEF PhaseCount
    <2> HIDE DEF ph
    <2>3. ph \in Seq(PhaseNames) /\ Len(ph) = PhaseCount(n, k)
          /\ \A d \in 1..PhaseCount(n, k) : ph[PhaseCount(n, k) - d + 1] = PhaseWith(n, k, d)
      <3>1. CASE Runs(n, k)
        <4>1. ph = <<"gather", "net", "post">> /\ PhaseCount(n, k) = 3
          BY <2>1, <2>2, <3>1
        <4>2. \A d \in 1..3 : ph[3 - d + 1] = PhaseWith(n, k, d)
          BY <1>4, <3>1, <4>1 DEF PhaseWith
        <4>3. ph \in Seq(PhaseNames) /\ Len(ph) = 3
          BY <4>1 DEF PhaseNames
        <4> QED  BY <4>1, <4>2, <4>3
      <3>2. CASE ~Runs(n, k)
        <4>1. ph = <<"give", "take">> /\ PhaseCount(n, k) = 2
          BY <2>1, <2>2, <3>2
        <4>2. \A d \in 1..2 : ph[2 - d + 1] = PhaseWith(n, k, d)
          BY <1>4, <3>2, <4>1 DEF PhaseWith
        <4>3. ph \in Seq(PhaseNames) /\ Len(ph) = 2
          BY <4>1 DEF PhaseNames
        <4> QED  BY <4>1, <4>2, <4>3
      <3> QED  BY <3>1, <3>2
    <2> QED  BY <2>3 DEF ph
  <1>5. CASE program[k].world /\ Op(k) = "Barrier"
    <2>1. ph = MPI_Barrier(n)
      BY <1>5 DEF Phases, Op
    <2>2. ph = IF Runs(n, k) THEN <<"arrive", "pass", "net", "arrive_again", "pass_again">>
               ELSE <<"arrive", "pass", "arrive_again", "pass_again">>
      <3> HIDE DEF ph
      <3>1. Runs(n, k) <=> n[2] = 0
        BY <1>5, RunnerByRoot
      <3> QED  BY <2>1, <3>1, BarrierPhases
    <2>3. PhaseCount(n, k) = IF Runs(n, k) THEN 5 ELSE 4
      BY <1>5 DEF PhaseCount
    <2> HIDE DEF ph
    <2>4. ph \in Seq(PhaseNames) /\ Len(ph) = PhaseCount(n, k)
          /\ \A d \in 1..PhaseCount(n, k) : ph[PhaseCount(n, k) - d + 1] = PhaseWith(n, k, d)
      <3>1. CASE Runs(n, k)
        <4>1. ph = <<"arrive", "pass", "net", "arrive_again", "pass_again">> /\ PhaseCount(n, k) = 5
          BY <2>2, <2>3, <3>1
        <4>2. \A d \in 1..5 : ph[5 - d + 1] = PhaseWith(n, k, d)
          BY <1>5, <3>1, <4>1 DEF PhaseWith
        <4>3. ph \in Seq(PhaseNames) /\ Len(ph) = 5
          BY <4>1 DEF PhaseNames
        <4> QED  BY <4>1, <4>2, <4>3
      <3>2. CASE ~Runs(n, k)
        <4>1. ph = <<"arrive", "pass", "arrive_again", "pass_again">> /\ PhaseCount(n, k) = 4
          BY <2>2, <2>3, <3>2
        <4>2. \A d \in 1..4 : ph[4 - d + 1] = PhaseWith(n, k, d)
          BY <1>5, <3>2, <4>1 DEF PhaseWith
        <4>3. ph \in Seq(PhaseNames) /\ Len(ph) = 4
          BY <4>1 DEF PhaseNames
        <4> QED  BY <4>1, <4>2, <4>3
      <3> QED  BY <3>1, <3>2
    <2> QED  BY <2>4 DEF ph
  <1> QED  BY <1>0, <1>1, <1>2, <1>3, <1>4, <1>5

----------------------------------------------------------------------------
(***************************************************************************)
(* Five kinds of steps                                                     *)
(***************************************************************************)
\* A phase within the machine.
MarkedPhases == {"post", "give", "arrive", "arrive_again"}
PhaseStep(n, ph) ==
  /\ Starting(n, ph) /\ NextPhase(n) /\ ph # "net"
  /\ IF ph \in MarkedPhases THEN Leave(n, ph) ELSE marks' = marks
  /\ ph = "take" => \E p \in Locals(n[1]) : Left(n, "post", {p})
  /\ ph = "gather" => Left(n, "give", Locals(n[1]) \ {n})
  /\ ph = "pass" => Left(n, "arrive", Locals(n[1]))
  /\ ph = "pass_again" => Left(n, "arrive_again", Locals(n[1]))
  /\ UNCHANGED <<layout, program, nth, plan, result>>
NetStep(n) ==
  /\ Starting(n, "net") /\ NextPhase(n)
  /\ \E steps : plan' = [plan EXCEPT ![n] = steps] /\ (MacSize < 2 => steps = <<>>)
  /\ UNCHANGED <<layout, program, nth, marks, result>>
SockStep(n) ==
  /\ plan[n] # <<>> /\ \E steps : plan' = [plan EXCEPT ![n] = steps]
  /\ UNCHANGED <<layout, program, nth, todo, marks, result>>

LEMMA KindsOfStep ==
  ASSUME NEW n, CollectiveStep(n)
  PROVE  \/ CallOne(n) \/ ReturnOne(n) \/ NetStep(n) \/ SockStep(n)
         \/ \E ph \in PhaseNames : PhaseStep(n, ph)
  <1>1. CASE Post(n)
    BY <1>1 DEF Post, PhaseStep, PhaseNames, MarkedPhases
  <1>2. CASE Fetch(n)
    BY <1>2 DEF Fetch, PhaseStep, PhaseNames, MarkedPhases
  <1>3. CASE Give(n)
    BY <1>3 DEF Give, PhaseStep, PhaseNames, MarkedPhases
  <1>4. CASE Gather(n)
    BY <1>4 DEF Gather, PhaseStep, PhaseNames, MarkedPhases
  <1>5. CASE Arrive(n, "arrive") \/ Arrive(n, "arrive_again")
    BY <1>5 DEF Arrive, PhaseStep, PhaseNames, MarkedPhases
  <1>6. CASE Pass(n, "pass", "arrive")
    BY <1>6 DEF Pass, PhaseStep, PhaseNames, MarkedPhases
  <1>7. CASE Pass(n, "pass_again", "arrive_again")
    BY <1>7 DEF Pass, PhaseStep, PhaseNames, MarkedPhases
  <1>8. CASE EnterNet(n)
    <2>1. PICK root, bcast, reduce :
            plan' = [plan EXCEPT ![n] =
                       (IF reduce THEN netd_reduce(n[1], root, last_root[n[1]].reduce) ELSE <<>>)
                         \o (IF bcast THEN netd_bcast(n[1], root, last_root[n[1]].bcast) ELSE <<>>)]
      BY <1>8 DEF EnterNet
    <2> DEFINE up == IF reduce THEN netd_reduce(n[1], root, last_root[n[1]].reduce) ELSE <<>>
               down == IF bcast THEN netd_bcast(n[1], root, last_root[n[1]].bcast) ELSE <<>>
    <2>2. MacSize < 2 => up = <<>> /\ down = <<>>
      BY DEF netd_reduce, netd_bcast
    <2> HIDE DEF up, down
    <2>3. MacSize < 2 => up \o down = <<>>
      BY <2>2
    <2>4. \E steps : plan' = [plan EXCEPT ![n] = steps] /\ (MacSize < 2 => steps = <<>>)
      BY <2>1, <2>3 DEF up, down
    <2> QED  BY <1>8, <2>4 DEF EnterNet, NetStep
  <1>9. CASE sock_write(n) \/ sock_read(n)
    BY <1>9 DEF sock_write, sock_read, SockStep
  <1> QED  BY <1>1, <1>2, <1>3, <1>4, <1>5, <1>6, <1>7, <1>8, <1>9 DEF CollectiveStep

LEMMA SameCalls ==
  ASSUME layout' = layout, program' = program
  PROVE  /\ LaidOut' = LaidOut /\ Macs' = Macs /\ MacSize' = MacSize
         /\ Ks' = Ks /\ WorldKs' = WorldKs
         /\ \A k \in Ks : Op(k)' = Op(k) /\ NetWith(k)' = NetWith(k)
         /\ \A n \in LaidOut : \A k \in Ks :
              (Runs(n, k)' <=> Runs(n, k)) /\ PhaseCount(n, k)' = PhaseCount(n, k)
         /\ \A n \in LaidOut : \A k \in Ks : \A d \in Nat :
              PhaseWith(n, k, d)' = PhaseWith(n, k, d)
  BY DEF LaidOut, Macs, MacSize, Ks, WorldKs, Op, NetWith, Runs, NetNode, local_root,
         PhaseCount, PhaseWith

\* What a node that is at a phase is doing.
LEMMA StartingIs ==
  ASSUME CollectivesTypes, Counted, PhasesLeft, NEW n \in LaidOut, NEW ph, Starting(n, ph)
  PROVE  /\ nth[n] \in WorldKs /\ nth[n] = Len(result[n]) + 1 /\ plan[n] = <<>>
         /\ Len(todo[n]) \in Nat /\ Len(todo[n]) \in 1..PhaseCount(n, nth[n])
         /\ ph = PhaseWith(n, nth[n], Len(todo[n]))
  <1>1. /\ nth[n] \in Nat /\ todo[n] \in Seq(PhaseNames) /\ todo[n] # <<>>
        /\ Head(todo[n]) = ph /\ nth[n] > Len(result[n]) /\ plan[n] = <<>>
    BY DEF CollectivesTypes, Starting, InCall
  <1>2. Len(todo[n]) \in Nat /\ Len(todo[n]) >= 1 /\ todo[n][1] = ph
    BY <1>1
  <1>3. Len(result[n]) \in Nat
    BY DEF Counted, Plain
  <1>4. nth[n] <= Len(program) /\ nth[n] <= Len(result[n]) + 1
    BY DEF Counted
  <1>5. nth[n] \in Ks /\ nth[n] = Len(result[n]) + 1
    BY <1>1, <1>3, <1>4 DEF Ks, CollectivesTypes
  <1>6. /\ Len(todo[n]) <= PhaseCount(n, nth[n])
        /\ \A d \in 1..Len(todo[n]) : todo[n][Len(todo[n]) - d + 1] = PhaseWith(n, nth[n], d)
    BY <1>1, <1>3, <1>5 DEF PhasesLeft
  <1>7. PhaseCount(n, nth[n]) \in Nat /\ (PhaseCount(n, nth[n]) # 0 => program[nth[n]].world)
    BY <1>5, KindsOfCall DEF PhaseCount, CollectivesTypes
  <1>8. Len(todo[n]) - Len(todo[n]) + 1 = 1
    BY <1>2
  <1> QED  BY <1>1, <1>2, <1>5, <1>6, <1>7, <1>8 DEF WorldKs

LEMMA PhaseTells ==
  ASSUME program \in Seq(Calls), NEW n \in LaidOut, NEW k \in WorldKs,
         NEW d \in 1..PhaseCount(n, k)
  PROVE  LET ph == PhaseWith(n, k, d) IN
         /\ ph = "net" => Runs(n, k) /\ d = NetWith(k)
         /\ ph = "post" => Runs(n, k) /\ d < NetWith(k) /\ Op(k) # "Reduce"
         /\ ph = "take" => ~Runs(n, k) /\ Op(k) # "Reduce"
         /\ ph = "give" => ~Runs(n, k) /\ d > 0
         /\ ph = "gather" => Runs(n, k) /\ d = NetWith(k) + 1
         /\ ph = "arrive" => Op(k) = "Barrier" /\ d > 3
         /\ ph = "pass" => Op(k) = "Barrier"
         /\ ph = "arrive_again" => Op(k) = "Barrier" /\ d = 2 /\ NetWith(k) = 3
         /\ ph = "pass_again" => Op(k) = "Barrier" /\ d = 1 /\ NetWith(k) = 3
         /\ d = 1 /\ Op(k) # "Reduce" => ph \in {"post", "take", "pass_again"}
         /\ Op(k) # "Bcast" /\ Runs(n, k) /\ d = NetWith(k) + 1 => ph \in {"gather", "pass"}
         /\ Runs(n, k) /\ d = NetWith(k) => ph = "net"
  <1>1. k \in Ks /\ program[k].world
    BY DEF WorldKs
  <1>2. CASE Op(k) = "Bcast"
    BY <1>1, <1>2, KindsOfCall DEF PhaseWith, PhaseCount
  <1>3. CASE Op(k) = "Reduce"
    BY <1>1, <1>3, KindsOfCall DEF PhaseWith, PhaseCount
  <1>4. CASE Op(k) = "Allreduce"
    BY <1>1, <1>4, KindsOfCall DEF PhaseWith, PhaseCount
  <1>5. CASE Op(k) = "Barrier"
    BY <1>1, <1>5, KindsOfCall DEF PhaseWith, PhaseCount
  <1> QED  BY <1>1, <1>2, <1>3, <1>4, <1>5, KindsOfCall

----------------------------------------------------------------------------
(***************************************************************************)
(* The counts of calls                                                     *)
(***************************************************************************)
LEMMA PhasesType ==
  ASSUME CollectivesTypes, NEW n \in LaidOut, NEW k \in Ks
  PROVE  Phases(n, program[k]) \in Seq(PhaseNames)
  <1>1. MacSize \in Nat /\ MacSize >= 1
    BY NodeIsPair DEF CollectivesTypes, Macs, MacSize
  <1>2. CASE MacSize >= 2
    BY <1>1, <1>2, PhasesOf DEF CollectivesTypes
  <1>3. CASE MacSize = 1
    <2>1. <<"arrive", "pass">> \in Seq(PhaseNames)
      BY DEF PhaseNames
    <2>2. MPI_Barrier(n) \in Seq(PhaseNames)
      BY <1>3, <2>1 DEF MPI_Barrier
    <2>3. /\ <<>> \in Seq(PhaseNames) /\ <<"net", "post">> \in Seq(PhaseNames)
          /\ <<"take">> \in Seq(PhaseNames) /\ <<"give">> \in Seq(PhaseNames)
          /\ <<"gather">> \in Seq(PhaseNames) /\ <<"gather", "post">> \in Seq(PhaseNames)
          /\ <<"gather", "net">> \in Seq(PhaseNames)
          /\ <<"give", "take">> \in Seq(PhaseNames)
      BY DEF PhaseNames
    <2>4. <<"gather", "net", "post">> \in Seq(PhaseNames)
      BY DEF PhaseNames
    <2>5. /\ tmpi_Bcast(n, program[k]) \in Seq(PhaseNames)
          /\ tmpi_Reduce(n, program[k]) \in Seq(PhaseNames)
          /\ tmpi_Allreduce(n) \in Seq(PhaseNames)
      BY <2>3, <2>4 DEF tmpi_Bcast, tmpi_Reduce, tmpi_Allreduce
    <2> QED  BY <2>2, <2>3, <2>5 DEF Phases
  <1> QED  BY <1>1, <1>2, <1>3

LEMMA PlainAppend ==
  ASSUME NEW s, Plain(s), NEW e
  PROVE  Plain(Append(s, e)) /\ Len(s) \in Nat /\ Len(Append(s, e)) = Len(s) + 1
  <1> DEFINE P == {s[i] : i \in DOMAIN s} \cup {e}
             t == Append(s, e)
  <1>1. s \in Seq(P) /\ Len(s) \in Nat
    BY DEF Plain
  <1>2. e \in P
    OBVIOUS
  <1> HIDE DEF P
  <1>3. t \in Seq(P) /\ Len(t) = Len(s) + 1
    BY <1>1, <1>2
  <1> HIDE DEF t
  <1>4. Plain(t)
    BY <1>3 DEF Plain
  <1> QED  BY <1>1, <1>3, <1>4 DEF t

LEMMA CountedKept ==
  ASSUME Counted, NEW n \in LaidOut, layout' = layout, program' = program, result' = result,
         \A q \in LaidOut : q # n => nth'[q] = nth[q] /\ todo'[q] = todo[q] /\ plan'[q] = plan[q],
         nth'[n] <= Len(program), Len(result[n]) <= nth'[n], nth'[n] <= Len(result[n]) + 1,
         nth'[n] = Len(result[n]) => Len(todo'[n]) = 0 /\ plan'[n] = <<>>
  PROVE  Counted'
  <1> SUFFICES ASSUME NEW q \in LaidOut
               PROVE  /\ Plain(result[q])' /\ nth'[q] <= Len(program)
                      /\ Len(result[q]) <= nth'[q] /\ nth'[q] <= Len(result[q]) + 1
                      /\ nth'[q] = Len(result[q]) => Len(todo'[q]) = 0 /\ plan'[q] = <<>>
    BY SameCalls DEF Counted
  <1>1. Plain(result[q])'
    BY DEF Counted, Plain
  <1>2. CASE q = n
    BY <1>1, <1>2
  <1>3. CASE q # n
    BY <1>1, <1>3 DEF Counted
  <1> QED  BY <1>2, <1>3

LEMMA TypesKept ==
  ASSUME CollectivesTypes, Counted, NEW n \in LaidOut, CollectiveStep(n)
  PROVE  /\ CollectivesTypes' /\ Counted' /\ layout' = layout /\ program' = program
         /\ \A q \in LaidOut : q # n => /\ nth'[q] = nth[q] /\ todo'[q] = todo[q]
                                        /\ plan'[q] = plan[q] /\ result'[q] = result[q]
  <1>0. /\ nth \in [LaidOut -> Nat] /\ todo \in [LaidOut -> Seq(PhaseNames)]
        /\ plan = [q \in LaidOut |-> plan[q]] /\ marks = [m \in Macs |-> marks[m]]
        /\ result = [q \in LaidOut |-> result[q]]
        /\ layout \in Seq(Nat) /\ program \in Seq(Calls) /\ ~Overlap(layout, program)
    BY DEF CollectivesTypes
  <1>00. layout' = layout /\ program' = program =>
           layout' \in Seq(Nat) /\ program' \in Seq(Calls) /\ ~Overlap(layout, program)'
    <2> SUFFICES ASSUME layout' = layout, program' = program PROVE ~Overlap(layout, program)'
      BY <1>0
    <2> QED  BY <1>0 DEF Overlap, local_root
  <1>01. \A q \in LaidOut : Len(result[q]) \in Nat /\ nth[q] \in Nat
    BY <1>0 DEF Counted, Plain
  <1>02. nth[n] <= Len(program) /\ Len(result[n]) <= nth[n] /\ nth[n] <= Len(result[n]) + 1
    BY DEF Counted
  <1>1. CASE CallOne(n)
    <2>0. Len(result[n]) <= nth[n] /\ nth[n] <= Len(result[n]) /\ nth[n] < Len(program)
      BY <1>0, <1>1, <1>01 DEF CallOne, InCall, Counted
    <2>1. nth[n] + 1 \in Ks /\ nth[n] = Len(result[n])
      BY <1>0, <1>01, <2>0 DEF Ks
    <2>2. /\ nth' = [nth EXCEPT ![n] = nth[n] + 1]
          /\ todo' = [todo EXCEPT ![n] = Phases(n, program[nth[n] + 1])]
          /\ UNCHANGED <<layout, program, plan, marks, result>>
      BY <1>1 DEF CallOne
    <2>3. Phases(n, program[nth[n] + 1]) \in Seq(PhaseNames)
      BY <2>1, PhasesType
    <2>4. CollectivesTypes'
      <3>1. nth' \in [LaidOut -> Nat] /\ todo' \in [LaidOut -> Seq(PhaseNames)]
        BY <1>0, <2>2, <2>3
      <3> QED  BY <1>0, <1>00, <2>2, <3>1, SameCalls DEF CollectivesTypes
    <2>5. Counted'
      <3>1. /\ nth'[n] = nth[n] + 1
            /\ \A q \in LaidOut : q # n => nth'[q] = nth[q] /\ todo'[q] = todo[q] /\ plan'[q] = plan[q]
        BY <1>0, <2>2
      <3>2. /\ nth'[n] <= Len(program) /\ Len(result[n]) <= nth'[n]
            /\ nth'[n] <= Len(result[n]) + 1 /\ nth'[n] # Len(result[n])
        BY <1>0, <1>01, <2>0, <2>1, <3>1
      <3> QED  BY <2>2, <3>1, <3>2, CountedKept
    <2> QED  BY <1>0, <2>2, <2>4, <2>5
  <1>2. CASE ReturnOne(n)
    <2>1. \E e : result' = [result EXCEPT ![n] = Append(@, e)]
      BY <1>2 DEF ReturnOne
    <2>2. PICK e : result' = [result EXCEPT ![n] = Append(@, e)]
      BY <2>1
    <2>3. /\ UNCHANGED <<layout, program, nth, plan, todo, marks>>
          /\ nth[n] > Len(result[n]) /\ todo[n] = <<>> /\ plan[n] = <<>>
      BY <1>2 DEF ReturnOne, InCall
    <2>4. CollectivesTypes'
      BY <1>0, <1>00, <2>2, <2>3, SameCalls DEF CollectivesTypes
    <2>5. Plain(Append(result[n], e)) /\ Len(result[n]) \in Nat
          /\ Len(Append(result[n], e)) = Len(result[n]) + 1
      BY PlainAppend DEF Counted
    <2>6. result'[n] = Append(result[n], e) /\ \A q \in LaidOut : q # n => result'[q] = result[q]
      BY <1>0, <2>2
    <2>7. Plain(result[n])' /\ Len(result'[n]) = nth[n]
      BY <1>01, <1>02, <2>3, <2>5, <2>6 DEF Plain
    <2>8. Counted'
      <3> SUFFICES ASSUME NEW q \in LaidOut
                   PROVE  /\ Plain(result[q])' /\ nth[q] <= Len(program)
                          /\ Len(result'[q]) <= nth[q] /\ nth[q] <= Len(result'[q]) + 1
                          /\ nth[q] = Len(result'[q]) => Len(todo[q]) = 0 /\ plan[q] = <<>>
        BY <2>3, SameCalls DEF Counted
      <3>1. CASE q = n
        BY <1>01, <1>02, <2>3, <2>7, <3>1
      <3>2. CASE q # n
        <4>1. result'[q] = result[q]
          BY <2>6, <3>2
        <4>2. Plain(result[q])'
          BY <4>1 DEF Counted, Plain
        <4> QED  BY <4>1, <4>2 DEF Counted
      <3> QED  BY <3>1, <3>2
    <2> QED  BY <2>3, <2>4, <2>6, <2>8
  <1>3. CASE NetStep(n)
    <2>1. /\ todo' = [todo EXCEPT ![n] = Tail(@)] /\ UNCHANGED <<layout, program, nth, marks, result>>
          /\ nth[n] > Len(result[n]) /\ todo[n] # <<>>
      BY <1>3 DEF NetStep, NextPhase, Starting, InCall
    <2>2. PICK steps : plan' = [plan EXCEPT ![n] = steps]
      BY <1>3 DEF NetStep
    <2>3. CollectivesTypes'
      <3>1. todo' \in [LaidOut -> Seq(PhaseNames)]
        <4>1. Tail(todo[n]) \in Seq(PhaseNames)
          BY <1>0, <2>1
        <4> QED  BY <1>0, <2>1, <4>1
      <3>2. plan' = [q \in LaidOut |-> plan'[q]]
        BY <1>0, <2>2
      <3> QED  BY <1>0, <1>00, <2>1, <3>1, <3>2, SameCalls DEF CollectivesTypes
    <2>4. Counted'
      <3>1. \A q \in LaidOut : q # n => nth'[q] = nth[q] /\ todo'[q] = todo[q] /\ plan'[q] = plan[q]
        BY <1>0, <2>1, <2>2
      <3>2. nth'[n] # Len(result[n])
        BY <1>01, <1>02, <2>1 DEF Counted
      <3> QED  BY <1>02, <2>1, <3>1, <3>2, CountedKept
    <2> QED  BY <1>0, <2>1, <2>2, <2>3, <2>4
  <1>4. CASE SockStep(n)
    <2>1. UNCHANGED <<layout, program, nth, todo, marks, result>> /\ plan[n] # <<>>
      BY <1>4 DEF SockStep
    <2>2. PICK steps : plan' = [plan EXCEPT ![n] = steps]
      BY <1>4 DEF SockStep
    <2>3. CollectivesTypes'
      BY <1>0, <1>00, <2>1, <2>2, SameCalls DEF CollectivesTypes
    <2>4. Counted'
      <3>1. \A q \in LaidOut : q # n => nth'[q] = nth[q] /\ todo'[q] = todo[q] /\ plan'[q] = plan[q]
        BY <1>0, <2>1, <2>2
      <3>2. nth'[n] # Len(result[n])
        BY <1>01, <1>02, <2>1 DEF Counted
      <3> QED  BY <1>02, <2>1, <3>1, <3>2, CountedKept
    <2> QED  BY <1>0, <2>1, <2>2, <2>3, <2>4
  <1>5. CASE \E ph \in PhaseNames : PhaseStep(n, ph)
    <2>1. PICK ph \in PhaseNames : PhaseStep(n, ph)
      BY <1>5
    <2>2. /\ todo' = [todo EXCEPT ![n] = Tail(@)] /\ UNCHANGED <<layout, program, nth, plan, result>>
          /\ nth[n] > Len(result[n]) /\ todo[n] # <<>>
      BY <2>1 DEF PhaseStep, NextPhase, Starting, InCall
    <2>3. marks' = [m \in Macs |-> marks'[m]]
      BY <1>0, <2>1, SameCalls DEF PhaseStep, Leave
    <2>4. CollectivesTypes'
      <3>1. todo' \in [LaidOut -> Seq(PhaseNames)]
        <4>1. Tail(todo[n]) \in Seq(PhaseNames)
          BY <1>0, <2>2
        <4> QED  BY <1>0, <2>2, <4>1
      <3> QED  BY <1>0, <1>00, <2>2, <2>3, <3>1, SameCalls DEF CollectivesTypes
    <2>5. Counted'
      <3>1. \A q \in LaidOut : q # n => nth'[q] = nth[q] /\ todo'[q] = todo[q] /\ plan'[q] = plan[q]
        BY <1>0, <2>2
      <3>2. nth'[n] # Len(result[n])
        BY <1>01, <2>2
      <3> QED  BY <1>02, <2>2, <3>1, <3>2, CountedKept
    <2> QED  BY <1>0, <2>2, <2>4, <2>5
  <1> QED  BY <1>1, <1>2, <1>3, <1>4, <1>5, KindsOfStep

----------------------------------------------------------------------------
(***************************************************************************)
(* What a step does to the node that takes it                              *)
(***************************************************************************)
Settled == CollectivesTypes /\ Counted /\ MacSize >= 2 /\ PhasesLeft /\ PlanOfRunner

Called(n) ==
  /\ nth[n] + 1 \in Ks /\ nth'[n] = nth[n] + 1
  /\ Len(todo[n]) = 0 /\ todo'[n] = Phases(n, program[nth[n] + 1])
  /\ plan[n] = <<>> /\ plan'[n] = <<>> /\ marks' = marks
Unmoved(n) ==
  /\ nth'[n] = nth[n] /\ todo'[n] = todo[n] /\ marks' = marks
  /\ plan'[n] # <<>> => plan[n] # <<>>
Advanced(n, ph) ==
  /\ nth'[n] = nth[n] /\ nth[n] \in WorldKs /\ plan[n] = <<>>
  /\ Len(todo[n]) \in 1..PhaseCount(n, nth[n]) /\ ph = PhaseWith(n, nth[n], Len(todo[n]))
  /\ todo[n] \in Seq(PhaseNames) /\ todo'[n] = Tail(todo[n]) /\ Len(todo'[n]) = Len(todo[n]) - 1
ToNet(n) == Advanced(n, "net") /\ marks' = marks
InPhase(n, ph) == PhaseStep(n, ph) /\ Advanced(n, ph) /\ plan'[n] = <<>> /\ ph # "net"

Effect(n) ==
  /\ Called(n) \/ Unmoved(n) \/ ToNet(n) \/ \E ph \in PhaseNames : InPhase(n, ph)
  /\ \A q \in LaidOut : q # n => nth'[q] = nth[q] /\ todo'[q] = todo[q] /\ plan'[q] = plan[q]
  /\ layout' = layout /\ program' = program

LEMMA StepEffect ==
  ASSUME Settled, NEW n \in LaidOut, CollectiveStep(n)
  PROVE  Effect(n)
  <1>0. CollectivesTypes /\ Counted /\ PhasesLeft
    BY DEF Settled
  <1>1. /\ layout' = layout /\ program' = program
        /\ \A q \in LaidOut : q # n => nth'[q] = nth[q] /\ todo'[q] = todo[q] /\ plan'[q] = plan[q]
    BY <1>0, TypesKept
  <1>2. /\ nth \in [LaidOut -> Nat] /\ todo \in [LaidOut -> Seq(PhaseNames)]
        /\ plan = [q \in LaidOut |-> plan[q]]
        /\ Len(result[n]) \in Nat /\ Len(result[n]) <= nth[n] /\ program \in Seq(Calls)
    <2>1. Plain(result[n]) /\ Len(result[n]) <= nth[n]
      BY <1>0 DEF Counted
    <2> QED  BY <1>0, <2>1 DEF CollectivesTypes, Plain
  <1>3. CASE CallOne(n)
    <2>1. nth[n] = Len(result[n]) /\ nth[n] + 1 \in Ks
      BY <1>2, <1>3 DEF CallOne, InCall, Ks
    <2>2. Len(todo[n]) = 0 /\ plan[n] = <<>>
      BY <1>0, <2>1 DEF Counted
    <2>3. /\ nth' = [nth EXCEPT ![n] = @ + 1]
          /\ todo' = [todo EXCEPT ![n] = Phases(n, program[nth[n] + 1])]
          /\ plan' = plan /\ marks' = marks
      BY <1>3 DEF CallOne
    <2>4. Called(n)
      BY <1>2, <2>1, <2>2, <2>3 DEF Called
    <2> QED  BY <1>1, <2>4 DEF Effect
  <1>4. CASE ReturnOne(n)
    <2>1. Unmoved(n)
      BY <1>4 DEF ReturnOne, Unmoved
    <2> QED  BY <1>1, <2>1 DEF Effect
  <1>5. CASE SockStep(n)
    <2>1. Unmoved(n)
      BY <1>5 DEF SockStep, Unmoved
    <2> QED  BY <1>1, <2>1 DEF Effect
  <1>6. ASSUME NEW ph, Starting(n, ph), NextPhase(n), nth' = nth
        PROVE  Advanced(n, ph)
    <2>1. /\ nth[n] \in WorldKs /\ plan[n] = <<>> /\ Len(todo[n]) \in 1..PhaseCount(n, nth[n])
          /\ ph = PhaseWith(n, nth[n], Len(todo[n])) /\ Len(todo[n]) \in Nat
      BY <1>0, <1>6, StartingIs
    <2>2. todo'[n] = Tail(todo[n]) /\ todo[n] # <<>> /\ todo[n] \in Seq(PhaseNames)
      BY <1>2, <1>6 DEF NextPhase, Starting
    <2>3. Len(Tail(todo[n])) = Len(todo[n]) - 1
      BY <2>2
    <2> QED  BY <1>6, <2>1, <2>2, <2>3 DEF Advanced
  <1>7. CASE NetStep(n)
    <2>1. ToNet(n)
      BY <1>6, <1>7 DEF NetStep, ToNet
    <2> QED  BY <1>1, <2>1 DEF Effect
  <1>8. CASE \E ph \in PhaseNames : PhaseStep(n, ph)
    <2>1. PICK ph \in PhaseNames : PhaseStep(n, ph)
      BY <1>8
    <2>2. Advanced(n, ph)
      BY <1>6, <2>1 DEF PhaseStep
    <2>3. plan'[n] = <<>> /\ ph # "net"
      BY <2>1, <2>2 DEF PhaseStep, Advanced
    <2> QED  BY <1>1, <2>1, <2>2, <2>3 DEF Effect, InPhase
  <1> QED  BY <1>3, <1>4, <1>5, <1>7, <1>8, KindsOfStep

\* The numbers of a state that the rest is about.
LEMMA Numbers ==
  ASSUME CollectivesTypes, NEW q \in LaidOut
  PROVE  nth[q] \in Nat /\ Len(todo[q]) \in Nat
  BY DEF CollectivesTypes

LEMMA CountType ==
  ASSUME program \in Seq(Calls), NEW n \in LaidOut, NEW k \in Ks
  PROVE  PhaseCount(n, k) \in Nat
  BY KindsOfCall DEF PhaseCount

LEMMA PhasesLeftKept ==
  ASSUME Settled, NEW n \in LaidOut, Effect(n), CollectivesTypes'
  PROVE  PhasesLeft'
  <1>0. /\ LaidOut' = LaidOut /\ Ks' = Ks /\ WorldKs \subseteq Ks
        /\ \A q \in LaidOut : \A k \in Ks : PhaseCount(q, k)' = PhaseCount(q, k)
        /\ \A q \in LaidOut : \A k \in Ks : \A d \in Nat : PhaseWith(q, k, d)' = PhaseWith(q, k, d)
    BY SameCalls DEF Effect, WorldKs
  <1>1. CollectivesTypes /\ PhasesLeft /\ Counted
    BY DEF Settled
  <1> SUFFICES ASSUME NEW q \in LaidOut, nth'[q] > 0
               PROVE  \A k : k = nth'[q] =>
                        /\ Len(todo'[q]) <= PhaseCount(q, k)'
                        /\ \A d \in 1..Len(todo'[q]) :
                             todo'[q][Len(todo'[q]) - d + 1] = PhaseWith(q, k, d)'
    BY <1>0 DEF PhasesLeft
  <1> SUFFICES ASSUME NEW k, k = nth'[q]
               PROVE  /\ Len(todo'[q]) <= PhaseCount(q, k)'
                      /\ \A d \in 1..Len(todo'[q]) :
                           todo'[q][Len(todo'[q]) - d + 1] = PhaseWith(q, k, d)'
    OBVIOUS
  <1>2. nth'[q] \in Nat /\ nth[q] \in Nat /\ Len(todo'[q]) \in Nat /\ Len(todo[q]) \in Nat
    BY <1>0, <1>1, Numbers DEF CollectivesTypes
  <1>3. nth[q] <= Len(program) /\ program \in Seq(Calls) /\ layout \in Seq(Nat)
    BY <1>1 DEF Counted, CollectivesTypes
  <1>4. CASE nth'[q] = nth[q] /\ todo'[q] = todo[q]
    <2>1. nth[q] \in Ks
      BY <1>2, <1>3, <1>4 DEF Ks
    <2> QED  BY <1>0, <1>1, <1>2, <1>4, <2>1 DEF PhasesLeft
  <1>5. CASE q = n /\ Called(n)
    <2>1. nth'[q] = nth[q] + 1 /\ nth'[q] \in Ks /\ todo'[q] = Phases(q, program[nth'[q]])
      BY <1>2, <1>5 DEF Called
    <2>2. MacSize >= 2 /\ MacSize \in Nat
      BY <1>3 DEF Settled, MacSize
    <2>3. /\ Len(todo'[q]) = PhaseCount(q, k)
          /\ \A d \in 1..PhaseCount(q, k) :
               todo'[q][PhaseCount(q, k) - d + 1] = PhaseWith(q, k, d)
      BY <1>3, <2>1, <2>2, PhasesOf
    <2>4. PhaseCount(q, k)' = PhaseCount(q, k)
          /\ \A d \in Nat : PhaseWith(q, k, d)' = PhaseWith(q, k, d)
      BY <1>0, <2>1
    <2>5. PhaseCount(q, k) \in Nat
      BY <1>3, <2>1, CountType
    <2>6. Len(todo'[q]) <= PhaseCount(q, k)'
      BY <2>3, <2>4, <2>5
    <2>7. ASSUME NEW d \in 1..Len(todo'[q])
          PROVE  todo'[q][Len(todo'[q]) - d + 1] = PhaseWith(q, k, d)'
      <3>1. d \in Nat /\ d \in 1..PhaseCount(q, k)
        BY <2>3, <2>5, <2>7
      <3> QED  BY <2>3, <2>4, <3>1
    <2> QED  BY <2>6, <2>7
  <1>6. CASE q = n /\ \E ph : Advanced(n, ph)
    <2>1. PICK ph : Advanced(n, ph)
      BY <1>6
    <2>2. /\ nth'[q] = nth[q] /\ nth[q] \in Ks /\ todo[q] \in Seq(PhaseNames) /\ todo[q] # <<>>
          /\ todo'[q] = Tail(todo[q]) /\ Len(todo'[q]) = Len(todo[q]) - 1
      <3>1. nth[q] \in Ks
        BY <1>0, <1>6, <2>1 DEF Advanced
      <3>2. PhaseCount(q, nth[q]) \in Nat
        BY <1>3, <3>1, CountType
      <3>3. Len(todo[q]) >= 1
        BY <1>2, <1>6, <2>1, <3>2 DEF Advanced
      <3>4. todo[q] # <<>>
        BY <3>3
      <3> QED  BY <1>6, <2>1, <3>1, <3>4 DEF Advanced
    <2>3. /\ Len(todo[q]) <= PhaseCount(q, nth[q])
          /\ \A d \in 1..Len(todo[q]) : todo[q][Len(todo[q]) - d + 1] = PhaseWith(q, nth[q], d)
      BY <1>1, <2>2 DEF PhasesLeft
    <2>4. PhaseCount(q, k)' = PhaseCount(q, nth[q]) /\ PhaseCount(q, nth[q]) \in Nat
      BY <1>0, <1>3, <2>2, CountType
    <2>5. ASSUME NEW d \in 1..Len(todo'[q])
          PROVE  todo'[q][Len(todo'[q]) - d + 1] = PhaseWith(q, k, d)'
      <3>1. d \in 1..Len(todo[q]) /\ d \in Nat /\ Len(todo'[q]) - d + 1 \in 1..(Len(todo[q]) - 1)
        BY <1>2, <2>2
      <3>2. todo'[q][Len(todo'[q]) - d + 1] = todo[q][Len(todo'[q]) - d + 1 + 1]
        BY <2>2, <3>1
      <3>3. Len(todo'[q]) - d + 1 + 1 = Len(todo[q]) - d + 1
        BY <1>2, <2>2, <3>1
      <3> QED  BY <1>0, <2>2, <2>3, <3>1, <3>2, <3>3
    <2> QED  BY <1>2, <2>2, <2>3, <2>4, <2>5
  <1> QED  BY <1>4, <1>5, <1>6 DEF Effect, Unmoved, ToNet, InPhase

LEMMA RunnerCount ==
  ASSUME program \in Seq(Calls), NEW n \in LaidOut, NEW k \in WorldKs
  PROVE  /\ PhaseCount(n, k) >= 1
         /\ Runs(n, k) => PhaseCount(n, k) >= NetWith(k)
         /\ Runs(n, k) /\ Op(k) # "Bcast" => PhaseCount(n, k) > NetWith(k)
  BY KindsOfCall DEF PhaseCount, WorldKs

LEMMA PlanKept ==
  ASSUME Settled, NEW n \in LaidOut, Effect(n), CollectivesTypes'
  PROVE  PlanOfRunner'
  <1>0. /\ LaidOut' = LaidOut /\ WorldKs' = WorldKs /\ WorldKs \subseteq Ks
        /\ \A k \in Ks : NetWith(k)' = NetWith(k)
        /\ \A q \in LaidOut : \A k \in Ks : Runs(q, k)' <=> Runs(q, k)
    BY SameCalls DEF Effect, WorldKs
  <1> SUFFICES ASSUME NEW q \in LaidOut, plan'[q] # <<>>
               PROVE  \A k : k = nth'[q] =>
                        k \in WorldKs /\ Runs(q, k)' /\ Len(todo'[q]) = NetWith(k)' - 1
    BY <1>0 DEF PlanOfRunner
  <1> SUFFICES ASSUME NEW k, k = nth'[q]
               PROVE  k \in WorldKs /\ Runs(q, k)' /\ Len(todo'[q]) = NetWith(k)' - 1
    OBVIOUS
  <1>1. program \in Seq(Calls)
    BY DEF Settled, CollectivesTypes
  <1>2. CASE plan[q] # <<>> /\ nth'[q] = nth[q] /\ todo'[q] = todo[q]
    BY <1>0, <1>2 DEF Settled, PlanOfRunner
  <1>3. CASE q = n /\ ToNet(n)
    <2>1. k \in WorldKs /\ Len(todo[q]) \in 1..PhaseCount(q, k) /\ "net" = PhaseWith(q, k, Len(todo[q]))
          /\ Len(todo'[q]) = Len(todo[q]) - 1
      BY <1>3 DEF ToNet, Advanced
    <2>2. Runs(q, k) /\ Len(todo[q]) = NetWith(k)
      BY <1>1, <2>1, PhaseTells
    <2> QED  BY <1>0, <2>1, <2>2
  <1> QED  BY <1>2, <1>3 DEF Effect, Called, Unmoved, InPhase

LEMMA Frame ==
  ASSUME Settled, NEW n \in LaidOut, Effect(n), CollectivesTypes'
  PROVE  /\ LaidOut' = LaidOut /\ WorldKs' = WorldKs /\ WorldKs \subseteq Ks /\ WorldKs \subseteq Nat
         /\ program \in Seq(Calls)
         /\ \A k \in WorldKs : Op(k)' = Op(k) /\ NetWith(k)' = NetWith(k) /\ NetWith(k) \in {1, 2, 3}
         /\ \A q \in LaidOut : \A k \in WorldKs :
              (Runs(q, k)' <=> Runs(q, k)) /\ PhaseCount(q, k) \in Nat
         /\ \A q \in LaidOut :
              /\ nth[q] \in Nat /\ Len(todo[q]) \in Nat /\ nth'[q] \in Nat /\ Len(todo'[q]) \in Nat
              /\ nth'[q] >= nth[q]
  <1>1. program \in Seq(Calls) /\ layout' = layout /\ program' = program /\ CollectivesTypes
    BY DEF Settled, CollectivesTypes, Effect
  <1>2. LaidOut' = LaidOut /\ WorldKs' = WorldKs /\ WorldKs \subseteq Ks /\ Ks \subseteq Nat
    BY <1>1, SameCalls, KindsOfCall DEF WorldKs
  <1>3. \A k \in WorldKs : Op(k)' = Op(k) /\ NetWith(k)' = NetWith(k) /\ NetWith(k) \in {1, 2, 3}
    BY <1>1, <1>2, SameCalls, KindsOfCall
  <1>4. \A q \in LaidOut : \A k \in WorldKs : (Runs(q, k)' <=> Runs(q, k)) /\ PhaseCount(q, k) \in Nat
    BY <1>1, <1>2, SameCalls, CountType
  <1>5. ASSUME NEW q \in LaidOut
        PROVE  /\ nth[q] \in Nat /\ Len(todo[q]) \in Nat /\ nth'[q] \in Nat /\ Len(todo'[q]) \in Nat
               /\ nth'[q] >= nth[q]
    <2>1. nth[q] \in Nat /\ Len(todo[q]) \in Nat /\ nth'[q] \in Nat /\ Len(todo'[q]) \in Nat
      BY <1>1, <1>2 DEF CollectivesTypes
    <2>2. nth'[q] = nth[q] \/ nth'[q] = nth[q] + 1
      BY DEF Effect, Called, Unmoved, ToNet, InPhase, Advanced
    <2> QED  BY <2>1, <2>2
  <1> QED  BY <1>1, <1>2, <1>3, <1>4, <1>5

LEMMA ThroughKept ==
  ASSUME Settled, NEW n \in LaidOut, Effect(n), CollectivesTypes',
         NEW q \in LaidOut, NEW k \in WorldKs, Runs(q, k), Through(q, k)
  PROVE  Through(q, k)'
  <1>0. /\ program \in Seq(Calls) /\ NetWith(k)' = NetWith(k) /\ NetWith(k) \in {1, 2, 3} /\ k \in Nat
        /\ nth[q] \in Nat /\ Len(todo[q]) \in Nat /\ nth'[q] \in Nat /\ Len(todo'[q]) \in Nat
        /\ nth'[q] >= nth[q] /\ PhaseCount(q, k) \in Nat
    BY Frame
  <1>1. CASE nth[q] > k
    BY <1>0, <1>1 DEF Through, Entered
  <1>2. CASE nth[q] = k
    <2>1. Len(todo[q]) < NetWith(k) /\ plan[q] = <<>>
      BY <1>0, <1>2 DEF Through, Entered
    <2>2. CASE q = n /\ Called(n)
      BY <1>0, <1>2, <2>2 DEF Called, Through, Entered
    <2>3. CASE q = n /\ ToNet(n)
      <3>1. Len(todo[q]) \in 1..PhaseCount(q, k) /\ PhaseWith(q, k, Len(todo[q])) = "net"
        BY <1>2, <2>3 DEF ToNet, Advanced
      <3>2. Len(todo[q]) = NetWith(k)
        BY <1>0, <3>1, PhaseTells
      <3> QED  BY <1>0, <2>1, <3>2
    <2>4. CASE q = n /\ \E ph \in PhaseNames : InPhase(n, ph)
      <3>1. nth'[q] = nth[q] /\ plan'[q] = <<>> /\ Len(todo'[q]) = Len(todo[q]) - 1
        BY <2>4 DEF InPhase, Advanced
      <3> QED  BY <1>0, <1>2, <2>1, <3>1 DEF Through, Entered
    <2>5. CASE nth'[q] = nth[q] /\ todo'[q] = todo[q] /\ (plan'[q] # <<>> => plan[q] # <<>>)
      BY <1>0, <1>2, <2>1, <2>5 DEF Through, Entered
    <2> QED  BY <2>2, <2>3, <2>4, <2>5 DEF Effect, Unmoved
  <1> QED  BY <1>0, <1>1, <1>2 DEF Through, Entered

LEMMA EnteredBefore ==
  ASSUME Settled, NEW n \in LaidOut, Effect(n), CollectivesTypes',
         NEW q \in LaidOut, NEW k \in WorldKs, Runs(q, k), Entered(q, k)'
  PROVE  Entered(q, k) \/ (q = n /\ ToNet(n) /\ nth[n] = k)
  <1>0. /\ program \in Seq(Calls) /\ NetWith(k)' = NetWith(k) /\ NetWith(k) \in {1, 2, 3} /\ k \in Nat
        /\ nth[q] \in Nat /\ Len(todo[q]) \in Nat /\ nth'[q] \in Nat /\ Len(todo'[q]) \in Nat
        /\ nth'[q] >= nth[q] /\ PhaseCount(q, k) \in Nat
    BY Frame
  <1>1. nth'[q] > k \/ (nth'[q] = k /\ Len(todo'[q]) < NetWith(k))
    BY <1>0 DEF Entered
  <1>2. CASE q = n /\ Called(n)
    <2>1. nth'[q] = nth[q] + 1 /\ Len(todo[q]) = 0
      BY <1>2 DEF Called
    <2>2. nth'[q] # k \/ Len(todo'[q]) >= NetWith(k)
      <3> SUFFICES ASSUME nth'[q] = k PROVE Len(todo'[q]) >= NetWith(k)
        BY <1>0
      <3>1. todo'[q] = Phases(q, program[k]) /\ k \in Ks
        BY <1>2 DEF Called
      <3>2. MacSize >= 2 /\ MacSize \in Nat
        BY DEF Settled, CollectivesTypes, MacSize
      <3>3. Len(todo'[q]) = PhaseCount(q, k)
        BY <1>0, <3>1, <3>2, PhasesOf
      <3> QED  BY <1>0, <3>3, RunnerCount
    <2> QED  BY <1>0, <1>1, <2>1, <2>2 DEF Entered
  <1>3. CASE q = n /\ ToNet(n)
    <2>1. nth'[q] = nth[q]
      BY <1>3 DEF ToNet, Advanced
    <2> QED  BY <1>0, <1>1, <1>3, <2>1 DEF Entered
  <1>4. CASE q = n /\ \E ph \in PhaseNames : InPhase(n, ph)
    <2>1. PICK ph \in PhaseNames : InPhase(n, ph)
      BY <1>4
    <2>2. /\ nth'[q] = nth[q] /\ Len(todo'[q]) = Len(todo[q]) - 1 /\ ph # "net"
          /\ Len(todo[q]) \in 1..PhaseCount(q, nth[q]) /\ ph = PhaseWith(q, nth[q], Len(todo[q]))
      BY <1>4, <2>1 DEF InPhase, Advanced
    <2>3. CASE nth[q] = k
      <3>1. Len(todo[q]) # NetWith(k)
        BY <1>0, <2>2, <2>3, PhaseTells
      <3> QED  BY <1>0, <1>1, <2>2, <2>3, <3>1 DEF Entered
    <2> QED  BY <1>0, <1>1, <2>2, <2>3 DEF Entered
  <1>5. CASE nth'[q] = nth[q] /\ todo'[q] = todo[q]
    BY <1>0, <1>1, <1>5 DEF Entered
  <1> QED  BY <1>2, <1>3, <1>4, <1>5 DEF Effect, Unmoved

LEMMA FinishedBefore ==
  ASSUME Settled, NEW n \in LaidOut, Effect(n), CollectivesTypes',
         NEW q \in LaidOut, NEW k \in WorldKs, Finished(q, k)'
  PROVE  \/ Finished(q, k)
         \/ q = n /\ nth[n] = k /\ Len(todo[n]) = 1 /\ ToNet(n)
         \/ q = n /\ nth[n] = k /\ Len(todo[n]) = 1 /\ \E ph \in PhaseNames : InPhase(n, ph)
  <1>0. /\ program \in Seq(Calls) /\ k \in Nat
        /\ nth[q] \in Nat /\ Len(todo[q]) \in Nat /\ nth'[q] \in Nat /\ Len(todo'[q]) \in Nat
        /\ nth'[q] >= nth[q] /\ PhaseCount(q, k) \in Nat
    BY Frame
  <1>1. nth'[q] > k \/ (nth'[q] = k /\ Len(todo'[q]) = 0)
    BY DEF Finished
  <1>2. CASE q = n /\ Called(n)
    <2>1. nth'[q] = nth[q] + 1 /\ Len(todo[q]) = 0
      BY <1>2 DEF Called
    <2>2. nth'[q] # k \/ Len(todo'[q]) >= 1
      <3> SUFFICES ASSUME nth'[q] = k PROVE Len(todo'[q]) >= 1
        BY <1>0
      <3>1. todo'[q] = Phases(q, program[k]) /\ k \in Ks
        BY <1>2 DEF Called
      <3>2. MacSize >= 2 /\ MacSize \in Nat
        BY DEF Settled, CollectivesTypes, MacSize
      <3>3. Len(todo'[q]) = PhaseCount(q, k)
        BY <1>0, <3>1, <3>2, PhasesOf
      <3> QED  BY <1>0, <3>3, RunnerCount
    <2> QED  BY <1>0, <1>1, <2>1, <2>2 DEF Finished
  <1>3. CASE q = n /\ (ToNet(n) \/ \E ph \in PhaseNames : InPhase(n, ph))
    <2>1. nth'[q] = nth[q] /\ Len(todo'[q]) = Len(todo[q]) - 1
      BY <1>3 DEF ToNet, InPhase, Advanced
    <2>2. nth[q] > k \/ (nth[q] = k /\ Len(todo[q]) = 1)
      BY <1>0, <1>1, <2>1
    <2> QED  BY <1>3, <2>2 DEF Finished
  <1>4. CASE nth'[q] = nth[q] /\ todo'[q] = todo[q]
    BY <1>0, <1>1, <1>4 DEF Finished
  <1> QED  BY <1>2, <1>3, <1>4 DEF Effect, Unmoved

----------------------------------------------------------------------------
(***************************************************************************)
(* The order of the collectives of a machine                               *)
(***************************************************************************)
LEMMA MarksKept ==
  ASSUME Settled, NEW n \in LaidOut, Effect(n), CollectivesTypes', MarksTell
  PROVE  MarksTell'
  <1>0. /\ LaidOut' = LaidOut /\ WorldKs' = WorldKs /\ program \in Seq(Calls) /\ WorldKs \subseteq Nat
        /\ \A q \in LaidOut : \A k \in WorldKs : Runs(q, k)' <=> Runs(q, k)
        /\ \A q \in LaidOut : nth[q] \in Nat /\ nth'[q] \in Nat /\ nth'[q] >= nth[q]
    BY Frame
  <1> SUFFICES ASSUME NEW p \in LaidOut, NEW k \in WorldKs
               PROVE  /\ <<k, "post", p[2]>> \in marks'[p[1]] => Runs(p, k) /\ Through(p, k)'
                      /\ <<k, "give", p[2]>> \in marks'[p[1]] => nth'[p] >= k
                      /\ <<k, "arrive", p[2]>> \in marks'[p[1]] => nth'[p] >= k
                      /\ <<k, "arrive_again", p[2]>> \in marks'[p[1]] =>
                           nth'[p] >= k /\ (Runs(p, k) => Through(p, k)')
    BY <1>0 DEF MarksTell
  <1>1. /\ <<k, "post", p[2]>> \in marks[p[1]] => Runs(p, k) /\ Through(p, k)'
        /\ <<k, "give", p[2]>> \in marks[p[1]] => nth'[p] >= k
        /\ <<k, "arrive", p[2]>> \in marks[p[1]] => nth'[p] >= k
        /\ <<k, "arrive_again", p[2]>> \in marks[p[1]] =>
             nth'[p] >= k /\ (Runs(p, k) => Through(p, k)')
    <2>1. Runs(p, k) /\ Through(p, k) => Through(p, k)'
      BY ThroughKept
    <2>2. /\ <<k, "post", p[2]>> \in marks[p[1]] => Runs(p, k) /\ Through(p, k)
          /\ <<k, "give", p[2]>> \in marks[p[1]] => nth[p] >= k
          /\ <<k, "arrive", p[2]>> \in marks[p[1]] => nth[p] >= k
          /\ <<k, "arrive_again", p[2]>> \in marks[p[1]] =>
               nth[p] >= k /\ (Runs(p, k) => Through(p, k))
      BY DEF MarksTell
    <2>3. nth[p] >= k => nth'[p] >= k
      BY <1>0
    <2> QED  BY <2>1, <2>2, <2>3
  <1>2. CASE marks' = marks
    BY <1>1, <1>2
  <1>3. CASE \E ph \in PhaseNames : InPhase(n, ph) /\ ph \in MarkedPhases
    <2>1. PICK ph \in PhaseNames : InPhase(n, ph) /\ ph \in MarkedPhases
      BY <1>3
    <2>2. marks' = [marks EXCEPT ![n[1]] = @ \cup {<<nth[n], ph, n[2]>>}]
      BY <2>1 DEF InPhase, PhaseStep, Leave
    <2>3. marks = [m \in Macs |-> marks[m]] /\ p[1] \in Macs /\ n[1] \in Macs
      BY NodeIsPair DEF Settled, CollectivesTypes
    <2>4. ASSUME NEW tag, <<k, tag, p[2]>> \in marks'[p[1]], <<k, tag, p[2]>> \notin marks[p[1]]
          PROVE  p = n /\ k = nth[n] /\ tag = ph
      <3>1. p[1] = n[1] /\ <<k, tag, p[2]>> = <<nth[n], ph, n[2]>>
        BY <2>2, <2>3, <2>4
      <3> QED  BY <3>1, NodeIsPair
    <2>5. CASE p = n /\ k = nth[n]
      <3>1. /\ nth'[n] = nth[n] /\ plan'[n] = <<>> /\ Len(todo'[n]) = Len(todo[n]) - 1
            /\ Len(todo[n]) \in 1..PhaseCount(n, k) /\ ph = PhaseWith(n, k, Len(todo[n]))
        BY <2>1, <2>5 DEF InPhase, Advanced
      <3>2. /\ ph = "post" => Runs(n, k) /\ Len(todo[n]) < NetWith(k)
            /\ ph = "arrive_again" => Len(todo[n]) = 2 /\ NetWith(k) = 3
        BY <1>0, <3>1, PhaseTells
      <3>3. /\ NetWith(k)' = NetWith(k) /\ NetWith(k) \in {1, 2, 3} /\ k \in Nat
            /\ Len(todo[n]) \in Nat /\ Len(todo'[n]) \in Nat
        BY Frame
      <3>4. Len(todo[n]) < NetWith(k) => Through(n, k)'
        BY <2>5, <3>1, <3>3 DEF Through, Entered
      <3>5. nth'[p] >= k
        BY <1>0, <2>5, <3>1
      <3>6. ph = "post" \/ ph = "arrive_again" \/ ph = "give" \/ ph = "arrive"
        BY <2>1 DEF MarkedPhases
      <3>7. <<k, "post", p[2]>> \in marks'[p[1]] => Runs(p, k) /\ Through(p, k)'
        BY <1>1, <2>4, <2>5, <3>2, <3>4
      <3>8. <<k, "arrive_again", p[2]>> \in marks'[p[1]] => (Runs(p, k) => Through(p, k)')
        <4>1. ASSUME ph = "arrive_again" PROVE Len(todo[n]) < NetWith(k)
          <5>1. Len(todo[n]) = 2 /\ NetWith(k) = 3
            BY <3>2, <4>1
          <5> QED  BY <5>1
        <4> QED  BY <1>1, <2>4, <2>5, <3>4, <4>1
      <3> QED  BY <3>5, <3>7, <3>8
    <2> QED  BY <1>1, <2>4, <2>5
  <1> QED  BY <1>2, <1>3 DEF Effect, Called, Unmoved, ToNet, InPhase, PhaseStep

LEMMA LocalsAre ==
  ASSUME CollectivesTypes, NEW m
  PROVE  Locals(m) = {q \in LaidOut : q[1] = m}
  BY DEF Locals, Nodes, CollectivesTypes

\* A machine that has a node has a node 0.
LEMMA FirstNode ==
  ASSUME layout \in Seq(Nat), NEW n \in LaidOut
  PROVE  <<n[1], 0>> \in LaidOut
  <1>1. PICK m \in Macs : n \in {m} \X (0..(layout[m + 1] - 1))
    BY DEF LaidOut
  <1>2. m + 1 \in 1..Len(layout)
    BY DEF Macs, MacSize
  <1>3. layout[m + 1] \in Nat
    BY <1>2
  <1>4. n[1] = m /\ n[2] \in 0..(layout[m + 1] - 1)
    BY <1>1
  <1>5. 0 \in 0..(layout[m + 1] - 1)
    BY <1>3, <1>4
  <1>6. <<n[1], 0>> \in {m} \X (0..(layout[m + 1] - 1))
    BY <1>4, <1>5
  <1> QED  BY <1>6 DEF LaidOut

LEMMA FinishedKept ==
  ASSUME Settled, NEW n \in LaidOut, Effect(n), CollectivesTypes', MarksTell, FinishedAfterNet
  PROVE  FinishedAfterNet'
  <1>0. /\ LaidOut' = LaidOut /\ WorldKs' = WorldKs /\ program \in Seq(Calls)
        /\ \A k \in WorldKs : Op(k)' = Op(k) /\ NetWith(k) \in {1, 2, 3} /\ NetWith(k)' = NetWith(k)
        /\ \A q \in LaidOut : \A k \in WorldKs : Runs(q, k)' <=> Runs(q, k)
    BY Frame
  <1> SUFFICES ASSUME NEW p \in LaidOut, NEW k \in WorldKs, Op(k) # "Reduce", Finished(p, k)'
               PROVE  \E q \in LaidOut : Same(p, q) /\ Runs(q, k) /\ Through(q, k)'
    BY <1>0 DEF FinishedAfterNet, Same
  <1>1. ASSUME NEW q \in LaidOut, Same(p, q), Runs(q, k), Through(q, k)
        PROVE  \E r \in LaidOut : Same(p, r) /\ Runs(r, k) /\ Through(r, k)'
    BY <1>1, ThroughKept
  <1>2. CASE Finished(p, k)
    BY <1>1, <1>2 DEF FinishedAfterNet
  <1>3. CASE p = n /\ nth[n] = k /\ Len(todo[n]) = 1 /\ ToNet(n)
    <2>1. Len(todo[n]) \in 1..PhaseCount(n, k) /\ "net" = PhaseWith(n, k, Len(todo[n]))
      BY <1>3 DEF ToNet, Advanced
    <2>2. NetWith(k) = 1
      BY <1>0, <1>3, <2>1, PhaseTells
    <2>3. k \in Ks
      BY DEF WorldKs
    <2> QED  BY <1>0, <2>2, <2>3, KindsOfCall
  <1>4. ASSUME p = n, nth[n] = k, Len(todo[n]) = 1, NEW ph \in PhaseNames, InPhase(n, ph)
        PROVE  \E q \in LaidOut : Same(p, q) /\ Runs(q, k) /\ Through(q, k)'
    <2>1. /\ nth'[n] = nth[n] /\ plan'[n] = <<>> /\ Len(todo'[n]) = Len(todo[n]) - 1
          /\ Len(todo[n]) \in 1..PhaseCount(n, k) /\ ph = PhaseWith(n, k, Len(todo[n]))
      BY <1>4 DEF InPhase, Advanced
    <2>2. ph \in {"post", "take", "pass_again"}
      BY <1>0, <1>4, <2>1, PhaseTells
    <2>3. CASE ph = "post"
      <3>0. "post" = PhaseWith(n, k, Len(todo[n])) /\ Len(todo[n]) \in 1..PhaseCount(n, k)
        BY <2>1, <2>3
      <3>1. Runs(n, k) /\ Len(todo[n]) < NetWith(k)
        BY <1>0, <3>0, PhaseTells
      <3>2. Through(n, k)'
        BY <1>0, <1>4, <2>1, <3>1 DEF Through, Entered
      <3> QED  BY <1>4, <3>1, <3>2 DEF Same
    <2>4. CASE ph = "take"
      <3>1. PICK q \in Locals(n[1]) : Left(n, "post", {q})
        BY <1>4, <2>4 DEF InPhase, PhaseStep
      <3>2. q \in LaidOut /\ q[1] = n[1]
        BY <3>1, LocalsAre DEF Settled
      <3>3. <<k, "post", q[2]>> \in marks[q[1]]
        BY <1>4, <3>1, <3>2 DEF Left
      <3>4. Runs(q, k) /\ Through(q, k)
        BY <3>2, <3>3 DEF MarksTell
      <3> QED  BY <1>1, <1>4, <3>2, <3>4 DEF Same
    <2>5. CASE ph = "pass_again"
      <3>0. "pass_again" = PhaseWith(n, k, Len(todo[n])) /\ Len(todo[n]) \in 1..PhaseCount(n, k)
        BY <2>1, <2>5
      <3>1. Op(k) = "Barrier"
        BY <1>0, <3>0, PhaseTells
      <3>11. k \in Ks
        BY DEF WorldKs
      <3> DEFINE q == <<n[1], 0>>
      <3>2. q \in LaidOut /\ q[1] = n[1] /\ q[2] = 0
        <4>1. layout \in Seq(Nat)
          BY DEF Settled, CollectivesTypes
        <4> QED  BY <4>1, FirstNode
      <3> HIDE DEF q
      <3>3. Runs(q, k)
        BY <1>0, <3>1, <3>11, <3>2, RunnerByRoot
      <3>4. q \in Locals(n[1])
        BY <3>2, LocalsAre DEF Settled
      <3>5. <<k, "arrive_again", q[2]>> \in marks[q[1]]
        BY <1>4, <2>5, <3>2, <3>4 DEF InPhase, PhaseStep, Left
      <3>6. Through(q, k)
        BY <3>2, <3>3, <3>5 DEF MarksTell
      <3> QED  BY <1>1, <1>4, <3>2, <3>3, <3>6 DEF Same
    <2> QED  BY <2>2, <2>3, <2>4, <2>5
  <1> QED  BY <1>2, <1>3, <1>4, FinishedBefore

LEMMA GatheredKept ==
  ASSUME Settled, NEW n \in LaidOut, Effect(n), CollectivesTypes', MarksTell, GatheredBeforeNet
  PROVE  GatheredBeforeNet'
  <1>0. /\ LaidOut' = LaidOut /\ WorldKs' = WorldKs /\ program \in Seq(Calls)
        /\ \A k \in WorldKs : Op(k)' = Op(k) /\ NetWith(k) \in {1, 2, 3} /\ NetWith(k)' = NetWith(k)
        /\ \A q \in LaidOut : \A k \in WorldKs : Runs(q, k)' <=> Runs(q, k)
    BY Frame
  <1> SUFFICES ASSUME NEW p \in LaidOut, NEW q \in LaidOut, NEW k \in WorldKs, Same(p, q),
                      Op(k) # "Bcast", Runs(p, k), nth'[p] = k, Len(todo'[p]) <= NetWith(k)
               PROVE  nth'[q] >= k
    BY <1>0 DEF GatheredBeforeNet, Same
  <1>1. /\ nth[p] \in Nat /\ Len(todo[p]) \in Nat /\ nth'[p] \in Nat /\ Len(todo'[p]) \in Nat /\ k \in Nat
        /\ PhaseCount(p, k) \in Nat
    BY Frame
  <1>2. nth[q] >= k => nth'[q] >= k
    BY <1>1, Frame
  <1>3. CASE nth[p] = k /\ Len(todo[p]) <= NetWith(k)
    BY <1>2, <1>3 DEF GatheredBeforeNet
  <1>4. CASE p = n /\ Called(n)
    <2>1. todo'[p] = Phases(p, program[k]) /\ k \in Ks
      BY <1>4 DEF Called
    <2>2. MacSize >= 2 /\ MacSize \in Nat
      BY DEF Settled, CollectivesTypes, MacSize
    <2>3. Len(todo'[p]) = PhaseCount(p, k)
      BY <1>0, <2>1, <2>2, PhasesOf
    <2> QED  BY <1>0, <1>1, <2>3, RunnerCount
  <1>5. ASSUME p = n, NEW ph, Advanced(n, ph), ~(nth[p] = k /\ Len(todo[p]) <= NetWith(k))
        PROVE  ph \in {"gather", "pass"} /\ nth[n] = k
    <2>1. /\ nth[p] = k /\ Len(todo'[p]) = Len(todo[p]) - 1
          /\ Len(todo[p]) \in 1..PhaseCount(p, k) /\ ph = PhaseWith(p, k, Len(todo[p]))
      BY <1>5 DEF Advanced
    <2>2. Len(todo[p]) = NetWith(k) + 1
      BY <1>0, <1>1, <1>5, <2>1
    <2> QED  BY <1>0, <1>5, <2>1, <2>2, PhaseTells
  <1>6. ASSUME p = n, NEW ph \in PhaseNames, InPhase(n, ph), ph \in {"gather", "pass"}, nth[n] = k
        PROVE  nth'[q] >= k
    <2>1. CASE q = n
      BY <1>1, <1>6, <2>1
    <2>2. CASE q # n
      <3>1. q \in Locals(n[1]) /\ q[1] = n[1]
        BY <1>6, LocalsAre DEF Same, Settled
      <3>2. <<k, "give", q[2]>> \in marks[q[1]] \/ <<k, "arrive", q[2]>> \in marks[q[1]]
        BY <1>6, <2>2, <3>1 DEF InPhase, PhaseStep, Left
      <3>3. nth[q] >= k
        BY <3>2 DEF MarksTell
      <3> QED  BY <1>2, <3>3
    <2> QED  BY <2>1, <2>2
  <1>7. CASE nth'[p] = nth[p] /\ todo'[p] = todo[p]
    BY <1>3, <1>7
  <1>8. CASE p = n /\ ToNet(n)
    BY <1>3, <1>5, <1>8 DEF ToNet
  <1>9. CASE p = n /\ \E ph \in PhaseNames : InPhase(n, ph)
    BY <1>3, <1>5, <1>6, <1>9 DEF InPhase
  <1> QED  BY <1>4, <1>7, <1>8, <1>9 DEF Effect, Unmoved

\* A set of numbers that is not empty has a least one.
LEMMA LeastNumber ==
  ASSUME NEW T \in SUBSET Nat, T # {}
  PROVE  \E x \in T : \A y \in T : x <= y
  <1> DEFINE R == {p \in Nat \X Nat : p[1] < p[2]}
  <1>1. IsWellFoundedOn(R, Nat)
    BY NatLessThanWellFounded DEF OpToRel
  <1>2. PICK x \in T : \A y \in T : <<y, x>> \notin R
    BY <1>1, WFMin
  <1>3. \A y \in T : ~(y < x)
    BY <1>2
  <1> QED  BY <1>3

\* The last call before j that is not refused.
LEMMA LastCall ==
  ASSUME program \in Seq(Calls), NEW j \in WorldKs, NEW k \in WorldKs, k < j
  PROVE  \E i \in WorldKs : k <= i /\ i < j /\ \A l \in (i + 1)..(j - 1) : ~program[l].world
  <1> DEFINE T == {x \in Nat : j - x \in WorldKs /\ k <= j - x /\ x > 0}
  <1>1. j \in Nat /\ k \in Nat /\ Len(program) \in Nat /\ j <= Len(program) /\ k >= 1
    BY DEF WorldKs, Ks
  <1>2. j - k \in T
    BY <1>1
  <1>3. PICK x \in T : \A y \in T : x <= y
    BY <1>2, LeastNumber
  <1>4. j - x \in WorldKs /\ k <= j - x /\ j - x < j /\ x \in Nat
    BY <1>1, <1>3
  <1>5. ASSUME NEW l \in (j - x + 1)..(j - 1), program[l].world
        PROVE  FALSE
    <2>1. l \in WorldKs /\ j - l \in Nat /\ j - (j - l) = l /\ k <= l /\ j - l > 0 /\ j - l < x
      BY <1>1, <1>4, <1>5 DEF WorldKs, Ks
    <2>2. j - l \in T
      BY <2>1
    <2>3. x <= j - l
      BY <1>3, <2>2
    <2> QED  BY <1>4, <2>1, <2>3
  <1> QED  BY <1>4, <1>5

LEMMA OrderKept ==
  ASSUME Settled, NEW n \in LaidOut, Effect(n), CollectivesTypes',
         FinishedAfterNet, GatheredBeforeNet, NetInOrder
  PROVE  NetInOrder'
  <1>0. /\ LaidOut' = LaidOut /\ WorldKs' = WorldKs /\ program \in Seq(Calls)
        /\ \A k \in WorldKs : Op(k)' = Op(k) /\ NetWith(k) \in {1, 2, 3} /\ NetWith(k)' = NetWith(k)
        /\ \A q \in LaidOut : \A k \in WorldKs : Runs(q, k)' <=> Runs(q, k)
        /\ \A q \in LaidOut : nth[q] \in Nat /\ Len(todo[q]) \in Nat
        /\ WorldKs \subseteq Nat
    BY Frame
  <1> SUFFICES ASSUME NEW p \in LaidOut, NEW q \in LaidOut, NEW j \in WorldKs, NEW k \in WorldKs,
                      Same(p, q), k < j, Runs(q, k), Runs(p, j), Entered(p, j)'
               PROVE  Through(q, k)'
    BY <1>0 DEF NetInOrder, Same
  <1> SUFFICES Through(q, k)
    BY ThroughKept
  <1>1. CASE Entered(p, j)
    BY <1>1 DEF NetInOrder
  <1>2. CASE p = n /\ ToNet(n) /\ nth[n] = j
    <2>1. Len(todo[n]) \in 1..PhaseCount(n, j) /\ "net" = PhaseWith(n, j, Len(todo[n]))
      BY <1>2 DEF ToNet, Advanced
    <2>2. Len(todo[n]) = NetWith(j)
      BY <1>0, <2>1, PhaseTells
    <2>3. \A i \in WorldKs : i < j => Finished(n, i) /\ Entered(n, i)
      BY <1>0, <1>2 DEF Finished, Entered
    <2>4. CASE q = n
      BY <1>0, <1>2, <2>4 DEF Through, Entered
    <2>5. CASE Op(k) # "Reduce"
      <3>1. PICK r \in LaidOut : Same(n, r) /\ Runs(r, k) /\ Through(r, k)
        BY <2>3, <2>5 DEF FinishedAfterNet
      <3>2. Same(q, r)
        BY <1>2, <3>1 DEF Same
      <3>3. q = r
        BY <3>1, <3>2, OneRunner
      <3> QED  BY <3>1, <3>3
    <2>6. CASE Op(j) # "Bcast"
      <3>1. nth[q] >= j
        BY <1>0, <1>2, <2>2, <2>6 DEF GatheredBeforeNet
      <3> QED  BY <1>0, <3>1 DEF Through, Entered
    <2>7. CASE q # n /\ Op(k) = "Reduce" /\ Op(j) = "Bcast"
      <3>1. PICK i \in WorldKs : k <= i /\ i < j /\ \A l \in (i + 1)..(j - 1) : ~program[l].world
        BY <1>0, LastCall
      <3>2. ASSUME NEW r \in LaidOut, Same(n, r), Runs(r, i), Entered(r, i), i # k
            PROVE  Through(q, k)
        <4>1. k < i
          BY <1>0, <3>1, <3>2
        <4>2. Same(r, q)
          BY <1>2, <3>2 DEF Same
        <4> QED  BY <3>2, <4>1, <4>2 DEF NetInOrder
      <3>3. CASE Op(i) = "Reduce"
        <4>1. Runs(n, i)
          <5>1. i \in Ks /\ j \in Ks /\ n[1] \in Macs /\ program[i].world /\ program[j].world
            BY NodeIsPair DEF WorldKs
          <5>2. j \in 1..Len(program) /\ i \in 1..(j - 1) /\ n[1] \in 0..(Len(layout) - 1)
            BY <1>0, <3>1, <5>1 DEF Ks, Macs, MacSize
          <5>3. ~Overlap(layout, program)
            BY DEF Settled, CollectivesTypes
          <5>4. local_root(<<n[1], 0>>, program[i]) = local_root(<<n[1], 0>>, program[j])
            BY <2>7, <3>1, <3>3, <5>1, <5>2, <5>3 DEF Overlap, Op
          <5> QED  BY <1>2, <2>7, <3>3, <5>4 DEF Runs, NetNode
        <4>2. CASE i = k
          BY <1>2, <2>7, <4>1, <4>2, OneRunner
        <4>3. CASE i # k
          BY <2>3, <3>1, <3>2, <4>1, <4>3 DEF Same
        <4> QED  BY <4>2, <4>3
      <3>4. CASE Op(i) # "Reduce"
        <4>1. PICK r \in LaidOut : Same(n, r) /\ Runs(r, i) /\ Through(r, i)
          BY <2>3, <3>1, <3>4 DEF FinishedAfterNet
        <4>2. i # k /\ Entered(r, i)
          BY <2>7, <3>4, <4>1 DEF Through
        <4> QED  BY <3>2, <4>1, <4>2
      <3> QED  BY <3>3, <3>4
    <2> QED  BY <2>4, <2>5, <2>6, <2>7
  <1> QED  BY <1>1, <1>2, EnteredBefore

----------------------------------------------------------------------------
LEMMA InvInit ==
  ASSUME ProgramsSerialise, CollectivesInit
  PROVE  CollectivesInv
  <1>1. PICK l \in Layouts : \E p \in ProgramsOf(l) : Begin(l, p)
    BY DEF CollectivesInit
  <1>2. PICK p \in ProgramsOf(l) : Begin(l, p)
    BY <1>1
  <1>3. l \in Seq(Nat) /\ p \in Seq(Calls) /\ ~Overlap(l, p)
    BY DEF ProgramsSerialise
  <1>4. /\ layout = l /\ program = p
        /\ nth = [n \in LaidOut |-> 0] /\ todo = [n \in LaidOut |-> <<>>]
        /\ plan = [n \in LaidOut |-> <<>>] /\ marks = [m \in Macs |-> {}]
        /\ result = [n \in LaidOut |-> <<>>]
    BY <1>2 DEF Begin
  <1>5. CollectivesTypes
    BY <1>3, <1>4 DEF CollectivesTypes
  <1>6. \A n \in LaidOut : /\ nth[n] = 0 /\ Len(todo[n]) = 0 /\ plan[n] = <<>>
                           /\ result[n] = <<>> /\ Len(result[n]) = 0
    BY <1>4
  <1>7. Plain(<<>>)
    BY DEF Plain
  <1>8. Counted
    BY <1>3, <1>4, <1>6, <1>7 DEF Counted
  <1>9. PhasesLeft /\ PlanOfRunner
    BY <1>6 DEF PhasesLeft, PlanOfRunner
  <1>10. \A n \in LaidOut : marks[n[1]] = {}
    BY <1>4, NodeIsPair
  <1>11. \A n \in LaidOut : \A k \in WorldKs : ~Entered(n, k) /\ ~Finished(n, k) /\ nth[n] # k
    BY <1>6 DEF Entered, Finished, WorldKs, Ks
  <1>12. MarksTell /\ FinishedAfterNet /\ GatheredBeforeNet /\ NetInOrder
    BY <1>10, <1>11 DEF MarksTell, FinishedAfterNet, GatheredBeforeNet, NetInOrder
  <1> QED  BY <1>5, <1>6, <1>8, <1>9, <1>12 DEF CollectivesInv

LEMMA InvNext ==
  ASSUME CollectivesInv, [CollectivesNext]_collectives
  PROVE  CollectivesInv'
  <1>1. CASE UNCHANGED collectives
    <2>0. /\ layout' = layout /\ program' = program /\ nth' = nth /\ todo' = todo /\ plan' = plan
          /\ marks' = marks /\ result' = result
      BY <1>1 DEF collectives
    <2>1. /\ LaidOut' = LaidOut /\ Macs' = Macs /\ MacSize' = MacSize
          /\ Ks' = Ks /\ WorldKs' = WorldKs /\ WorldKs \subseteq Ks
          /\ \A k \in Ks : Op(k)' = Op(k) /\ NetWith(k)' = NetWith(k)
          /\ \A n \in LaidOut : \A k \in Ks :
               (Runs(n, k)' <=> Runs(n, k)) /\ PhaseCount(n, k)' = PhaseCount(n, k)
      BY <2>0, SameCalls DEF WorldKs
    <2>2. CollectivesTypes => CollectivesTypes'
      BY <2>0 DEF CollectivesTypes, Overlap, local_root, LaidOut, Macs, MacSize
    <2>3. Counted => Counted'
      BY <2>0, <2>1 DEF Counted, Plain
    <2>4. PhasesLeft => PhasesLeft'
      <3> SUFFICES ASSUME PhasesLeft, NEW q \in LaidOut, nth[q] > 0
                   PROVE  \A k : k = nth[q] =>
                            /\ Len(todo[q]) <= PhaseCount(q, k)'
                            /\ \A d \in 1..Len(todo[q]) :
                                 todo[q][Len(todo[q]) - d + 1] = PhaseWith(q, k, d)'
        BY <2>0, <2>1 DEF PhasesLeft
      <3> SUFFICES ASSUME NEW k, k = nth[q]
                   PROVE  /\ Len(todo[q]) <= PhaseCount(q, k)'
                          /\ \A d \in 1..Len(todo[q]) :
                               todo[q][Len(todo[q]) - d + 1] = PhaseWith(q, k, d)'
        OBVIOUS
      <3>1. PhaseCount(q, k)' = PhaseCount(q, k) /\ \A d : PhaseWith(q, k, d)' = PhaseWith(q, k, d)
        BY <2>0 DEF PhaseCount, PhaseWith, Op, Runs, NetNode, local_root
      <3> QED  BY <3>1 DEF PhasesLeft
    <2>5. PlanOfRunner => PlanOfRunner'
      BY <2>0 DEF PlanOfRunner, LaidOut, Macs, MacSize, WorldKs, Ks, NetWith, Op, Runs, NetNode, local_root
    <2>10. \A n \in LaidOut : \A k \in Ks :
             /\ (Through(n, k)' <=> Through(n, k)) /\ (Entered(n, k)' <=> Entered(n, k))
             /\ Finished(n, k)' <=> Finished(n, k)
      BY <2>0, <2>1 DEF Through, Entered, Finished
    <2>6. MarksTell => MarksTell'
      BY <2>0, <2>1, <2>10 DEF MarksTell
    <2>7. FinishedAfterNet => FinishedAfterNet'
      BY <2>0, <2>1, <2>10 DEF FinishedAfterNet, Same
    <2>8. GatheredBeforeNet => GatheredBeforeNet'
      BY <2>0, <2>1 DEF GatheredBeforeNet, Same
    <2>9. NetInOrder => NetInOrder'
      BY <2>0, <2>1, <2>10 DEF NetInOrder, Same
    <2> QED  BY <2>0, <2>1, <2>2, <2>3, <2>4, <2>5, <2>6, <2>7, <2>8, <2>9 DEF CollectivesInv
  <1>2. CASE CollectivesNext
    <2>0. CollectivesTypes /\ Counted
      BY DEF CollectivesInv
    <2>1. PICK n \in Nodes : CollectiveStep(n)
      BY <1>2 DEF CollectivesNext
    <2>2. n \in LaidOut
      BY <2>0 DEF Nodes, CollectivesTypes
    <2>3. /\ CollectivesTypes' /\ Counted' /\ layout' = layout /\ program' = program
          /\ \A q \in LaidOut : q # n => plan'[q] = plan[q]
      BY <2>0, <2>1, <2>2, TypesKept
    <2>4. MacSize' = MacSize /\ LaidOut' = LaidOut /\ MacSize \in Nat
      BY <2>0, <2>3, SameCalls DEF CollectivesTypes, MacSize
    <2>5. CASE MacSize < 2
      <3>1. \A q \in LaidOut : plan[q] = <<>>
        BY <2>5 DEF CollectivesInv
      <3>2. plan'[n] = <<>>
        <4>1. plan = [q \in LaidOut |-> plan[q]]
          BY <2>0 DEF CollectivesTypes
        <4>2. plan' = plan \/ \E steps : plan' = [plan EXCEPT ![n] = steps] /\ steps = <<>>
          BY <2>1, <2>2, <2>5, <3>1, KindsOfStep
             DEF CallOne, ReturnOne, NetStep, SockStep, PhaseStep
        <4> QED  BY <2>2, <3>1, <4>1, <4>2
      <3> QED  BY <2>3, <2>4, <2>5, <3>1, <3>2 DEF CollectivesInv
    <2>6. CASE MacSize >= 2
      <3>1. /\ Settled /\ MarksTell /\ FinishedAfterNet /\ GatheredBeforeNet /\ NetInOrder
        BY <2>6 DEF CollectivesInv, Settled
      <3>2. Effect(n)
        BY <2>1, <2>2, <3>1, StepEffect
      <3>3. PhasesLeft' /\ PlanOfRunner'
        BY <2>2, <2>3, <3>1, <3>2, PhasesLeftKept, PlanKept
      <3>4. MarksTell' /\ FinishedAfterNet' /\ GatheredBeforeNet' /\ NetInOrder'
        BY <2>2, <2>3, <3>1, <3>2, MarksKept, FinishedKept, GatheredKept, OrderKept
      <3> QED  BY <2>3, <2>4, <2>6, <3>3, <3>4 DEF CollectivesInv
    <2> QED  BY <2>4, <2>5, <2>6
  <1> QED  BY <1>1, <1>2

\* In every program without an overlap the machines' collectives come in order: the
\* inductive invariant.
THEOREM CollectivesInvariant ==
  ASSUME ProgramsSerialise
  PROVE  CollectivesSpec => []CollectivesInv
  <1>1. CollectivesInit => CollectivesInv
    BY InvInit
  <1>2. CollectivesInv /\ [CollectivesNext]_collectives => CollectivesInv'
    BY InvNext
  <1> QED  BY <1>1, <1>2, PTL DEF CollectivesSpec

\* "The calls need to be serialized" (netq.c:1395, 1425), and they are, for any number of
\* machines and nodes and every program, unless a broadcast follows a reduction whose
\* local root on some machine is another node (mpi_bcast.c, mpi_reduce.c).
THEOREM CallsSerialised ==
  ASSUME ProgramsSerialise
  PROVE  CollectivesSpec => []NetSerialised
  <1>1. CollectivesInv => NetSerialised
    <2> SUFFICES ASSUME CollectivesInv, NEW n \in Nodes, NEW p \in Nodes, n[1] = p[1],
                        plan[n] # <<>>, plan[p] # <<>>
                 PROVE  n = p
      BY DEF NetSerialised
    <2>1. n \in LaidOut /\ p \in LaidOut /\ MacSize \in Nat
      BY DEF CollectivesInv, CollectivesTypes, Nodes, MacSize
    <2>2. MacSize >= 2
      BY <2>1 DEF CollectivesInv
    <2>3. PlanOfRunner /\ NetInOrder /\ CollectivesTypes
      BY <2>2 DEF CollectivesInv
    <2>4. /\ nth[n] \in WorldKs /\ Runs(n, nth[n]) /\ Len(todo[n]) = NetWith(nth[n]) - 1
          /\ nth[p] \in WorldKs /\ Runs(p, nth[p]) /\ Len(todo[p]) = NetWith(nth[p]) - 1
      BY <2>1, <2>3 DEF PlanOfRunner
    <2>5. nth[n] \in Ks /\ nth[p] \in Ks /\ program \in Seq(Calls)
      BY <2>3, <2>4 DEF WorldKs, CollectivesTypes
    <2>6. NetWith(nth[n]) \in {1, 2, 3} /\ NetWith(nth[p]) \in {1, 2, 3}
          /\ nth[n] \in Nat /\ nth[p] \in Nat
      BY <2>5, KindsOfCall
    <2>7. Entered(n, nth[n]) /\ Entered(p, nth[p])
      BY <2>4, <2>6 DEF Entered
    <2>8. ~Through(n, nth[n]) /\ ~Through(p, nth[p])
      BY DEF Through
    <2>9. ~(nth[n] < nth[p]) /\ ~(nth[p] < nth[n])
      BY <2>1, <2>3, <2>4, <2>7, <2>8 DEF NetInOrder, Same
    <2>10. nth[n] = nth[p]
      BY <2>6, <2>9
    <2> QED  BY <2>1, <2>4, <2>10, OneRunner DEF Same
  <1> QED  BY <1>1, CollectivesInvariant, PTL
=============================================================================
