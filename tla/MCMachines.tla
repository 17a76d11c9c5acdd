----------------------------- MODULE MCMachines -----------------------------
(***************************************************************************)
(* Several machines: the life of the runtime, and collective calls.  They  *)
(* share nothing here, so a behaviour is one of the one or of the other.   *)
(***************************************************************************)
EXTENDS Runtime, Collectives

VARIABLE part

(* Runtime: a short buffered message, a long one, a short one. *)
Msg(from, to, long, buffered) == [from |-> from, to |-> to, long |-> long, buffered |-> buffered]
S(i) == [op |-> "send", msg |-> i]
R(i) == [op |-> "recv", msg |-> i]
ThreeMessages == [i \in 1..3 |-> CASE i = 1 -> Msg(1, 2, FALSE, TRUE)
                                   [] i = 2 -> Msg(2, 3, TRUE, FALSE)
                                   [] i = 3 -> Msg(3, 2, FALSE, FALSE)]
ThreePrograms == [m \in 1..3 |-> CASE m = 1 -> <<S(1)>>
                                   [] m = 2 -> <<R(1), S(2), R(3)>>
                                   [] m = 3 -> <<R(2), S(3)>>]

ASSUME MatchingAssumption == ProgramsMatch

(* Collectives: two machines of two and one nodes make two and three calls, three machines *)
(* two, four machines and five (a hypercube) one, one machine two. *)
C(o, r, w) == [op |-> o, root |-> r, world |-> w]
NodesOf(l) == {<<m, k>> \in (0..(Len(l) - 1)) \X (0..1) : k < l[m + 1]}
World(l, roots) ==
  {C(o, r, TRUE) : o \in {"Bcast", "Reduce"}, r \in roots}
    \cup {C(o, <<0, 0>>, TRUE) : o \in {"Allreduce", "Barrier"}}
SmallLayouts == {<<2>>, <<2, 1>>, <<2, 1, 1>>, <<1, 1, 1, 1>>, <<1, 1, 1, 1, 1>>}
SmallPrograms(l) ==
  LET far == <<Len(l) - 1, 0>>
      some == World(l, {<<0, l[1] - 1>>, far})
      refused == C("Bcast", <<0, 0>>, FALSE)
      \* The second broadcast goes along the tree; what it leaves, the reduction finds.
      twice == <<C("Bcast", far, TRUE), C("Bcast", far, TRUE), C("Reduce", far, TRUE)>>
      programs == CASE Len(l) = 1 -> [1..2 -> World(l, NodesOf(l))]
                    [] Len(l) = 2 -> [1..2 -> World(l, NodesOf(l))]
                                     \cup {p \in [1..3 -> some] : p[1] = p[3]}
                                     \cup {<<refused, c>> : c \in some} \cup {twice}
                    [] Len(l) = 3 -> {p \in [1..2 -> some] : p[1].op = "Reduce" \/ p[1] = C("Bcast", far, TRUE)} \cup {twice}
                    [] OTHER -> {<<C("Bcast", <<3, 0>>, TRUE)>>, <<C("Reduce", <<3, 0>>, TRUE)>>,
                                 <<C("Allreduce", <<0, 0>>, TRUE)>>}
  \* What overlaps is what the run collectives_serial is about.
  IN {p \in programs : ~Overlap(l, p)}
\* Ranks as NETQ assigns them when the group file has no id lists.
InOrder(l, n) == FoldLeft(LAMBDA a, b : a + b, n[2], SubSeq(l, 1, n[1]))

OverlapLayouts == {<<2, 1>>}
OverlapPrograms(l) == {<<C("Reduce", <<0, 1>>, TRUE), C("Bcast", <<1, 0>>, TRUE)>>}

\* The hypothesis of CallsSerialised holds of the programs of the run machines.
ASSUME SerialAssumption == Layouts # OverlapLayouts => ProgramsSerialise

\* One machine, with the line "local 2 1 0".
OneMachine == {<<2>>}
OneReduction(l) == {<<C("Reduce", <<0, 0>>, TRUE)>>}
Swapped(l, n) == 1 - n[2]

----------------------------------------------------------------------------
MachinesInit ==
  /\ part \in {"runtime", "collectives"} /\ RuntimeInit
  /\ IF part = "collectives" THEN CollectivesInit ELSE Begin(<<1>>, <<>>)

MachinesNext ==
  /\ UNCHANGED part
  /\ \/ part = "runtime" /\ RuntimeNext /\ UNCHANGED collectives
     \/ part = "collectives" /\ CollectivesNext /\ UNCHANGED runtime

\* RuntimeFairness; of the nodes in collective calls, which never poll, it is enough
\* that some node that can go on does.
MachinesFairness ==
  /\ \A m \in Machines : /\ WF_runtime(part = "runtime" /\ MainStep(m))
                         /\ WF_runtime(part = "runtime" /\ NodeStep(m))
                         /\ WF_runtime(part = "runtime" /\ MovinStep(m))
  /\ WF_collectives(part = "collectives" /\ CollectivesNext)

MachinesSafe == MachinesInit /\ [][MachinesNext]_<<part, runtime, collectives>>
MachinesSpec == MachinesSafe /\ MachinesFairness

----------------------------------------------------------------------------
\* Termination of the runtime (AllDown), in the behaviours of that part.
RuntimeComesDown == part = "runtime" => AllDown

\* What the collective calls promise over machines: every node has the data of the
\* root, or the operands of all nodes, and no node leaves MPI_Barrier before all have
\* entered it.  On one machine the ranks are in order; the run collectives_root shows
\* what mpi_reduce.c:129 does when they are not.
CollectivesCorrect == CollectiveData /\ BarrierHolds
=============================================================================
