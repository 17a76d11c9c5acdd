---------------------------- MODULE Collectives ----------------------------
(***************************************************************************)
(* MPI_Barrier, MPI_Bcast, MPI_Reduce and MPI_Allreduce of nodes on        *)
(* several machines (mpi/group): the objects that the nodes of a machine   *)
(* share, seen here by what the modules Barrier, Bcast and Reduce promise  *)
(* of them, and between the machines the collectives of NETD (netd_sock_c) *)
(* over one connection for each pair.  The node of a machine that the call *)
(* falls to (its local root) runs those; nothing locks them.               *)
(*                                                                         *)
(* A datum is the sequence of its parts <<call, machine>>.  Reducing joins *)
(* the sequences, so that a part that is lost, late or counted twice shows.*)
(***************************************************************************)
EXTENDS Integers, Sequences, FiniteSets, SequencesExt

CONSTANTS
  Layouts,           \* how many nodes each machine has: a set of sequences
  ProgramsOf(_),     \* the calls that the nodes of a layout make: a set of sequences
  global_rank(_, _), \* of a layout and a node: its rank, by the group file
  BCAST_TREE_NODES,  \* of netd_sock_c: up to so many machines there is no hypercube
  SockRoom           \* bound: data that a connection takes in before a write blocks

VARIABLES
  layout, program,
  nth,       \* of each node: the call it is in or comes to next
  todo,      \* of each node: the phases left of its call
  plan,      \* of each node: what is left of its collective of NETD
  data,       \* of each node: the datum of its call
  conn,      \* of each two machines: data written by the first for the second
  marks,     \* of each machine: what its nodes left in the shared objects
  posted,    \* of each machine: the data broadcast in it, per call
  last_root, \* of each machine: the static variables of netd_bcast and netd_reduce
  result     \* history: of each node, what its calls delivered

collectives == <<layout, program, nth, todo, plan, data, conn, marks, posted, last_root, result>>

MacSize == Len(layout)                       \* netq_getMacSize(), netd_info.size
Macs == 0..(MacSize - 1)
LaidOut == UNION {{m} \X (0..(layout[m + 1] - 1)) : m \in Macs}
Nodes == DOMAIN nth
Locals(m) == {n \in Nodes : n[1] = m}
NONE == -1
NoData == <<>>

Begin(l, p) ==
  /\ layout = l /\ program = p
  /\ nth = [n \in LaidOut |-> 0] /\ todo = [n \in LaidOut |-> <<>>]
  /\ plan = [n \in LaidOut |-> <<>>] /\ data = [n \in LaidOut |-> NoData]
  /\ conn = [c \in Macs \X Macs |-> <<>>]
  /\ marks = [m \in Macs |-> {}]
  /\ posted = [m \in Macs |-> [k \in 1..Len(program) |-> NoData]]
  \* netq_start has broadcast the group file from machine 0.
  /\ last_root = [m \in Macs |-> [bcast |-> 0, reduce |-> NONE]]
  /\ result = [n \in LaidOut |-> <<>>]
CollectivesInit == \E l \in Layouts : \E p \in ProgramsOf(l) : Begin(l, p)

----------------------------------------------------------------------------
(***************************************************************************)
(* The spanning trees of NETD, and what machine m does along them          *)
(***************************************************************************)
TreeIndex(m, root) == (MacSize + m - root) % MacSize
Rank(idx, root) == (idx + root) % MacSize

netd_make_tree(m, root) ==
  LET idx == TreeIndex(m, root) IN
  [left  |-> IF 2 * idx + 1 < MacSize THEN Rank(2 * idx + 1, root) ELSE NONE,
   right |-> IF 2 * idx + 2 < MacSize THEN Rank(2 * idx + 2, root) ELSE NONE,
   up    |-> IF m # root THEN Rank((idx - 1) \div 2, root) ELSE NONE]

\* The lowest bit of idx, or the first power of two that is not below MacSize.
Bit(idx) == CHOOSE i \in 0..MacSize :
  /\ 2^i >= MacSize \/ (idx \div 2^i) % 2 = 1
  /\ \A j \in 0..(i - 1) : 2^j < MacSize /\ (idx \div 2^j) % 2 = 0

\* Children in the order of the size of their subtrees: only the first one, which may
\* have an incomplete subtree, has to move.
netd_make_hcube(m, root) ==
  LET idx == TreeIndex(m, root)
      k == Cardinality({i \in 0..(Bit(idx) - 1) : idx + 2^i < MacSize})
      child == [i \in 1..k |-> Rank(idx + 2^(k - i), root)]
      most == IF MacSize - (idx + 2^(k - 1)) < 2^(k - 1) THEN MacSize - (idx + 2^(k - 1)) ELSE 2^(k - 1)
      later == Cardinality({i \in 0..(k - 2) : most < 2^i})
  IN [up |-> IF idx = 0 THEN NONE ELSE Rank(idx - 2^Bit(idx), root),
      children |-> IF k = 0 THEN <<>>
                   ELSE SubSeq(child, 2, later + 1) \o <<child[1]>> \o SubSeq(child, later + 2, k)]

Copy(m) == [act |-> "copy", peer |-> m]
Join(m) == [act |-> "join", peer |-> m]
Write(m) == [act |-> "write", peer |-> m]
\* A step, but for the peers that are not there.
StepTo(F(_), m) == IF m = NONE THEN <<>> ELSE <<F(m)>>
Others(m) == SetToSortSeq(Macs \ {m}, LAMBDA a, b : a < b)
Each(F(_), machines) == [i \in 1..Len(machines) |-> F(machines[i])]

netd_bcast_simple(m, root) == IF m = root THEN Each(Write, Others(m)) ELSE <<Copy(root)>>

\* Faulty: the right child waits in vain.
netd_bcast_tree_left(m, root) ==
  LET tr == netd_make_tree(m, 0)
      in == IF m = root THEN (IF m # 0 THEN <<Write(0)>> ELSE <<>>)
            ELSE IF m = 0 THEN <<Copy(root)>> ELSE <<Copy(tr.up)>>
  IN in \o (IF tr.left = root THEN <<>> ELSE StepTo(Write, tr.left))

\* Along the tree of machine 0, whichever the root: it gives the datum to machine 0.
netd_bcast_tree(m, root) ==
  LET tr == netd_make_tree(m, 0)
      in == IF m = root THEN (IF m # 0 THEN <<Write(0)>> ELSE <<>>)
            ELSE IF m = 0 THEN <<Copy(root)>> ELSE <<Copy(tr.up)>>
      Out(child) == IF child = root THEN <<>> ELSE StepTo(Write, child)
  IN in \o Out(tr.left) \o Out(tr.right)

netd_bcast_hcube(m, root) ==
  LET tr == netd_make_hcube(m, root) IN StepTo(Copy, tr.up) \o Each(Write, tr.children)

netd_reduce_simple(m, root) == IF m = root THEN Each(Join, Others(m)) ELSE <<Write(root)>>

netd_reduce_tree(m, root) ==
  LET tr == netd_make_tree(m, root)
  IN StepTo(Join, tr.left) \o StepTo(Join, tr.right) \o StepTo(Write, tr.up)

netd_reduce_hcube(m, root) ==
  LET tr == netd_make_hcube(m, root)
  IN Each(Join, Reverse(tr.children)) \o StepTo(Write, tr.up)

\* A change of the root among few machines is taken as a sign of changing roots.
Changed(last, root) == last # root /\ last # NONE
netd_bcast(m, root, last) ==
  IF MacSize < 2 THEN <<>>
  ELSE IF MacSize <= BCAST_TREE_NODES /\ Changed(last, root) THEN netd_bcast_simple(m, root)
  ELSE IF MacSize <= BCAST_TREE_NODES THEN netd_bcast_tree(m, root)
  ELSE netd_bcast_hcube(m, root)
netd_reduce(m, root, last) ==
  IF MacSize < 2 THEN <<>>
  ELSE IF MacSize <= BCAST_TREE_NODES /\ Changed(last, root) THEN netd_reduce_simple(m, root)
  ELSE IF MacSize <= BCAST_TREE_NODES THEN netd_reduce_tree(m, root)
  ELSE netd_reduce_hcube(m, root)

----------------------------------------------------------------------------
(***************************************************************************)
(* The calls of MPI, as the phases node n goes through                     *)
(***************************************************************************)
local_root(n, call) == IF call.root[1] = n[1] THEN call.root[2] ELSE 0

\* Faulty: the nodes of the machine are served first.
tmpi_Bcast_early(n, call) ==
  IF n[2] = local_root(n, call) THEN <<"post", "net">> ELSE <<"take">>

tmpi_Bcast(n, call) ==
  IF n[2] = local_root(n, call) THEN <<"net", "post">> ELSE <<"take">>

\* The node at which tmpi_rdco_reduce gathers.  With one machine it is given the global
\* rank of the root where it takes a local one.
rdc_root(n, call) == IF MacSize > 1 THEN local_root(n, call) ELSE global_rank(layout, call.root)

tmpi_Reduce(n, call) ==
  IF n[2] # rdc_root(n, call) THEN <<"give">>
  ELSE IF MacSize > 1 THEN <<"gather", "net">> ELSE <<"gather">>

tmpi_Allreduce(n) ==
  IF n[2] # 0 THEN <<"give", "take">>
  ELSE IF MacSize > 1 THEN <<"gather", "net", "post">> ELSE <<"gather", "post">>

\* Faulty: the nodes do not wait for the machines.
MPI_Barrier_once(n) == <<"arrive", "pass">> \o (IF MacSize > 1 /\ n[2] = 0 THEN <<"net">> ELSE <<>>)

MPI_Barrier(n) ==
  <<"arrive", "pass">>
    \o (IF MacSize = 1 THEN <<>>
        ELSE (IF n[2] = 0 THEN <<"net">> ELSE <<>>) \o <<"arrive_again", "pass_again">>)

\* Calls on another communicator are refused by every node at once.
Phases(n, call) ==
  IF ~call.world THEN <<>>
  ELSE CASE call.op = "Bcast" -> tmpi_Bcast(n, call)
         [] call.op = "Reduce" -> tmpi_Reduce(n, call)
         [] call.op = "Allreduce" -> tmpi_Allreduce(n)
         [] OTHER -> MPI_Barrier(n)

\* A broadcast after a reduction, with nothing but refused calls between them, in which
\* the call of NETD falls to another node of some machine.
Overlap(l, p) ==
  \E j \in 1..Len(p) : \E k \in 1..(j - 1) :
    /\ p[k].world /\ p[k].op = "Reduce" /\ p[j].world /\ p[j].op = "Bcast"
    /\ \A i \in (k + 1)..(j - 1) : ~p[i].world
    /\ \E m \in 0..(Len(l) - 1) : local_root(<<m, 0>>, p[k]) # local_root(<<m, 0>>, p[j])

Calls == [op : {"Bcast", "Reduce", "Allreduce", "Barrier"}, root : Nat \X Nat, world : BOOLEAN]
ProgramsSerialise ==
  \A l \in Layouts : \A p \in ProgramsOf(l) :
    l \in Seq(Nat) /\ p \in Seq(Calls) /\ ~Overlap(l, p)

InCall(n) == nth[n] > Len(result[n])
Starting(n, phase) == InCall(n) /\ todo[n] # <<>> /\ Head(todo[n]) = phase /\ plan[n] = <<>>
Leave(n, phase) == marks' = [marks EXCEPT ![n[1]] = @ \cup {<<nth[n], phase, n[2]>>}]
Left(n, phase, who) == \A p \in who : <<nth[n], phase, p[2]>> \in marks[n[1]]
NextPhase(n) == todo' = [todo EXCEPT ![n] = Tail(@)]

CallOne(n) ==
  /\ ~InCall(n) /\ nth[n] < Len(program)
  /\ LET call == program[nth[n] + 1] IN
     /\ nth' = [nth EXCEPT ![n] = @ + 1]
     /\ todo' = [todo EXCEPT ![n] = Phases(n, call)]
     /\ data' = [data EXCEPT ![n] =
          IF call.op = "Barrier" \/ (call.op = "Bcast" /\ call.root = n)
          THEN <<<<nth[n] + 1, n[1]>>>> ELSE NoData]
  /\ UNCHANGED <<layout, program, plan, conn, marks, posted, last_root, result>>

ReturnOne(n) ==
  /\ InCall(n) /\ todo[n] = <<>> /\ plan[n] = <<>>
  /\ result' = [result EXCEPT ![n] = Append(@, data[n])]
  /\ UNCHANGED <<layout, program, nth, todo, plan, data, conn, marks, posted, last_root>>

(* In the machine: tmpi_bco_bcast, tmpi_rdco_reduce, bar_wait. *)
Post(n) ==
  /\ Starting(n, "post") /\ NextPhase(n) /\ Leave(n, "post")
  /\ posted' = [posted EXCEPT ![n[1]][nth[n]] = data[n]]
  /\ UNCHANGED <<layout, program, nth, plan, data, conn, last_root, result>>

Fetch(n) ==
  /\ Starting(n, "take") /\ \E p \in Locals(n[1]) : Left(n, "post", {p})
  /\ NextPhase(n) /\ data' = [data EXCEPT ![n] = posted[n[1]][nth[n]]]
  /\ UNCHANGED <<layout, program, nth, plan, conn, marks, posted, last_root, result>>

Give(n) ==
  /\ Starting(n, "give") /\ NextPhase(n) /\ Leave(n, "give")
  /\ UNCHANGED <<layout, program, nth, plan, data, conn, posted, last_root, result>>

Gather(n) ==
  /\ Starting(n, "gather") /\ Left(n, "give", Locals(n[1]) \ {n}) /\ NextPhase(n)
  /\ data' = [data EXCEPT ![n] = <<<<nth[n], n[1]>>>>]
  /\ UNCHANGED <<layout, program, nth, plan, conn, marks, posted, last_root, result>>

Arrive(n, phase) ==
  /\ Starting(n, phase) /\ NextPhase(n) /\ Leave(n, phase)
  /\ UNCHANGED <<layout, program, nth, plan, data, conn, posted, last_root, result>>

Pass(n, phase, arrival) ==
  /\ Starting(n, phase) /\ Left(n, arrival, Locals(n[1])) /\ NextPhase(n)
  /\ UNCHANGED <<layout, program, nth, plan, data, conn, marks, posted, last_root, result>>

(* Between the machines: netq_bcast, netq_reduce, netq_allreduce, netq_barrier. *)
EnterNet(n) ==
  LET call == program[nth[n]]
      m == n[1]
      root == IF call.op \in {"Allreduce", "Barrier"} THEN 0 ELSE call.root[1]
      bcast == call.op # "Reduce"
      reduce == call.op # "Bcast"
  IN
  /\ Starting(n, "net") /\ NextPhase(n)
  /\ plan' = [plan EXCEPT ![n] =
       (IF reduce THEN netd_reduce(m, root, last_root[m].reduce) ELSE <<>>)
         \o (IF bcast THEN netd_bcast(m, root, last_root[m].bcast) ELSE <<>>)]
  /\ last_root' = [last_root EXCEPT ![m] =
       [bcast |-> IF bcast THEN root ELSE @.bcast, reduce |-> IF reduce THEN root ELSE @.reduce]]
  /\ UNCHANGED <<layout, program, nth, data, conn, marks, posted, result>>

sock_write(n) ==
  LET m == n[1]
      to == Head(plan[n]).peer
  IN
  /\ plan[n] # <<>> /\ Head(plan[n]).act = "write"
  /\ Len(conn[<<m, to>>]) < SockRoom
  /\ conn' = [conn EXCEPT ![<<m, to>>] = Append(@, data[n])]
  /\ plan' = [plan EXCEPT ![n] = Tail(@)]
  /\ UNCHANGED <<layout, program, nth, todo, data, marks, posted, last_root, result>>

\* A broadcast datum replaces what is there, an operand of a reduction joins it.
sock_read(n) ==
  LET m == n[1]
      from == Head(plan[n]).peer
  IN
  /\ plan[n] # <<>> /\ Head(plan[n]).act # "write"
  /\ conn[<<from, m>>] # <<>>
  /\ conn' = [conn EXCEPT ![<<from, m>>] = Tail(@)]
  /\ data' = [data EXCEPT ![n] = (IF Head(plan[n]).act = "copy" THEN <<>> ELSE @)
                                 \o Head(conn[<<from, m>>])]
  /\ plan' = [plan EXCEPT ![n] = Tail(@)]
  /\ UNCHANGED <<layout, program, nth, todo, marks, posted, last_root, result>>

CollectiveStep(n) ==
  \/ CallOne(n) \/ ReturnOne(n) \/ Post(n) \/ Fetch(n) \/ Give(n) \/ Gather(n)
  \/ Arrive(n, "arrive") \/ Pass(n, "pass", "arrive")
  \/ Arrive(n, "arrive_again") \/ Pass(n, "pass_again", "arrive_again")
  \/ EnterNet(n) \/ sock_write(n) \/ sock_read(n)
CollectivesNext == \E n \in Nodes : CollectiveStep(n)
CollectivesSpec == CollectivesInit /\ [][CollectivesNext]_collectives

----------------------------------------------------------------------------
(***************************************************************************)
(* Properties                                                              *)
(***************************************************************************)
Parts(k) == {<<k, m>> : m \in Macs}
CompleteDatum(datum, k) == Len(datum) = MacSize /\ {datum[i] : i \in 1..Len(datum)} = Parts(k)

\* A broadcast delivers the root's datum of that call to every node; a reduction
\* delivers at its root, and MPI_Allreduce at every node, one operand of each machine,
\* all of that call, whichever of the three algorithms the machines took, and the sum
\* of the barrier comes out right ("barrier error", netd_sock_c:121).
CollectiveData ==
  \A n \in Nodes : \A k \in 1..Len(result[n]) :
    LET call == program[k]
        datum == result[n][k]
    IN call.world =>
       /\ call.op = "Bcast" => datum = <<<<k, call.root[1]>>>>
       /\ call.op = "Reduce" /\ n = call.root => CompleteDatum(datum, k)
       /\ call.op = "Allreduce" => CompleteDatum(datum, k)
       /\ call.op = "Barrier" /\ n[2] = 0 => CompleteDatum(datum, k)

\* No node leaves a barrier before every node of every machine has arrived at it.
BarrierHolds ==
  \A n \in Nodes : \A k \in 1..Len(result[n]) :
    program[k].op = "Barrier" /\ program[k].world =>
      \A p \in Nodes : <<k, "arrive", p[2]>> \in marks[p[1]]

\* "Any node can call this function, but the calls need to be serialized" (netq.c:1395,
\* 1425): never are two nodes of a machine in the collectives of NETD, whose reads
\* and writes share the connections.
NetSerialised ==
  \A n, p \in Nodes : n[1] = p[1] /\ plan[n] # <<>> /\ plan[p] # <<>> => n = p

\* Every node returns from every call: no cycle of machines and nodes that wait for
\* each other, also when a connection takes in one datum only.
CollectivesReturn == <>(\A n \in Nodes : Len(result[n]) = Len(program))
=============================================================================
