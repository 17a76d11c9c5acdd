------------------------------- MODULE Groups -------------------------------
(***************************************************************************)
(* mpi/context: the communicators of the nodes of a machine (comm.c) and   *)
(* the groups a node makes of them (group.c).  A group is the sequence of  *)
(* its global ranks (lrank2grank) and the caller's rank in it.  Ranks are  *)
(* counted from 0.                                                         *)
(***************************************************************************)
EXTENDS Integers, Sequences, FiniteSets, SequencesExt

CONSTANTS
  LocalNodes,     \* the nodes of the machine, as global ranks
  NGlobal,        \* netq_getGlobalSize()
  Me,             \* the node that handles groups
  GroupHandles,   \* its MPI_Group variables
  RankLists,      \* arguments of incl and excl
  RankRanges      \* arguments of range_incl and range_excl: sequences of <<first, last, stride>>

MPI_UNDEFINED == -32766
Objects == {"Bar", "Bcast", "Reduce", "Allreduce"}

VARIABLES
  world,      \* tmpi_COMM_WORLD: the table is there
  pointer,    \* the objects whose static pointer is set
  object,     \* the objects that are allocated
  comm,       \* of each node: its communicator ("before", "there", "gone"), the objects it points to
  ref_count,  \* of the permanent group of Me
  handle      \* of each MPI_Group variable: what it holds

context == <<world, pointer, object, comm, ref_count, handle>>

\* What a variable can hold: MPI_GROUP_NULL, MPI_GROUP_EMPTY, a group.
Group(ranks, local_rank, permanent) ==
  [valid |-> TRUE, lrank2grank |-> ranks, local_rank |-> local_rank, isPermanent |-> permanent]
NoGroup(kind) ==
  [valid |-> FALSE, lrank2grank |-> <<>>, local_rank |-> kind, isPermanent |-> FALSE]
MPI_GROUP_NULL == NoGroup(0)
MPI_GROUP_EMPTY == NoGroup(1)

Comm(state, objects) == [state |-> state, objects |-> objects]
There(n) == comm[n].state = "there"
ContextInit ==
  /\ world = FALSE /\ pointer = {} /\ object = {} /\ ref_count = 0
  /\ comm = [n \in LocalNodes |-> Comm("before", {})]
  /\ handle = [h \in GroupHandles |-> MPI_GROUP_NULL]

----------------------------------------------------------------------------
\* Destroyed by tmpi_comm_gend.  The test before tmpi_rdco_destroy names the pointer
\* to the broadcast object, which has just been cleared.
Destroyed == {"Bar", "Bcast", "Allreduce"}

\* Faulty: when an object is missing the others go, but the table stays.
tmpi_comm_ginit_table(got) ==
  LET made == IF "Bar" \in got THEN got ELSE {}
      ok == {"Bar", "Reduce", "Allreduce"} \subseteq got
  IN
  /\ ~world /\ pointer = {} /\ \A n \in LocalNodes : comm[n].state = "before"
  /\ world' = TRUE
  /\ pointer' = IF ok THEN made ELSE made \ Destroyed
  /\ object' = IF ok THEN made ELSE made \ Destroyed
  /\ UNCHANGED <<comm, ref_count, handle>>

\* got: what the machine has memory for.  The broadcast object is not tested.
tmpi_comm_ginit(got) ==
  LET made == IF "Bar" \in got THEN got ELSE {}
      ok == {"Bar", "Reduce", "Allreduce"} \subseteq got
  IN
  /\ ~world /\ pointer = {} /\ \A n \in LocalNodes : comm[n].state = "before"
  /\ world' = ok
  /\ pointer' = IF ok THEN made ELSE made \ Destroyed
  /\ object' = IF ok THEN made ELSE made \ Destroyed
  /\ UNCHANGED <<comm, ref_count, handle>>

\* After the last node has ended.
tmpi_comm_gend ==
  /\ world /\ \A n \in LocalNodes : comm[n].state = "gone"
  /\ world' = FALSE
  /\ pointer' = pointer \ Destroyed /\ object' = object \ Destroyed
  /\ UNCHANGED <<comm, ref_count, handle>>

\* MPI_COMM_WORLD of the node and its group, or, without memory for them, neither: the
\* node then runs and is answered MPI_ERR_COMM.  Without the table the process dies here.
tmpi_comm_init(n, ok) ==
  /\ world /\ comm[n].state = "before"
  /\ comm' = [comm EXCEPT ![n] = IF ok THEN Comm("there", pointer) ELSE Comm("gone", {})]
  /\ ref_count' = IF n = Me /\ ok THEN 1 ELSE ref_count
  /\ UNCHANGED <<world, pointer, object, handle>>

\* The program has freed its own groups; what it got of MPI_Comm_group goes.
tmpi_comm_end(n) ==
  /\ There(n)
  /\ n = Me => \A h \in GroupHandles : handle[h].valid => handle[h].isPermanent
  /\ comm' = [comm EXCEPT ![n] = Comm("gone", {})]
  /\ handle' = IF n = Me THEN [h \in GroupHandles |-> MPI_GROUP_NULL] ELSE handle
  /\ UNCHANGED <<world, pointer, object, ref_count>>

----------------------------------------------------------------------------
(***************************************************************************)
(* Searching and making groups                                             *)
(***************************************************************************)
\* The loops that look for a global rank.
Find(ranks, grank) ==
  LET i == SelectInSeq(ranks, LAMBDA r : r = grank) IN IF i = 0 THEN MPI_UNDEFINED ELSE i - 1
GRank(g, r) == g.lrank2grank[r + 1]

MPI_Group_translate_ranks(g1, ranks1, g2) ==
  [i \in 1..Len(ranks1) |-> Find(g2.lrank2grank, GRank(g1, ranks1[i]))]

MPI_Group_compare(g1, g2) ==
  IF Len(g1.lrank2grank) # Len(g2.lrank2grank) THEN "UNEQUAL"
  ELSE IF g1.lrank2grank = g2.lrank2grank THEN "IDENT"
  ELSE IF \E i \in 1..Len(g1.lrank2grank) :
            Find(g2.lrank2grank, g1.lrank2grank[i]) = MPI_UNDEFINED
  THEN "UNEQUAL" ELSE "SIMILAR"

Member(g) == g.local_rank # MPI_UNDEFINED

\* Faulty: a member of the second group only keeps its rank in that.
MPI_Group_union_rank(g1, g2) ==
  Group(g1.lrank2grank
          \o SelectSeq(g2.lrank2grank, LAMBDA r : Find(g1.lrank2grank, r) = MPI_UNDEFINED),
        IF Member(g1) THEN g1.local_rank ELSE g2.local_rank, FALSE)

MPI_Group_union(g1, g2) ==
  LET ranks == g1.lrank2grank
                 \o SelectSeq(g2.lrank2grank, LAMBDA r : Find(g1.lrank2grank, r) = MPI_UNDEFINED)
  IN Group(ranks,
           IF Member(g1) THEN g1.local_rank
           ELSE IF Member(g2) THEN Find(ranks, GRank(g2, g2.local_rank)) ELSE MPI_UNDEFINED,
           FALSE)

\* The end of intersection and difference: a group without ranks is MPI_GROUP_EMPTY.
Made(ranks, local_rank) ==
  IF ranks = <<>> THEN MPI_GROUP_EMPTY ELSE Group(ranks, local_rank, FALSE)

MPI_Group_intersection(g1, g2) ==
  LET ranks == SelectSeq(g1.lrank2grank, LAMBDA r : Find(g2.lrank2grank, r) # MPI_UNDEFINED)
  IN Made(ranks, IF ~Member(g1) \/ ~Member(g2) THEN MPI_UNDEFINED
                 ELSE Find(ranks, GRank(g1, g1.local_rank)))

MPI_Group_difference(g1, g2) ==
  LET ranks == SelectSeq(g1.lrank2grank, LAMBDA r : Find(g2.lrank2grank, r) = MPI_UNDEFINED)
  IN Made(ranks, IF ~Member(g1) \/ Member(g2) THEN MPI_UNDEFINED
                 ELSE Find(ranks, GRank(g1, g1.local_rank)))

MPI_Group_incl(g, ranks) ==
  IF ranks = <<>> THEN MPI_GROUP_EMPTY
  ELSE Group([i \in 1..Len(ranks) |-> GRank(g, ranks[i])], Find(ranks, g.local_rank), FALSE)

MPI_Group_excl(g, ranks) ==
  LET left == SelectSeq([i \in 1..Len(g.lrank2grank) |-> i - 1],
                        LAMBDA r : Find(ranks, r) = MPI_UNDEFINED)
      kept == [i \in 1..Len(left) |-> GRank(g, left[i])]
  IN IF Len(ranks) >= Len(g.lrank2grank) THEN MPI_GROUP_EMPTY
     ELSE Group(kept, IF Member(g) THEN Find(kept, GRank(g, g.local_rank)) ELSE MPI_UNDEFINED, FALSE)

\* The ranks of the ranges, whose strides are positive; incl and excl are told there are
\* as many as ranges.  (The loops only count upwards: a descending range fills in nothing,
\* and incl or excl then read ranks that nobody has written.)
Expand(ranges) ==
  LET Of(t) == [k \in 1..((t[2] - t[1]) \div t[3] + 1) |-> t[1] + (k - 1) * t[3]]
  IN SubSeq(FoldLeft(LAMBDA s, t : s \o Of(t), <<>>, ranges), 1, Len(ranges))
MPI_Group_range_incl(g, ranges) == MPI_Group_incl(g, Expand(ranges))
MPI_Group_range_excl(g, ranges) == MPI_Group_excl(g, Expand(ranges))

----------------------------------------------------------------------------
(***************************************************************************)
(* The calls.  group_verify refuses MPI_GROUP_EMPTY; MPI_GROUP_NULL is not *)
(* an argument a program may pass.  A result is not put over a group that  *)
(* would be lost.                                                          *)
(***************************************************************************)
Verified(h) == There(Me) /\ handle[h].valid
Store(h, g) ==
  /\ There(Me) /\ ~handle[h].valid
  /\ handle' = [handle EXCEPT ![h] = g]
  /\ UNCHANGED <<world, pointer, object, comm>>

MPI_Comm_group(h) ==
  /\ ref_count <= Cardinality(GroupHandles)     \* bound: it is never counted down
  /\ Store(h, Group([i \in 1..NGlobal |-> i - 1], Me, TRUE))
  /\ ref_count' = ref_count + 1

InRange(g, ranks) == \A i \in 1..Len(ranks) : ranks[i] < Len(g.lrank2grank)

MakeGroup(h1, h2, h) ==
  /\ Verified(h1) /\ Verified(h2) /\ UNCHANGED ref_count
  /\ LET g1 == handle[h1]
         g2 == handle[h2]
     IN \/ Store(h, MPI_Group_union(g1, g2))
        \/ Store(h, MPI_Group_intersection(g1, g2))
        \/ Store(h, MPI_Group_difference(g1, g2))
        \/ \E l \in RankLists : InRange(g1, l)
             /\ (Store(h, MPI_Group_incl(g1, l)) \/ Store(h, MPI_Group_excl(g1, l)))
        \/ \E l \in RankRanges : InRange(g1, [i \in 1..Len(l) |-> l[i][2]])
             /\ (Store(h, MPI_Group_range_incl(g1, l)) \/ Store(h, MPI_Group_range_excl(g1, l)))

\* A permanent group is refused, and its count stays.
MPI_Group_free(h) ==
  /\ Verified(h) /\ ~handle[h].isPermanent
  /\ handle' = [handle EXCEPT ![h] = MPI_GROUP_NULL]
  /\ UNCHANGED <<world, pointer, object, comm, ref_count>>

ContextNext ==
  \/ \E got \in SUBSET Objects : tmpi_comm_ginit(got)
  \/ tmpi_comm_gend
  \/ \E n \in LocalNodes : (\E ok \in BOOLEAN : tmpi_comm_init(n, ok)) \/ tmpi_comm_end(n)
  \/ \E h \in GroupHandles : MPI_Comm_group(h) \/ MPI_Group_free(h)
  \/ \E h1, h2, h \in GroupHandles : MakeGroup(h1, h2, h)
ContextSpec == ContextInit /\ [][ContextNext]_context

----------------------------------------------------------------------------
\* Whatever sequence of calls has made a group, no rank occurs twice in it, it is not
\* empty, and local_rank, which each constructor works out in its own way, is the
\* place of the calling node in it (group.c:103-335).
GroupsSound ==
  \A h \in GroupHandles : handle[h].valid =>
    LET g == handle[h] IN
    /\ g.lrank2grank # <<>> /\ IsInjective(g.lrank2grank)
    /\ g.local_rank = Find(g.lrank2grank, Me)

\* The calls fit together as the set operations they are named after: what two groups
\* share and what only the first has make up the first; a union does not depend on
\* the order but for the order of its ranks; excluding what was included leaves the
\* difference; translating to the union and back is the identity (group.c:38-315).
GroupLaws ==
  \A h1, h2 \in GroupHandles : handle[h1].valid /\ handle[h2].valid =>
    LET g1 == handle[h1]
        g2 == handle[h2]
        u == MPI_Group_union(g1, g2)
        i == MPI_Group_intersection(g1, g2)
        d == MPI_Group_difference(g1, g2)
        all == [k \in 1..Len(g1.lrank2grank) |-> k - 1]
        shared == SelectSeq(MPI_Group_translate_ranks(g2, [k \in 1..Len(g2.lrank2grank) |-> k - 1], g1),
                            LAMBDA r : r # MPI_UNDEFINED)
    IN
    /\ (i.valid /\ d.valid) => MPI_Group_compare(MPI_Group_union(i, d), g1) # "UNEQUAL"
    /\ ~d.valid => MPI_Group_compare(i, g1) = "IDENT"
    /\ ~i.valid => MPI_Group_compare(d, g1) = "IDENT"
    /\ (i.valid /\ d.valid) => MPI_Group_compare(i, d) = "UNEQUAL"
    /\ MPI_Group_compare(u, MPI_Group_union(g2, g1)) = MPI_Group_compare(MPI_Group_union(g2, g1), u)
    /\ MPI_Group_compare(u, MPI_Group_union(g2, g1)) # "UNEQUAL"
    /\ MPI_Group_excl(g1, shared).lrank2grank = d.lrank2grank
    /\ MPI_Group_translate_ranks(u, MPI_Group_translate_ranks(g1, all, u), g1) = all

\* However the allocations of the start turn out (comm.c:44-177): a node that has a
\* communicator finds the barrier and both reduction objects there, and no communicator
\* outlives the table or an object it points to.
ObjectsThere ==
  \A n \in LocalNodes :
    /\ There(n) => world /\ {"Bar", "Reduce", "Allreduce"} \subseteq comm[n].objects
    /\ comm[n].objects \subseteq object
=============================================================================
