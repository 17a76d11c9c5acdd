------------------------------- MODULE Bcast -------------------------------
(***************************************************************************)
(* The broadcast of one root to the other nodes of its machine:            *)
(* intra/bcast.c.  The root of a queue appends an item per broadcast to a  *)
(* linked list and never waits; each reader follows the list at its own    *)
(* pace, and the last one to leave an item gives its handle back to a pool *)
(* which the root takes handles from, without locks, by compare-and-swap.  *)
(* A node's position in the list is thread-specific data.                  *)
(*                                                                         *)
(* bco_array holds one such queue per root.  The queues share nothing, so  *)
(* this is the queue of one root.                                          *)
(***************************************************************************)
EXTENDS Integers, Sequences, FiniteSets

CONSTANTS
  Root,
  Readers,       \* the other nodes of the machine
  Rounds,        \* bound: broadcasts
  MaxHandles,    \* bound: handles that exist
  MaxFails,      \* bound: failures of malloc and calloc
  MaxSpurious    \* bound: spurious wake-ups of a condition wait

ASSUME NodesAssumption == IsFiniteSet(Readers) /\ Readers # {} /\ Root \notin Readers
ASSUME BoundsAssumption ==
  /\ Rounds \in Nat /\ MaxFails \in Nat /\ MaxSpurious \in Nat
  /\ MaxHandles \in Nat /\ MaxHandles > Cardinality(Readers) + 1

Nodes == Readers \cup {Root}
group_size == Cardinality(Readers) + 1

Handles == 0..(MaxHandles - 1)
Null == -1
Bad == -8       \* (tmpi_BCHandle*)8L: "internal allocation error"
NoMemory == -2  \* data==NULL, and what a broadcast returns then
Freed == -3     \* data that points to a freed buffer

VARIABLES
  next, avail, data,   \* the fields of each handle
  first, free,         \* q->first and q->free
  made,                \* handles 0..made-1 exist
  key,                 \* ukey value of each node, Null when never set
  pc, item,            \* where each node is, and its curitem
  new, link,           \* locals of tmpi_bch_alloc, which only the root calls
  fails, spurious,
  out                  \* history: what each call of a node returned

list == <<next, avail, data, first>>
bounds == <<fails, spurious>>
vars == <<next, avail, data, first, free, made, key, pc, item, new, link,
          fails, spurious, out>>

----------------------------------------------------------------------------
\* groupsize+1 cached handles: one is the guarding node, the others are free.
tmpi_bcq_create ==
  /\ next = [h \in Handles |-> IF h \in 1..(group_size - 1) THEN h + 1 ELSE Null]
  /\ avail = [h \in Handles |-> 0]
  /\ data = [h \in Handles |-> NoMemory]
  /\ first = 0
  /\ free = 1
  /\ made = group_size + 1

Init ==
  /\ tmpi_bcq_create
  /\ key = [t \in Nodes |-> Null]
  /\ pc = [t \in Nodes |-> "out"]
  /\ item = [t \in Nodes |-> Null]
  /\ new = Null
  /\ link = Null
  /\ fails = 0
  /\ spurious = 0
  /\ out = [t \in Nodes |-> <<>>]

Goto(t, from, to) == pc[t] = from /\ pc' = [pc EXCEPT ![t] = to]

Return(t, v) == out' = [out EXCEPT ![t] = Append(@, v)]

----------------------------------------------------------------------------
\* The head of tmpi_bco_bcast: q->first is read without a lock.
Enter(t) ==
  LET cur == IF key[t] = Null THEN first ELSE key[t]
  IN /\ Len(out[t]) < Rounds
     /\ cur # Bad
     /\ Goto(t, "out", IF t = Root THEN "pop" ELSE "lock")
     /\ item' = [item EXCEPT ![t] = cur]
     /\ new' = IF t = Root THEN free ELSE new    \* ret=*pfree
     /\ UNCHANGED <<list, free, made, key, link, bounds, out>>

EnterBad(t) ==
  /\ Len(out[t]) < Rounds
  /\ pc[t] = "out"
  /\ (IF key[t] = Null THEN first ELSE key[t]) = Bad
  /\ Return(t, -1)
  /\ UNCHANGED <<list, free, made, key, pc, item, new, link, bounds>>

----------------------------------------------------------------------------
(***************************************************************************)
(* tmpi_bch_alloc, called by the root                                      *)
(***************************************************************************)
PopNext ==
  /\ pc[Root] = "pop" /\ new # Null
  /\ link' = next[new]
  /\ pc' = [pc EXCEPT ![Root] = "cas"]
  /\ UNCHANGED <<list, free, made, key, item, new, bounds, out>>

PopCas ==
  /\ Goto(Root, "cas", "fill")
  /\ free = new
  /\ free' = link
  /\ UNCHANGED <<list, made, key, item, new, link, bounds, out>>

PopRetry ==
  /\ Goto(Root, "cas", "pop")
  /\ free # new
  /\ new' = free
  /\ UNCHANGED <<list, free, made, key, item, link, bounds, out>>

\* "no more cached handles": a chunk of group_size new ones, the first for the
\* caller, the others linked to each other.
Grow ==
  /\ pc[Root] = "pop" /\ new = Null
  /\ made + group_size <= MaxHandles
  /\ new' = made
  /\ next' = [h \in Handles |-> IF h > made /\ h < made + group_size - 1 THEN h + 1 ELSE next[h]]
  /\ made' = made + group_size
  /\ pc' = [pc EXCEPT ![Root] = "splice"]
  /\ UNCHANGED <<avail, data, first, free, key, item, link, bounds, out>>

GrowFails ==
  /\ pc[Root] = "pop" /\ new = Null
  /\ fails < MaxFails
  /\ new' = Bad
  /\ fails' = fails + 1
  /\ pc' = [pc EXCEPT ![Root] = "fill"]
  /\ UNCHANGED <<list, free, made, key, item, link, spurious, out>>

\* The rest of the chunk is put in front of the pool.
SpliceNext ==
  /\ Goto(Root, "splice", "splice_cas")
  /\ next' = [next EXCEPT ![new + group_size - 1] = free]
  /\ UNCHANGED <<avail, data, first, free, made, key, item, new, link, bounds, out>>

SpliceCas ==
  /\ Goto(Root, "splice_cas", "fill")
  /\ free = next[new + group_size - 1]
  /\ free' = new + 1
  /\ UNCHANGED <<list, made, key, item, new, link, bounds, out>>

SpliceRetry ==
  /\ Goto(Root, "splice_cas", "splice")
  /\ free # next[new + group_size - 1]
  /\ UNCHANGED <<list, free, made, key, item, new, link, bounds, out>>

----------------------------------------------------------------------------
(***************************************************************************)
(* The root: a new guarding node, the data, and then the flag              *)
(***************************************************************************)

Fill ==
  LET h == item[Root]
      n == new
  IN /\ Goto(Root, "fill", "publish")
     /\ next' = [x \in Handles |-> CASE x = h -> n [] x = n -> Null [] OTHER -> next[x]]
     /\ avail' = [x \in Handles |-> IF x = n THEN 0 ELSE avail[x]]
     /\ \/ /\ data' = [data EXCEPT ![h] = Len(out[Root]) + 1]
           /\ UNCHANGED fails
        \/ /\ fails < MaxFails
           /\ data' = [data EXCEPT ![h] = NoMemory]
           /\ fails' = fails + 1
     /\ UNCHANGED <<first, free, made, key, item, new, link, spurious, out>>

\* Under the item's mutex.
Publish ==
  LET h == item[Root]
  IN /\ pc[Root] = "publish"
     /\ avail' = [avail EXCEPT ![h] = 1]
     /\ pc' = [t \in Nodes |-> IF t = Root THEN "out"
                               ELSE IF pc[t] = "sleep" /\ item[t] = h THEN "lock"
                               ELSE pc[t]]
     /\ key' = [key EXCEPT ![Root] = new]
     /\ Return(Root, data[h])
     /\ UNCHANGED <<next, data, first, free, made, item, new, link, bounds>>

----------------------------------------------------------------------------
(***************************************************************************)
(* A reader                                                                *)
(***************************************************************************)
\* while (!curitem->avail) thr_cnd_wait(...), under the item's mutex.
Sleep(t) ==
  /\ pc[t] = "lock" /\ avail[item[t]] = 0
  /\ pc' = [pc EXCEPT ![t] = "sleep"]
  /\ UNCHANGED <<list, free, made, key, item, new, link, bounds, out>>

SpuriousWakeup(t) ==
  /\ Goto(t, "sleep", "lock")
  /\ spurious < MaxSpurious
  /\ spurious' = spurious + 1
  /\ UNCHANGED <<list, free, made, key, item, new, link, fails, out>>

SeeAvail(t) ==
  /\ pc[t] = "lock" /\ avail[item[t]] # 0
  /\ pc' = [pc EXCEPT ![t] = "copy"]
  /\ UNCHANGED <<list, free, made, key, item, new, link, bounds, out>>

\* The data, or MPI_ERR_BUFFER, and the position for the next call.
Copy(t) ==
  /\ Goto(t, "copy", "leave")
  /\ Return(t, data[item[t]])
  /\ key' = [key EXCEPT ![t] = next[item[t]]]
  /\ UNCHANGED <<list, free, made, item, new, link, bounds>>

\* Faulty Leave: the root is not counted, the last but one reader frees the item.
LeaveEarly(t) ==
  LET h == item[t]
  IN /\ Goto(t, "leave", IF avail[h] + 1 = group_size - 1 THEN "retire" ELSE "out")
     /\ avail' = [avail EXCEPT ![h] = @ + 1]
     /\ UNCHANGED <<next, data, first, free, made, key, item, new, link, bounds, out>>

\* anf32: an atomic add; the last to leave goes on to free the item.
Leave(t) ==
  LET h == item[t]
  IN /\ Goto(t, "leave", IF avail[h] + 1 = group_size THEN "retire" ELSE "out")
     /\ avail' = [avail EXCEPT ![h] = @ + 1]
     /\ UNCHANGED <<next, data, first, free, made, key, item, new, link, bounds, out>>

Retire(t) ==
  /\ Goto(t, "retire", "push")
  /\ data' = [data EXCEPT ![item[t]] = IF @ = NoMemory THEN @ ELSE Freed]
  /\ first' = next[item[t]]
  /\ UNCHANGED <<next, avail, free, made, key, item, new, link, bounds, out>>

\* tmpi_bch_free
PushNext(t) ==
  /\ Goto(t, "push", "push_cas")
  /\ next' = [next EXCEPT ![item[t]] = free]
  /\ UNCHANGED <<avail, data, first, free, made, key, item, new, link, bounds, out>>

\* Faulty PushCas: a store without the comparison.
PushStore(t) ==
  /\ Goto(t, "push_cas", "out")
  /\ free' = item[t]
  /\ UNCHANGED <<list, made, key, item, new, link, bounds, out>>

PushCas(t) ==
  /\ Goto(t, "push_cas", "out")
  /\ free = next[item[t]]
  /\ free' = item[t]
  /\ UNCHANGED <<list, made, key, item, new, link, bounds, out>>

\* Faulty PushRetry: the head is read only once.
PushRetryStale(t) ==
  /\ pc[t] = "push_cas"
  /\ free # next[item[t]]
  /\ UNCHANGED vars

PushRetry(t) ==
  /\ Goto(t, "push_cas", "push")
  /\ free # next[item[t]]
  /\ UNCHANGED <<list, free, made, key, item, new, link, bounds, out>>

----------------------------------------------------------------------------
RootStep ==
  \/ Enter(Root) \/ EnterBad(Root) \/ PopNext \/ PopCas \/ PopRetry \/ Grow \/ GrowFails
  \/ SpliceNext \/ SpliceCas \/ SpliceRetry \/ Fill \/ Publish

ReaderStep(t) ==
  \/ Enter(t) \/ EnterBad(t) \/ Sleep(t) \/ SeeAvail(t) \/ Copy(t) \/ Leave(t)
  \/ Retire(t) \/ PushNext(t) \/ PushCas(t) \/ PushRetry(t)

Done == \A t \in Nodes : pc[t] = "out" /\ Len(out[t]) = Rounds

Next ==
  \/ RootStep
  \/ \E t \in Readers : ReaderStep(t) \/ SpuriousWakeup(t)
  \/ Done /\ UNCHANGED vars

Safe == Init /\ [][Next]_vars

\* Every thread is scheduled.
Spec == Safe /\ WF_vars(RootStep) /\ \A t \in Readers : WF_vars(ReaderStep(t))

----------------------------------------------------------------------------
(***************************************************************************)
(* Properties                                                              *)
(***************************************************************************)
Places == {"out", "pop", "cas", "splice", "splice_cas", "fill", "publish", "lock",
           "sleep", "copy", "leave", "retire", "push", "push_cas"}

HandleOrNull == Handles \cup {Null}
Values == 1..Rounds \cup {NoMemory, Freed, -1}

\* The type invariant: avail counts the root and the readers that have left.
TypeOK ==
  /\ next \in [Handles -> HandleOrNull \cup {Bad}]
  /\ avail \in [Handles -> 0..group_size]
  /\ data \in [Handles -> Values]
  /\ first \in Handles \cup {Bad} /\ free \in HandleOrNull
  /\ made \in (group_size + 1)..MaxHandles
  /\ key \in [Nodes -> HandleOrNull \cup {Bad}]
  /\ pc \in [Nodes -> Places]
  /\ item \in [Nodes -> HandleOrNull]
  /\ new \in HandleOrNull \cup {Bad} /\ link \in HandleOrNull
  /\ fails \in 0..MaxFails /\ spurious \in 0..MaxSpurious
  /\ out \in [Nodes -> Seq(Values)]

\* The handles on the list that starts at h: those that are in every set of handles that has
\* h and, with a handle, the next one.
ListFrom(h) ==
  LET follows == {S \in SUBSET (0..(made - 1)) :
                    /\ h \in Handles => h \in S
                    /\ \A x \in S : next[x] \in Handles => next[x] \in S}
  IN {x \in 0..(made - 1) : \A S \in follows : x \in S}

\* Handles on their way between the pool and the queue, in the hands of one node.
InTransit(t) ==
  CASE pc[t] \in {"push", "push_cas"}     -> {item[t]}
    [] pc[t] = "fill"                     -> {new} \cap Handles
    [] pc[t] \in {"splice", "splice_cas"} -> new..(new + group_size - 1)
    [] OTHER                              -> {}

\* What tmpi_bco_bcast promises: the k-th call of every reader gives the data, or
\* the error, of the root's k-th call, however far behind the reader is and however
\* often the handle has been used again.  A reader is ahead of the root only in
\* reporting that the queue has broken.
Agreement ==
  \A t \in Readers : \A k \in DOMAIN out[t] :
    IF k \in DOMAIN out[Root] THEN out[t][k] = out[Root][k] ELSE out[t][k] = -1

\* The lock-free pool (tmpi_bch_alloc, tmpi_bch_free): a handle is in exactly one of
\* the pool, the queue and the hands of one node; none is lost or handed out twice,
\* and the free list ends.
PoolSound(pool, live) ==
  /\ pool \cap live = {}
  /\ \A t \in Nodes : InTransit(t) \cap (pool \cup live) = {}
  /\ \A t, u \in Nodes : t # u => InTransit(t) \cap InTransit(u) = {}
  /\ pool \cup live \cup UNION {InTransit(t) : t \in Nodes} = 0..(made - 1)
  /\ pool # {} => \E h \in pool : next[h] = Null

\* An item is freed by its last reader (line 252) and no earlier: whoever is about
\* to lock it, sleeps on it, copies from it or counts itself out has it on the
\* queue.  The root's own item is still unavailable ("now avail must be zero"), and a
\* reader that goes on finds a next item ("next item must be non-zero now").
ItemsAlive(live) ==
  /\ \A t \in Nodes : pc[t] \notin {"out", "push", "push_cas"} => item[t] \in live
  /\ pc[Root] # "out" => avail[item[Root]] = 0
  /\ \A t \in Readers : pc[t] = "copy" => next[item[t]] # Null

\* The handles, which are passed between the root and the last reader without a lock,
\* are neither lost, nor handed out twice, nor used after they were freed.
MemorySound ==
  LET live == ListFrom(first)
  IN TypeOK /\ PoolSound(ListFrom(free), live) /\ ItemsAlive(live)

\* Every call of every node returns when each of them makes its calls: no reader is
\* left asleep on an item that has been published.
AllReturn == <>[]Done
=============================================================================
