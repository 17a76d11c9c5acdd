------------------------------- MODULE Reduce -------------------------------
(***************************************************************************)
(* The reduction to one root of the nodes of its machine: tmpi_rdco_reduce *)
(* of intra/reduce.c.  The first node to reach an item of the queue, found *)
(* by compare-and-swap, opens it with its operand; the others combine      *)
(* theirs into it without a lock and count themselves; the root waits for  *)
(* the count and frees the item.  Whoever sees an item that is not yet     *)
(* open takes a handle from a lock-free pool for the item after it, and    *)
(* gives it back when somebody else was faster.                            *)
(*                                                                         *)
(* rdco_array holds one such queue per root, and they share nothing.  An   *)
(* operand is the pair of a node and its call; a partial result is the set *)
(* of the operands that have been combined.                                *)
(***************************************************************************)
EXTENDS Integers, Sequences, FiniteSets

CONSTANTS
  Nodes,         \* the nodes of the machine
  Root,
  Rounds,        \* bound: calls of each node
  MaxHandles,    \* bound: handles that exist
  MaxFails,      \* bound: failures of malloc and calloc
  MaxSpurious    \* bound: spurious wake-ups of a condition wait

\* tmpi_rdco_create makes no queue for a group of one.
ConstantsAllowed ==
  /\ IsFiniteSet(Nodes) /\ Root \in Nodes /\ Nodes # {Root}
  /\ Rounds \in Nat /\ MaxFails \in Nat /\ MaxSpurious \in Nat
  /\ MaxHandles \in Nat /\ MaxHandles > Cardinality(Nodes)

group_size == Cardinality(Nodes)
Handles == 0..(MaxHandles - 1)
Null == -1
Bad == -8                     \* (tmpi_RDCHandle*)8L: "internal allocation error"
NoData == {<<"NULL", 0>>}    \* data==NULL
Freed == {<<"freed", 0>>}    \* data that points to a freed buffer

VARIABLES
  next, avail, data,   \* the fields of each handle
  first, free,         \* q->first and q->free
  made,                \* handles 0..made-1 exist
  key,                 \* ukey value of each node, Null when never set
  pc, asleep,          \* where each node is; the nodes in a condition wait
  item, new, link,     \* the locals curitem, newitem (ret) and localfree
  acc,                 \* what simple_reduce of a node has read from the item
  fails, spurious,
  out, result          \* history: return codes, what the root's calls delivered

fields == <<next, avail, data>>
queue == <<first, free, made>>
locals == <<item, new, link, acc>>
bounds == <<fails, spurious>>
history == <<out, result>>
vars == <<next, avail, data, first, free, made, key, pc, asleep, item, new, link, acc,
          fails, spurious, out, result>>

----------------------------------------------------------------------------
\* groupsize+1 cached handles: one is the guarding node, the others are free.
tmpi_rdcq_create ==
  /\ next = [h \in Handles |-> IF h \in 1..(group_size - 1) THEN h + 1 ELSE Null]
  /\ avail = [h \in Handles |-> IF h = 0 THEN -1 ELSE 0]
  /\ data = [h \in Handles |-> NoData]
  /\ first = 0
  /\ free = 1
  /\ made = group_size + 1

Init ==
  /\ tmpi_rdcq_create
  /\ key = [t \in Nodes |-> Null]
  /\ pc = [t \in Nodes |-> "out"] /\ asleep = {}
  /\ item = [t \in Nodes |-> Null]
  /\ new = [t \in Nodes |-> Null]
  /\ link = [t \in Nodes |-> Null]
  /\ acc = [t \in Nodes |-> {}]
  /\ fails = 0 /\ spurious = 0
  /\ out = [t \in Nodes |-> <<>>] /\ result = <<>>

Goto(t, from, to) == pc[t] = from /\ pc' = [pc EXCEPT ![t] = to]

Return(t, code) == out' = [out EXCEPT ![t] = Append(@, code)]

Operand(t) == <<t, Len(out[t]) + 1>>

\* The item's mutex is held by a node that has counted itself and not yet unlocked;
\* all other critical sections are single steps.
Locked(h) == \E t \in Nodes : pc[t] = "unlock" /\ item[t] = h

----------------------------------------------------------------------------
(***************************************************************************)
(* The head of tmpi_rdco_reduce                                            *)
(***************************************************************************)
Position(t) == IF key[t] = Null THEN first ELSE key[t]

Enter(t) ==
  /\ Len(out[t]) < Rounds
  /\ Goto(t, "out", "check")
  /\ Position(t) # Bad
  /\ item' = [item EXCEPT ![t] = Position(t)]
  /\ UNCHANGED <<fields, queue, key, asleep, new, link, acc, bounds, history>>

EnterBad(t) ==
  /\ Len(out[t]) < Rounds
  /\ pc[t] = "out"
  /\ Position(t) = Bad
  /\ Return(t, -1)
  /\ UNCHANGED <<fields, queue, key, pc, asleep, locals, bounds, result>>

\* curitem->avail is read without the lock.
Check(t) ==
  /\ Goto(t, "check", IF avail[item[t]] = -1 THEN "head" ELSE "wait")
  /\ UNCHANGED <<fields, queue, key, asleep, locals, bounds, history>>

----------------------------------------------------------------------------
(***************************************************************************)
(* tmpi_rdch_alloc                                                         *)
(***************************************************************************)
ReadHead(t) ==
  /\ Goto(t, "head", IF free = Null THEN "grow" ELSE "pop")
  /\ new' = [new EXCEPT ![t] = free]
  /\ UNCHANGED <<fields, queue, key, asleep, item, link, acc, bounds, history>>

PopNext(t) ==
  /\ Goto(t, "pop", "cas")
  /\ link' = [link EXCEPT ![t] = next[new[t]]]
  /\ UNCHANGED <<fields, queue, key, asleep, item, new, acc, bounds, history>>

PopCas(t) ==
  /\ Goto(t, "cas", "elect")
  /\ free = new[t]
  /\ free' = link[t]
  /\ UNCHANGED <<fields, first, made, key, asleep, locals, bounds, history>>

PopRetry(t) ==
  /\ Goto(t, "cas", "head")
  /\ free # new[t]
  /\ UNCHANGED <<fields, queue, key, asleep, locals, bounds, history>>

\* A chunk of group_size new handles, the first for the caller.
Grow(t) ==
  /\ Goto(t, "grow", "splice")
  /\ made + group_size <= MaxHandles
  /\ new' = [new EXCEPT ![t] = made]
  /\ next' = [h \in Handles |-> IF h > made /\ h < made + group_size - 1 THEN h + 1 ELSE next[h]]
  /\ made' = made + group_size
  /\ UNCHANGED <<avail, data, first, free, key, asleep, item, link, acc, bounds, history>>

GrowFails(t) ==
  /\ Goto(t, "grow", "elect")
  /\ fails < MaxFails
  /\ fails' = fails + 1
  /\ new' = [new EXCEPT ![t] = Bad]
  /\ UNCHANGED <<fields, queue, key, asleep, item, link, acc, spurious, history>>

LastOfChunk(t) == new[t] + group_size - 1

SpliceNext(t) ==
  /\ Goto(t, "splice", "splice_cas")
  /\ next' = [next EXCEPT ![LastOfChunk(t)] = free]
  /\ UNCHANGED <<avail, data, queue, key, asleep, locals, bounds, history>>

SpliceCas(t) ==
  /\ Goto(t, "splice_cas", "elect")
  /\ free = next[LastOfChunk(t)]
  /\ free' = new[t] + 1
  /\ UNCHANGED <<fields, first, made, key, asleep, locals, bounds, history>>

SpliceRetry(t) ==
  /\ Goto(t, "splice_cas", "splice")
  /\ free # next[LastOfChunk(t)]
  /\ UNCHANGED <<fields, queue, key, asleep, locals, bounds, history>>

----------------------------------------------------------------------------
(***************************************************************************)
(* The first to reach the reduction                                        *)
(***************************************************************************)
\* newitem->avail=-1; newitem->next=NULL; cas32(&(curitem->avail), -1, 0)
Elect(t) ==
  LET won == avail[item[t]] = -1
      to == IF won THEN "open" ELSE IF new[t] = Bad THEN "wait" ELSE "push"
  IN /\ Goto(t, "elect", to)
     /\ avail' = [h \in Handles |-> IF h = new[t] THEN -1
                                    ELSE IF h = item[t] /\ won THEN 0 ELSE avail[h]]
     /\ next' = [h \in Handles |-> IF h = new[t] THEN Null ELSE next[h]]
     /\ UNCHANGED <<data, queue, key, asleep, locals, bounds, history>>

\* The operand goes to recvbuf at the root, to a new buffer elsewhere.
Open(t) ==
  /\ Goto(t, "open", "publish")
  /\ next' = [next EXCEPT ![item[t]] = new[t]]
  /\ \/ /\ data' = [data EXCEPT ![item[t]] = {Operand(t)}]
        /\ UNCHANGED fails
     \/ /\ t # Root /\ fails < MaxFails
        /\ data' = [data EXCEPT ![item[t]] = NoData]
        /\ fails' = fails + 1
  /\ UNCHANGED <<avail, queue, key, asleep, item, new, link, acc, spurious, history>>

\* Faulty Publish: the opener forgets that it has no memory.
PublishOptimistic(t) ==
  /\ Goto(t, "publish", IF t = Root THEN "await_first" ELSE "out")
  /\ avail' = [avail EXCEPT ![item[t]] = 1]
  /\ asleep' = {u \in asleep : item[u] # item[t]}
  /\ IF t = Root
     THEN UNCHANGED <<key, out>>
     ELSE key' = [key EXCEPT ![t] = new[t]] /\ Return(t, 0)
  /\ UNCHANGED <<next, data, queue, locals, bounds, result>>

\* Under the item's mutex, with a broadcast.  A node other than the root is done.
Publish(t) ==
  /\ Goto(t, "publish", IF t = Root THEN "await_first" ELSE "out")
  /\ avail' = [avail EXCEPT ![item[t]] = 1]
  /\ asleep' = {u \in asleep : item[u] # item[t]}
  /\ IF t = Root
     THEN UNCHANGED <<key, out>>
     ELSE /\ key' = [key EXCEPT ![t] = new[t]]
          /\ Return(t, IF data[item[t]] = NoData THEN -2 ELSE 0)
  /\ UNCHANGED <<next, data, queue, locals, bounds, result>>

----------------------------------------------------------------------------
(***************************************************************************)
(* The others                                                              *)
(***************************************************************************)
\* Faulty MustWait: the root does not wait for the last node.
MustWaitShort(t) == IF pc[t] = "wait" THEN avail[item[t]] = 0 ELSE avail[item[t]] < group_size - 1

\* The loops around thr_cnd_wait: of a node that has not opened the item, and of the
\* root for the result.
MustWait(t) == IF pc[t] = "wait" THEN avail[item[t]] = 0 ELSE avail[item[t]] # group_size

Waiting(t) == pc[t] \in {"wait", "await", "await_first"} /\ t \notin asleep /\ ~Locked(item[t])

Sleep(t) ==
  /\ Waiting(t) /\ MustWait(t)
  /\ asleep' = asleep \cup {t}
  /\ UNCHANGED <<fields, queue, key, pc, locals, bounds, history>>

SpuriousWakeup(t) ==
  /\ t \in asleep /\ spurious < MaxSpurious
  /\ asleep' = asleep \ {t}
  /\ spurious' = spurious + 1
  /\ UNCHANGED <<fields, queue, key, pc, locals, fails, history>>

StopWaiting(t) ==
  /\ Waiting(t) /\ ~MustWait(t)
  /\ pc' = [pc EXCEPT ![t] = CASE @ = "wait" -> "read"
                               [] @ = "await" -> "retire"
                               [] @ = "await_first" -> "retire_first"]
  /\ UNCHANGED <<fields, queue, key, asleep, locals, bounds, history>>

\* simple_reduce reads the partial result and writes it back, without the lock.  The type
\* and the operation are ones that optable supports: for the others it combines nothing,
\* and the call returns 0 all the same.
ReduceRead(t) ==
  /\ Goto(t, "read", IF data[item[t]] = NoData THEN "count" ELSE "write")
  /\ acc' = [acc EXCEPT ![t] = IF data[item[t]] = NoData THEN {} ELSE data[item[t]]]
  /\ UNCHANGED <<fields, queue, key, asleep, item, new, link, bounds, history>>

ReduceWrite(t) ==
  /\ Goto(t, "write", "count")
  /\ data' = [data EXCEPT ![item[t]] = acc[t] \cup {Operand(t)}]
  /\ acc' = [acc EXCEPT ![t] = {}]
  /\ UNCHANGED <<next, avail, queue, key, asleep, item, new, link, bounds, history>>

\* ukey_setval, then avail++ and the signal under the mutex.  A node other than the
\* root has nothing to do after it but unlock and return.
Count(t) ==
  LET h == item[t]
      sleepers == {u \in asleep : item[u] = h}
  IN /\ ~Locked(h)
     /\ Goto(t, "count", "unlock")
     /\ key' = [key EXCEPT ![t] = next[h]]
     /\ avail' = [avail EXCEPT ![h] = @ + 1]
     /\ IF avail[h] + 1 = group_size /\ t # Root /\ sleepers # {}
        THEN \E u \in sleepers : asleep' = asleep \ {u}
        ELSE UNCHANGED asleep
     /\ IF t = Root THEN UNCHANGED out ELSE Return(t, IF data[h] = NoData THEN -2 ELSE 0)
     /\ UNCHANGED <<next, data, queue, locals, bounds, result>>

Unlock(t) ==
  /\ Goto(t, "unlock", IF t = Root THEN "peek" ELSE "out")
  /\ UNCHANGED <<fields, queue, key, asleep, locals, bounds, history>>

----------------------------------------------------------------------------
(***************************************************************************)
(* The root: the result                                                    *)
(***************************************************************************)
\* curitem->avail is read again without the lock.
Peek(t) ==
  /\ Goto(t, "peek", IF avail[item[t]] = group_size THEN "retire" ELSE "await")
  /\ UNCHANGED <<fields, queue, key, asleep, locals, bounds, history>>

\* A root that has opened the item has the result in recvbuf.
RetireFirst(t) ==
  LET h == item[t]
  IN /\ Goto(t, "retire_first", "free")
     /\ first' = next[h]
     /\ key' = [key EXCEPT ![t] = new[t]]
     /\ Return(t, 0) /\ result' = Append(result, data[h])
     /\ UNCHANGED <<fields, free, made, asleep, locals, bounds>>

\* Otherwise it copies the result, if there is one, and frees the buffer.
Retire(t) ==
  LET h == item[t]
      code == IF data[h] = NoData THEN -2 ELSE 0
  IN /\ Goto(t, "retire", "free")
     /\ data' = [data EXCEPT ![h] = IF code = 0 THEN Freed ELSE @]
     /\ first' = next[h]
     /\ Return(t, code) /\ result' = Append(result, data[h])
     /\ UNCHANGED <<next, avail, free, made, key, asleep, locals, bounds>>

(***************************************************************************)
(* tmpi_rdch_free, of the item by the root and of newitem by a node that   *)
(* was not the first                                                       *)
(***************************************************************************)
Victim(t) == IF pc[t] \in {"free", "free_cas"} THEN item[t] ELSE new[t]

PushNext(t) ==
  /\ Goto(t, "push", "push_cas") \/ Goto(t, "free", "free_cas")
  /\ next' = [next EXCEPT ![Victim(t)] = free]
  /\ UNCHANGED <<avail, data, queue, key, asleep, locals, bounds, history>>

\* Faulty PushCas: a store without the comparison.
PushStore(t) ==
  /\ Goto(t, "push_cas", "wait") \/ Goto(t, "free_cas", "out")
  /\ free' = Victim(t)
  /\ UNCHANGED <<fields, first, made, key, asleep, locals, bounds, history>>

PushCas(t) ==
  /\ Goto(t, "push_cas", "wait") \/ Goto(t, "free_cas", "out")
  /\ free = next[Victim(t)]
  /\ free' = Victim(t)
  /\ UNCHANGED <<fields, first, made, key, asleep, locals, bounds, history>>

\* Faulty PushRetry: the head is read only once.
PushRetryStale(t) ==
  /\ pc[t] \in {"push_cas", "free_cas"}
  /\ free # next[Victim(t)]
  /\ UNCHANGED vars

PushRetry(t) ==
  /\ Goto(t, "push_cas", "push") \/ Goto(t, "free_cas", "free")
  /\ free # next[Victim(t)]
  /\ UNCHANGED <<fields, queue, key, asleep, locals, bounds, history>>

----------------------------------------------------------------------------
Alloc(t) ==
  \/ ReadHead(t) \/ PopNext(t) \/ PopCas(t) \/ PopRetry(t) \/ Grow(t) \/ GrowFails(t)
  \/ SpliceNext(t) \/ SpliceCas(t) \/ SpliceRetry(t)

Step(t) ==
  \/ Enter(t) \/ EnterBad(t) \/ Check(t) \/ Alloc(t) \/ Elect(t) \/ Open(t) \/ Publish(t)
  \/ Sleep(t) \/ StopWaiting(t) \/ ReduceRead(t) \/ ReduceWrite(t) \/ Count(t) \/ Unlock(t)
  \/ Peek(t) \/ RetireFirst(t) \/ Retire(t)    \* reached by the root only
  \/ PushNext(t) \/ PushCas(t) \/ PushRetry(t)

Done == \A t \in Nodes : pc[t] = "out" /\ Len(out[t]) = Rounds

Next ==
  \/ \E t \in Nodes : Step(t) \/ SpuriousWakeup(t)
  \/ Done /\ UNCHANGED vars

Safe == Init /\ [][Next]_vars

\* Every thread is scheduled.
Spec == Safe /\ \A t \in Nodes : WF_vars(Step(t))

----------------------------------------------------------------------------
(***************************************************************************)
(* Properties                                                              *)
(***************************************************************************)
Places == {"out", "check", "head", "pop", "cas", "grow", "splice", "splice_cas", "elect",
           "open", "publish", "wait", "read", "write", "count", "unlock", "peek", "await",
           "await_first", "retire", "retire_first", "free", "free_cas", "push", "push_cas"}

HandleOrNull == Handles \cup {Null}
Operands == Nodes \X (1..Rounds)

\* The type invariant: avail is -1 before the item is opened, then a count of nodes.
TypeOK ==
  /\ next \in [Handles -> HandleOrNull \cup {Bad}]
  /\ avail \in [Handles -> (-1)..group_size]
  /\ \A h \in Handles : data[h] \in {NoData, Freed} \/ data[h] \subseteq Operands
  /\ first \in Handles \cup {Bad} /\ free \in HandleOrNull
  /\ made \in (group_size + 1)..MaxHandles
  /\ key \in [Nodes -> HandleOrNull \cup {Bad}]
  /\ pc \in [Nodes -> Places] /\ asleep \subseteq Nodes
  /\ item \in [Nodes -> HandleOrNull]
  /\ new \in [Nodes -> HandleOrNull \cup {Bad}] /\ link \in [Nodes -> HandleOrNull \cup {Bad}]
  /\ \A t \in Nodes : acc[t] \subseteq Operands
  /\ fails \in 0..MaxFails /\ spurious \in 0..MaxSpurious
  /\ out \in [Nodes -> Seq({0, -1, -2})]
  /\ Len(result) <= Rounds

ListFrom(h) ==
  LET reach[n \in 0..MaxHandles] ==
        IF n = 0 THEN {h} \cap Handles
        ELSE LET nearer == reach[n - 1]
             IN nearer \cup ({next[x] : x \in nearer} \cap Handles)
  IN reach[MaxHandles]

Pool == ListFrom(free)
Live == ListFrom(first)

\* Handles on their way between the pool and the queue, in the hands of one node.
InTransit(t) ==
  CASE pc[t] \in {"elect", "open"}                       -> {new[t]} \cap Handles
    [] pc[t] \in {"push", "push_cas", "free", "free_cas"} -> {Victim(t)}
    [] pc[t] \in {"splice", "splice_cas"}                 -> new[t]..LastOfChunk(t)
    [] OTHER                                              -> {}

\* What the root waits for ("wait for result to come"): when every node has counted
\* itself the result combines the operands of all of them, each of this call.
ResultComplete ==
  \A k \in DOMAIN result : result[k] # NoData => result[k] = {<<t, k>> : t \in Nodes}

\* The nodes need not call in the same order, but their k-th calls succeed together
\* or fail together: a node that runs ahead, one that finds the item opened and the
\* root report the same memory shortage.
ReturnsAgree ==
  \A t, u \in Nodes : \A k \in DOMAIN out[t] \cap DOMAIN out[u] : out[t][k] = out[u][k]

\* What "a lock free allocator" promises to the nodes that call it together: no
\* handle is given to a node that another one has or that is in the queue, and the free
\* list ends.
PoolDisjoint ==
  /\ Pool \cap Live = {}
  /\ \A t \in Nodes : InTransit(t) \cap (Pool \cup Live) = {}
  /\ \A t, u \in Nodes : t # u => InTransit(t) \cap InTransit(u) = {}
  /\ Pool # {} => \E h \in Pool : next[h] = Null

\* The root frees an item only when nobody uses it any more: a node that reads it,
\* waits on it, combines into it or holds its mutex has it on the queue.
ItemsAlive ==
  \A t \in Nodes : pc[t] \notin {"out", "free", "free_cas"} => item[t] \in Live

\* Both: what the nodes rely on when they take handles and the root gives them back
\* without a lock (reduce.c:150, 401).
ReduceMemorySound == PoolDisjoint /\ ItemsAlive

\* A machine of two nodes keeps it: one other node cannot pop a handle and push it again
\* within a single pop, and it has unlocked the item before the root can find it counted.
\* With a third node neither part holds.
PairMemorySound == TypeOK /\ (group_size = 2 => ReduceMemorySound)

\* Every call returns when each node makes its calls: the opener's broadcast reaches
\* those who wait for the item, and the single signal reaches the root.
AllReturn == <>[]Done
=============================================================================
