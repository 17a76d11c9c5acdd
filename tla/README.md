# TMPI: a verification project

TMPI is an MPI runtime in which the MPI nodes of one machine are threads of
one process; machines are connected by a small socket device. This directory
holds TLA+ models of the runtime (`src/src/runtime/src`, the root of all paths
below), the TLC runs that check them on small instances, and TLAPS proofs.

## Inventory

| Part | State it keeps | Operations | Interacts with | What is hard | What makes it correct |
|---|---|---|---|---|---|
| Thread barrier (`intra/barrier.c`) | two sub-barriers: count, mutex, condition; the current one | `bar_init`, `bar_wait` | `MPI_Barrier`, every node thread | the current sub-barrier is read without a lock, fast threads lap slow ones | rounds are separated, nobody is left asleep |
| Local messages (`intra/intra_sr.c`) | per node a channel: mutex, send queue, receive queue; handles with a state, a mutex and a condition | start, wait, test, cancel of sends and receives | `mpi_sr.c` above, `tqueue.c`, `mbuffer.c` below, `inter_sr.c` beside it | handles change hands between two threads, one of which frees them; unlocked reads of the state | matching, order, exactly-once, no use after free, no lost wake-up |
| MPI calls (`mpi/pt2pt/mpi_sr.c`) | requests | 15 send and receive calls, request calls | `intra_sr.c` | which call is legal in which state | completed requests give their handles back |
| Remote messages (`intra/inter_sr.c`, part of `intra_sr.c`) | handles, remote handles in the queues | seven message handlers run by the `movin` thread | NETQ | late answers to cancelled or released sends, a handler that blocks on a full connection | the two ends agree, no handle is freed twice or lost |
| Broadcast object (`intra/bcast.c`) | a linked list of items, per node its position, a pool of handles | `tmpi_bco_bcast` | `mpi_bcast.c`, NETQ | the root never waits; the last reader frees the item; the pool is lock-free | every reader gets the value of its round, items are freed once |
| Reduction objects (`intra/reduce.c`) | the same with an accumulator | `tmpi_rdco_reduce`, `ardco` | `mpi_reduce.c`, NETQ | the first arrival is elected by compare-and-swap, the reduction itself is not locked | every contribution counts once |
| Buffer allocator (`utils/buffer/mbuffer.c`) | per node a list of blocks in a system and a user buffer | alloc, free, attach, detach | `intra_sr.c`, `inter_sr.c` | splitting and coalescing, blocks freed by other threads | blocks never overlap, nothing is lost |
| Queue (`utils/tqueue/tqueue.c`) | doubly linked list, pool of elements | enqueue, find, new and free element | channels | an element freed while linked | it is a sequence |
| FIFO, semaphore (`net/netd`) | ring, counters | enqueue/dequeue, P/V | NETQ | limits, spurious wake-ups | first in first out, no lost signal |
| Ranks (`net/netd/netq.c`) | the group file, tables of global and local ranks | parse, translate, route | every message | ranks given twice, in ranges, not at all | every rank exists once, a message reaches its node |
| NETQ (`net/netd/netq.c`) | machine table, `movin` thread, termination counters | start, send, collectives, end | everything remote | start and end order against late messages | every message is handled, termination is agreed |
| NETD (`net/netd/netd_sock_c`, `sock_*.c`) | connections, spanning trees | start, send, receive, collectives | NETQ | connection set-up, blocked sends | trees span, collectives terminate |
| Start-up and shutdown (`mpi/init`) | which parts exist | `tmpi_main_init`, `tmpi_main_end` and their callees | NETQ, channels, buffers | handlers run before the channels exist and after they are freed | order of initialisation, termination |
| Communicators and groups (`mpi/context`) | the objects of `MPI_COMM_WORLD`, groups | init, end, set operations on groups | collectives | allocations that fail half-way, ranks worked out in each constructor | no pointer to a destroyed object, groups are sets with ranks |
| Collectives over machines (`mpi/group`, `netq.c`, `netd_sock_c`) | connections, spanning trees, the last root | `MPI_Barrier`, `Bcast`, `Reduce`, `Allreduce` | the objects of each machine | who uses the connections when, trees of any size, full connections | the data of the call, separation, termination |
| `mpitrans` (`src/src/compile`) | a C parser | source rewriting | none at run time | - | not modelled |

The ChangeLog names two known bugs, "a subtle deadlock problem" and semantics of
cancel that are "slightly different"; both appear below.

## Modules

| Module | Models | State and actions |
|---|---|---|
| `Barrier` | `intra/barrier.c` | `sbp`, `runners`, `wait_lk` are the fields of the structure; each statement of `bar_wait` that touches them is an action; condition waits can wake up spuriously |
| `AbstractBarrier` | what a barrier promises | calls entered and left; a call may leave when everybody has entered as often |
| `Intra` | `intra/intra_sr.c` for requests between nodes of one machine, under the calls of `mpi/pt2pt/mpi_sr.c` | `sh`, `rh` are the handles, `sq`, `rq`, `chlock` the channels; `pc`, `cur`, `found` say where each node is; `sent`, `posted`, `matched` are history |
| `Inter` | `intra/inter_sr.c` and the remote branches of `intra_sr.c` | handles and queues as in `Intra`, `conn` the connections, `movin` the thread of each machine that runs the seven handlers; one action per handler, and one per step of a call that another thread can come between |
| `Requests` | the calls on arrays of requests of `mpi_sr.c` | one step per request of the array; completion by the peer is an action of its own |
| `Bcast` | `intra/bcast.c`, one root's queue | `next`, `avail`, `data` are the fields of the handles, `first` and `free` those of the queue, `key` each node's position; every read, write and compare-and-swap of shared data is an action |
| `Reduce` | `tmpi_rdco_reduce` of `intra/reduce.c`, one root's queue | as `Bcast`; `acc` is what `simple_reduce` has read and not yet written back |
| `Collectives` | `mpi/group/*.c`, the collectives of `netq.c` and `netd_sock_c` | a call is a sequence of phases (`todo`); the phase between machines is a sequence of reads and writes (`plan`) computed from the spanning trees; `conn` are the connections, `last_root` the static variables |
| `Runtime` | `mpi/init`, `netq_start`, `movin`, `netq_end` | the main thread, the node and the movin thread of each machine; `chan`, `buf` say what exists, `link` what is under way |
| `Ranks` | the group file, `netq_start`'s tables and the functions on ranks of `netq.c` | the file is parsed, then the tables are made; translating and routing are operators |
| `TQueue`, `AbstractQueue` | `utils/tqueue/tqueue.c`; a queue as its users see it | `next`, `prev` of all elements, `allocate` the pool; the abstract queue is a sequence and the set of elements users hold |
| `MBuffer` | `utils/buffer/mbuffer.c` | the headers of the blocks in the system and in the user's buffer |
| `Fifo`, `Sem` | `net/netd/fifo.c`, `net/netd/sem/sem.c` | the fields, and which thread sleeps; what runs under the mutex between two waits is one action |
| `Groups` | `mpi/context/comm.c`, `group.c` | what exists of the objects of `MPI_COMM_WORLD`, each node's communicator, one node's group variables |
| `SyncProofs`, `TQueueProofs`, `BufferProofs`, `BcastProofs`, `IntraProofs`, `InterProofs`, `RuntimeProofs`, `CollectivesProofs` | proofs about `Barrier`, `Fifo` and `Sem`; `TQueue`; `Requests` and `MBuffer`; `Bcast`; `Intra`; `Inter`; `Runtime`; `Collectives` | |
| `MCBarrier`, `MCIntra`, `MCInter`, `MCNodes`, `MCReduce`, `MCServices`, `MCMachines` | instances for TLC | sets of threads, and of calls that the programs make |

`Collectives` composes the objects of one machine with the protocol between
machines: it takes from `Barrier`, `Bcast` and `Reduce` what those modules show
(nobody passes before all have arrived, a reader gets the root's datum of its round,
the root gets all operands) and adds the rest. `Runtime` takes from `Inter` which
messages are exchanged and which wait for an answer. `Requests` takes from
`Intra` and `Inter` that a pending request becomes done at some time.

**Steps.** What runs under one mutex is one step, provided every access to the
data is under that mutex; an unlocked read that decides something (the state tests
at the head of wait, test and cancel, the read of `bp->sbp`) is a step of its own.

**Data.** A message is its sender and its number. A copy is "intact" when it was
made while the data was still where it was sent from, and "overwritten" when the
sender had already been told that it may reuse its buffer. Lengths matter only as
zero or not (an empty message gets no system buffer), and, between machines, as
short or long; truncation to the receiver's length is left out. `mb_alloc` may
succeed or fail.

In `Bcast` the data is the number of the broadcast; in `Reduce` a partial result is
the set of operands combined into it, an operand being a node and its call; in
`Collectives` a datum is the sequence of its parts, each a call and a machine. A freed
buffer holds a value of its own, so that reading one shows.

**Pools.** The lock-free pools of `Bcast` and `Reduce` are modelled pointer by
pointer, with reuse, because the question is whether the list stays sound.

**Freed handles.** Handles are not reused in `Intra` and `Inter`, so that a use of a
freed handle is visible. The model stops there, because what the program does
next depends on who has the memory by then.

**Sizes.** `MBuffer` counts in units of the alignment: a header is one unit, the
smallest fragment worth splitting off three. `Ranks` begins with the numbers on each
line of the group file; reading lines and splitting them into tokens is left out.

## Runs

| Run | Question | Bounds |
|---|---|---|
| `barrier` | are rounds separated, is the unlocked read never stale, is nobody lapped or left asleep, does the proof's invariant hold, does every call return, does the barrier implement the abstract one? | 1 thread first, whose branch is its own, then 4 threads; 3 rounds (each sub-barrier is used again), 1 spurious wake-up |
| `intra_modes` | the life of a handle in every mode; non-overtaking of messages and of receives; does every call return or wait for a message nobody has sent? | 2 sends of every mode but ready, blocking, immediate or (synchronous) persistent, of two tags, the blocking ones empty or not, with or without buffer space, 2 receives, one tag or both wildcards, early or late waits, 1 spurious wake-up |
| `intra_requests` | matching and exactly once; test, cancel, free and restart in every state, ready sends | 2 sends of two tags, 2 receives with either wildcard, 1 spurious wake-up |
| `inter` | is every exchange answered exactly once and on live handles, do the two ends never meet a state they call an error, do messages keep their order, does every exchange end? | 2 machines, 2 sends (short and long, buffered, ready, synchronous and persistent, waited for, left or cancelled), 2 receives, connections that hold 1 message |
| `inter_cancel` | finding, see below | 1 long message |
| `nodes` | broadcasts and reductions inside a machine, each by itself: do readers get the data of their round, does the root of two nodes get both operands and do they agree on success, does the pool of a broadcast stay sound, and that of a reduction with two nodes, is nothing used after it was freed, does every call return? | 4 broadcasts to 2 readers: 4 handles exist at first, so in the fourth one a handle is reused or the pool grows; 3 reductions of 2 nodes, where the pool grows in the third; 1 failed allocation, 1 spurious wake-up each |
| `reduce_lost`, `reduce_memory` | findings with a third node, see below | 3 nodes, 1 call |
| `services` | the seven services below, each by itself | see below |
| `machines` | the life of the runtime, and collective calls over machines, each by itself | 3 machines with a short buffered, a long and a short message; 1 to 5 machines of 1 or 2 nodes with sequences of 1 to 3 calls, connections that hold 1 datum |
| `collectives_serial` | finding, see below | 2 machines, 2 calls |
| `collectives_root` | finding, see below | 1 machine of 2 nodes, 1 call |

Most properties of the runs are conjunctions of named parts, each with its own
comment in the module: `BarrierSafe` (`Separation`, `FreshSbp`, `NoLostWakeup`,
`NotLapped`), `HandlesSound`, `RequestsSound` and `InOrder` of `Intra`, `ExchangesSound` of `Inter`, `MemorySound` of `Bcast`, `PairMemorySound` of `Reduce`, and those of the last section of
`MCServices` and `MCMachines`. A type invariant is one of the parts.

`services` chooses one of its parts at the start. They share no variables, so
the run is the union of seven:

* ranks: every group file of 1 or 2 lines, each with 0 to 2 nodes and 0 to 2 numbers
  or ranges, good or bad. `RanksSound`: that the files `net/netd/README.grp` describes are
  accepted and, but for lines without nodes, no others, which ranks they give, and that a
  message is routed to the machine whose table has its rank and comes back from it.
* queue: 2 chunks of 2 elements with 2 keys. `QueueSound`, and that the linked lists
  implement `AbstractQueue` (`QRefines`). The abstract queue lets users remove any
  element, so a `deQ` from the wrong end would still be one of its steps; `QRefines`
  therefore also says that each operation is the abstract one it stands for (`Matches`).
* buffer: a system buffer of up to 11 units, a user's of 6 or 8, items of 1 to 3 units:
  enough for three blocks in a row, so that every case of merging happens
  (`AllocatorSound`).
* FIFO: 2 writers, 2 readers, a ring of 3, 5 items; semaphore: 3 threads, 4 posts; 2
  spurious wake-ups each (`FifoSound`, `SemAccounts`).
* communicators and groups: 2 local nodes of 3, every set of failing allocations,
  3 group variables (`ContextSound`).
* arrays of 3 requests, one of them persistent, 4 calls (`ArraysSound`).

`machines` leaves out of its collective programs one pattern, a broadcast
after a reduction with another local root and only refused calls between them (`Overlap`),
which `collectives_serial` is about, and gives the nodes of a single machine their ranks in
order; `collectives_root` is about another order. Four machines are the most that use the
binary tree, five
are the fewest that use the hypercube, with an incomplete subtree; three repeated
calls are the fewest that show a datum left behind by the tree broadcast.

Two sends and two receives are enough to have one overtake another, to
have a handle queued behind another one, and to have every pair of calls race.
`MaxHandles` leaves room for all growth that the number of calls can need.
Deadlock is not checked in the runs of `Intra` and `Inter`: an MPI program may wait for
ever for a message nobody sends; `CallsReturn` says what must not block. In `services`
and `machines` every part ends; that collective calls return is `CollectivesReturn`.

**Fairness.** Weak fairness of every thread's steps inside the library: the
threads are scheduled preemptively by the system. Calls are finitely many in every
instance, so mutexes are acquired finitely often and weak fairness of the step
that acquires one is enough. Programs are not obliged to make calls, and spurious
wake-ups are not obliged to happen. In `Inter` and `Runtime` a connection delivers
what was written to it, as TCP does; the code has no time-outs or retries on messages.
In `Collectives` it is enough that some node that can go on does: no node ever polls.

## Findings

* `inter_cancel`: cancelling a receive whose data is under way frees its handle, because
  the test meant for other states is true of all pending ones; the branch that
  keeps the handle for the data is never taken.
* `reduce_lost`: `simple_reduce` runs outside the lock, so with three nodes two of them
  combine at once and one operand is lost.
* `reduce_memory`: several nodes pop from the pool of a reduction, and losers of the election
  push at once what they popped. The compare-and-swap compares the pointer only: with three
  nodes a handle in use becomes the head of the pool.
* `collectives_serial`: comments in `netq.c` argue that calls of the collectives of NETD are
  serialised. They are among broadcasts and among reductions; but a node that has
  left its operand with the local root of a reduction can go on to a broadcast of
  which it is the local root itself, and then two nodes use the connections at once.
* `collectives_root`: with one machine `tmpi_Reduce` passes the global rank of the root where
  a local one is meant (`mpi_reduce.c:129`). With a group file such as "local 2 1 0" another
  node gathers the operands, and the root returns without a result.

### Observations

Reached with the same modules on other instances, or seen while modelling.

* `MPI_Recv_init` passes `isPersistent=FALSE` (`mpi_sr.c:633`), so the first wait frees the
  handle and the request cannot be started twice, although wait and cancel restore source,
  tag and length of a persistent receive (`intra_sr.c:1071`, 1263; `tmpi_struct.h:196`); and
  the guard of that start names `MPI_PERSISTENT_SEND` (`intra_sr.c:591`). `Intra` has it as
  it is: a receive of type `INIT` is over with its first wait.
* A ready send that is not matched when it is waited for is freed but stays linked in the
  receiver's queue (`intra_sr.c:998`), where the next search meets a handle that is not
  pending, which it reports as an error (`intra_sr.c:66-68`): a program with one ready send
  violates `LegalQueues`. Cancelling a pending request, and freeing a persistent one whose
  message has not been received, leave the handle in the queue likewise. `intra_requests`
  makes these calls; `RequestsSound` says what holds up to the first use of such a
  handle, where the model stops.
* The root of a reduction reads the count without the lock (`reduce.c:401`) and may free the
  item whose mutex the last of three nodes still holds, between the count at line 395
  and the unlock at line 398. With three nodes this violates `ItemsAlive`, the other half of
  the property of `reduce_memory`.
* `tmpi_inter_cancel_sh` leaves the request with the program, while the answer to the
  cancelled send frees the handle. A comment (`intra_sr.c:1498`) takes it that nobody waits
  after a cancel; so does `Inter`, in which the program has no request after it.
* The wait for a persistent buffered send tests the state without the lock and sets
  `TMPI_PEND_RELS` under it (`intra_sr.c:979`); when the receiver completes the message in
  between, the handle is pending in no queue and can never be started again.
* An unsuccessful test of a synchronous or ready send, or of a standard one without a system
  buffer, never unlocks the handle (`intra_sr.c:1363`); the next call on it, or the receiver
  that matches it, waits for ever. `Intra` has it (`TestSendPending`), and with such a test
  `CallsReturn` is violated; the programs of `intra_modes`, the liveness run, make no
  tests. `Requests` does not: its requests are receives and sends that have a buffer.
* With two nodes the race for the pool of a reduction can only lose handles, which is why
  `PoolDisjoint`, unlike `PoolSound` of `Bcast`, does not say that every handle is
  accounted for. The properties of reductions in `nodes` are about two nodes; the findings
  say what happens with three.
* `simple_reduce` combines nothing for an operation or a type that its table does not have
  (`reduce.c:122-131`), and the call succeeds. `Reduce` is about the others.
* In `Bcast` the allocator's branch for an empty pool, which a comment says "should never
  happen" (`bcast.c:40`), is taken as soon as the root is `group_size` broadcasts ahead of
  a reader; the run shows that the branch is right.
* The same happens between machines (`intra_sr.c:829`): waiting twice for a persistent buffered
  send that the other machine has received in between marks a finished request as
  pending. And a ready send that is cancelled while its refusal is on the way is in a state
  that `tmpi_rndy_handle` calls a protocol error (`inter_sr.c:642`), and is never
  given back.
* Two nodes that send each other long messages over full connections can block both
  movin threads, which send their answers themselves (`inter_sr.c:274`): the ChangeLog's
  "subtle deadlock problem". The messages of `inter` go one way.
* The movin thread starts before the channels and buffers exist (`mpi_init.c:31`); a
  message from a faster machine is lost (`lost` in `Runtime`, which the
  termination property excepts). At the end the buffers and channels go before the movin thread
  (`mpi_init.c:52`): the answer to a buffered send may find them freed (`stale`), and
  a receiver that asks for the data of a long one then waits for ever. What the code does
  with the lost message is worse than losing it: it locks a mutex that does not exist
  (`mbuffer.c:186`), or leaves the data of the message on the connection, to be read as the
  next one. `Runtime` says nothing about what comes after.
* `comm.c:96` tests the pointer to the broadcast object before it destroys the reduction
  object, which is never destroyed; `tmpi_comm_ginit` does not test the broadcast
  object; errors of `tmpi_main_init` are positive and its caller tests for negative ones.
* The constructors of groups allocate n bytes for n integers; the range calls
  pass the number of ranges as the number of ranks (modelled as it is), and fill in nothing
  for a range with a negative stride (`group.c:333`, 343), so that ranks are read that
  nobody has written (not among the arguments of the run); the count of the
  permanent group is never reduced.
* `MPI_Waitany` and `MPI_Waitsome` wait for request 0 when nothing is done, and report index 0
  even when that request is null or inactive.
* Two posts of the semaphore before a newcomer queues can leave a thread asleep next to a
  positive value; nothing in the runtime uses the semaphore.
* `item_size % 0x07` in `Q_init` is meant as a mask; `Q_reset` is called with a bucket.
* The group file does not compare the number of nodes with `NETQ_MAX_NODES_PER_HOST`, and
  machines with 0 nodes are accepted (`netq.c:891`) although `README.grp:9` says "#nodes > 0". A
  machine without nodes leaves `tmpi_main_init` after `netq_start` (`mpi_init.c:33`) and its
  process ends, without `netq_end`; in `Runtime` every machine has a node.
* A failed `malloc` of the temporary buffer makes one node of a reduction return while all
  others wait (`mpi_reduce.c:109`).

## Proofs

`SyncProofs` proves of the barrier, for every finite set of threads, every number of rounds
and of spurious wake-ups:

* `Invariance`, `TypeCorrect`: the inductive invariant `Inv` and type correctness;
* `SeparationHolds`, `FreshSbpHolds`, `NoLostWakeupHolds`, `NotLappedHolds`, and
  `BarrierSafeHolds`, all of them together: the safety property of the run `barrier`;
* `BarrierRefines`: the safety part of `AbstractBarrier`.

None of the properties is inductive. `Inv` says that at any time there is a
generation g such that every thread is in its g-th call at the current sub-barrier,
or still leaving the call before from the other one; that the count of the other
sub-barrier is full; and that the current count misses exactly the threads that
have arrived, except between the reset and the switch. The count needs facts on
cardinality (`CountAtArrival`, `CountAtTest`). Assumed: the set of threads is
finite and not empty, the bounds are naturals.

Of the semaphore it proves `SemAccounts` for every finite set of threads and every number of
posts and spurious wake-ups (`SemAccountsHolds`). With types it is inductive as it
stands; the one thing to see is that only the sum of `waiters` and `pendings` is right,
since a spurious wake-up is counted in both with opposite signs and `pendings` may
be negative for a while. Assumed: the set of threads is finite, the initial value is
a natural number.

Of the FIFO it proves `FifoSound`, for every size of the ring and any number of writers,
readers, items and spurious wake-ups (`FifoIsSound`). `FifoInv` says where each item that
has been put and not got is (`RingHolds`: the k-th one is k places from `header`, around
the end of the ring), and that while a reader sleeps there are at least as many readers
woken up as items in the ring, and likewise for writers and free places
(`WakersEnough`). The latter is what "one signal per item" amounts to; without the
numbers it is not inductive, as two items may be put before the first reader that was
signalled runs. Assumed (`FifoAssumption`): the threads are finitely many and the ring
has two places or more.

`TQueueProofs` proves `QueueSound` (`QueueIsSound`) and `QRefines` (`QueueRefines`) for chunks of any size and any number of them. The properties are about
what a walk along the links sees, which says nothing of what an assignment to two fields does
to it. `QInv` says instead that there are two sequences without repetitions, the queue and the
pool: going around from `qctrl` through the first one and back to `qctrl`, each `next` is the
element after and each `prev` the one before (`Ring`), the second one is linked by `prev` only and ends
in `NULL_ELEM`, and the two and the elements of the users share out the chunks
(`QShape`). Every operation is shown to make one such pair of sequences from another
(`StepEnqueue`, `StepDelete`, `StepFree`, `StepNewPooled`, `StepNewChunk`), and a walk to see the first
sequence (`RingWalk`), since links lead to one sequence only (`LinkedOnce`). Assumed
(`QueueAssumption`): a chunk has two elements or more, which `Q_create` refuses to go below, and there is
one chunk or more.

`BufferProofs` proves `ArraysSound` for arrays of any length (`ArraysAreSound`). The
invariant is the property for the part of the array that has been gone through: the
indices reported are increasing, behind the current one, and those of the requests taken.

It also proves `AllocatorSound` for buffers and requests of any size
(`AllocatorIsSound`). The links only relate neighbours, so that blocks far apart do not
overlap has to be said separately (`Apart`), and that the first block is always at the
beginning, so that `mb_detach_buffer`, which looks at the first block only, gives back a
buffer without items. The merge of a freed block is one lemma for all four cases: a block
swallows those behind it up to some block, or up to the end (`JoinOK`). Assumed
(`MBAssumption`): sizes are naturals, and an attached buffer is not empty.

`BcastProofs` proves `Agreement` (`ReadersAgree`) and `MemorySound` (`HandlesAreSafe`) for any
number of readers, broadcasts, handles, failed allocations and spurious wake-ups. The state
is a heap of linked handles, and neither property is inductive: that readers get the right
data depends on where every handle is. `BInv` (`Invariance`) says that the heap is the image
of two sequences and some numbers:

* `QueueIs`: the list from `first` consists of the items of the rounds b+1, ..., n, in this
  order, where b rounds are over; its end is `Null`, or the mark of a failed allocation
  (`Broken`), after which the queue is never extended again;
* `PoolIs`: the list from `free` is a stack, and ends;
* `Placed`: every handle is in exactly one of the queue, the pool and the hands of one node;
* `AllocIs`: the handle that the root has read from the pool is still in it, with the
  same successor. Readers only push, and the root alone pops; this is why the
  compare-and-swap of `tmpi_bch_alloc` is safe although it compares the pointer only;
* `ItemsAre`: an item that has been published holds the root's result of its round, and its
  `avail` is one more than the number of readers that have left it;
* `ReaderIs`, `RootIs`: a node works on the item of its own round, and its key is the next one;
* `Retiring`: if everybody has left the first item then somebody is about to retire it. So
  items are retired in the order of the queue, which the code takes for granted when it
  sets `q->first` to the successor of the item it frees (`bcast.c:255`).

`Agreement` then takes one more look at the four actions that return something.
`MemorySound` speaks of the handles that can be reached from a pointer; that these are those
of the sequence (`ListIs`) is by the least number of an item that is not reached. Assumed
are `NodesAssumption` and `BoundsAssumption`: the readers are finitely many, one or more, and
the handles that the queue starts with fit the bound.

`IntraProofs` is about local messages, for any number of nodes, calls, handles, tags
and spurious wake-ups, and in two parts. Assumed are `CallsAssumption` and
`BoundsAssumption`: what a call may contain, and that nobody's number and the wildcard
are not nodes.

*Every program*, with ready sends, tests, cancelled, freed and persistent requests.
`Inv == Good \/ Stopped`. Such programs can reach a handle that has been freed
(observations above); the model stops there, and `Stopped` keeps what can no longer
change. Until then `Good` holds. Its parts, and what each is needed for:

* `Working`, `Unborn`: a node inside the library works on a handle of its own, and handles
  that have not been handed out are blank;
* `Filling`: between taking a handle out of a queue and filling it a node has the channel
  locked, the handle is in no queue, and the two fit. This is what makes "search, take
  out, fill" as good as one step;
* `Queues`: a handle is in one queue, its destination's, once;
* `SendStates`, `RecvStates`: what a state that was read without the lock still says
  when it is used (the hazard of `intra_sr.c:884`): the other side can only have
  completed the handle, or retired it;
* `Numbers`, `Fresh`, `Matched`: starts are numbered, and what is queued or being filled
  has not been matched under its number. `ExactlyOnce` follows, also for persistent
  requests, whose handle is used for many messages;
* `NoMissed`, `NoLostWakeup`, `Answered`: the properties themselves, the last by saying
  who answers for each live handle: the program, the call, or, for a message left
  behind, the receiver that will find it.

From it follow `RequestsAreSound`, `NoMatchIsMissed` and `ReceivedExactlyOnce`.

*Careful programs*: no request is cancelled or freed, no send is ready and persistent
requests are for synchronous sends (`Careful`; those of `intra_modes` are of
this kind). Nothing stronger than the above holds of the others: a ready
send that fails, a cancelled or a freed request and a persistent buffered send leave handles
in a queue that nobody answers for. For careful programs `Plain` adds to `Good` that
the queues hold live, pending handles only and that a message that is left behind is in
a system buffer or empty, and `Bounded` that counters stay within the bounds of the model
(`CarefulInvariance`). Hence:

* `HandlesAreSound`: the whole of `HandlesSound`, the property of `intra_modes`;
* `DataIsIntact`: the receiver copies the user's buffer only while its owner waits;
* `MessagesInOrder`: `InOrder`, by the invariant `Ordered`. Queues are in the order of the
  starts; every message started is matched, being filled or queued (`Accounted`); none
  that is queued or being filled was passed over by a match it would have fitted, on
  either side (`NonePassed`). So when a message is matched, an earlier one that is alike
  must have been matched already, and to an earlier receive, as otherwise one of the two
  searches would have met it first.

The theorems whose names end in `Invariance` are proved one action at a time; the lemmas
before them say what each action does to the queues (`First`, removal, appending).

`InterProofs` is about messages between machines, for any number of machines, nodes, handles,
messages and spurious wake-ups, and connections of any capacity. All five invariants of
the run `inter` are proved: `InterExchangesSound`, `InterHandlesLive`, `InterNoProtocolError`,
`InterNonOvertaking` and `InterDataIntact`. Programs are `Careful`: persistent requests are for
synchronous or ready sends, and a ready send that may be cancelled is a blocking one. The
calls of `inter` are of this kind; for others `ExchangesSound` is false (observations above).
Assumed is `RemoteAssumption`: nodes have a machine, sends of this module go to another
one, and nobody is neither a node nor a machine nor a handle.

None of the five is inductive, and they need each other: that a handler finds the state
it expects depends on there being no second message about the same handle, which depends on
what every other handler has done. `Inv` (`InterInvariant`) accounts for every message,
wherever it is. A token is a message with its place: a connection, a movin thread, a node
that sends an answer, or a send queue.

* `HandlesOK`: what each state of a handle says about its owner (does it sleep, has it left,
  may it still cancel), and what a node inside the library knows of the handle it works on
  although movin may have changed the state since it looked;
* `TokensOK`: a token's type, place and handle fit (`Right`: the announcement is on the way
  out or queued, the answer on the way back, and the send is in the first or second half
  of its exchange accordingly); it names the receive it was matched with (`NamesRecv`); there
  is one token for each send that waits for an answer and for each receive that waits for its
  data, and no other;
* `PlacesOK`: a place holds a message once, and what movin is doing fits what it holds;
* `RecvQueues`: pending receives are queued in the order of their posting, behind all that
  have been matched, and never beside a queued message;
* `OrderOK`: the announcements of one node to another are in the order of their numbers along
  the way connection, send queue; all that are behind have larger numbers than those
  matched; and every start is a ready send, matched, or still announced. So when a message is
  matched there is no earlier one left to be;
* `MatchedOK`, `ReceivedOK`: the histories agree, and a receive that was given
  `tmpi_garbage_data` was matched with a send that had been cancelled.

Each handler is then one of a few kinds of moves: a token changes its place and type
(`OneMove`, `QuietMove`), a token ends (`OneDeath`), a token is matched (`MatchingMove`), one is
born (`StepStartSend`). `Numbered`, that a send's number is that of a start, is proved beside `Inv` for
the type invariant.

`RuntimeProofs` is about the life of the runtime, for any number of machines and of messages and
any programs: `TakenDownInOrder` proves `NothingUsedAfterFree` and `PumpOutlivesItsUse`
proves `PumpSound`, the two safety properties of `Runtime` in the run `machines`. Assumed are
`RuntimeAssumption` (types) and, as a hypothesis of the theorems, `ProgramsMatch`: each message is
sent once and received once, by the machines it names, and a buffered message is short. The
last part is needed: with a long buffered one a receiver may wait for ever for
data whose sender is gone (observations above), and `PumpSound` is false. The programs of
the run satisfy `ProgramsMatch`, which TLC evaluates (`MatchingAssumption`).

That the movin thread is there while its node waits is not about the threads alone. A pump
ends early only if all peers have said that they are down; that this leaves no node waiting
follows from where the message is that it waits for. So the invariant `RInv`
(`RuntimeInvariant`) assigns to every message a stage: not sent, a packet of one of the five
types, queued at its receiver, lost, or over.

* `MsgOK` ties the stage to how far the programs of the sender and the receiver have got: the
  sender of a message that is not buffered is in the very call until the answer comes,
  and the receiver waits for the data exactly while it is asked for or under way;
* `LinkOK` says that a connection holds exactly the packets of the messages whose stage
  puts them there, each once, and the end of its sender, if at all, as the last;
  and that a peer counted as down has nothing left on its connection;
* `NodeOK` and `PumpOK` tie the main thread to the node, the channels and the movin thread.

If now the pump of a waiting node were gone, all peers would be down and so done with
their programs, and their connections empty; then the message has no stage to be in. Nor
can a node be answered after its channel is freed, unless it did not wait: an answer
under way means that the sender is in its call. Steps about one message go through
`MessageTurn`, the steps of the main thread through `MainTurn`.

`CollectivesProofs` is about the nodes of a machine that take turns in the collectives of
NETD: `CallsSerialised` proves `NetSerialised` for any number of machines and of nodes on each
of them, and any sequence of calls, refused ones included. Nothing in the code locks the
connections; that two nodes do not use them at once is left to what the calls happen to wait for
inside the machine, and the run `collectives_serial` shows that this is not always enough. The
hypothesis `ProgramsSerialise` excludes that pattern and no other: no broadcast follows a reduction,
with at most refused calls between them, for which the call of NETD falls to another node of some
machine (`Overlap`). TLC evaluates the hypothesis on the programs of `machines`
(`SerialAssumption`). The parts of the invariant `CollectivesInv` (`CollectivesInvariant`):

* `PhasesLeft`, `PlanOfRunner`: what a node has left to do is the rest of the phases of its
  current call, and only the node to which the call of NETD falls, the runner, is ever in it;
* `MarksTell`: what a mark left in the shared objects of a machine says about how far the
  node that left it has got;
* `FinishedAfterNet`: nobody is done with a call other than a reduction before its
  machine's runner is through the other machines;
* `GatheredBeforeNet`: except in a broadcast, a runner that is in NETD has waited for every node
  of its machine to enter the call;
* `NetInOrder`: the collectives of one machine come one after another.

When a runner enters the collective of call j, every earlier collective k of its machine must be
through. If k is not a reduction this is by `FinishedAfterNet`, as the runner itself is done
with k; if j is not a broadcast it is by `GatheredBeforeNet`, as then the runner of k is in j too.
There remains a broadcast after a reduction. If a call that is not refused lies between, the argument goes
through the last such call (`LastCall`); if none does, the runners are the same node. What the
collectives read and write along their trees plays no part.

Only model-checked: the safety of `Reduce`, where the nodes share handles in ways that
need a heap invariant like that of `BcastProofs`; `CollectivesCorrect`, `RanksSound` and
`ContextSound`, which are about what folds and searches over trees, group files and groups of any
size compute, and so need induction over data; and liveness (`EveryCallReturns`, `CallsReturn`,
`BcastsReturn`, `ReductionsReturn`, `RuntimeComesDown`, `CollectivesReturn`, `ReleasedAreRetired` and the fairness of
`AbstractBarrier`). The last two are out of the prover's reach.

## Not modelled

* NETD's start-up (`sock_conn.c`, the first part of `netd_sock_c`): processes started by
  rsh, exchange of addresses, accept and connect. It is operating system calls;
  `Runtime` begins where every pair of machines is connected.
* NETD over p4, which the build does not select.
* The stack allocators: pools of bytes inside one call of the socket device.
* Threads, keys and atomic operations: wrappers of pthreads and compare-and-swap, which
  appear as steps of the modules that use them.
* Timers, debugging, `mpi/util`: logging and clocks.
* The operator tables of reductions (`rdc_op.c`): arithmetic on arrays, no state. An
  operand is opaque here.
* `tmpi_ardco_allreduce`: its only call is commented out (`mpi_reduce.c:254`).
* `MPI_Sendrecv` and `MPI_Sendrecv_replace`: sequences of calls that are modelled.
* Failures of connections: `Runtime` leaves out that `movin` gives up after 1000 errors of
  `netd_recvmsg` (`netq.c:331-337`).
* Failures of `malloc` in `Runtime` and `Collectives`. After one of them a node returns
  while others wait for it, as the observations say.
* `MPI_Comm_compare` and the other calls that only read a communicator.
* `mpitrans`, a source-to-source translator of C: no states to interleave.

## Next

Proofs: `ReturnsAgree` and `PairMemorySound` of `Reduce`, along the lines of `BcastProofs`.
A run of `Inter` with three machines, and the start-up of NETD, are the next
candidates for the model.
