----------------------------- MODULE MCServices -----------------------------
(***************************************************************************)
(* The parts under and beside the protocols of Intra and Inter, each on a  *)
(* small instance.  They share nothing, so a behaviour is one of one part. *)
(***************************************************************************)
EXTENDS Ranks, TQueue, MBuffer, Fifo, Sem, Groups, Requests

VARIABLE part
idle == <<ranks, tqueue, mbuffer, fifo, semaphore, context, requests>>
all == <<idle, part>>

NameOfParts == {"ranks", "queue", "buffer", "fifo", "semaphore", "context", "requests"}

----------------------------------------------------------------------------
(* Ranks: group files of one and two lines that ask for up to two tokens. *)
Tokens == {<<0, 0>>, <<1, 1>>, <<2, 2>>, <<1, 0>>, <<1, 2>>, Bad}
Lines == [nNodes : 0..2, ids : UNION {[1..k -> Tokens] : k \in 0..2}]
Files == UNION {[1..k -> Lines] : k \in 1..2}

(* Groups: rank lists without duplicates, as MPI requires. *)
Lists == {<<>>, <<1>>, <<2, 0>>, <<1, 2>>}
Ranges == {<<<<0, 2, 1>>>>, <<<<0, 2, 2>>, <<1, 1, 1>>>>}

(* TQueue: the key of each element. *)
Parity == [b \in 1..4 |-> b % 2]

----------------------------------------------------------------------------
NoRanks == stage = "file" /\ file = <<>> /\ mac_list = <<>> /\ gTable = <<>> /\ lTable = <<>>
ServicesInit ==
  /\ part \in NameOfParts
  /\ IF part = "ranks" THEN RanksInit ELSE NoRanks
  /\ QInit /\ MBInit /\ FifoInit /\ SemInit /\ ContextInit /\ RequestsInit

Only(name) == part = name /\ UNCHANGED part
NoFixed == UNCHANGED <<tqueue, mbuffer, fifo, semaphore, context, requests>>

ServicesNext ==
  \/ Only("ranks") /\ RanksNext /\ NoFixed
  \/ /\ UNCHANGED ranks
     /\ \/ Only("queue") /\ QNext /\ UNCHANGED <<mbuffer, fifo, semaphore, context, requests>>
        \/ Only("buffer") /\ MBNext /\ UNCHANGED <<tqueue, fifo, semaphore, context, requests>>
        \/ Only("fifo") /\ FifoNext /\ UNCHANGED <<tqueue, mbuffer, semaphore, context, requests>>
        \/ Only("semaphore") /\ SemNext /\ UNCHANGED <<tqueue, mbuffer, fifo, context, requests>>
        \/ Only("context") /\ ContextNext /\ UNCHANGED <<tqueue, mbuffer, fifo, semaphore, requests>>
        \/ Only("requests") /\ RequestsNext /\ UNCHANGED <<tqueue, mbuffer, fifo, semaphore, context>>

ServicesSpec == ServicesInit /\ [][ServicesNext]_all

----------------------------------------------------------------------------
\* The ranks the machines compute from one group file are a numbering of all nodes,
\* and the tables lead every rank to the machine and the place it has there.
RanksSound == GroupFileRanks /\ RoutedToItsNode

\* Communicators and groups: their contents satisfy the laws of the set operations, and
\* an object in use is not freed.
ContextSound == GroupsSound /\ GroupLaws /\ ObjectsThere
=============================================================================
