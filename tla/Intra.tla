------------------------------- MODULE Intra -------------------------------
(***************************************************************************)
(* Point-to-point messages between the MPI nodes of one machine, which are *)
(* threads: intra/intra_sr.c for local requests, under the calls of        *)
(* mpi/pt2pt/mpi_sr.c.  Every node has a channel: a mutex over a queue sq  *)
(* of unmatched sends to it and a queue rq of its unmatched receives.  The *)
(* side that comes second takes the handle of the first out of the queue,  *)
(* copies the message and changes the handle's state, which the first side *)
(* reads with no lock but the handle's own.                                *)
(*                                                                         *)
(* A step is what runs under one lock, or one unprotected read.  Handle    *)
(* memory is never reused here, so every use of a freed handle is visible: *)
(* the model stops there.                                                  *)
(***************************************************************************)
EXTENDS Naturals, Sequences

CONSTANTS
  Nodes,         \* the MPI nodes (threads) of this machine
  NoNode,
  AnySource,     \* MPI_ANY_SOURCE
  AnyTag,        \* MPI_ANY_TAG
  SendCalls,     \* the sends programs make: [from, dest, tag, mode, type, len]
  RecvCalls,     \* the receives programs make: [at, src, tag, type]
  RequestCalls,  \* the calls on requests programs make
  MaxSends,      \* bound: send handles per node
  MaxRecvs,      \* bound: receive handles per node
  MaxStarts,     \* bound: starts of sends per node
  MaxSpurious    \* bound: spurious wake-ups of a condition wait

Modes == {"STANDARD", "BUFFERED", "SYNC", "READY"}
SendTypes == {"SEND", "IMMEDIATE", "PERSISTENT"}
RecvTypes == {"RECV", "IMMEDIATE", "INIT"}

\* TMPI_PEND, "to be matched", is a bit of each of these states.
PEND == {"PEND_STRT", "PEND_WAIT", "PEND_RELS"}
Stats == {"NONE", "CREATE", "MATCH", "FREE"} \cup PEND

ASSUME CallsAssumption ==
  /\ \A c \in SendCalls :
       /\ c.from \in Nodes /\ c.dest \in Nodes
       /\ c.mode \in Modes /\ c.type \in SendTypes /\ c.len \in {0, 1}
  /\ \A c \in RecvCalls :
       c.at \in Nodes /\ c.src \in Nodes \cup {AnySource} /\ c.type \in RecvTypes
  /\ RequestCalls \subseteq {"start", "wait", "test", "cancel", "free"}

ASSUME BoundsAssumption ==
  /\ MaxSends \in Nat /\ MaxRecvs \in Nat /\ MaxStarts \in Nat /\ MaxSpurious \in Nat
  /\ NoNode \notin Nodes /\ AnySource \notin Nodes

SH == Nodes \X (1..MaxSends)
RH == Nodes \X (1..MaxRecvs)

VARIABLES
  sh, rh,      \* the send and receive handles
  sq, rq,      \* ch->sq and ch->rq of each node's channel
  chlock,      \* owner of ch->lock, across steps
  shlock,      \* owner of sh->lock, across steps
  pc, cur,     \* where each node is, and the handle it is working on
  found,       \* the handle it has taken out of a queue
  nsh, nrh,    \* handles allocated by each node
  spurious,
  sent,        \* history: the messages each node has started, in order
  posted,      \* history: the receives each node has started, in order
  matched      \* history: who received what

handles == <<sh, rh>>
queues == <<sq, rq>>
locks == <<chlock, shlock>>
thread == <<pc, cur, found>>
counts == <<nsh, nrh, spurious>>
history == <<sent, posted, matched>>
vars == <<sh, rh, sq, rq, chlock, shlock, pc, cur, found, nsh, nrh,
          spurious, sent, posted, matched>>

----------------------------------------------------------------------------
NoSend == [stat |-> "NONE", type |-> "SEND", mode |-> "STANDARD", dest |-> NoNode,
           tag |-> AnyTag, len |-> 0, sys_buf |-> FALSE, curdata |-> "user",
           msg |-> 0, live |-> FALSE, held |-> FALSE]

NoRecv == [stat |-> "NONE", type |-> "RECV", src |-> AnySource, tag |-> AnyTag,
           msg |-> 0, live |-> FALSE, held |-> FALSE]

tmpi_intra_init ==
  /\ sq = [n \in Nodes |-> <<>>]
  /\ rq = [n \in Nodes |-> <<>>]
  /\ chlock = [n \in Nodes |-> NoNode]
  /\ sh = [h \in SH |-> NoSend]
  /\ rh = [h \in RH |-> NoRecv]
  /\ shlock = [h \in SH |-> NoNode]

Init ==
  /\ tmpi_intra_init
  /\ pc = [n \in Nodes |-> "idle"]
  /\ cur = [n \in Nodes |-> <<n, 0>>]
  /\ found = [n \in Nodes |-> <<n, 0>>]
  /\ nsh = [n \in Nodes |-> 0]
  /\ nrh = [n \in Nodes |-> 0]
  /\ spurious = 0
  /\ sent = [n \in Nodes |-> <<>>]
  /\ posted = [n \in Nodes |-> <<>>]
  /\ matched = {}

----------------------------------------------------------------------------
(***************************************************************************)
(* Queues and handles                                                      *)
(***************************************************************************)
\* Faulty variants, each of the definition it is named after; nothing in Spec
\* uses them.

\* The receive queue is searched without regard to wildcards.
rq_cmpNoWildcards(h) ==
  {r \in RH : rh[r].src = h[1] /\ rh[r].tag = sh[h].tag /\ rh[r].stat \in PEND}

\* The send queue is searched without regard to tags.
sq_cmpAnyTag(r) == {h \in SH : r.src \in {h[1], AnySource} /\ sh[h].stat \in PEND}

\* The queue is searched from its tail.
FirstFromTail(q, S) ==
  IF \E i \in 1..Len(q) : q[i] \in S
  THEN CHOOSE i \in 1..Len(q) : q[i] \in S /\ \A j \in (i + 1)..Len(q) : q[j] \notin S
  ELSE 0

\* A buffered send leaves without copying the message.
SendLeftUncopied(s) == [s EXCEPT !.stat = "PEND_RELS", !.held = (s.type = "PERSISTENT")]

\* Does a receive for source r.src and tag r.tag take a message of src, tag?
Fits(r, src, tag) ==
  /\ r.src = src \/ r.src = AnySource
  /\ r.tag = tag \/ r.tag = AnyTag

\* The send handles a receive r takes, and the receive handles a send h meets.
sq_cmp(r) == {h \in SH : Fits(r, h[1], sh[h].tag) /\ sh[h].stat \in PEND}
rq_cmp(h) == {r \in RH : Fits(rh[r], h[1], sh[h].tag) /\ rh[r].stat \in PEND}

\* Position of the first element of q that is in S, 0 when there is none.
First(q, S) ==
  IF \E i \in 1..Len(q) : q[i] \in S
  THEN CHOOSE i \in 1..Len(q) : q[i] \in S /\ \A j \in 1..(i - 1) : q[j] \notin S
  ELSE 0

Without(q, i) == SubSeq(q, 1, i - 1) \o SubSeq(q, i + 1, Len(q))

InQueue(q, h) == \E i \in 1..Len(q) : q[i] = h

\* The elements Q_find looks at: up to the one it returns.
Visited(q, i) == {q[j] : j \in 1..(IF i = 0 THEN Len(q) ELSE i)}

\* tmpi_intra_free_sh, tmpi_intra_free_rh: back to the pool.
Freed(x) == [x EXCEPT !.live = FALSE, !.held = FALSE]

\* The end of a send: its handle goes back to the pool, and the caller's
\* request becomes MPI_REQUEST_NULL, unless the request is persistent.
SendOver(s) ==
  LET over == [s EXCEPT !.stat = "FREE"] IN
  IF s.type = "PERSISTENT" THEN [over EXCEPT !.curdata = "user"] ELSE Freed(over)

RecvOver(r) == Freed([r EXCEPT !.stat = "FREE"])

\* The sender leaves a copy of the message in its system buffer.
SendLeft(s) ==
  [s EXCEPT !.curdata = IF s.sys_buf THEN "sys" ELSE @,
            !.stat = "PEND_RELS",
            !.held = (s.type = "PERSISTENT")]

\* The mode that counts when a send has not been matched.
Synchronous(s) == s.mode = "SYNC" \/ (s.mode = "STANDARD" /\ ~s.sys_buf)
Buffered(s) == s.mode = "BUFFERED" \/ (s.mode = "STANDARD" /\ s.sys_buf)

\* What a copy from sh->curdata yields: once the send is over for the sender,
\* its program may have written to the user's buffer again.
Content(s) ==
  IF s.len > 0 /\ s.curdata = "user" /\ s.stat \in {"PEND_RELS", "FREE"}
  THEN "overwritten" ELSE "intact"

Goto(t, from, to) == pc[t] = from /\ pc' = [pc EXCEPT ![t] = to]

\* t is at location l with the mutex of its current send handle for the taking.
AtSend(t, l) == pc[t] = l /\ shlock[cur[t]] = NoNode
----------------------------------------------------------------------------
(***************************************************************************)
(* The calls of a program that is not inside the library                   *)
(***************************************************************************)
\* tmpi_intra_init_sh, for MPI_Send, MPI_Isend, MPI_Send_init and their B, S
\* and R variants.  sys: did mb_alloc find a system buffer?
InitSend(t, c, sys) ==
  /\ c.from = t
  /\ nsh[t] < MaxSends /\ Len(sent[t]) < MaxStarts
  /\ sys => c.mode \in {"STANDARD", "BUFFERED"} /\ c.len > 0
  /\ c.mode = "BUFFERED" /\ c.len > 0 => sys
  /\ LET h == <<t, nsh[t] + 1>> IN
       /\ sh' = [sh EXCEPT ![h] =
                  [stat |-> "CREATE", type |-> c.type, mode |-> c.mode,
                   dest |-> c.dest, tag |-> c.tag, len |-> c.len, sys_buf |-> sys,
                   curdata |-> "user", msg |-> 0, live |-> TRUE,
                   held |-> c.type # "SEND"]]
       /\ cur' = [cur EXCEPT ![t] = h]
  /\ Goto(t, "idle", IF c.type = "PERSISTENT" THEN "idle" ELSE "start_sh")
  /\ nsh' = [nsh EXCEPT ![t] = @ + 1]
  /\ UNCHANGED <<rh, queues, locks, found, nrh, spurious, history>>

\* A buffered send for which mb_alloc finds no room is an error; the handle,
\* still in state CREATE, is given back by tmpi_Request_free_sh.
InitSendFails(t, c) ==
  /\ c.from = t /\ pc[t] = "idle"
  /\ nsh[t] < MaxSends
  /\ c.mode = "BUFFERED" /\ c.len > 0
  /\ nsh' = [nsh EXCEPT ![t] = @ + 1]
  /\ UNCHANGED <<handles, queues, locks, thread, nrh, spurious, history>>

\* tmpi_intra_init_rh, for MPI_Recv, MPI_Irecv and MPI_Recv_init (which asks
\* for an immediate, not for a persistent handle).
InitRecv(t, c) ==
  /\ c.at = t
  /\ nrh[t] < MaxRecvs
  /\ LET r == <<t, nrh[t] + 1>> IN
       /\ rh' = [rh EXCEPT ![r] =
                  [stat |-> "CREATE", type |-> c.type, src |-> c.src, tag |-> c.tag,
                   msg |-> 0, live |-> TRUE, held |-> c.type # "RECV"]]
       /\ cur' = [cur EXCEPT ![t] = r]
  /\ Goto(t, "idle", IF c.type = "INIT" THEN "idle" ELSE "start_rh")
  /\ nrh' = [nrh EXCEPT ![t] = @ + 1]
  /\ UNCHANGED <<sh, queues, locks, found, nsh, spurious, history>>

\* A call on a request the program holds.
CallOn(t, what, h, to) ==
  /\ what \in RequestCalls
  /\ Goto(t, "idle", to)
  /\ cur' = [cur EXCEPT ![t] = h]
  /\ UNCHANGED <<handles, queues, locks, found, counts, history>>

\* MPI_Start; a request that is not startable is an error and stays as it is.
CallStartSend(t, h) ==
  /\ h[1] = t /\ sh[h].held /\ Len(sent[t]) < MaxStarts
  /\ sh[h].stat = "CREATE" \/ (sh[h].stat = "FREE" /\ sh[h].type = "PERSISTENT")
  /\ CallOn(t, "start", h, "start_sh")

\* The guard names MPI_PERSISTENT_SEND (intra_sr.c:591), which no receive is.
CallStartRecv(t, r) ==
  /\ r[1] = t /\ rh[r].held
  /\ rh[r].stat = "CREATE"
  /\ CallOn(t, "start", r, "start_rh")

\* MPI_Wait, MPI_Test and MPI_Cancel first look at the state without a lock,
\* and return an error unless the PEND or the MATCH bit is set.
CallWaitSend(t, h) == h[1] = t /\ sh[h].held /\ CallOn(t, "wait", h, "enter_wait_sh")
CallWaitRecv(t, r) == r[1] = t /\ rh[r].held /\ CallOn(t, "wait", r, "enter_wait_rh")

CallTestSend(t, h) ==
  /\ h[1] = t /\ sh[h].held
  /\ sh[h].stat \in PEND \cup {"MATCH"}
  /\ CallOn(t, "test", h, "test_sh")

CallTestRecv(t, r) ==
  /\ r[1] = t /\ rh[r].held
  /\ rh[r].stat \in PEND \cup {"MATCH"}
  /\ CallOn(t, "test", r, "test_rh")

CallCancelSend(t, h) ==
  /\ h[1] = t /\ sh[h].held
  /\ sh[h].stat \in PEND \cup {"MATCH"}
  /\ CallOn(t, "cancel", h, "cancel_sh")

CallCancelRecv(t, r) ==
  /\ r[1] = t /\ rh[r].held
  /\ rh[r].stat \in PEND \cup {"MATCH"}
  /\ CallOn(t, "cancel", r, "cancel_rh")

CallFreeSend(t, h) == h[1] = t /\ sh[h].held /\ CallOn(t, "free", h, "free_sh")
CallFreeRecv(t, r) == r[1] = t /\ rh[r].held /\ CallOn(t, "free", r, "free_rh")

----------------------------------------------------------------------------
(***************************************************************************)
(* tmpi_intra_start_sh and tmpi_intra_start_rh                             *)
(***************************************************************************)
\* Where a started request leads: a blocking call goes on to wait for it.
AfterStartSend(h) == IF sh[h].type = "SEND" THEN "enter_wait_sh" ELSE "idle"
AfterStartRecv(r) == IF rh[r].type = "RECV" THEN "enter_wait_rh" ELSE "idle"

Sent(t, h) == sent' = [sent EXCEPT ![t] = Append(@, [dest |-> sh[h].dest, tag |-> sh[h].tag])]
Posted(t, r) == posted' = [posted EXCEPT ![t] = Append(@, [src |-> rh[r].src, tag |-> rh[r].tag])]

\* Something reaches a handle that has been freed.
Crash ==
  /\ pc' = [n \in Nodes |-> "crashed"]
  /\ UNCHANGED <<handles, queues, locks, cur, found, counts, history>>

\* Filling a send handle: only a sender that waits is matched.
FillSendOnlyWaiting(t) ==
  LET r == cur[t]
      h == found[t]
  IN /\ pc[t] = "fill_sh" /\ sh[h].live /\ shlock[h] = NoNode
     /\ rh' = [rh EXCEPT ![r].src = h[1], ![r].tag = sh[h].tag, ![r].stat = "MATCH"]
     /\ sh' = [sh EXCEPT ![h] = CASE @.stat = "PEND_WAIT" -> [@ EXCEPT !.stat = "MATCH"]
                                  [] @.stat = "PEND_RELS" -> SendOver(@)
                                  [] OTHER -> @]
     /\ matched' = matched \cup {[msg |-> <<h[1], sh[h].msg>>, recv |-> <<t, rh[r].msg>>,
                                  data |-> Content(sh[h])]}
     /\ pc' = [n \in Nodes |->
                 IF n = t THEN AfterStartRecv(r)
                 ELSE IF sh[h].stat = "PEND_WAIT" /\ pc[n] = "sleep_sh" /\ cur[n] = h
                      THEN "wake_sh" ELSE pc[n]]
     /\ chlock' = [chlock EXCEPT ![t] = NoNode]
     /\ UNCHANGED <<queues, shlock, cur, found, counts, sent, posted>>

\* Filling a receive handle: the owner is not woken up, or the receiver's
\* channel is not unlocked.
FillRecvHalf(t, wake) ==
  LET h == cur[t]
      r == found[t]
  IN /\ pc[t] = "fill_rh" /\ rh[r].live
     /\ rh' = [rh EXCEPT ![r].stat = "MATCH"]
     /\ pc' = [n \in Nodes |->
                 IF n = t THEN AfterStartSend(h)
                 ELSE IF wake /\ pc[n] = "sleep_rh" /\ cur[n] = r THEN "wake_rh" ELSE pc[n]]
     /\ chlock' = IF wake THEN chlock ELSE [chlock EXCEPT ![r[1]] = NoNode]
     /\ UNCHANGED <<sh, queues, shlock, cur, found, counts, history>>

FillRecvUnsignalled(t) == FillRecvHalf(t, FALSE)
FillRecvLocked(t) == FillRecvHalf(t, TRUE)

\* With the receiver's channel locked: no receive takes the message, so the
\* handle is queued ...
StartSendUnmatched(t) ==
  LET h == cur[t]
      d == sh[h].dest
  IN /\ Goto(t, "start_sh", AfterStartSend(h))
     /\ chlock[d] = NoNode
     /\ First(rq[d], rq_cmp(h)) = 0
     /\ \A r \in Visited(rq[d], 0) : rh[r].live
     /\ ~InQueue(sq[d], h)
     /\ sh' = [sh EXCEPT ![h].stat = "PEND_STRT", ![h].msg = Len(sent[t]) + 1]
     /\ sq' = [sq EXCEPT ![d] = Append(@, h)]
     /\ Sent(t, h)
     /\ UNCHANGED <<rh, rq, locks, cur, found, counts, posted, matched>>

\* ... or the first receive that does is taken out of the queue.
StartSendMatched(t) ==
  LET h == cur[t]
      d == sh[h].dest
      i == First(rq[d], rq_cmp(h))
  IN /\ Goto(t, "start_sh", "fill_rh")
     /\ chlock[d] = NoNode
     /\ i # 0
     /\ \A r \in Visited(rq[d], i) : rh[r].live
     /\ sh' = [sh EXCEPT ![h].stat = "MATCH", ![h].msg = Len(sent[t]) + 1]
     /\ found' = [found EXCEPT ![t] = rq[d][i]]
     /\ rq' = [rq EXCEPT ![d] = Without(@, i)]
     /\ chlock' = [chlock EXCEPT ![d] = t]
     /\ Sent(t, h)
     /\ UNCHANGED <<rh, sq, shlock, cur, counts, posted, matched>>

\* The search runs into a freed receive handle, or the handle is linked into
\* the queue a second time.
StartSendCrash(t) ==
  LET h == cur[t]
      d == sh[h].dest
      i == First(rq[d], rq_cmp(h))
  IN /\ pc[t] = "start_sh" /\ chlock[d] = NoNode
     /\ (\E r \in Visited(rq[d], i) : ~rh[r].live) \/ (i = 0 /\ InQueue(sq[d], h))
     /\ Crash

\* Under both locks: the message is copied, the receive is matched and its
\* owner woken up.
FillRecv(t) ==
  LET h == cur[t]
      r == found[t]
      d == r[1]
  IN /\ pc[t] = "fill_rh"
     /\ rh[r].live
     /\ rh' = [rh EXCEPT ![r].src = t, ![r].tag = sh[h].tag,
                         ![r].stat = IF @ \in {"PEND_WAIT", "PEND_STRT"} THEN "MATCH" ELSE @]
     /\ matched' = matched \cup {[msg |-> <<t, sh[h].msg>>, recv |-> <<d, rh[r].msg>>,
                                  data |-> "intact"]}
     /\ pc' = [n \in Nodes |->
                 IF n = t THEN AfterStartSend(h)
                 ELSE IF rh[r].stat = "PEND_WAIT" /\ pc[n] = "sleep_rh" /\ cur[n] = r
                      THEN "wake_rh" ELSE pc[n]]
     /\ chlock' = [chlock EXCEPT ![d] = NoNode]
     /\ UNCHANGED <<sh, queues, shlock, cur, found, counts, sent, posted>>

FillRecvCrash(t) == pc[t] = "fill_rh" /\ ~rh[found[t]].live /\ Crash

StartRecvUnmatched(t) ==
  LET r == cur[t]
  IN /\ Goto(t, "start_rh", AfterStartRecv(r))
     /\ chlock[t] = NoNode
     /\ First(sq[t], sq_cmp(rh[r])) = 0
     /\ \A h \in Visited(sq[t], 0) : sh[h].live
     /\ rh' = [rh EXCEPT ![r].stat = "PEND_STRT", ![r].msg = Len(posted[t]) + 1]
     /\ rq' = [rq EXCEPT ![t] = Append(@, r)]
     /\ Posted(t, r)
     /\ UNCHANGED <<sh, sq, locks, cur, found, counts, sent, matched>>

StartRecvMatched(t) ==
  LET r == cur[t]
      i == First(sq[t], sq_cmp(rh[r]))
  IN /\ Goto(t, "start_rh", "fill_sh")
     /\ chlock[t] = NoNode
     /\ i # 0
     /\ \A h \in Visited(sq[t], i) : sh[h].live
     /\ rh' = [rh EXCEPT ![r].msg = Len(posted[t]) + 1]
     /\ found' = [found EXCEPT ![t] = sq[t][i]]
     /\ sq' = [sq EXCEPT ![t] = Without(@, i)]
     /\ chlock' = [chlock EXCEPT ![t] = t]
     /\ Posted(t, r)
     /\ UNCHANGED <<sh, rq, shlock, cur, counts, sent, matched>>

StartRecvCrash(t) ==
  /\ pc[t] = "start_rh" /\ chlock[t] = NoNode
  /\ LET i == First(sq[t], sq_cmp(rh[cur[t]])) IN
       \E h \in Visited(sq[t], i) : ~sh[h].live
  /\ Crash

\* Under both locks: the message is copied.  A sender that waits is woken up,
\* one that has left its message behind has its handle retired for it.
FillSend(t) ==
  LET r == cur[t]
      h == found[t]
  IN /\ pc[t] = "fill_sh"
     /\ sh[h].live /\ shlock[h] = NoNode
     /\ rh' = [rh EXCEPT ![r].src = h[1], ![r].tag = sh[h].tag, ![r].stat = "MATCH"]
     /\ sh' = [sh EXCEPT ![h] = CASE @.stat \in {"PEND_WAIT", "PEND_STRT"} -> [@ EXCEPT !.stat = "MATCH"]
                                  [] @.stat = "PEND_RELS" -> SendOver(@)
                                  [] OTHER -> @]
     /\ matched' = matched \cup {[msg |-> <<h[1], sh[h].msg>>, recv |-> <<t, rh[r].msg>>,
                                  data |-> Content(sh[h])]}
     /\ pc' = [n \in Nodes |->
                 IF n = t THEN AfterStartRecv(r)
                 ELSE IF sh[h].stat = "PEND_WAIT" /\ pc[n] = "sleep_sh" /\ cur[n] = h
                      THEN "wake_sh" ELSE pc[n]]
     /\ chlock' = [chlock EXCEPT ![t] = NoNode]
     /\ UNCHANGED <<queues, shlock, cur, found, counts, sent, posted>>

FillSendCrash(t) == pc[t] = "fill_sh" /\ ~sh[found[t]].live /\ Crash

----------------------------------------------------------------------------
(***************************************************************************)
(* tmpi_intra_wait_sh and tmpi_intra_wait_rh                               *)
(***************************************************************************)
\* A step of node t on its own send handle, which becomes s, ending at l.
OnSend(t, s, l) ==
  /\ sh' = [sh EXCEPT ![cur[t]] = s]
  /\ pc' = [pc EXCEPT ![t] = l]
  /\ UNCHANGED <<rh, queues, locks, cur, found, counts, history>>

OnRecv(t, r, l) ==
  /\ rh' = [rh EXCEPT ![cur[t]] = r]
  /\ pc' = [pc EXCEPT ![t] = l]
  /\ UNCHANGED <<sh, queues, locks, cur, found, counts, history>>

EnterWaitSend(t) ==
  /\ pc[t] = "enter_wait_sh"
  /\ OnSend(t, sh[cur[t]], IF sh[cur[t]].stat \in PEND \cup {"MATCH"} THEN "wait_sh" ELSE "idle")

WaitSendMatched(t) ==
  /\ AtSend(t, "wait_sh")
  /\ sh[cur[t]].stat = "MATCH"
  /\ OnSend(t, SendOver(sh[cur[t]]), "idle")

WaitSendSync(t) ==
  /\ AtSend(t, "wait_sh")
  /\ sh[cur[t]].stat # "MATCH" /\ Synchronous(sh[cur[t]])
  /\ OnSend(t, [sh[cur[t]] EXCEPT !.stat = "PEND_WAIT"], "sleep_sh")

WaitSendBuffered(t) ==
  /\ AtSend(t, "wait_sh")
  /\ sh[cur[t]].stat # "MATCH" /\ Buffered(sh[cur[t]])
  /\ OnSend(t, SendLeft(sh[cur[t]]), "idle")

\* A ready send that finds no receive fails with MPI_ERR_NRDY; its handle is
\* not taken out of the queue.
WaitSendNotReady(t) ==
  /\ AtSend(t, "wait_sh")
  /\ sh[cur[t]].stat # "MATCH" /\ sh[cur[t]].mode = "READY"
  /\ OnSend(t, SendOver(sh[cur[t]]), "idle")

\* Back from thr_cnd_wait with the mutex: while (sh->stat==TMPI_PEND_WAIT)
WakeSendAgain(t) ==
  /\ AtSend(t, "wake_sh")
  /\ sh[cur[t]].stat = "PEND_WAIT"
  /\ OnSend(t, sh[cur[t]], "sleep_sh")

WakeSend(t) ==
  /\ AtSend(t, "wake_sh")
  /\ sh[cur[t]].stat # "PEND_WAIT"
  /\ OnSend(t, SendOver(sh[cur[t]]), "idle")

EnterWaitRecv(t) ==
  /\ pc[t] = "enter_wait_rh"
  /\ OnRecv(t, rh[cur[t]], IF rh[cur[t]].stat \in PEND \cup {"MATCH"} THEN "wait_rh" ELSE "idle")

WaitRecvMatched(t) ==
  /\ pc[t] = "wait_rh"
  /\ rh[cur[t]].stat = "MATCH"
  /\ OnRecv(t, RecvOver(rh[cur[t]]), "idle")

WaitRecvSleep(t) ==
  /\ pc[t] = "wait_rh"
  /\ rh[cur[t]].stat # "MATCH"
  /\ OnRecv(t, [rh[cur[t]] EXCEPT !.stat = "PEND_WAIT"], "sleep_rh")

\* while (rh->stat!=TMPI_MATCH)
WakeRecvAgain(t) ==
  /\ pc[t] = "wake_rh"
  /\ rh[cur[t]].stat # "MATCH"
  /\ OnRecv(t, rh[cur[t]], "sleep_rh")

WakeRecv(t) ==
  /\ pc[t] = "wake_rh"
  /\ rh[cur[t]].stat = "MATCH"
  /\ OnRecv(t, RecvOver(rh[cur[t]]), "idle")

SpuriousWakeup(t) ==
  /\ spurious < MaxSpurious
  /\ \/ Goto(t, "sleep_sh", "wake_sh")
     \/ Goto(t, "sleep_rh", "wake_rh")
  /\ spurious' = spurious + 1
  /\ UNCHANGED <<handles, queues, locks, cur, found, nsh, nrh, history>>

----------------------------------------------------------------------------
(***************************************************************************)
(* tmpi_intra_test_*, tmpi_intra_cancel_* and tmpi_Request_free_*.         *)
(* tmpi_Request_free of an ongoing request goes through the test; l tells  *)
(* the two callers apart.                                                  *)
(***************************************************************************)
\* tmpi_Request_free frees a persistent handle the test has completed.
Tested(l, s) == IF l = "free_test_sh" THEN Freed(s) ELSE s

TestSendMatched(t, l) ==
  /\ AtSend(t, l)
  /\ sh[cur[t]].stat = "MATCH"
  /\ OnSend(t, Tested(l, SendOver(sh[cur[t]])), "idle")

TestSendBuffered(t, l) ==
  /\ AtSend(t, l)
  /\ sh[cur[t]].stat # "MATCH" /\ Buffered(sh[cur[t]])
  /\ OnSend(t, IF sh[cur[t]].type = "PERSISTENT" THEN Tested(l, SendLeft(sh[cur[t]]))
                                                 ELSE SendLeft(sh[cur[t]]), "idle")

\* flag=0: the case ends without unlocking sh->lock.
TestSendPending(t, l) ==
  /\ AtSend(t, l)
  /\ sh[cur[t]].stat # "MATCH" /\ ~Buffered(sh[cur[t]])
  /\ shlock' = [shlock EXCEPT ![cur[t]] = t]
  /\ pc' = [pc EXCEPT ![t] = "idle"]
  /\ UNCHANGED <<handles, queues, chlock, cur, found, counts, history>>

TestRecv(t, l) ==
  /\ pc[t] = l
  /\ OnRecv(t, IF rh[cur[t]].stat = "MATCH" THEN RecvOver(rh[cur[t]]) ELSE rh[cur[t]], "idle")

CancelSend(t) ==
  /\ AtSend(t, "cancel_sh")
  /\ OnSend(t, SendOver(sh[cur[t]]), "idle")

CancelRecv(t) ==
  /\ pc[t] = "cancel_rh"
  /\ OnRecv(t, RecvOver(rh[cur[t]]), "idle")

FreeSend(t) ==
  /\ AtSend(t, "free_sh")
  /\ IF sh[cur[t]].stat \in {"FREE", "CREATE"}
     THEN OnSend(t, Freed(sh[cur[t]]), "idle")
     ELSE OnSend(t, sh[cur[t]], "enter_free_test_sh")

\* The state has been looked at under the lock, and is looked at again without
\* it.  When the test refuses the handle its flag is never set, and
\* tmpi_Request_free_sh goes by whatever is in it.
FreeSendTest(t) ==
  /\ pc[t] = "enter_free_test_sh"
  /\ IF sh[cur[t]].stat \in PEND \cup {"MATCH"}
     THEN OnSend(t, sh[cur[t]], "free_test_sh")
     ELSE \E flag \in BOOLEAN :
            OnSend(t, IF flag THEN Freed(sh[cur[t]]) ELSE sh[cur[t]], "idle")

FreeRecv(t) ==
  /\ pc[t] = "free_rh"
  /\ IF rh[cur[t]].stat \in {"FREE", "CREATE"}
     THEN OnRecv(t, Freed(rh[cur[t]]), "idle")
     ELSE OnRecv(t, rh[cur[t]], "free_test_rh")

----------------------------------------------------------------------------
\* What a node does inside the library, once it has the locks it needs.
StartStep(t) ==
  \/ StartSendUnmatched(t) \/ StartSendMatched(t) \/ FillRecv(t)
  \/ StartRecvUnmatched(t) \/ StartRecvMatched(t) \/ FillSend(t)
  \/ StartSendCrash(t) \/ FillRecvCrash(t) \/ StartRecvCrash(t) \/ FillSendCrash(t)

WaitStep(t) ==
  \/ EnterWaitSend(t) \/ WaitSendMatched(t) \/ WaitSendSync(t)
  \/ WaitSendBuffered(t) \/ WaitSendNotReady(t) \/ WakeSendAgain(t) \/ WakeSend(t)
  \/ EnterWaitRecv(t) \/ WaitRecvMatched(t) \/ WaitRecvSleep(t)
  \/ WakeRecvAgain(t) \/ WakeRecv(t)

RequestStep(t) ==
  \/ \E l \in {"test_sh", "free_test_sh"} :
       TestSendMatched(t, l) \/ TestSendBuffered(t, l) \/ TestSendPending(t, l)
  \/ \E l \in {"test_rh", "free_test_rh"} : TestRecv(t, l)
  \/ CancelSend(t) \/ CancelRecv(t) \/ FreeSend(t) \/ FreeSendTest(t) \/ FreeRecv(t)

\* What the program of an idle node may do.
ProgramStep(t) ==
  \/ \E c \in SendCalls : (\E sys \in BOOLEAN : InitSend(t, c, sys)) \/ InitSendFails(t, c)
  \/ \E c \in RecvCalls : InitRecv(t, c)
  \/ \E h \in SH : \/ CallStartSend(t, h) \/ CallWaitSend(t, h) \/ CallTestSend(t, h)
                   \/ CallCancelSend(t, h) \/ CallFreeSend(t, h)
  \/ \E r \in RH : \/ CallStartRecv(t, r) \/ CallWaitRecv(t, r) \/ CallTestRecv(t, r)
                   \/ CallCancelRecv(t, r) \/ CallFreeRecv(t, r)

LibraryStep(t) == StartStep(t) \/ WaitStep(t) \/ RequestStep(t)

Next == \E t \in Nodes : LibraryStep(t) \/ ProgramStep(t) \/ SpuriousWakeup(t)

Safe == Init /\ [][Next]_vars

\* A thread inside the library keeps running; a program may stop calling it.
Spec == Safe /\ \A t \in Nodes : WF_vars(LibraryStep(t))

----------------------------------------------------------------------------
\* Where a call on a send handle, and one on a receive handle, may be.
SendLocs == {"start_sh", "fill_rh", "enter_wait_sh", "wait_sh", "sleep_sh", "wake_sh",
             "test_sh", "cancel_sh", "free_sh", "enter_free_test_sh", "free_test_sh"}
RecvLocs == {"start_rh", "fill_sh", "enter_wait_rh", "wait_rh", "sleep_rh", "wake_rh",
             "test_rh", "cancel_rh", "free_rh", "free_test_rh"}
Locations == SendLocs \cup RecvLocs \cup {"idle", "crashed"}

TypeOK ==
  /\ \A h \in SH : /\ sh[h].stat \in Stats /\ sh[h].type \in SendTypes /\ sh[h].mode \in Modes
                   /\ sh[h].dest \in Nodes \cup {NoNode} /\ sh[h].msg \in 0..Len(sent[h[1]])
                   /\ shlock[h] \in Nodes \cup {NoNode}
  /\ \A r \in RH : /\ rh[r].stat \in Stats \ {"PEND_RELS"} /\ rh[r].type \in RecvTypes
                   /\ rh[r].src \in Nodes \cup {AnySource} /\ rh[r].msg \in 0..Len(posted[r[1]])
  /\ \A n \in Nodes : /\ sq[n] \in Seq(SH) /\ rq[n] \in Seq(RH)
                      /\ chlock[n] \in Nodes \cup {NoNode}
                      /\ pc[n] \in Locations
                      /\ nsh[n] \in 0..MaxSends /\ nrh[n] \in 0..MaxRecvs
  /\ spurious \in 0..MaxSpurious

\* Is somebody between taking a send (receive) handle out of a queue and
\* filling it?
SendBeingFilled(h) == \E t \in Nodes : pc[t] = "fill_sh" /\ found[t] = h
RecvBeingFilled(r) == \E t \in Nodes : pc[t] = "fill_rh" /\ found[t] = r

\* Sends and receives never miss each other: a send waiting in a channel and a
\* receive waiting there do not fit (intra_sr.c:540 and 603 search and enqueue
\* under one lock).
NoMissedMatch ==
  \A n \in Nodes : \A i \in 1..Len(sq[n]), j \in 1..Len(rq[n]) :
    sh[sq[n][i]].stat \in PEND /\ rh[rq[n][j]].stat \in PEND =>
      ~Fits(rh[rq[n][j]], sq[n][i][1], sh[sq[n][i]].tag)

\* A message is received at most once, and a receive takes at most one message,
\* one it asked for (the histories record what the calls asked for).
ExactlyOnce ==
  \A a, b \in matched :
    /\ a.msg = b.msg <=> a.recv = b.recv
    /\ sent[a.msg[1]][a.msg[2]].dest = a.recv[1]
    /\ Fits(posted[a.recv[1]][a.recv[2]], a.msg[1], sent[a.msg[1]][a.msg[2]].tag)

\* Messages do not overtake each other: of two sends from one node to another
\* with one tag, the earlier one is received first, by an earlier receive.
NonOvertaking ==
  \A m \in matched : \A k \in 1..(m.msg[2] - 1) :
    sent[m.msg[1]][k] = sent[m.msg[1]][m.msg[2]] =>
      \E e \in matched : e.msg = <<m.msg[1], k>> /\ e.recv[2] < m.recv[2]

\* ... and of two receives that ask for the same, the earlier one is served
\* first.
ReceivesInOrder ==
  \A m \in matched : \A k \in 1..(m.recv[2] - 1) :
    posted[m.recv[1]][k] = posted[m.recv[1]][m.recv[2]] =>
      \E e \in matched : e.recv = <<m.recv[1], k>>

\* The receiver gets what was in the buffer when the send was called, although
\* the sender may be told that it can reuse the buffer before the copy.
DataIntact == \A m \in matched : m.data = "intact"

\* "to be matched" (tmpi_struct.h:94): a handle in a PEND state is where the
\* other side finds it.
PendIsQueued ==
  /\ \A h \in SH : sh[h].stat \in PEND => InQueue(sq[sh[h].dest], h) \/ SendBeingFilled(h)
  /\ \A r \in RH : rh[r].stat \in PEND => InQueue(rq[r[1]], r) \/ RecvBeingFilled(r)

\* "double check if it is a legal handle" (intra_sr.c:66, 82): everything in a
\* queue is a live handle in a PEND state, so the searches never complain.
LegalQueues ==
  \A n \in Nodes : /\ \A i \in 1..Len(sq[n]) : sh[sq[n][i]].live /\ sh[sq[n][i]].stat \in PEND
                   /\ \A i \in 1..Len(rq[n]) : rh[rq[n][i]].live /\ rh[rq[n][i]].stat \in PEND

\* No freed handle is reached through a queue or by the side that matched it.
NoFault == \A n \in Nodes : pc[n] # "crashed"

\* A sleeper's handle is still to be matched: whoever changes its state also
\* wakes the sleeper up.
NoLostWakeup ==
  \A t \in Nodes : /\ pc[t] = "sleep_sh" => sh[cur[t]].stat = "PEND_WAIT"
                   /\ pc[t] = "sleep_rh" => rh[cur[t]].stat = "PEND_WAIT"

\* No handle leaks while the program runs: a live one belongs to a program's request, to
\* a call in progress, to a queue or to the side that is filling it.
NoLeak ==
  NoFault =>
    /\ \A h \in SH : sh[h].live =>
         \/ sh[h].held \/ (pc[h[1]] \in SendLocs /\ cur[h[1]] = h)
         \/ InQueue(sq[sh[h].dest], h) \/ SendBeingFilled(h)
    /\ \A r \in RH : rh[r].live =>
         rh[r].held \/ (pc[r[1]] \in RecvLocs /\ cur[r[1]] = r)

\* Messages of one node to another are received in the order of their sends, by
\* receives in the order of their posting.
InOrder == NonOvertaking /\ ReceivesInOrder

\* The state of every handle is true of where it is, in all modes of sending: what is
\* pending is queued or being filled, what is queued is alive and pending, a sleeper
\* has its waker to come, nothing freed is reached and nothing is lost.
HandlesSound ==
  TypeOK /\ PendIsQueued /\ LegalQueues /\ NoFault /\ NoLostWakeup /\ NoLeak

\* Requests that are tested, cancelled, freed or started again while the other side
\* matches them: no message or receive is missed or used twice, no sleeper is left and
\* no handle is lost.
RequestsSound == NoMissedMatch /\ ExactlyOnce /\ NoLostWakeup /\ NoLeak

\* A call that is not waiting for a message that has yet to come makes
\* progress until it returns or has to wait: the locks of the channels and of
\* the handles never block each other, and a match ends a wait.
Waiting(t) ==
  \/ pc[t] = "sleep_sh" /\ sh[cur[t]].stat = "PEND_WAIT"
  \/ pc[t] = "sleep_rh" /\ rh[cur[t]].stat = "PEND_WAIT"

CallsReturn == \A t \in Nodes : []<>(pc[t] = "idle" \/ Waiting(t))
=============================================================================
