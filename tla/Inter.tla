------------------------------- MODULE Inter -------------------------------
(***************************************************************************)
(* Messages between MPI nodes on different machines: intra/inter_sr.c and  *)
(* the remote branches of intra/intra_sr.c.  A short message goes out with *)
(* its data (MSGDAT_SEND) and is answered once it is received              *)
(* (MSGDAT_RECV).  A long one is announced (MSG_SEND), asked for           *)
(* (MSG_RECV), sent (DAT_SEND) and acknowledged (DAT_RECV).  Every machine *)
(* has one movin thread that handles what comes in and sends the answers   *)
(* itself, blocking while the connection is full.                          *)
(*                                                                         *)
(* Messages here all fit all receives of their destination: choosing among *)
(* queued handles is the subject of Intra, and so are sends to nodes of    *)
(* the same machine.  Handle memory is never reused, so that every use of  *)
(* a freed handle shows: the handler that meets one stops there.           *)
(***************************************************************************)
EXTENDS Naturals, Sequences, FiniteSets

CONSTANTS
  Nodes,         \* the MPI nodes
  Machines,
  Mac,           \* gTable: the machine of each node
  Nobody,        \* no thread, no machine, no handle
  SendCalls,     \* the sends programs make: [from, dest, mode, type, long]
  RecvCalls,     \* the receives programs make: [at, type]
  RequestCalls,  \* the calls on requests programs make
  MaxSends,      \* bound: send handles per node
  MaxRecvs,      \* bound: receives
  MaxStarts,     \* bound: starts of sends
  Capacity,      \* messages a connection holds before its writer blocks
  MaxSpurious    \* bound: spurious wake-ups

PEND == {"PEND_STRT", "PEND_WAIT", "PEND_RELS", "PEND_DATA", "PEND_DWAT", "PEND_NRDY"}
Stats == {"NONE", "CREATE", "MATCH", "CANCEL", "FREE"} \cup PEND

ASSUME RemoteAssumption ==
  /\ Mac \in [Nodes -> Machines] /\ Nobody \notin Nodes \cup Machines \cup (Nodes \X Nat)
  /\ \A c \in SendCalls :
       /\ c.from \in Nodes /\ c.dest \in Nodes /\ Mac[c.from] # Mac[c.dest]
       /\ c.mode \in {"STANDARD", "BUFFERED", "SYNC", "READY"} /\ c.long \in BOOLEAN
       /\ c.type \in {"SEND", "IMMEDIATE", "PERSISTENT"}
  /\ \A c \in RecvCalls : c.at \in Nodes /\ c.type \in {"RECV", "IMMEDIATE"}
  /\ RequestCalls \subseteq {"start", "wait", "cancel"}
  /\ {MaxSends, MaxRecvs, MaxStarts, MaxSpurious, Capacity} \subseteq Nat

SH == Nodes \X (1..MaxSends)
RH == Nodes \X (1..MaxRecvs)

VARIABLES
  sh, rh,      \* the send and receive handles
  sq, rq,      \* of each channel: the remote send handles, the receive handles
  chlock,      \* owner of ch->lock, across steps
  shlock,      \* owner of sh->lock, across steps
  conn,        \* conn[m][p]: what machine m has sent to p and p has not read
  movin,       \* each movin thread: receiving, or with an answer to send
  pc, cur,     \* where each node is, and the handle it is working on
  out,         \* the message each node is sending
  nsh, nrh, starts, recvs, spurious,
  sent,        \* history: the starts of sends of each node
  posted,      \* history: the number of receives each node has started
  matched,     \* history: which message was matched with which receive
  received     \* history: what each receive got

handles == <<sh, rh>>
queues == <<sq, rq>>
locks == <<chlock, shlock>>
net == <<conn, movin>>
thread == <<pc, cur, out>>
counts == <<nsh, nrh, starts, recvs, spurious>>
history == <<sent, posted, matched, received>>
vars == <<sh, rh, sq, rq, chlock, shlock, conn, movin, pc, cur, out,
          nsh, nrh, starts, recvs, spurious, sent, posted, matched, received>>

----------------------------------------------------------------------------
NoSend == [stat |-> "NONE", type |-> "SEND", mode |-> "SYNC", dest |-> Nobody, long |-> FALSE,
           sys_buf |-> FALSE, curdata |-> "user", msg |-> 0, live |-> FALSE, held |-> FALSE]
NoRecv == [stat |-> "NONE", type |-> "RECV", msg |-> 0, live |-> FALSE, held |-> FALSE]

\* A message: its type, the send handle it is about, the receive handle it
\* names, and what its payload is.
MSG(type, h, r, payload) == [type |-> type, sh |-> h, rh |-> r, payload |-> payload]
NoMSG == MSG("NONE", Nobody, Nobody, "none")

Receiving == [at |-> "recv", msg |-> NoMSG]

Init ==
  /\ sh = [h \in SH |-> NoSend] /\ rh = [r \in RH |-> NoRecv]
  /\ sq = [n \in Nodes |-> <<>>] /\ rq = [n \in Nodes |-> <<>>]
  /\ chlock = [n \in Nodes |-> Nobody] /\ shlock = [h \in SH |-> Nobody]
  /\ conn = [m \in Machines |-> [p \in Machines |-> <<>>]]
  /\ movin = [m \in Machines |-> Receiving]
  /\ pc = [n \in Nodes |-> "idle"] /\ cur = [n \in Nodes |-> <<n, 0>>]
  /\ out = [n \in Nodes |-> NoMSG]
  /\ nsh = [n \in Nodes |-> 0] /\ nrh = [n \in Nodes |-> 0] /\ starts = 0 /\ recvs = 0 /\ spurious = 0
  /\ sent = [n \in Nodes |-> <<>>] /\ posted = [n \in Nodes |-> 0]
  /\ matched = {} /\ received = {}

----------------------------------------------------------------------------
(***************************************************************************)
(* Sending over a connection                                               *)
(***************************************************************************)
\* The machine a message goes to: announcements and data go to the receiver's,
\* answers to the sender's.
Target(msg) ==
  IF msg.type \in {"MSG_SEND", "MSGDAT_SEND", "DAT_SEND"}
  THEN Mac[sh[msg.sh].dest] ELSE Mac[msg.sh[1]]

\* netq_send from machine m: blocks until there is room.
Room(m, p) == Len(conn[m][p]) < Capacity
netq_send(m, msg) ==
  /\ Room(m, Target(msg))
  /\ conn' = [conn EXCEPT ![m][Target(msg)] = Append(@, msg)]

\* netd_recvmsg: the first message of one of the connections to m.
Incoming(m, p, types) ==
  /\ movin[m].at = "recv"
  /\ conn[p][m] # <<>>
  /\ Head(conn[p][m]).type \in types
Consume(m, p) == conn' = [conn EXCEPT ![p][m] = Tail(@)]

\* The handler goes on to send msg ("reply"), or to send it under the lock of
\* the send handle ("data"), or is done.
Answer(m, at, msg) == movin' = [movin EXCEPT ![m] = [at |-> at, msg |-> msg]]

\* thr_cnd_signal on the condition of a send or of a receive handle.
WakeSender(h) ==
  [n \in Nodes |-> IF cur[n] # h THEN pc[n]
                   ELSE IF pc[n] = "sleep_sh" THEN "wake_sh"
                   ELSE IF pc[n] = "sleep_rdy" THEN "wait_sh" ELSE pc[n]]
WakeReceiver(r) ==
  [n \in Nodes |-> IF pc[n] = "sleep_rh" /\ cur[n] = r THEN "wake_rh" ELSE pc[n]]

----------------------------------------------------------------------------
(***************************************************************************)
(* Handles                                                                 *)
(***************************************************************************)
Freed(x) == [x EXCEPT !.live = FALSE, !.held = FALSE]

\* Faulty variants stand before the definitions they are variants of; nothing in Spec
\* uses them.  A cancelled send is freed at once.
SendCancelledFreed(s) == Freed([s EXCEPT !.stat = "FREE"])
\* A persistent request keeps the data of its cancelled send.
SendOverKeepsData(s) ==
  IF s.type = "PERSISTENT" THEN [s EXCEPT !.stat = "FREE"] ELSE Freed([s EXCEPT !.stat = "FREE"])

\* The end of a request: the handle goes back to the pool, unless the request
\* is persistent.
SendOver(s) ==
  LET over == [s EXCEPT !.stat = "FREE"] IN
  IF s.type = "PERSISTENT" THEN [over EXCEPT !.curdata = "user"] ELSE Freed(over)
RecvOver(r) == Freed([r EXCEPT !.stat = "FREE"])

\* The sender leaves a copy of the message in its system buffer.
SendLeft(s) ==
  [s EXCEPT !.curdata = IF @ = "user" /\ s.sys_buf THEN "sys" ELSE @,
            !.stat = "PEND_RELS", !.held = (s.type = "PERSISTENT")]

\* tmpi_garbage_data takes the place of the data of a cancelled send.  held: may the
\* program still call the library with this request?  *psh keeps its value here, but
\* the answer will free the handle, so that only a persistent request can be used again:
\* "I thought one can not do wait after a cancel" (intra_sr.c:1498).
SendCancelled(s) ==
  [s EXCEPT !.stat = "CANCEL", !.curdata = "garbage", !.held = (s.type = "PERSISTENT")]

Synchronous(s) == s.mode \in {"SYNC", "READY"} \/ (s.mode = "STANDARD" /\ ~s.sys_buf)

\* What is at sh->curdata: the program may write to its buffer again once the
\* send is over for it.
Content(s) ==
  CASE s.curdata = "garbage" -> "garbage"
    [] s.curdata = "user" /\ s.stat \in {"PEND_RELS", "FREE"} -> "overwritten"
    [] OTHER -> "intact"

\* History: message and receive.
Pair(h, r) == [msg |-> <<h[1], sh[h].msg>>, recv |-> <<r[1], rh[r].msg>>]
Got(h, r, data) == [msg |-> <<h[1], sh[h].msg>>, recv |-> <<r[1], rh[r].msg>>, data |-> data,
                    cancelled |-> sh[h].stat = "CANCEL"]

Goto(t, from, to) == pc[t] = from /\ pc' = [pc EXCEPT ![t] = to]

----------------------------------------------------------------------------
(***************************************************************************)
(* The calls of a program that is not inside the library                   *)
(***************************************************************************)
\* sys: did mb_alloc find a system buffer?
InitSend(t, c, sys) ==
  /\ c.from = t
  /\ nsh[t] < MaxSends /\ starts < MaxStarts
  /\ sys => c.mode \in {"STANDARD", "BUFFERED"}
  /\ c.mode = "BUFFERED" => sys
  /\ LET h == <<t, nsh[t] + 1>> IN
       /\ sh' = [sh EXCEPT ![h] =
                  [stat |-> "CREATE", type |-> c.type, mode |-> c.mode, dest |-> c.dest,
                   long |-> c.long, sys_buf |-> sys, curdata |-> "user", msg |-> 0,
                   live |-> TRUE, held |-> c.type # "SEND"]]
       /\ cur' = [cur EXCEPT ![t] = h]
  /\ Goto(t, "idle", IF c.type = "PERSISTENT" THEN "idle" ELSE "start_sh")
  /\ nsh' = [nsh EXCEPT ![t] = @ + 1]
  /\ UNCHANGED <<rh, queues, locks, net, out, nrh, starts, recvs, spurious, history>>

InitRecv(t, c) ==
  /\ c.at = t
  /\ recvs < MaxRecvs
  /\ LET r == <<t, nrh[t] + 1>> IN
       /\ rh' = [rh EXCEPT ![r] = [stat |-> "CREATE", type |-> c.type, msg |-> 0,
                                   live |-> TRUE, held |-> c.type # "RECV"]]
       /\ cur' = [cur EXCEPT ![t] = r]
  /\ Goto(t, "idle", "start_rh")
  /\ nrh' = [nrh EXCEPT ![t] = @ + 1]
  /\ recvs' = recvs + 1
  /\ UNCHANGED <<sh, queues, locks, net, out, nsh, starts, spurious, history>>

CallOn(t, what, h, to) ==
  /\ what \in RequestCalls
  /\ Goto(t, "idle", to)
  /\ cur' = [cur EXCEPT ![t] = h]
  /\ UNCHANGED <<handles, queues, locks, net, out, counts, history>>

CallStartSend(t, h) ==
  /\ h[1] = t /\ sh[h].held /\ starts < MaxStarts
  /\ sh[h].stat = "CREATE" \/ (sh[h].stat = "FREE" /\ sh[h].type = "PERSISTENT")
  /\ CallOn(t, "start", h, "start_sh")

\* MPI_Wait and MPI_Cancel look at the state without a lock first.
CallWaitSend(t, h) == h[1] = t /\ sh[h].held /\ CallOn(t, "wait", h, "enter_wait_sh")
CallWaitRecv(t, r) == r[1] = t /\ rh[r].held /\ CallOn(t, "wait", r, "enter_wait_rh")
CallCancelSend(t, h) ==
  /\ h[1] = t /\ sh[h].held /\ sh[h].stat \in PEND \cup {"MATCH"}
  /\ CallOn(t, "cancel", h, "cancel_sh")
CallCancelRecv(t, r) ==
  /\ r[1] = t /\ rh[r].held /\ rh[r].stat \in PEND \cup {"MATCH"}
  /\ CallOn(t, "cancel", r, "cancel_rh")

----------------------------------------------------------------------------
(***************************************************************************)
(* tmpi_inter_start_sh, and the remote branch of tmpi_intra_start_rh       *)
(***************************************************************************)
AfterStartSend(h) == IF sh[h].type = "SEND" THEN "enter_wait_sh" ELSE "idle"
AfterStartRecv(r) == IF rh[r].type = "RECV" THEN "enter_wait_rh" ELSE "idle"

StartSend(t) ==
  LET h == cur[t]
      s == [sh[h] EXCEPT !.stat = "PEND_STRT", !.msg = Len(sent[t]) + 1]
  IN
  /\ Goto(t, "start_sh", AfterStartSend(h))
  /\ netq_send(Mac[t], IF s.long THEN MSG("MSG_SEND", h, Nobody, "none")
                                 ELSE MSG("MSGDAT_SEND", h, Nobody, Content(s)))
  /\ sh' = [sh EXCEPT ![h] = s]
  /\ sent' = [sent EXCEPT ![t] = Append(@, [dest |-> sh[h].dest, mode |-> sh[h].mode])]
  /\ starts' = starts + 1
  /\ UNCHANGED <<rh, queues, locks, movin, cur, out, nsh, nrh, recvs, spurious, posted, matched, received>>

StartRecvUnmatched(t) ==
  LET r == cur[t] IN
  /\ Goto(t, "start_rh", AfterStartRecv(r))
  /\ chlock[t] = Nobody
  /\ sq[t] = <<>>
  /\ rh' = [rh EXCEPT ![r].stat = "PEND_STRT", ![r].msg = posted[t] + 1]
  /\ rq' = [rq EXCEPT ![t] = Append(@, r)]
  /\ posted' = [posted EXCEPT ![t] = @ + 1]
  /\ UNCHANGED <<sh, sq, locks, net, cur, out, counts, sent, matched, received>>

\* The receive takes a remote send out of the queue and answers it, with the
\* channel locked: its data is here, or has to be asked for.
StartRecvMatched(t) ==
  LET r == cur[t]
      e == Head(sq[t])
      pair == [msg |-> <<e.sh[1], sh[e.sh].msg>>, recv |-> <<t, posted[t] + 1>>]
  IN
  /\ Goto(t, "start_rh", "answer")
  /\ chlock[t] = Nobody
  /\ sq[t] # <<>>
  /\ sq' = [sq EXCEPT ![t] = Tail(@)]
  /\ rh' = [rh EXCEPT ![r].msg = posted[t] + 1,
                      ![r].stat = IF e.type = "MSGDAT_SEND" THEN "MATCH" ELSE "PEND_DATA"]
  /\ out' = [out EXCEPT ![t] = IF e.type = "MSGDAT_SEND"
                                THEN MSG("MSGDAT_RECV", e.sh, Nobody, "none")
                                ELSE MSG("MSG_RECV", e.sh, r, "none")]
  /\ chlock' = [chlock EXCEPT ![t] = t]
  /\ posted' = [posted EXCEPT ![t] = @ + 1]
  /\ matched' = matched \cup {pair}
  /\ received' = IF e.type = "MSGDAT_SEND"
                 THEN received \cup {[msg |-> pair.msg, recv |-> pair.recv, data |-> e.payload,
                                      cancelled |-> sh[e.sh].stat = "CANCEL"]}
                 ELSE received
  /\ UNCHANGED <<sh, rq, shlock, net, cur, counts, sent>>

StartRecvAnswer(t) ==
  /\ Goto(t, "answer", AfterStartRecv(cur[t]))
  /\ netq_send(Mac[t], out[t])
  /\ out' = [out EXCEPT ![t] = NoMSG]
  /\ chlock' = [chlock EXCEPT ![t] = Nobody]
  /\ UNCHANGED <<handles, queues, shlock, movin, cur, counts, history>>

----------------------------------------------------------------------------
(***************************************************************************)
(* tmpi_inter_wait_sh, tmpi_inter_cancel_sh, tmpi_intra_wait_rh and        *)
(* tmpi_intra_cancel_rh                                                    *)
(***************************************************************************)
OnSend(t, s, l) ==
  /\ sh' = [sh EXCEPT ![cur[t]] = s]
  /\ pc' = [pc EXCEPT ![t] = l]
  /\ UNCHANGED <<rh, queues, locks, net, cur, out, counts, history>>

OnRecv(t, r, l) ==
  /\ rh' = [rh EXCEPT ![cur[t]] = r]
  /\ pc' = [pc EXCEPT ![t] = l]
  /\ UNCHANGED <<sh, queues, locks, net, cur, out, counts, history>>

\* t is at location l with the mutex of its current send handle for the taking.
AtSend(t, l) == pc[t] = l /\ shlock[cur[t]] = Nobody

EnterWaitSend(t) ==
  /\ pc[t] = "enter_wait_sh"
  /\ OnSend(t, sh[cur[t]], IF sh[cur[t]].stat \in PEND \cup {"MATCH"} THEN "wait_sh" ELSE "idle")

\* A ready send waits to hear whether the receiver is ready.
WaitSendReady(t) ==
  /\ AtSend(t, "wait_sh")
  /\ sh[cur[t]].stat = "PEND_STRT" /\ sh[cur[t]].mode = "READY"
  /\ OnSend(t, sh[cur[t]], "sleep_rdy")

\* Received, or (MPI_ERR_NRDY) refused.
WaitSendOver(t) ==
  /\ AtSend(t, "wait_sh")
  /\ sh[cur[t]].stat \in {"MATCH", "PEND_NRDY"}
  /\ OnSend(t, SendOver(sh[cur[t]]), "idle")

WaitSendSync(t) ==
  /\ AtSend(t, "wait_sh")
  /\ sh[cur[t]].stat \notin {"MATCH", "PEND_NRDY"}
  /\ ~(sh[cur[t]].stat = "PEND_STRT" /\ sh[cur[t]].mode = "READY")
  /\ Synchronous(sh[cur[t]])
  /\ OnSend(t, [sh[cur[t]] EXCEPT !.stat = IF @ = "PEND_STRT" THEN "PEND_WAIT" ELSE "PEND_DWAT"],
            "sleep_sh")

WaitSendBuffered(t) ==
  /\ AtSend(t, "wait_sh")
  /\ sh[cur[t]].stat \notin {"MATCH", "PEND_NRDY"} /\ ~Synchronous(sh[cur[t]])
  /\ OnSend(t, SendLeft(sh[cur[t]]), "idle")

\* do thr_cnd_wait while (sh->stat!=TMPI_MATCH)
WakeSend(t) ==
  /\ AtSend(t, "wake_sh")
  /\ IF sh[cur[t]].stat = "MATCH" THEN OnSend(t, SendOver(sh[cur[t]]), "idle")
                                  ELSE OnSend(t, sh[cur[t]], "sleep_sh")

CancelSend(t) ==
  /\ AtSend(t, "cancel_sh")
  /\ OnSend(t, IF sh[cur[t]].stat \in {"MATCH", "PEND_NRDY"}
               THEN SendOver(sh[cur[t]]) ELSE SendCancelled(sh[cur[t]]), "idle")

EnterWaitRecv(t) ==
  /\ pc[t] = "enter_wait_rh"
  /\ OnRecv(t, rh[cur[t]], IF rh[cur[t]].stat \in PEND \cup {"MATCH"} THEN "wait_rh" ELSE "idle")

WaitRecv(t) ==
  /\ pc[t] = "wait_rh"
  /\ CASE rh[cur[t]].stat = "MATCH" -> OnRecv(t, RecvOver(rh[cur[t]]), "idle")
       [] rh[cur[t]].stat = "PEND_STRT" -> OnRecv(t, [rh[cur[t]] EXCEPT !.stat = "PEND_WAIT"], "sleep_rh")
       [] OTHER -> OnRecv(t, [rh[cur[t]] EXCEPT !.stat = "PEND_DWAT"], "sleep_rh")

WakeRecv(t) ==
  /\ pc[t] = "wake_rh"
  /\ IF rh[cur[t]].stat = "MATCH" THEN OnRecv(t, RecvOver(rh[cur[t]]), "idle")
                                  ELSE OnRecv(t, rh[cur[t]], "sleep_rh")

\* rh->stat&(TMPI_MATCH|TMPI_PEND_STRT): TMPI_PEND_STRT is the one bit that all
\* PEND states share, so this branch takes TMPI_PEND_DATA too, and the branch
\* for that state is never reached.
CancelRecv(t) ==
  /\ pc[t] = "cancel_rh"
  /\ OnRecv(t, RecvOver(rh[cur[t]]), "idle")

SpuriousWakeup(t) ==
  /\ spurious < MaxSpurious
  /\ \/ Goto(t, "sleep_sh", "wake_sh")
     \/ Goto(t, "sleep_rdy", "wait_sh")
     \/ Goto(t, "sleep_rh", "wake_rh")
  /\ spurious' = spurious + 1
  /\ UNCHANGED <<handles, queues, locks, net, cur, out, nsh, nrh, starts, recvs, history>>

----------------------------------------------------------------------------
(***************************************************************************)
(* The message handlers, run by the movin thread of machine m on a message *)
(* from machine p.  What they do before they send an answer is one step:   *)
(* it is done under locks that nobody holds across steps while needing     *)
(* this machine's movin.                                                   *)
(***************************************************************************)
UnexpectedFirst(m, msg, room) ==
  /\ sq' = [sq EXCEPT ![sh[msg.sh].dest] = <<msg>> \o @]
  /\ movin' = movin

\* No receive is queued: a ready send is refused, any other is queued.  room:
\* did mb_alloc find room for the data?  If not, the data is thrown away and
\* will be asked for.
Unexpected(m, msg, room) ==
  LET d == sh[msg.sh].dest IN
  IF sh[msg.sh].mode = "READY"
  THEN /\ Answer(m, "reply", MSG("NRDY", msg.sh, Nobody, "none"))
       /\ sq' = sq
  ELSE /\ sq' = [sq EXCEPT ![d] = Append(@, IF room THEN msg
                                            ELSE MSG("MSG_SEND", msg.sh, Nobody, "none"))]
       /\ movin' = movin

\* tmpi_rms_handle: an announced message
HandleRMS(m, p) ==
  LET msg == Head(conn[p][m])
      d == sh[msg.sh].dest
      r == Head(rq[d])
  IN
  /\ Incoming(m, p, {"MSG_SEND"}) /\ chlock[d] = Nobody
  /\ Consume(m, p)
  /\ \/ /\ rq[d] = <<>>
        /\ Unexpected(m, msg, TRUE)
        /\ UNCHANGED <<rq, rh, matched>>
     \/ /\ rq[d] # <<>> /\ rh[r].live
        /\ rq' = [rq EXCEPT ![d] = Tail(@)]
        /\ rh' = [rh EXCEPT ![r].stat = CASE @ = "PEND_STRT" -> "PEND_DATA"
                                          [] @ = "PEND_WAIT" -> "PEND_DWAT"
                                          [] OTHER -> @]
        /\ matched' = matched \cup {Pair(msg.sh, r)}
        /\ Answer(m, "reply", MSG("MSG_RECV", msg.sh, r, "none"))
        /\ sq' = sq
  /\ UNCHANGED <<sh, locks, thread, counts, sent, posted, received>>

\* tmpi_rmds_handle: a message with its data
HandleRMDS(m, p, room) ==
  LET msg == Head(conn[p][m])
      d == sh[msg.sh].dest
      r == Head(rq[d])
  IN
  /\ Incoming(m, p, {"MSGDAT_SEND"}) /\ chlock[d] = Nobody
  /\ Consume(m, p)
  /\ \/ /\ rq[d] = <<>>
        /\ Unexpected(m, msg, room)
        /\ UNCHANGED <<rq, rh, pc, matched, received>>
     \/ /\ rq[d] # <<>> /\ rh[r].live /\ room
        /\ rq' = [rq EXCEPT ![d] = Tail(@)]
        /\ rh' = [rh EXCEPT ![r].stat = IF @ \in {"PEND_STRT", "PEND_WAIT"} THEN "MATCH" ELSE @]
        /\ pc' = WakeReceiver(r)
        /\ matched' = matched \cup {Pair(msg.sh, r)}
        /\ received' = received \cup {Got(msg.sh, r, msg.payload)}
        /\ Answer(m, "reply", MSG("MSGDAT_RECV", msg.sh, Nobody, "none"))
        /\ sq' = sq
  /\ UNCHANGED <<sh, locks, cur, out, counts, sent, posted>>

\* Faulty: only a receive that is being waited for is matched.
HandleRDSWaiting(m, p) ==
  LET msg == Head(conn[p][m]) IN
  /\ Incoming(m, p, {"DAT_SEND"})
  /\ Consume(m, p)
  /\ rh' = [rh EXCEPT ![msg.rh].stat = IF @ = "PEND_DWAT" THEN "MATCH" ELSE @]
  /\ pc' = WakeReceiver(msg.rh)
  /\ received' = received \cup {Got(msg.sh, msg.rh, msg.payload)}
  /\ Answer(m, "reply", MSG("DAT_RECV", msg.sh, Nobody, "none"))
  /\ UNCHANGED <<sh, queues, locks, cur, out, counts, sent, posted, matched>>

\* tmpi_rds_handle: the data that was asked for.  Without CANCEL, which no
\* receive ever gets to, what is left is the receive that the data is for.
HandleRDS(m, p) ==
  LET msg == Head(conn[p][m])
      r == msg.rh
  IN
  /\ Incoming(m, p, {"DAT_SEND"}) /\ rh[r].live
  /\ Consume(m, p)
  /\ rh' = [rh EXCEPT ![r].stat = IF @ \in {"PEND_DATA", "PEND_DWAT"} THEN "MATCH" ELSE @]
  /\ pc' = IF rh[r].stat = "PEND_DWAT" THEN WakeReceiver(r) ELSE pc
  /\ received' = received \cup {Got(msg.sh, r, msg.payload)}
  /\ Answer(m, "reply", MSG("DAT_RECV", msg.sh, Nobody, "none"))
  /\ UNCHANGED <<sh, queues, locks, cur, out, counts, sent, posted, matched>>

\* tmpi_rmr_handle: the receiver asks for the data.  The handle is locked until
\* the data has been sent.
HandleRMR(m, p) ==
  LET msg == Head(conn[p][m])
      h == msg.sh
  IN
  /\ Incoming(m, p, {"MSG_RECV"}) /\ sh[h].live /\ shlock[h] = Nobody
  /\ Consume(m, p)
  /\ shlock' = [shlock EXCEPT ![h] = m]
  /\ Answer(m, "data", MSG("DAT_SEND", h, msg.rh, Content(sh[h])))
  /\ UNCHANGED <<handles, queues, chlock, thread, counts, history>>

\* Faulty: a sender that waits already is forgotten.
SendDataStarted(m) ==
  LET h == movin[m].msg.sh IN
  /\ movin[m].at = "data"
  /\ netq_send(m, movin[m].msg)
  /\ sh' = [sh EXCEPT ![h].stat = IF @ = "PEND_STRT" THEN "PEND_DATA" ELSE @]
  /\ shlock' = [shlock EXCEPT ![h] = Nobody]
  /\ movin' = [movin EXCEPT ![m] = Receiving]
  /\ UNCHANGED <<rh, queues, chlock, thread, counts, history>>

SendData(m) ==
  LET h == movin[m].msg.sh IN
  /\ movin[m].at = "data"
  /\ netq_send(m, movin[m].msg)
  /\ sh' = [sh EXCEPT ![h].stat = CASE @ = "PEND_STRT" -> "PEND_DATA"
                                    [] @ = "PEND_WAIT" -> "PEND_DWAT"
                                    [] OTHER -> @]
  /\ pc' = IF sh[h].stat = "PEND_STRT" /\ sh[h].mode = "READY" THEN WakeSender(h) ELSE pc
  /\ shlock' = [shlock EXCEPT ![h] = Nobody]
  /\ movin' = [movin EXCEPT ![m] = Receiving]
  /\ UNCHANGED <<rh, queues, chlock, cur, out, counts, history>>

SendReply(m) ==
  /\ movin[m].at = "reply"
  /\ netq_send(m, movin[m].msg)
  /\ movin' = [movin EXCEPT ![m] = Receiving]
  /\ UNCHANGED <<handles, queues, locks, thread, counts, history>>

\* Faulty: only cancelled sends are retired by the answer.
AcknowledgeCancelled(m, p, type, waiting, asleep) ==
  LET h == Head(conn[p][m]).sh IN
  /\ Incoming(m, p, {type}) /\ sh[h].live /\ shlock[h] = Nobody
  /\ Consume(m, p)
  /\ sh' = [sh EXCEPT ![h] = CASE @.stat \in waiting \cup asleep -> [@ EXCEPT !.stat = "MATCH"]
                               [] @.stat = "CANCEL" -> SendOver(@)
                               [] OTHER -> @]
  /\ pc' = WakeSender(h)
  /\ UNCHANGED <<rh, queues, locks, movin, cur, out, counts, history>>

\* The sender learns that its message has been received: in a state of waiting
\* it is matched (and woken up), after it has left the handle is retired.
Acknowledge(m, p, type, waiting, asleep) ==
  LET msg == Head(conn[p][m])
      h == msg.sh
  IN
  /\ Incoming(m, p, {type}) /\ sh[h].live /\ shlock[h] = Nobody
  /\ Consume(m, p)
  /\ sh' = [sh EXCEPT ![h] = CASE @.stat \in waiting \cup asleep -> [@ EXCEPT !.stat = "MATCH"]
                               [] @.stat \in {"CANCEL", "PEND_RELS"} -> SendOver(@)
                               [] OTHER -> @]
  /\ pc' = IF sh[h].stat \in asleep \/ (sh[h].stat = "PEND_STRT" /\ sh[h].mode = "READY")
           THEN WakeSender(h) ELSE pc
  /\ UNCHANGED <<rh, queues, locks, movin, cur, out, counts, history>>

HandleRDR(m, p) == Acknowledge(m, p, "DAT_RECV", {"PEND_DATA"}, {"PEND_DWAT"})
HandleRMDR(m, p) == Acknowledge(m, p, "MSGDAT_RECV", {"PEND_STRT"}, {"PEND_WAIT"})

\* Faulty: the sender is not told that it was refused.
HandleNRDYUnsignalled(m, p) ==
  LET h == Head(conn[p][m]).sh IN
  /\ Incoming(m, p, {"NRDY"}) /\ sh[h].live /\ shlock[h] = Nobody
  /\ Consume(m, p)
  /\ sh' = [sh EXCEPT ![h].stat = IF @ = "PEND_STRT" THEN "PEND_NRDY" ELSE @]
  /\ UNCHANGED <<rh, queues, locks, movin, thread, counts, history>>

\* tmpi_rndy_handle: the receiver was not ready
HandleNRDY(m, p) ==
  LET h == Head(conn[p][m]).sh IN
  /\ Incoming(m, p, {"NRDY"}) /\ sh[h].live /\ shlock[h] = Nobody
  /\ Consume(m, p)
  /\ sh' = [sh EXCEPT ![h].stat = IF @ = "PEND_STRT" THEN "PEND_NRDY" ELSE @]
  /\ pc' = IF sh[h].stat = "PEND_STRT" THEN WakeSender(h) ELSE pc
  /\ UNCHANGED <<rh, queues, locks, movin, cur, out, counts, history>>

----------------------------------------------------------------------------
LibraryStep(t) ==
  \/ StartSend(t) \/ StartRecvUnmatched(t) \/ StartRecvMatched(t) \/ StartRecvAnswer(t)
  \/ EnterWaitSend(t) \/ WaitSendReady(t) \/ WaitSendOver(t) \/ WaitSendSync(t)
  \/ WaitSendBuffered(t) \/ WakeSend(t) \/ CancelSend(t)
  \/ EnterWaitRecv(t) \/ WaitRecv(t) \/ WakeRecv(t)

\* tmpi_inter_msg_handle, for the next message from p.
Handle(m, p) ==
  \/ HandleRMS(m, p) \/ (\E room \in BOOLEAN : HandleRMDS(m, p, room)) \/ HandleRDS(m, p)
  \/ HandleRMR(m, p) \/ HandleRDR(m, p) \/ HandleRMDR(m, p) \/ HandleNRDY(m, p)

MovinStep(m) == SendReply(m) \/ SendData(m) \/ \E p \in Machines : Handle(m, p)

ProgramStep(t) ==
  \/ \E c \in SendCalls, sys \in BOOLEAN : InitSend(t, c, sys)
  \/ \E c \in RecvCalls : InitRecv(t, c)
  \/ \E h \in SH : CallStartSend(t, h) \/ CallWaitSend(t, h) \/ CallCancelSend(t, h)
  \/ \E r \in RH : CallWaitRecv(t, r)

Next ==
  \/ \E t \in Nodes : LibraryStep(t) \/ ProgramStep(t) \/ SpuriousWakeup(t)
  \/ \E m \in Machines : MovinStep(m)

\* Threads inside the library and the movin threads keep running; a program
\* may stop calling the library.
Spec ==
  /\ Init /\ [][Next]_vars
  /\ \A t \in Nodes : WF_vars(LibraryStep(t))
  /\ \A m \in Machines : WF_vars(MovinStep(m))

\* The same with programs that also cancel receives.
CancelNext ==
  \/ Next
  \/ \E t \in Nodes : CancelRecv(t) \/ \E r \in RH : CallCancelRecv(t, r)
CancelSpec == Init /\ [][CancelNext]_vars

----------------------------------------------------------------------------
Types == {"MSG_SEND", "MSGDAT_SEND", "DAT_SEND", "MSG_RECV", "DAT_RECV", "MSGDAT_RECV", "NRDY"}
Messages == [type : Types, sh : SH, rh : RH \cup {Nobody},
             payload : {"none", "intact", "overwritten", "garbage"}]

TypeOK ==
  /\ \A h \in SH : sh[h].stat \in Stats /\ sh[h].curdata \in {"user", "sys", "garbage"}
                   /\ shlock[h] \in Machines \cup {Nobody} /\ sh[h].msg \in 0..MaxStarts
  /\ \A r \in RH : rh[r].stat \in Stats \ {"PEND_RELS", "PEND_NRDY", "CANCEL"}
                   /\ rh[r].msg \in 0..MaxRecvs
  /\ \A n \in Nodes : /\ sq[n] \in Seq(Messages) /\ rq[n] \in Seq(RH)
                      /\ chlock[n] \in {n, Nobody}
                      /\ out[n] \in Messages \cup {NoMSG}
  /\ \A m, p \in Machines : conn[m][p] \in Seq(Messages) /\ Len(conn[m][p]) <= Capacity
  /\ \A m \in Machines : movin[m].at \in {"recv", "reply", "data"}
                         /\ movin[m].msg \in Messages \cup {NoMSG}

\* The places where a message can be: on a connection, in the hands of a movin
\* thread or of a node that sends it, in a send queue; each with what is there.
InFlight ==
  (UNION {{<<<<"conn", m, p, i>>, conn[m][p][i]>> : i \in 1..Len(conn[m][p])} : m, p \in Machines})
  \cup {<<<<"movin", m>>, movin[m].msg>> : m \in {x \in Machines : movin[x].at # "recv"}}
  \cup {<<<<"node", n>>, out[n]>> : n \in {x \in Nodes : pc[x] = "answer"}}
Queued == UNION {{<<<<"sq", n, i>>, sq[n][i]>> : i \in 1..Len(sq[n])} : n \in Nodes}
Carried(x) == x[2]

TokensOf(h) == {x \in InFlight \cup Queued : Carried(x).sh = h}
DataFor(r) == {x \in InFlight : Carried(x).rh = r}

\* Every send that waits for an answer has exactly one message about it under way
\* or queued, and no other send has one: the protocol neither loses an
\* exchange nor answers twice, whatever the sender does meanwhile (leave,
\* cancel, wait).
OneExchange ==
  \A h \in SH :
    Cardinality(TokensOf(h)) =
      IF sh[h].stat \in (PEND \ {"PEND_NRDY"}) \cup {"CANCEL"} THEN 1 ELSE 0

\* A receive that waits for its data has exactly one request for it, or the data,
\* under way; one that waits to be matched is queued once.
OneDelivery ==
  \A r \in RH :
    /\ Cardinality(DataFor(r)) = IF rh[r].stat \in {"PEND_DATA", "PEND_DWAT"} THEN 1 ELSE 0
    /\ Cardinality({i \in 1..Len(rq[r[1]]) : rq[r[1]][i] = r}) =
         IF rh[r].stat \in {"PEND_STRT", "PEND_WAIT"} THEN 1 ELSE 0

\* The pointers in messages and queues, which the other machine hands back, are
\* those of handles still in use (intra_sr.c:481, inter_sr.c:270 and 492).
NamedHandlesLive ==
  \A x \in InFlight \cup Queued :
    sh[Carried(x).sh].live /\ (Carried(x).rh # Nobody => rh[Carried(x).rh].live)

\* "else /* TMPI_PEND_DATA */ { rh->stat=TMPI_CANCEL; ..." (intra_sr.c:1269): a
\* receive cancelled while its data is under way is kept for the data to find.
CancelKeepsReceive == \A x \in InFlight : Carried(x).rh # Nobody => rh[Carried(x).rh].live

\* No handler meets a state it calls a protocol error: the handle it looks at fits
\* the message that arrives.  That is the first queued receive for an announcement
\* (inter_sr.c:261 and 342), the receive it is for with data (458), and the send with
\* answers (509, 543, 596 and 642), whose ends must agree throughout.
Announceable == {"PEND_STRT", "PEND_WAIT", "PEND_RELS", "CANCEL"}
Expected(msg) ==
  LET s == sh[msg.sh].stat
      q == rq[sh[msg.sh].dest]
  IN
  CASE msg.type \in {"MSG_SEND", "MSGDAT_SEND"} ->
         /\ s \in Announceable
         /\ q # <<>> => rh[Head(q)].stat \in {"PEND_STRT", "PEND_WAIT"}
    [] msg.type = "DAT_SEND" ->
         /\ s \in {"PEND_DATA", "PEND_DWAT", "PEND_RELS", "CANCEL"}
         /\ rh[msg.rh].stat \in {"PEND_DATA", "PEND_DWAT"}
    [] msg.type \in {"MSG_RECV", "MSGDAT_RECV"} -> s \in Announceable
    [] msg.type = "DAT_RECV" -> s \in {"PEND_DATA", "PEND_DWAT", "PEND_RELS", "CANCEL"}
    [] msg.type = "NRDY" -> s = "PEND_STRT"
NoProtocolError ==
  \A m, p \in Machines : conn[m][p] # <<>> => Expected(Head(conn[m][p]))

\* Messages of one node to another are matched in the order of their sends with
\* receives in the order of their posting, short and long ones mixed; only a ready
\* send may have been refused.
NonOvertaking ==
  \A y \in matched : \A k \in 1..(y.msg[2] - 1) :
    LET earlier == {x \in matched : x.msg = <<y.msg[1], k>>} IN
    sent[y.msg[1]][k].dest = y.recv[1] =>
      /\ \A x \in earlier : x.recv[2] < y.recv[2]
      /\ earlier = {} => sent[y.msg[1]][k].mode = "READY"

\* Both machines agree: a receive gets the data of the message it was matched
\* with, once, and what was in the buffer when the send was called, unless this very
\* send had been cancelled by then: a persistent request that is started again after
\* a cancel sends its user's data (inter_sr.c:551 and 604).
DataIntact ==
  /\ \A x \in received :
       /\ [msg |-> x.msg, recv |-> x.recv] \in matched
       /\ x.data # "overwritten"
       /\ x.data = "garbage" => x.cancelled
  /\ \A x, y \in received : x.msg = y.msg <=> x.recv = y.recv

\* A receive and a message for it are never both left waiting.
NoMissedMatch == \A n \in Nodes : sq[n] = <<>> \/ rq[n] = <<>>

\* A sleeper is still waiting for something that will wake it up.
NoLostWakeup ==
  \A t \in Nodes :
    /\ pc[t] = "sleep_sh" => sh[cur[t]].stat \in {"PEND_WAIT", "PEND_DWAT"}
    /\ pc[t] = "sleep_rdy" => sh[cur[t]].stat = "PEND_STRT"
    /\ pc[t] = "sleep_rh" => rh[cur[t]].stat \in {"PEND_WAIT", "PEND_DWAT"}

\* Handles are given back: a live one is held by a program, in use by a call, or
\* part of an exchange that will end.
NoLeak ==
  /\ \A h \in SH : sh[h].live =>
       sh[h].held \/ (pc[h[1]] # "idle" /\ cur[h[1]] = h) \/ TokensOf(h) # {}
  /\ \A r \in RH : rh[r].live => rh[r].held \/ (pc[r[1]] # "idle" /\ cur[r[1]] = r)

\* The two machines' views of an exchange agree at every moment: each pending send
\* and receive has exactly one message about it under way or queued, a receive and
\* a message for it are never both left waiting, a sleeper has its waker to come, and
\* a live handle has somebody to give it back.
ExchangesSound ==
  TypeOK /\ OneExchange /\ OneDelivery /\ NoMissedMatch /\ NoLostWakeup /\ NoLeak

\* As long as connections have room, nobody is stuck: a call returns, or waits
\* for a receive or a send that no program has called.
WaitsForPeer(t) ==
  \/ pc[t] = "sleep_sh" /\ \E x \in Queued : Carried(x).sh = cur[t]
  \/ pc[t] = "sleep_rh" /\ \E i \in 1..Len(rq[t]) : rq[t][i] = cur[t]
CallsReturn == \A t \in Nodes : []<>(pc[t] = "idle" \/ WaitsForPeer(t))

\* An exchange ends although nobody waits for it: the handle of a send that was
\* left behind or cancelled is given back, once its message is received.
ReleasedAreRetired ==
  \A h \in SH : []<>(sh[h].stat \notin {"CANCEL", "PEND_RELS"} \/ \E x \in Queued : Carried(x).sh = h)
=============================================================================
