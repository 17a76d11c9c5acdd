------------------------------ MODULE Runtime ------------------------------
(***************************************************************************)
(* The life of the runtime on each machine: the main thread                *)
(* (mpi/init/mpi_main.c, mpi/init/mpi_init.c), which starts NETQ, the      *)
(* channels and the MPI nodes, and takes them down again in the opposite   *)
(* order; the movin thread of NETQ (net/netd/netq.c), which runs from      *)
(* netq_start to netq_end; and the nodes, which exchange messages.  Each   *)
(* machine has one node.  The messages are those of Inter, without the     *)
(* states of their handles: what matters here is whether the channels, the *)
(* buffers and the movin thread they need are there.                       *)
(***************************************************************************)
EXTENDS Naturals, Sequences, FiniteSets

CONSTANTS
  Machines,
  Master,     \* the machine the program is started on
  Messages,   \* the messages of the program
  Message,    \* of each: [from, to, long, buffered]
  Program     \* of each machine: the calls of its node, in order: [op, msg]

ASSUME RuntimeAssumption ==
  /\ Master \in Machines /\ IsFiniteSet(Machines)
  /\ \A i \in Messages : {Message[i].from, Message[i].to} \subseteq Machines
                         /\ Message[i].from # Message[i].to
                         /\ {Message[i].long, Message[i].buffered} \subseteq BOOLEAN
  /\ \A m \in Machines : Program[m] \in Seq([op : {"send", "recv"}, msg : Messages])

VARIABLES
  main,        \* where the main thread of each machine is
  netd,        \* the master has connected the machines
  announced,   \* the master has broadcast the machine list
  up,          \* the movin thread
  chan,        \* do the channels of the machine exist?
  buf,         \* does the message buffer of its node exist?
  node, at,    \* the node, and the call of its program it is in
  arrived,     \* messages queued at the channel of the node
  link,        \* link[m][p]: what m has sent to p and p has not read
  shutdown, peer_stat, told,
  lost, stale  \* history: messages that came before there was a channel and a
               \* buffer, and messages that came after they were freed

thread == <<main, netd, announced, told>>
nodes == <<node, at>>
runtime == <<main, netd, announced, up, chan, buf, node, at, arrived, link,
             shutdown, peer_stat, told, lost, stale>>

RuntimeInit ==
  /\ main = [m \in Machines |-> "off"] /\ netd = FALSE /\ announced = FALSE
  /\ up = [m \in Machines |-> "none"]
  /\ chan = [m \in Machines |-> FALSE] /\ buf = [m \in Machines |-> FALSE]
  /\ node = [m \in Machines |-> "new"] /\ at = [m \in Machines |-> 1]
  /\ arrived = [m \in Machines |-> {}]
  /\ link = [m \in Machines |-> [p \in Machines |-> <<>>]]
  /\ shutdown = [m \in Machines |-> FALSE]
  /\ peer_stat = [m \in Machines |-> {}] /\ told = [m \in Machines |-> {}]
  /\ lost = {} /\ stale = {}

Peers(m) == Machines \ {m}
ToMain(m, from, to) == main[m] = from /\ main' = [main EXCEPT ![m] = to]
Packet(type, i) == [type |-> type, msg |-> i]
Send(m, p, x) == link' = [link EXCEPT ![m][p] = Append(@, x)]

----------------------------------------------------------------------------
(***************************************************************************)
(* tmpi_main_init                                                          *)
(***************************************************************************)
\* Where the machine list comes from: a group file if one was named, or if no
\* resource file was; resource files cannot be parsed.
MacListFound(grp, res, readable) == (grp \/ ~res) /\ readable

\* netq_start on the master: find the machine list and connect the machines.
StartMaster(grp, res, readable) ==
  /\ ToMain(Master, "off", IF MacListFound(grp, res, readable) THEN "tables" ELSE "failed")
  /\ netd' = MacListFound(grp, res, readable)
  /\ UNCHANGED <<announced, up, chan, buf, nodes, arrived, link, shutdown, peer_stat, told, lost, stale>>

\* Broadcast of the machine list: the master does not wait for the others.
Announce ==
  /\ main[Master] = "tables" /\ ~announced
  /\ announced' = TRUE
  /\ UNCHANGED <<main, netd, up, chan, buf, nodes, arrived, link, shutdown, peer_stat, told, lost, stale>>

StartOther(m) ==
  /\ m # Master /\ netd /\ announced
  /\ ToMain(m, "off", "tables")
  /\ UNCHANGED <<netd, announced, up, chan, buf, nodes, arrived, link, shutdown, peer_stat, told, lost, stale>>

\* The tables are filled and the movin thread is created.
CreateMovin(m) ==
  /\ announced
  /\ ToMain(m, "tables", "spin")
  /\ up' = [up EXCEPT ![m] = "new"]
  /\ UNCHANGED <<netd, announced, chan, buf, nodes, arrived, link, shutdown, peer_stat, told, lost, stale>>

\* while ((!movin_up) || (!movout_up)) usleep(1);
NetqOn(m) ==
  /\ up[m] # "new"
  /\ ToMain(m, "spin", "intra_init")
  /\ UNCHANGED <<netd, announced, up, chan, buf, nodes, arrived, link, shutdown, peer_stat, told, lost, stale>>

\* tmpi_intra_init and what follows it; then the nodes are started.  (Every machine has
\* a node: the process of one without ends here, and its peers are not told.)
IntraInit(m) ==
  /\ ToMain(m, "intra_init", "run")
  /\ chan' = [chan EXCEPT ![m] = TRUE]
  /\ UNCHANGED <<netd, announced, up, buf, nodes, arrived, link, shutdown, peer_stat, told, lost, stale>>

----------------------------------------------------------------------------
(***************************************************************************)
(* tmpi_main_end and netq_end                                              *)
(***************************************************************************)

\* thr_start joins the nodes.
JoinNodes(m) ==
  /\ node[m] = "done"
  /\ ToMain(m, "run", "intra_end")
  /\ UNCHANGED <<netd, announced, up, chan, buf, nodes, arrived, link, shutdown, peer_stat, told, lost, stale>>

IntraEnd(m) ==
  /\ ToMain(m, "intra_end", "netq_end")
  /\ chan' = [chan EXCEPT ![m] = FALSE]
  /\ UNCHANGED <<netd, announced, up, buf, nodes, arrived, link, shutdown, peer_stat, told, lost, stale>>

NetqEnd(m) ==
  /\ ToMain(m, "netq_end", "tell")
  /\ shutdown' = [shutdown EXCEPT ![m] = TRUE]
  /\ UNCHANGED <<netd, announced, up, chan, buf, nodes, arrived, link, peer_stat, told, lost, stale>>

\* Faulty: the peers are not told.
TellPeerNot(m, p) ==
  /\ main[m] = "tell" /\ p \in Peers(m) \ told[m]
  /\ told' = [told EXCEPT ![m] = @ \cup {p}]
  /\ UNCHANGED <<main, netd, announced, up, chan, buf, nodes, arrived, link, shutdown, peer_stat, lost, stale>>

\* One NETQ_PEER_DOWN to every peer, the last message on its link.
TellPeer(m, p) ==
  /\ main[m] = "tell" /\ p \in Peers(m) \ told[m]
  /\ told' = [told EXCEPT ![m] = @ \cup {p}]
  /\ Send(m, p, [type |-> "DOWN"])
  /\ UNCHANGED <<main, netd, announced, up, chan, buf, nodes, arrived, shutdown, peer_stat, lost, stale>>

\* Faulty: the movin thread is not joined.
JoinMovinNot(m) ==
  /\ told[m] = Peers(m)
  /\ ToMain(m, "tell", "wait_all")
  /\ UNCHANGED <<netd, announced, up, chan, buf, nodes, arrived, link, shutdown, peer_stat, told, lost, stale>>

JoinMovin(m) ==
  /\ told[m] = Peers(m) /\ up[m] = "gone"
  /\ ToMain(m, "tell", "wait_all")
  /\ UNCHANGED <<netd, announced, up, chan, buf, nodes, arrived, link, shutdown, peer_stat, told, lost, stale>>

\* netd_waitAll, a barrier of the machines; then the connections and the tables
\* are freed and the process ends.
WaitAll(m) ==
  /\ \A p \in Machines : main[p] \in {"wait_all", "down"}
  /\ ToMain(m, "wait_all", "down")
  /\ UNCHANGED <<netd, announced, up, chan, buf, nodes, arrived, link, shutdown, peer_stat, told, lost, stale>>

----------------------------------------------------------------------------
(***************************************************************************)
(* The nodes: tmpi_thr_stub                                                *)
(***************************************************************************)
Call(m) == Program[m][at[m]]
InProgram(m) == node[m] = "run" /\ at[m] <= Len(Program[m])
NextCall(m) ==
  /\ node' = [node EXCEPT ![m] = "run"]
  /\ at' = [at EXCEPT ![m] = @ + 1]
Block(m, what) == node' = [node EXCEPT ![m] = what] /\ UNCHANGED at

ThreadInit(m) ==
  /\ main[m] = "run" /\ node[m] = "new"
  /\ node' = [node EXCEPT ![m] = "run"]
  /\ buf' = [buf EXCEPT ![m] = TRUE]
  /\ UNCHANGED <<thread, up, chan, at, arrived, link, shutdown, peer_stat, lost, stale>>

\* A buffered send returns at once, any other waits to be answered.
NodeSend(m) ==
  LET i == Call(m).msg IN
  /\ InProgram(m) /\ Call(m).op = "send"
  /\ Send(m, Message[i].to, Packet(IF Message[i].long THEN "ANNOUNCE" ELSE "SHORT", i))
  /\ IF Message[i].buffered THEN NextCall(m) ELSE Block(m, "wait_answer")
  /\ UNCHANGED <<thread, up, chan, buf, arrived, shutdown, peer_stat, lost, stale>>

NodePost(m) ==
  /\ InProgram(m) /\ Call(m).op = "recv" /\ Call(m).msg \notin arrived[m]
  /\ Block(m, "wait_message")
  /\ UNCHANGED <<thread, up, chan, buf, arrived, link, shutdown, peer_stat, lost, stale>>

NodeRecv(m) ==
  LET i == Call(m).msg IN
  /\ InProgram(m) /\ Call(m).op = "recv" /\ i \in arrived[m]
  /\ arrived' = [arrived EXCEPT ![m] = @ \ {i}]
  /\ \/ Message[i].long /\ Block(m, "wait_data") /\ Send(m, Message[i].from, Packet("ASK", i))
     \/ ~Message[i].long /\ NextCall(m) /\ Send(m, Message[i].from, Packet("ANSWER", i))
  /\ UNCHANGED <<thread, up, chan, buf, shutdown, peer_stat, lost, stale>>

ThreadEnd(m) ==
  /\ node[m] = "run" /\ at[m] > Len(Program[m])
  /\ node' = [node EXCEPT ![m] = "done"]
  /\ buf' = [buf EXCEPT ![m] = FALSE]
  /\ UNCHANGED <<thread, up, chan, at, arrived, link, shutdown, peer_stat, lost, stale>>

----------------------------------------------------------------------------
(***************************************************************************)
(* The movin thread of machine m                                           *)
(***************************************************************************)
MovinUp(m) ==
  /\ up[m] = "new" /\ up' = [up EXCEPT ![m] = "top"]
  /\ UNCHANGED <<thread, chan, buf, nodes, arrived, link, shutdown, peer_stat, lost, stale>>

\* The top of the loop; netd_recvmsg then blocks until there is a message.  The
\* connections do not fail: after 1000 errors of netd_recvmsg the thread would end.
MovinTop(m) ==
  /\ up[m] = "top" /\ up' = [up EXCEPT ![m] = IF shutdown[m] THEN "gone" ELSE "poll"]
  /\ UNCHANGED <<thread, chan, buf, nodes, arrived, link, shutdown, peer_stat, lost, stale>>

\* netd_recvmsg gets a message of machine p; the handler may answer it.
Incoming(m, p, types) ==
  up[m] = "poll" /\ link[p][m] # <<>> /\ Head(link[p][m]).type \in types
Again(m) == up' = [up EXCEPT ![m] = "top"]
Read(m, p) == link' = [link EXCEPT ![p][m] = Tail(@)]
Reply(m, p, x) == link' = [link EXCEPT ![p][m] = Tail(@), ![m][p] = Append(@, x)]

\* Faulty: one peer that is down is enough.
check_for_termination_any(m, down) == down # {}

check_for_termination(m, down) == down = Peers(m)

HandleDown(m, p) ==
  LET down == peer_stat[m] \cup {p} IN
  /\ Incoming(m, p, {"DOWN"}) /\ Read(m, p)
  /\ peer_stat' = [peer_stat EXCEPT ![m] = down]
  /\ up' = [up EXCEPT ![m] = IF check_for_termination(m, down) THEN "gone" ELSE "top"]
  /\ UNCHANGED <<thread, chan, buf, nodes, arrived, shutdown, lost, stale>>

\* A new message: matched with the receive that waits for it, or queued.  Where there is
\* no channel or no buffer for it yet it is lost, and the model follows only what does not
\* depend on it: without the buffer the code locks a mutex that is not there
\* (mbuffer.c:186), and a short message without a channel leaves its data on the
\* connection.
Awaited(m, i) == node[m] = "wait_message" /\ Call(m).msg = i
HandleMessage(m, p) ==
  LET x == Head(link[p][m])
      i == x.msg
  IN
  /\ Incoming(m, p, {"SHORT", "ANNOUNCE"}) /\ Again(m)
  /\ \/ /\ chan[m] /\ Awaited(m, i) /\ x.type = "SHORT"
        /\ Reply(m, p, Packet("ANSWER", i)) /\ NextCall(m) /\ UNCHANGED <<arrived, lost>>
     \/ /\ chan[m] /\ Awaited(m, i) /\ x.type = "ANNOUNCE"
        /\ Reply(m, p, Packet("ASK", i)) /\ Block(m, "wait_data") /\ UNCHANGED <<arrived, lost>>
     \/ /\ chan[m] /\ ~Awaited(m, i) /\ (buf[m] \/ x.type = "ANNOUNCE")
        /\ arrived' = [arrived EXCEPT ![m] = @ \cup {i}] /\ Read(m, p) /\ UNCHANGED <<nodes, lost>>
     \/ /\ ~chan[m] \/ (~Awaited(m, i) /\ ~buf[m] /\ x.type = "SHORT")
        /\ lost' = lost \cup {i} /\ Read(m, p) /\ UNCHANGED <<nodes, arrived>>
  /\ UNCHANGED <<thread, chan, buf, shutdown, peer_stat, stale>>

HandleData(m, p) ==
  LET i == Head(link[p][m]).msg IN
  /\ Incoming(m, p, {"DATA"}) /\ Again(m)
  /\ Reply(m, p, Packet("ANSWER", i))
  /\ NextCall(m)
  /\ UNCHANGED <<thread, chan, buf, arrived, shutdown, peer_stat, lost, stale>>

\* The handlers that use the send handle of the message, in the sender's channel,
\* and its buffer.
Usable(m, i) == chan[m] /\ (Message[i].buffered => buf[m])

HandleAsk(m, p) ==
  LET i == Head(link[p][m]).msg IN
  /\ Incoming(m, p, {"ASK"}) /\ Again(m)
  /\ Reply(m, p, Packet("DATA", i))
  /\ stale' = IF Usable(m, i) THEN stale ELSE stale \cup {i}
  /\ UNCHANGED <<thread, chan, buf, nodes, arrived, shutdown, peer_stat, lost>>

HandleAnswer(m, p) ==
  LET i == Head(link[p][m]).msg IN
  /\ Incoming(m, p, {"ANSWER"}) /\ Again(m) /\ Read(m, p)
  /\ IF node[m] = "wait_answer" /\ Call(m).msg = i THEN NextCall(m) ELSE UNCHANGED nodes
  /\ stale' = IF Usable(m, i) THEN stale ELSE stale \cup {i}
  /\ UNCHANGED <<thread, chan, buf, arrived, shutdown, peer_stat, lost>>

----------------------------------------------------------------------------
MainStep(m) ==
  \/ m = Master /\ (Announce \/ \E grp, res, readable \in BOOLEAN : StartMaster(grp, res, readable))
  \/ StartOther(m) \/ CreateMovin(m) \/ NetqOn(m) \/ IntraInit(m)
  \/ JoinNodes(m) \/ IntraEnd(m) \/ NetqEnd(m)
  \/ (\E p \in Machines : TellPeer(m, p)) \/ JoinMovin(m) \/ WaitAll(m)

NodeStep(m) == ThreadInit(m) \/ NodeSend(m) \/ NodePost(m) \/ NodeRecv(m) \/ ThreadEnd(m)

MovinStep(m) ==
  \/ MovinUp(m) \/ MovinTop(m)
  \/ \E p \in Peers(m) : \/ HandleDown(m, p) \/ HandleMessage(m, p) \/ HandleData(m, p)
                         \/ HandleAsk(m, p) \/ HandleAnswer(m, p)

RuntimeNext == \E m \in Machines : MainStep(m) \/ NodeStep(m) \/ MovinStep(m)

\* Every thread keeps running.
RuntimeFairness ==
  \A m \in Machines : WF_runtime(MainStep(m)) /\ WF_runtime(NodeStep(m)) /\ WF_runtime(MovinStep(m))

RuntimeSpec == RuntimeInit /\ [][RuntimeNext]_runtime /\ RuntimeFairness

----------------------------------------------------------------------------
RuntimeTypeOK ==
  /\ \A m \in Machines :
       /\ main[m] \in {"off", "failed", "tables", "spin", "intra_init", "run", "intra_end",
                       "netq_end", "tell", "wait_all", "down"}
       /\ up[m] \in {"none", "new", "top", "poll", "gone"}
       /\ node[m] \in {"new", "run", "wait_message", "wait_data", "wait_answer", "done"}
       /\ at[m] \in 1..(Len(Program[m]) + 1)
       /\ arrived[m] \subseteq Messages /\ {chan[m], buf[m], shutdown[m]} \subseteq BOOLEAN
       /\ peer_stat[m] \cup told[m] \subseteq Peers(m)
  /\ netd \in BOOLEAN /\ announced \in BOOLEAN /\ lost \cup stale \subseteq Messages

\* What uses the tables, mutexes and connections of machine m has ended before they
\* are freed: its own nodes and movin thread, and the nodes of all others, which
\* might still send to m (netq.c:178-231).
NothingRunsAfterDown ==
  \A m \in Machines : main[m] = "down" =>
    /\ up[m] = "gone" /\ node[m] = "done"
    /\ \A p \in Machines : node[p] = "done" /\ main[p] \in {"wait_all", "down"}

\* A movin thread that stops although its machine is still running leaves no message
\* unread: all peers are down, and told so after their last message
\* (netq.c:263-277).
PumpLeavesNothing ==
  \A m \in Machines : up[m] = "gone" /\ ~shutdown[m] => \A p \in Peers(m) : link[p][m] = <<>>

\* "now everything should have been done" (mpi_main.c:115) when the channels and the
\* buffers are freed: nothing comes for them any more but what belongs to a buffered
\* send, whose node does not wait for the answer.
OnlyBufferedIsLeft == \A i \in stale : Message[i].buffered

\* Termination: once the machine list is found, every machine gets to the end, unless
\* a message was lost because it came before the channels and the buffers were
\* set up.  No machine waits for a movin thread that waits for it.
AllDown == <>(\/ \A m \in Machines : main[m] = "down"
              \/ main[Master] = "failed"
              \/ lost # {})

\* A node that waits, for a message, for data or for an answer, has a movin thread
\* that will deliver it: neither netq_end nor the end of the peers stops the pump
\* under it, unless a message was lost.
PumpThere ==
  \A m \in Machines :
    node[m] \in {"wait_message", "wait_answer", "wait_data"} /\ lost = {} => up[m] # "gone"

\* The runtime is taken down in an order that nobody suffers from: no thread runs on
\* what has been destroyed, and no message but a buffered one is left behind
\* (mpi_init.c: tmpi_main_end; netq.c: netq_end).
NothingUsedAfterFree == NothingRunsAfterDown /\ OnlyBufferedIsLeft

\* The movin thread of a machine is there as long as somebody needs it, and ends with
\* nothing left on its connections (netq.c: netq_movin_main, check_for_termination).
PumpSound == RuntimeTypeOK /\ PumpThere /\ PumpLeavesNothing

\* Programs whose calls match: every message is sent once, by its sender, and received
\* once, by its receiver.  A buffered message is short: the data of a long one may be
\* asked for when the node that sent it is gone (mpi_init.c:52), and its receiver waits
\* for ever.
ProgramsMatch ==
  /\ \A i \in Messages :
       /\ \E k \in DOMAIN Program[Message[i].from] : Program[Message[i].from][k] = [op |-> "send", msg |-> i]
       /\ \E k \in DOMAIN Program[Message[i].to] : Program[Message[i].to][k] = [op |-> "recv", msg |-> i]
       /\ Message[i].buffered => ~Message[i].long
  /\ \A m \in Machines : \A k \in DOMAIN Program[m] :
       LET c == Program[m][k] IN
       /\ m = IF c.op = "send" THEN Message[c.msg].from ELSE Message[c.msg].to
       /\ \A l \in DOMAIN Program[m] : Program[m][l] = c => l = k
=============================================================================
