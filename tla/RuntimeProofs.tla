--------------------------- MODULE RuntimeProofs ---------------------------
(***************************************************************************)
(* The runtime comes up and is taken down in order, for any number of      *)
(* machines and any program whose calls match.                             *)
(***************************************************************************)
EXTENDS Runtime, Integers, SequenceTheorems, TLAPS

SendAt(i) == CHOOSE k \in DOMAIN Program[Message[i].from] :
               Program[Message[i].from][k] = [op |-> "send", msg |-> i]
RecvAt(i) == CHOOSE k \in DOMAIN Program[Message[i].to] :
               Program[Message[i].to][k] = [op |-> "recv", msg |-> i]

----------------------------------------------------------------------------
(* Where a message is: not yet sent, a packet of some type, queued at its  *)
(* receiver, lost, or answered.                                            *)
PacketTypes == {"SHORT", "ANNOUNCE", "ASK", "DATA", "ANSWER"}
Stages == PacketTypes \cup {"unsent", "arrived", "lost", "over"}
Down == [type |-> "DOWN"]
Packets == {Down} \cup [type : PacketTypes, msg : Messages]

From(c, i) == IF c \in {"ASK", "ANSWER"} THEN Message[i].to ELSE Message[i].from
To(c, i) == IF c \in {"ASK", "ANSWER"} THEN Message[i].from ELSE Message[i].to
On(c, i, m, p) == c \in PacketTypes /\ From(c, i) = m /\ To(c, i) = p

\* What the stage of message i says of its sender and its receiver.
SenderAt(i, c, nd, a) ==
  LET s == Message[i].from IN
  /\ Message[i].buffered => (c = "unsent" <=> a[s] <= SendAt(i))
  /\ ~Message[i].buffered =>
       /\ c = "unsent" <=> a[s] < SendAt(i) \/ (a[s] = SendAt(i) /\ nd[s] # "wait_answer")
       /\ c = "over" <=> a[s] > SendAt(i)
ReceiverAt(i, c, nd, a) ==
  LET r == Message[i].to IN
  /\ c \in {"ANSWER", "over"} <=> a[r] > RecvAt(i)
  /\ c \in {"ASK", "DATA"} <=> a[r] = RecvAt(i) /\ nd[r] = "wait_data"
  /\ c = "arrived" => ~(a[r] = RecvAt(i) /\ nd[r] = "wait_message")
MsgOK(i, c, nd, a, arr, lo) ==
  /\ c \in {"ANNOUNCE", "ASK", "DATA"} => Message[i].long
  /\ c = "SHORT" => ~Message[i].long
  /\ SenderAt(i, c, nd, a) /\ ReceiverAt(i, c, nd, a)
  /\ c = "arrived" <=> i \in arr[Message[i].to]
  /\ c = "lost" <=> i \in lo

\* A link holds the packets of the messages that are on it, each once, and the end of its
\* sender behind them.
Apart(q) == \A k, l \in 1..Len(q) : q[k] = q[l] => k = l
Has(q, x) == \E k \in 1..Len(q) : q[k] = x
LinkOK(q, m, p, st, td, ps) ==
  /\ q \in Seq(Packets) /\ Apart(q)
  /\ \A i \in Messages, c \in PacketTypes : Has(q, Packet(c, i)) <=> st[i] = c /\ On(c, i, m, p)
  /\ Has(q, Down) => p \in td[m] /\ q[Len(q)] = Down
  /\ m \in ps[p] => p \in td[m] /\ q = <<>>

AllMsgs(st, nd, a, arr, lo) == \A i \in Messages : MsgOK(i, st[i], nd, a, arr, lo)
AllLinks(lk, st, td, ps) == \A m, p \in Machines : LinkOK(lk[m][p], m, p, st, td, ps)

----------------------------------------------------------------------------
Before == {"off", "failed", "tables", "spin", "intra_init"}
After == {"intra_end", "netq_end", "tell", "wait_all", "down"}
Waits == {"wait_message", "wait_data", "wait_answer"}

RTyped ==
  /\ main \in [Machines -> Before \cup {"run"} \cup After]
  /\ up \in [Machines -> {"none", "new", "top", "poll", "gone"}]
  /\ node \in [Machines -> {"new", "run", "done"} \cup Waits]
  /\ at \in [Machines -> Nat] /\ \A m \in Machines : at[m] \in 1..(Len(Program[m]) + 1)
  /\ chan \in [Machines -> BOOLEAN] /\ buf \in [Machines -> BOOLEAN] /\ shutdown \in [Machines -> BOOLEAN]
  /\ netd \in BOOLEAN /\ announced \in BOOLEAN
  /\ arrived \in [Machines -> SUBSET Messages] /\ lost \in SUBSET Messages /\ stale \in SUBSET Messages
  /\ link \in [Machines -> [Machines -> Seq(Packets)]]
  /\ told \in [Machines -> SUBSET Machines] /\ peer_stat \in [Machines -> SUBSET Machines]

\* The main thread and the node of a machine.
NodeOK(m) ==
  /\ main[m] \in Before => node[m] = "new"
  /\ main[m] \in After => node[m] = "done"
  /\ chan[m] <=> main[m] \in {"run", "intra_end"}
  /\ node[m] = "done" => at[m] = Len(Program[m]) + 1
  /\ node[m] \in Waits => at[m] <= Len(Program[m])
  /\ node[m] \in {"wait_message", "wait_data"} => Call(m).op = "recv"
  /\ node[m] = "wait_answer" => Call(m).op = "send" /\ ~Message[Call(m).msg].buffered

\* The main thread and the movin thread.
PumpOK(m) ==
  /\ main[m] \in {"off", "failed", "tables"} => up[m] = "none"
  /\ shutdown[m] <=> main[m] \in {"tell", "wait_all", "down"}
  /\ told[m] # {} => shutdown[m]
  /\ told[m] \subseteq Peers(m) /\ peer_stat[m] \subseteq Peers(m)
  /\ main[m] \in {"wait_all", "down"} => up[m] = "gone"
  /\ main[m] = "down" => \A p \in Machines : main[p] \in {"wait_all", "down"}
  /\ up[m] = "gone" /\ ~shutdown[m] => peer_stat[m] = Peers(m)

RInv ==
  /\ RTyped
  /\ \A m \in Machines : NodeOK(m) /\ PumpOK(m)
  /\ \A i \in stale : Message[i].buffered
  /\ \E st \in [Messages -> Stages] :
       AllMsgs(st, node, at, arrived, lost) /\ AllLinks(link, st, told, peer_stat)

----------------------------------------------------------------------------
(* The calls of the programs. *)
LEMMA MessageTypes ==
  ASSUME NEW i \in Messages
  PROVE  /\ Message[i].from \in Machines /\ Message[i].to \in Machines /\ Message[i].from # Message[i].to
         /\ Message[i].long \in BOOLEAN /\ Message[i].buffered \in BOOLEAN
  BY RuntimeAssumption

LEMMA Programs ==
  ASSUME NEW m \in Machines
  PROVE  /\ Len(Program[m]) \in Nat /\ DOMAIN Program[m] = 1..Len(Program[m])
         /\ \A k \in 1..Len(Program[m]) : /\ Program[m][k].msg \in Messages
                                          /\ Program[m][k].op \in {"send", "recv"}
                                          /\ Program[m][k] = [op |-> Program[m][k].op, msg |-> Program[m][k].msg]
  <1>1. Program[m] \in Seq([op : {"send", "recv"}, msg : Messages])
    BY RuntimeAssumption
  <1>2. Len(Program[m]) \in Nat /\ DOMAIN Program[m] = 1..Len(Program[m])
    BY <1>1, LenProperties
  <1>3. \A k \in 1..Len(Program[m]) : Program[m][k] \in [op : {"send", "recv"}, msg : Messages]
    BY <1>1, ElementOfSeq
  <1>4. ASSUME NEW k \in 1..Len(Program[m])
        PROVE  /\ Program[m][k].msg \in Messages /\ Program[m][k].op \in {"send", "recv"}
               /\ Program[m][k] = [op |-> Program[m][k].op, msg |-> Program[m][k].msg]
    BY <1>3
  <1> QED  BY <1>2, <1>4

LEMMA SendPosition ==
  ASSUME ProgramsMatch, NEW i \in Messages
  PROVE  /\ SendAt(i) \in 1..Len(Program[Message[i].from])
         /\ Program[Message[i].from][SendAt(i)] = [op |-> "send", msg |-> i]
         /\ \A k \in 1..Len(Program[Message[i].from]) :
              Program[Message[i].from][k].msg = i => k = SendAt(i) /\ Program[Message[i].from][k].op = "send"
  <1> DEFINE s == Message[i].from
  <1>1. s \in Machines /\ s # Message[i].to
    BY MessageTypes
  <1>2. /\ DOMAIN Program[s] = 1..Len(Program[s])
        /\ \A k \in 1..Len(Program[s]) : /\ Program[s][k].op \in {"send", "recv"}
                                         /\ Program[s][k] = [op |-> Program[s][k].op, msg |-> Program[s][k].msg]
    BY <1>1, Programs
  <1>3. \E k \in 1..Len(Program[s]) : Program[s][k] = [op |-> "send", msg |-> i]
    BY <1>2 DEF ProgramsMatch
  <1>4. SendAt(i) = CHOOSE k \in 1..Len(Program[s]) : Program[s][k] = [op |-> "send", msg |-> i]
    BY <1>2 DEF SendAt
  <1>5. SendAt(i) \in 1..Len(Program[s]) /\ Program[s][SendAt(i)] = [op |-> "send", msg |-> i]
    BY <1>3, <1>4
  <1>6. ASSUME NEW k \in 1..Len(Program[s]), Program[s][k].msg = i
        PROVE  k = SendAt(i) /\ Program[s][k].op = "send"
    <2>1. s = IF Program[s][k].op = "send" THEN Message[i].from ELSE Message[i].to
      BY <1>1, <1>2, <1>6 DEF ProgramsMatch
    <2>2. Program[s][k].op = "send"
      BY <1>1, <2>1
    <2>3. Program[s][k] = [op |-> "send", msg |-> i]
      BY <1>2, <1>6, <2>2
    <2> QED  BY <1>1, <1>2, <1>5, <2>2, <2>3 DEF ProgramsMatch
  <1> QED  BY <1>5, <1>6

LEMMA RecvPosition ==
  ASSUME ProgramsMatch, NEW i \in Messages
  PROVE  /\ RecvAt(i) \in 1..Len(Program[Message[i].to])
         /\ Program[Message[i].to][RecvAt(i)] = [op |-> "recv", msg |-> i]
         /\ \A k \in 1..Len(Program[Message[i].to]) :
              Program[Message[i].to][k].msg = i => k = RecvAt(i) /\ Program[Message[i].to][k].op = "recv"
  <1> DEFINE r == Message[i].to
  <1>1. r \in Machines /\ r # Message[i].from
    BY MessageTypes
  <1>2. /\ DOMAIN Program[r] = 1..Len(Program[r])
        /\ \A k \in 1..Len(Program[r]) : /\ Program[r][k].op \in {"send", "recv"}
                                         /\ Program[r][k] = [op |-> Program[r][k].op, msg |-> Program[r][k].msg]
    BY <1>1, Programs
  <1>3. \E k \in 1..Len(Program[r]) : Program[r][k] = [op |-> "recv", msg |-> i]
    BY <1>2 DEF ProgramsMatch
  <1>4. RecvAt(i) = CHOOSE k \in 1..Len(Program[r]) : Program[r][k] = [op |-> "recv", msg |-> i]
    BY <1>2 DEF RecvAt
  <1>5. RecvAt(i) \in 1..Len(Program[r]) /\ Program[r][RecvAt(i)] = [op |-> "recv", msg |-> i]
    BY <1>3, <1>4
  <1>6. ASSUME NEW k \in 1..Len(Program[r]), Program[r][k].msg = i
        PROVE  k = RecvAt(i) /\ Program[r][k].op = "recv"
    <2>1. r = IF Program[r][k].op = "send" THEN Message[i].from ELSE Message[i].to
      BY <1>1, <1>2, <1>6 DEF ProgramsMatch
    <2>2. Program[r][k].op = "recv"
      BY <1>1, <1>2, <2>1
    <2>3. Program[r][k] = [op |-> "recv", msg |-> i]
      BY <1>2, <1>6, <2>2
    <2> QED  BY <1>1, <1>2, <1>5, <2>2, <2>3 DEF ProgramsMatch
  <1> QED  BY <1>5, <1>6

\* The machine that a call belongs to.
LEMMA CallOwner ==
  ASSUME ProgramsMatch, NEW m \in Machines, NEW k \in 1..Len(Program[m])
  PROVE  LET i == Program[m][k].msg IN
         /\ i \in Messages
         /\ Program[m][k].op = "send" => m = Message[i].from /\ k = SendAt(i)
         /\ Program[m][k].op = "recv" => m = Message[i].to /\ k = RecvAt(i)
  <1>1. /\ DOMAIN Program[m] = 1..Len(Program[m])
        /\ Program[m][k].msg \in Messages /\ Program[m][k].op \in {"send", "recv"}
    BY Programs
  <1>2. m = IF Program[m][k].op = "send" THEN Message[Program[m][k].msg].from ELSE Message[Program[m][k].msg].to
    BY <1>1 DEF ProgramsMatch
  <1>3. CASE Program[m][k].op = "send"
    BY <1>1, <1>2, <1>3, SendPosition
  <1>4. CASE Program[m][k].op = "recv"
    <2>1. m = Message[Program[m][k].msg].to
      BY <1>2, <1>4
    <2> QED  BY <1>1, <1>4, <2>1, RecvPosition
  <1> QED  BY <1>1, <1>3, <1>4

----------------------------------------------------------------------------
(* Links. *)
LEMMA AtEnd ==
  ASSUME NEW q \in Seq(Packets), Apart(q), NEW x \in Packets, ~Has(q, x)
  PROVE  /\ Append(q, x) \in Seq(Packets) /\ Apart(Append(q, x))
         /\ \A y : Has(Append(q, x), y) <=> Has(q, y) \/ y = x
         /\ Append(q, x)[Len(Append(q, x))] = x
  <1>1. PICK a, n : a = Append(q, x) /\ n = Len(q)
    OBVIOUS
  <1>2. a \in Seq(Packets) /\ n \in Nat /\ Len(a) = n + 1 /\ a[n + 1] = x /\ \A k \in 1..n : a[k] = q[k]
    BY <1>1
  <1>3. \A k \in 1..n : a[k] # x
    BY <1>1, <1>2 DEF Has
  <1>4. Apart(a)
    BY <1>1, <1>2, <1>3 DEF Apart
  <1>5. ASSUME NEW y PROVE Has(a, y) <=> Has(q, y) \/ y = x
    <2>1. ASSUME Has(a, y) PROVE Has(q, y) \/ y = x
      <3>1. PICK k \in 1..(n + 1) : a[k] = y
        BY <1>2, <2>1 DEF Has
      <3>2. k = n + 1 \/ k \in 1..n
        BY <1>2
      <3> QED  BY <1>1, <1>2, <3>1, <3>2 DEF Has
    <2>2. ASSUME Has(q, y) PROVE Has(a, y)
      <3>1. PICK k \in 1..n : q[k] = y
        BY <1>1, <2>2 DEF Has
      <3>2. k \in 1..Len(a) /\ a[k] = y
        BY <1>2, <3>1
      <3> QED  BY <3>2 DEF Has
    <2>3. Has(a, x)
      <3>1. n + 1 \in 1..Len(a)
        BY <1>2
      <3> QED  BY <1>2, <3>1 DEF Has
    <2> QED  BY <2>1, <2>2, <2>3
  <1> QED  BY <1>1, <1>2, <1>4, <1>5

LEMMA AtHead ==
  ASSUME NEW q \in Seq(Packets), Apart(q), q # <<>>
  PROVE  /\ Tail(q) \in Seq(Packets) /\ Apart(Tail(q)) /\ Has(q, Head(q))
         /\ \A y : Has(Tail(q), y) <=> Has(q, y) /\ y # Head(q)
         /\ Tail(q) # <<>> => Tail(q)[Len(Tail(q))] = q[Len(q)]
         /\ q[Len(q)] = Head(q) => Tail(q) = <<>>
  <1>1. PICK t, n : t = Tail(q) /\ n = Len(q)
    OBVIOUS
  <1>2. /\ t \in Seq(Packets) /\ n \in Nat /\ n >= 1 /\ Len(t) = n - 1 /\ Head(q) = q[1]
        /\ \A k \in 1..(n - 1) : t[k] = q[k + 1]
    BY <1>1
  <1>3. Apart(t)
    <2> SUFFICES ASSUME NEW k \in 1..(n - 1), NEW l \in 1..(n - 1), t[k] = t[l] PROVE k = l
      BY <1>2 DEF Apart
    <2>1. k + 1 \in 1..n /\ l + 1 \in 1..n /\ q[k + 1] = q[l + 1]
      BY <1>2
    <2>2. k + 1 = l + 1
      BY <1>1, <2>1 DEF Apart
    <2> QED  BY <2>2
  <1>4. Has(q, Head(q))
    <2>1. 1 \in 1..Len(q)
      BY <1>1, <1>2
    <2> QED  BY <1>2, <2>1 DEF Has
  <1>5. ASSUME NEW y PROVE Has(t, y) <=> Has(q, y) /\ y # Head(q)
    <2>1. ASSUME Has(t, y) PROVE Has(q, y) /\ y # Head(q)
      <3>1. PICK k \in 1..(n - 1) : t[k] = y
        BY <1>2, <2>1 DEF Has
      <3>2. k + 1 \in 1..n /\ q[k + 1] = y /\ k + 1 # 1 /\ 1 \in 1..n
        BY <1>2, <3>1
      <3>3. q[k + 1] # q[1]
        BY <1>1, <3>2 DEF Apart
      <3> QED  BY <1>1, <1>2, <3>2, <3>3 DEF Has
    <2>2. ASSUME Has(q, y), y # Head(q) PROVE Has(t, y)
      <3>1. PICK k \in 1..n : q[k] = y
        BY <1>1, <2>2 DEF Has
      <3>2. k - 1 \in 1..(n - 1) /\ (k - 1) + 1 = k
        BY <1>2, <2>2, <3>1
      <3>3. t[k - 1] = y
        BY <1>2, <3>1, <3>2
      <3> QED  BY <1>2, <3>2, <3>3 DEF Has
    <2> QED  BY <2>1, <2>2
  <1>6. t # <<>> => t[Len(t)] = q[n]
    <2> SUFFICES ASSUME t # <<>> PROVE t[Len(t)] = q[n]
      OBVIOUS
    <2>1. Len(t) # 0
      BY <1>2, EmptySeq
    <2>2. n - 1 \in 1..(n - 1) /\ (n - 1) + 1 = n
      BY <1>2, <2>1
    <2> QED  BY <1>2, <2>2
  <1>7. q[n] = Head(q) => t = <<>>
    <2> SUFFICES ASSUME q[n] = Head(q) PROVE t = <<>>
      OBVIOUS
    <2>1. n \in 1..n /\ 1 \in 1..n
      BY <1>2
    <2>2. n = 1
      BY <1>1, <1>2, <2>1 DEF Apart
    <2> QED  BY <1>2, <2>2, EmptySeq
  <1> QED  BY <1>1, <1>2, <1>3, <1>4, <1>5, <1>6, <1>7

LEMMA PacketFacts ==
  ASSUME NEW c \in PacketTypes, NEW i \in Messages
  PROVE  /\ Packet(c, i) \in Packets /\ Packet(c, i) # Down /\ Packet(c, i).type = c /\ Packet(c, i).msg = i
         /\ \A d \in PacketTypes, j \in Messages : Packet(c, i) = Packet(d, j) => c = d /\ i = j
         /\ From(c, i) \in Machines /\ To(c, i) \in Machines /\ From(c, i) # To(c, i)
  <1>1. Packet(c, i) \in Packets /\ Packet(c, i).type = c /\ Packet(c, i).msg = i
    BY DEF Packet, Packets
  <1>2. \A d \in PacketTypes, j \in Messages : Packet(c, i) = Packet(d, j) => c = d /\ i = j
    BY DEF Packet
  <1>3. Down.type = "DOWN" /\ c # "DOWN"
    BY DEF Down, PacketTypes
  <1>4. Packet(c, i) # Down
    BY <1>1, <1>3
  <1> QED  BY <1>1, <1>2, <1>4, MessageTypes DEF From, To

\* A message that changes from a stage to another.
LEMMA LinkElsewhere ==
  ASSUME NEW q, NEW m, NEW p, NEW st \in [Messages -> Stages], NEW td, NEW ps, LinkOK(q, m, p, st, td, ps),
         NEW i \in Messages, NEW d \in Stages, ~On(st[i], i, m, p), ~On(d, i, m, p)
  PROVE  LinkOK(q, m, p, [st EXCEPT ![i] = d], td, ps)
  <1>1. PICK su : su = [st EXCEPT ![i] = d]
    OBVIOUS
  <1>2. su[i] = d /\ \A j \in Messages : j # i => su[j] = st[j]
    BY <1>1
  <1>3. ASSUME NEW j \in Messages, NEW c \in PacketTypes
        PROVE  (st[j] = c /\ On(c, j, m, p)) <=> (su[j] = c /\ On(c, j, m, p))
    BY <1>2
  <1> QED  BY <1>1, <1>3 DEF LinkOK

LEMMA LinkAppended ==
  ASSUME NEW q, NEW m, NEW p, NEW st \in [Messages -> Stages], NEW td, NEW ps, LinkOK(q, m, p, st, td, ps),
         NEW i \in Messages, NEW d \in PacketTypes, ~On(st[i], i, m, p), On(d, i, m, p), p \notin td[m]
  PROVE  LinkOK(Append(q, Packet(d, i)), m, p, [st EXCEPT ![i] = d], td, ps)
  <1>1. PICK su, a : su = [st EXCEPT ![i] = d] /\ a = Append(q, Packet(d, i))
    OBVIOUS
  <1>2. su[i] = d /\ \A j \in Messages : j # i => su[j] = st[j]
    BY <1>1
  <1>3. ~Has(q, Packet(d, i)) /\ ~Has(q, Down) /\ m \notin ps[p] /\ q \in Seq(Packets) /\ Apart(q)
    BY DEF LinkOK
  <1>4. Packet(d, i) \in Packets /\ Packet(d, i) # Down
    BY PacketFacts
  <1>5. a \in Seq(Packets) /\ Apart(a) /\ \A y : Has(a, y) <=> Has(q, y) \/ y = Packet(d, i)
    BY <1>1, <1>3, <1>4, AtEnd
  <1>6. ASSUME NEW j \in Messages, NEW c \in PacketTypes
        PROVE  Has(a, Packet(c, j)) <=> su[j] = c /\ On(c, j, m, p)
    <2>1. Has(a, Packet(c, j)) <=> Has(q, Packet(c, j)) \/ (c = d /\ j = i)
      BY <1>5, PacketFacts
    <2>2. Has(q, Packet(c, j)) <=> st[j] = c /\ On(c, j, m, p)
      BY DEF LinkOK
    <2> QED  BY <1>2, <2>1, <2>2
  <1>7. ~Has(a, Down)
    BY <1>3, <1>4, <1>5
  <1> QED  BY <1>1, <1>3, <1>5, <1>6, <1>7 DEF LinkOK

LEMMA LinkRead ==
  ASSUME NEW q, NEW m, NEW p, NEW st \in [Messages -> Stages], NEW td, NEW ps, LinkOK(q, m, p, st, td, ps),
         NEW i \in Messages, NEW d \in Stages, q # <<>>, st[i] \in PacketTypes, Head(q) = Packet(st[i], i),
         ~On(d, i, m, p)
  PROVE  LinkOK(Tail(q), m, p, [st EXCEPT ![i] = d], td, ps)
  <1>1. PICK su, t : su = [st EXCEPT ![i] = d] /\ t = Tail(q)
    OBVIOUS
  <1>2. su[i] = d /\ \A j \in Messages : j # i => su[j] = st[j]
    BY <1>1
  <1>3. q \in Seq(Packets) /\ Apart(q) /\ m \notin ps[p]
    BY DEF LinkOK
  <1>4. /\ t \in Seq(Packets) /\ Apart(t)
        /\ \A y : Has(t, y) <=> Has(q, y) /\ y # Packet(st[i], i)
        /\ t # <<>> => t[Len(t)] = q[Len(q)]
    BY <1>1, <1>3, AtHead
  <1>5. ASSUME NEW j \in Messages, NEW c \in PacketTypes
        PROVE  Has(t, Packet(c, j)) <=> su[j] = c /\ On(c, j, m, p)
    <2>1. Has(t, Packet(c, j)) <=> Has(q, Packet(c, j)) /\ ~(c = st[i] /\ j = i)
      BY <1>4, PacketFacts
    <2>2. Has(q, Packet(c, j)) <=> st[j] = c /\ On(c, j, m, p)
      BY DEF LinkOK
    <2> QED  BY <1>2, <2>1, <2>2
  <1>6. Has(t, Down) => p \in td[m] /\ t[Len(t)] = Down
    <2> SUFFICES ASSUME Has(t, Down) PROVE p \in td[m] /\ t[Len(t)] = Down
      OBVIOUS
    <2>1. t # <<>>
      BY DEF Has
    <2>2. Has(q, Down)
      BY <1>4
    <2> QED  BY <1>4, <2>1, <2>2 DEF LinkOK
  <1> QED  BY <1>1, <1>3, <1>4, <1>5, <1>6 DEF LinkOK

\* A packet on a link tells the stage of its message.
LEMMA OnLink ==
  ASSUME NEW st \in [Messages -> Stages], AllLinks(link, st, told, peer_stat), NEW m \in Machines, NEW p \in Machines,
         link[m][p] # <<>>
  PROVE  /\ link[m][p] \in Seq(Packets) /\ Head(link[m][p]) \in Packets
         /\ Head(link[m][p]) # Down =>
              \E i \in Messages : /\ Head(link[m][p]) = Packet(st[i], i) /\ On(st[i], i, m, p)
                                  /\ Head(link[m][p]).msg = i /\ Head(link[m][p]).type = st[i]
  <1>1. PICK q : q = link[m][p]
    OBVIOUS
  <1>2. LinkOK(q, m, p, st, told, peer_stat)
    BY <1>1 DEF AllLinks
  <1>3. q \in Seq(Packets) /\ Apart(q) /\ q # <<>>
    BY <1>1, <1>2 DEF LinkOK
  <1>4. Has(q, Head(q)) /\ Head(q) \in Packets
    BY <1>3, AtHead, HeadTailProperties
  <1>5. ASSUME Head(q) # Down
        PROVE  \E i \in Messages : /\ Head(q) = Packet(st[i], i) /\ On(st[i], i, m, p)
                                   /\ Head(q).msg = i /\ Head(q).type = st[i]
    <2>1. Head(q) \in [type : PacketTypes, msg : Messages]
      BY <1>4, <1>5 DEF Packets
    <2>2. PICK c \in PacketTypes, i \in Messages : Head(q) = Packet(c, i)
      BY <2>1 DEF Packet
    <2>3. st[i] = c /\ On(c, i, m, p)
      BY <1>2, <1>4, <2>2 DEF LinkOK
    <2> QED  BY <2>2, <2>3, PacketFacts
  <1> QED  BY <1>1, <1>3, <1>4, <1>5

LEMMA Sent ==
  ASSUME NEW lk \in [Machines -> [Machines -> Seq(Packets)]], NEW st \in [Messages -> Stages], NEW td, NEW ps,
         AllLinks(lk, st, td, ps),
         NEW m \in Machines, NEW p \in Machines, p \notin td[m],
         NEW i \in Messages, NEW d \in PacketTypes, On(d, i, m, p), st[i] \notin PacketTypes
  PROVE  /\ AllLinks([lk EXCEPT ![m][p] = Append(@, Packet(d, i))], [st EXCEPT ![i] = d], td, ps)
         /\ [lk EXCEPT ![m][p] = Append(@, Packet(d, i))] \in [Machines -> [Machines -> Seq(Packets)]]
  <1>1. PICK l2, su : l2 = [lk EXCEPT ![m][p] = Append(@, Packet(d, i))] /\ su = [st EXCEPT ![i] = d]
    OBVIOUS
  <1>2. \A a, b \in Machines : l2[a][b] = IF a = m /\ b = p THEN Append(lk[m][p], Packet(d, i)) ELSE lk[a][b]
    BY <1>1
  <1>3. l2 \in [Machines -> [Machines -> Seq(Packets)]]
    <2>1. Append(lk[m][p], Packet(d, i)) \in Seq(Packets)
      BY PacketFacts, AppendProperties
    <2> QED  BY <1>1, <2>1
  <1>4. ASSUME NEW a \in Machines, NEW b \in Machines
        PROVE  LinkOK(l2[a][b], a, b, su, td, ps)
    <2>1. LinkOK(lk[a][b], a, b, st, td, ps)
      BY DEF AllLinks
    <2>2. ~On(st[i], i, a, b) /\ d \in Stages
      BY DEF On, Stages
    <2>3. CASE a = m /\ b = p
      BY <1>1, <1>2, <2>1, <2>2, <2>3, LinkAppended
    <2>4. CASE ~(a = m /\ b = p)
      <3>1. ~On(d, i, a, b)
        BY <2>4 DEF On
      <3> QED  BY <1>1, <1>2, <2>1, <2>2, <2>4, <3>1, LinkElsewhere
    <2> QED  BY <2>3, <2>4
  <1> QED  BY <1>1, <1>3, <1>4 DEF AllLinks

LEMMA Got ==
  ASSUME NEW lk \in [Machines -> [Machines -> Seq(Packets)]], NEW st \in [Messages -> Stages], NEW td, NEW ps,
         AllLinks(lk, st, td, ps),
         NEW m \in Machines, NEW p \in Machines, lk[p][m] # <<>>,
         NEW i \in Messages, Head(lk[p][m]) = Packet(st[i], i), On(st[i], i, p, m),
         NEW d \in Stages, d \notin PacketTypes
  PROVE  /\ AllLinks([lk EXCEPT ![p][m] = Tail(@)], [st EXCEPT ![i] = d], td, ps)
         /\ [lk EXCEPT ![p][m] = Tail(@)] \in [Machines -> [Machines -> Seq(Packets)]]
  <1>1. PICK l2, su : l2 = [lk EXCEPT ![p][m] = Tail(@)] /\ su = [st EXCEPT ![i] = d]
    OBVIOUS
  <1>2. \A a, b \in Machines : l2[a][b] = IF a = p /\ b = m THEN Tail(lk[p][m]) ELSE lk[a][b]
    BY <1>1
  <1>3. l2 \in [Machines -> [Machines -> Seq(Packets)]]
    <2>1. Tail(lk[p][m]) \in Seq(Packets)
      BY HeadTailProperties
    <2> QED  BY <1>1, <2>1
  <1>4. ASSUME NEW a \in Machines, NEW b \in Machines
        PROVE  LinkOK(l2[a][b], a, b, su, td, ps)
    <2>1. LinkOK(lk[a][b], a, b, st, td, ps)
      BY DEF AllLinks
    <2>2. ~On(d, i, a, b)
      BY DEF On
    <2>3. CASE a = p /\ b = m
      <3>1. st[i] \in PacketTypes
        BY DEF On
      <3> QED  BY <1>1, <1>2, <2>1, <2>2, <2>3, <3>1, LinkRead
    <2>4. CASE ~(a = p /\ b = m)
      <3>1. ~On(st[i], i, a, b)
        BY <2>4 DEF On
      <3> QED  BY <1>1, <1>2, <2>1, <2>2, <2>4, <3>1, LinkElsewhere
    <2> QED  BY <2>3, <2>4
  <1> QED  BY <1>1, <1>3, <1>4 DEF AllLinks

----------------------------------------------------------------------------
(* What a node does about message i is nothing to the others. *)
NodeStates == {"new", "run", "done"} \cup Waits

LEMMA OthersKept ==
  ASSUME ProgramsMatch, NEW nd \in [Machines -> NodeStates], NEW a \in [Machines -> Nat], NEW m \in Machines,
         a[m] \in 1..Len(Program[m]), NEW j \in Messages, Program[m][a[m]].msg # j,
         NEW c, NEW arr, NEW lo, MsgOK(j, c, nd, a, arr, lo),
         NEW v, NEW w, w = a[m] \/ (w = a[m] + 1 /\ v = "run"),
         NEW ar2, NEW lo2, j \in ar2[Message[j].to] <=> j \in arr[Message[j].to], j \in lo2 <=> j \in lo
  PROVE  MsgOK(j, c, [nd EXCEPT ![m] = v], [a EXCEPT ![m] = w], ar2, lo2)
  <1>1. PICK n2, a2 : n2 = [nd EXCEPT ![m] = v] /\ a2 = [a EXCEPT ![m] = w]
    OBVIOUS
  <1>2. /\ n2[m] = v /\ a2[m] = w /\ \A x \in Machines : x # m => n2[x] = nd[x] /\ a2[x] = a[x]
    BY <1>1
  <1>3. Message[j].from \in Machines /\ Message[j].to \in Machines
    BY MessageTypes
  <1>4. /\ SendAt(j) \in Nat /\ Program[Message[j].from][SendAt(j)].msg = j
        /\ RecvAt(j) \in Nat /\ Program[Message[j].to][RecvAt(j)].msg = j
    <2>1. SendAt(j) \in 1..Len(Program[Message[j].from]) /\ RecvAt(j) \in 1..Len(Program[Message[j].to])
      BY SendPosition, RecvPosition
    <2>2. Program[Message[j].from][SendAt(j)] = [op |-> "send", msg |-> j]
      BY SendPosition
    <2>3. Program[Message[j].to][RecvAt(j)] = [op |-> "recv", msg |-> j]
      BY RecvPosition
    <2> QED  BY <2>1, <2>2, <2>3
  <1>5. a[m] \in Nat
    OBVIOUS
  <1>6. SenderAt(j, c, n2, a2)
    <2>1. CASE Message[j].from = m
      <3>1. SendAt(j) # a[m]
        BY <1>4, <2>1
      <3>2. a2[m] > SendAt(j) <=> a[m] > SendAt(j)
        BY <1>2, <1>4, <1>5, <3>1
      <3>3. (a2[m] < SendAt(j) \/ (a2[m] = SendAt(j) /\ n2[m] # "wait_answer")) <=> a[m] < SendAt(j)
        BY <1>2, <1>4, <1>5, <3>1
      <3>4. a2[m] <= SendAt(j) <=> a[m] <= SendAt(j)
        BY <1>2, <1>4, <1>5, <3>1
      <3> QED  BY <2>1, <3>1, <3>2, <3>3, <3>4 DEF MsgOK, SenderAt
    <2>2. CASE Message[j].from # m
      BY <1>2, <1>3, <2>2 DEF MsgOK, SenderAt
    <2> QED  BY <2>1, <2>2
  <1>7. ReceiverAt(j, c, n2, a2)
    <2>1. CASE Message[j].to = m
      <3>1. RecvAt(j) # a[m]
        BY <1>4, <2>1
      <3>2. a2[m] > RecvAt(j) <=> a[m] > RecvAt(j)
        BY <1>2, <1>4, <1>5, <3>1
      <3>3. ~(a2[m] = RecvAt(j) /\ n2[m] = "wait_data") /\ ~(a2[m] = RecvAt(j) /\ n2[m] = "wait_message")
        BY <1>2, <1>4, <1>5, <3>1
      <3> QED  BY <2>1, <3>1, <3>2, <3>3 DEF MsgOK, ReceiverAt
    <2>2. CASE Message[j].to # m
      BY <1>2, <1>3, <2>2 DEF MsgOK, ReceiverAt
    <2> QED  BY <2>1, <2>2
  <1> QED  BY <1>1, <1>6, <1>7 DEF MsgOK

\* A node that begins or ends waits for nothing.
LEMMA IdleKept ==
  ASSUME NEW nd \in [Machines -> NodeStates], NEW a, NEW m \in Machines, nd[m] \notin Waits,
         NEW v \in NodeStates, v \notin Waits,
         NEW j \in Messages, NEW c, NEW arr, NEW lo, MsgOK(j, c, nd, a, arr, lo)
  PROVE  MsgOK(j, c, [nd EXCEPT ![m] = v], a, arr, lo)
  <1>1. PICK n2 : n2 = [nd EXCEPT ![m] = v]
    OBVIOUS
  <1>2. \A x \in Machines, y \in Waits : n2[x] = y <=> nd[x] = y
    BY <1>1
  <1>3. /\ Message[j].from \in Machines /\ Message[j].to \in Machines
        /\ "wait_answer" \in Waits /\ "wait_data" \in Waits /\ "wait_message" \in Waits
    BY MessageTypes DEF Waits
  <1>4. SenderAt(j, c, n2, a) /\ ReceiverAt(j, c, n2, a)
    BY <1>2, <1>3 DEF MsgOK, SenderAt, ReceiverAt
  <1> QED  BY <1>1, <1>4 DEF MsgOK

----------------------------------------------------------------------------
(* Threads. *)
LEMMA Active ==
  ASSUME RTyped, NEW m \in Machines, NodeOK(m), PumpOK(m), node[m] = "run" \/ node[m] \in Waits
  PROVE  main[m] = "run" /\ chan[m] /\ ~shutdown[m] /\ told[m] = {}
  <1>1. node[m] # "new" /\ node[m] # "done"
    BY DEF Waits
  <1>2. main[m] \in Before \cup {"run"} \cup After
    BY DEF RTyped
  <1>3. main[m] = "run"
    BY <1>1, <1>2 DEF NodeOK
  <1>4. chan[m] /\ ~shutdown[m]
    BY <1>3 DEF NodeOK, PumpOK
  <1> QED  BY <1>3, <1>4 DEF PumpOK

\* The node of machine m goes on with its call, which is about message i, or stays.
NodeMove(m, i) ==
  \/ node' = node /\ at' = at
  \/ /\ node[m] = "run" \/ node[m] \in Waits
     /\ at[m] <= Len(Program[m]) /\ Call(m).msg = i
     /\ \E v, w :
          /\ node' = [node EXCEPT ![m] = v] /\ at' = [at EXCEPT ![m] = w]
          /\ \/ v = "run" /\ w = at[m] + 1
             \/ v \in {"wait_message", "wait_data"} /\ w = at[m] /\ Call(m).op = "recv"
             \/ v = "wait_answer" /\ w = at[m] /\ Call(m).op = "send" /\ ~Message[i].buffered

LEMMA Moves ==
  ASSUME NEW m, NEW i, NEW v, NEW w,
         node[m] = "run" \/ node[m] \in Waits, at[m] <= Len(Program[m]), Call(m).msg = i,
         node' = [node EXCEPT ![m] = v], at' = [at EXCEPT ![m] = w],
         \/ v = "run" /\ w = at[m] + 1
         \/ v \in {"wait_message", "wait_data"} /\ w = at[m] /\ Call(m).op = "recv"
         \/ v = "wait_answer" /\ w = at[m] /\ Call(m).op = "send" /\ ~Message[i].buffered
  PROVE  NodeMove(m, i)
  BY Zenon DEF NodeMove

LEMMA NodesMove ==
  ASSUME RTyped, \A x \in Machines : NodeOK(x) /\ PumpOK(x),
         NEW m \in Machines, NEW i, NodeMove(m, i), main' = main, chan' = chan
  PROVE  /\ \A x \in Machines : NodeOK(x)'
         /\ node' \in [Machines -> NodeStates] /\ at' \in [Machines -> Nat]
         /\ \A x \in Machines : at'[x] \in 1..(Len(Program[x]) + 1)
  <1>1. CASE node' = node /\ at' = at
    BY <1>1 DEF NodeOK, Call, RTyped, NodeStates
  <1>2. CASE ~(node' = node /\ at' = at)
    <2>1. /\ node[m] = "run" \/ node[m] \in Waits
          /\ at[m] <= Len(Program[m]) /\ Call(m).msg = i
      BY <1>2 DEF NodeMove
    <2>2. PICK v, w :
            /\ node' = [node EXCEPT ![m] = v] /\ at' = [at EXCEPT ![m] = w]
            /\ \/ v = "run" /\ w = at[m] + 1
               \/ v \in {"wait_message", "wait_data"} /\ w = at[m] /\ Call(m).op = "recv"
               \/ v = "wait_answer" /\ w = at[m] /\ Call(m).op = "send" /\ ~Message[i].buffered
      BY <1>2 DEF NodeMove
    <2>3. main[m] = "run"
      BY <2>1, Active
    <2>4. at[m] \in Nat /\ at[m] >= 1 /\ Len(Program[m]) \in Nat
      BY Programs DEF RTyped
    <2>5. /\ node'[m] = v /\ at'[m] = w
          /\ \A x \in Machines : x # m => node'[x] = node[x] /\ at'[x] = at[x]
      BY <2>2 DEF RTyped
    <2>6. w \in 1..(Len(Program[m]) + 1) /\ v \in NodeStates /\ w \in Nat
      BY <2>1, <2>2, <2>4 DEF NodeStates, Waits
    <2>7. node' \in [Machines -> NodeStates] /\ at' \in [Machines -> Nat]
      BY <2>2, <2>6 DEF RTyped, NodeStates
    <2>8. \A x \in Machines : at'[x] \in 1..(Len(Program[x]) + 1)
      BY <2>5, <2>6 DEF RTyped
    <2>9. ASSUME NEW x \in Machines, x # m PROVE NodeOK(x)'
      BY <2>5, <2>9 DEF NodeOK, Call
    <2>10. NodeOK(m)'
      <3>1. chan[m] <=> main[m] \in {"run", "intra_end"}
        BY DEF NodeOK
      <3>2. main[m] \notin Before /\ main[m] \notin After
        BY <2>3 DEF Before, After
      <3>3. CASE v = "run"
        BY <2>3, <2>5, <3>1, <3>2, <3>3 DEF NodeOK, Waits
      <3>4. CASE v # "run"
        <4>1. w = at[m] /\ Call(m)' = Call(m) /\ v # "done" /\ v \in Waits
          BY <2>2, <2>5, <3>4 DEF Call, Waits
        <4> QED  BY <2>1, <2>2, <2>3, <2>5, <3>1, <3>2, <3>4, <4>1 DEF NodeOK
      <3> QED  BY <3>3, <3>4
    <2> QED  BY <2>7, <2>8, <2>9, <2>10
  <1> QED  BY <1>1, <1>2

\* The movin thread stays, or goes around.
PumpMove == up' = up \/ \E m \in Machines : up[m] \in {"top", "poll"} /\ \E v \in {"top", "poll"} : up' = [up EXCEPT ![m] = v]

LEMMA PumpsMove ==
  ASSUME RTyped, \A x \in Machines : PumpOK(x), PumpMove,
         main' = main, shutdown' = shutdown, told' = told, peer_stat' = peer_stat
  PROVE  /\ \A x \in Machines : PumpOK(x)'
         /\ up' \in [Machines -> {"none", "new", "top", "poll", "gone"}]
  <1>1. CASE up' = up
    BY <1>1 DEF PumpOK, RTyped
  <1>2. CASE up' # up
    <2>1. PICK m \in Machines : up[m] \in {"top", "poll"} /\ \E v \in {"top", "poll"} : up' = [up EXCEPT ![m] = v]
      BY <1>2 DEF PumpMove
    <2>2. PICK v \in {"top", "poll"} : up' = [up EXCEPT ![m] = v]
      BY <2>1
    <2>3. up'[m] = v /\ \A x \in Machines : x # m => up'[x] = up[x]
      BY <2>2 DEF RTyped
    <2>4. ASSUME NEW x \in Machines PROVE PumpOK(x)'
      <3>1. CASE x = m
        BY <2>1, <2>3, <3>1 DEF PumpOK
      <3>2. CASE x # m
        BY <2>3, <3>2 DEF PumpOK
      <3> QED  BY <3>1, <3>2
    <2> QED  BY <2>2, <2>4 DEF RTyped
  <1> QED  BY <1>1, <1>2

\* A step about one message: it is enough to look at that message and at the links.
LEMMA MessageTurn ==
  ASSUME ProgramsMatch, RTyped, \A x \in Machines : NodeOK(x) /\ PumpOK(x),
         NEW st \in [Messages -> Stages], AllMsgs(st, node, at, arrived, lost),
         NEW m \in Machines, NEW i \in Messages, NEW d \in Stages,
         UNCHANGED <<thread, chan, buf, shutdown, peer_stat>>, NodeMove(m, i), PumpMove,
         link' \in [Machines -> [Machines -> Seq(Packets)]],
         AllLinks(link', [st EXCEPT ![i] = d], told', peer_stat'),
         arrived' \in [Machines -> SUBSET Messages], lost' \in SUBSET Messages,
         \A j \in Messages : j # i => /\ j \in arrived'[Message[j].to] <=> j \in arrived[Message[j].to]
                                      /\ j \in lost' <=> j \in lost,
         stale' \in SUBSET Messages, \A j \in stale' : Message[j].buffered,
         MsgOK(i, d, node', at', arrived', lost')
  PROVE  RInv'
  <1>1. /\ main' = main /\ netd' = netd /\ announced' = announced /\ told' = told /\ chan' = chan /\ buf' = buf
        /\ shutdown' = shutdown /\ peer_stat' = peer_stat
    BY DEF thread
  <1>2. /\ \A x \in Machines : NodeOK(x)'
        /\ node' \in [Machines -> NodeStates] /\ at' \in [Machines -> Nat]
        /\ \A x \in Machines : at'[x] \in 1..(Len(Program[x]) + 1)
    BY <1>1, NodesMove
  <1>3. /\ \A x \in Machines : PumpOK(x)'
        /\ up' \in [Machines -> {"none", "new", "top", "poll", "gone"}]
    BY <1>1, PumpsMove
  <1>4. RTyped'
    BY <1>1, <1>2, <1>3 DEF RTyped, NodeStates
  <1>5. PICK su : su = [st EXCEPT ![i] = d]
    OBVIOUS
  <1>6. su \in [Messages -> Stages] /\ su[i] = d /\ \A j \in Messages : j # i => su[j] = st[j]
    BY <1>5
  <1>7. ASSUME NEW j \in Messages, j # i PROVE MsgOK(j, su[j], node', at', arrived', lost')
    <2>1. MsgOK(j, su[j], node, at, arrived, lost)
      BY <1>6, <1>7 DEF AllMsgs
    <2>2. node \in [Machines -> NodeStates] /\ at \in [Machines -> Nat] /\ at[m] \in 1..(Len(Program[m]) + 1)
      BY DEF RTyped, NodeStates
    <2>3. CASE node' = node /\ at' = at
      BY <1>7, <2>1, <2>3 DEF MsgOK
    <2>4. CASE ~(node' = node /\ at' = at)
      <3>1. at[m] <= Len(Program[m]) /\ Program[m][at[m]].msg = i
        BY <2>4 DEF NodeMove, Call
      <3>2. PICK v, w : /\ node' = [node EXCEPT ![m] = v] /\ at' = [at EXCEPT ![m] = w]
                        /\ w = at[m] \/ (w = at[m] + 1 /\ v = "run")
        BY <2>4 DEF NodeMove
      <3>3. at[m] \in 1..Len(Program[m])
        BY <2>2, <3>1, Programs
      <3> QED  BY <1>7, <2>1, <2>2, <3>1, <3>2, <3>3, OthersKept
    <2> QED  BY <2>3, <2>4
  <1>8. AllMsgs(su, node', at', arrived', lost')
    BY <1>6, <1>7 DEF AllMsgs
  <1> QED  BY <1>2, <1>3, <1>4, <1>5, <1>6, <1>8 DEF RInv

----------------------------------------------------------------------------
(* The calls of the nodes. *)
LEMMA StageTypes ==
  /\ {"SHORT", "ANNOUNCE", "ASK", "DATA", "ANSWER"} \subseteq PacketTypes /\ PacketTypes \subseteq Stages
  /\ {"unsent", "arrived", "lost", "over"} \subseteq Stages
  /\ {"unsent", "arrived", "lost", "over"} \cap PacketTypes = {}
  BY DEF PacketTypes, Stages

LEMMA DoSend ==
  ASSUME ProgramsMatch, RInv, NEW m \in Machines, NodeSend(m)
  PROVE  RInv'
  <1>1. PICK st \in [Messages -> Stages] : AllMsgs(st, node, at, arrived, lost) /\ AllLinks(link, st, told, peer_stat)
    BY DEF RInv
  <1>2. PICK i : i = Call(m).msg
    OBVIOUS
  <1>3. /\ RTyped /\ \A x \in Machines : NodeOK(x) /\ PumpOK(x) 
        /\ \A j \in stale : Message[j].buffered
    BY DEF RInv
  <1>4. /\ node[m] = "run" /\ at[m] \in 1..Len(Program[m]) /\ Program[m][at[m]].op = "send"
        /\ Program[m][at[m]].msg = i
    BY <1>2, <1>3, Programs DEF NodeSend, InProgram, Call, RTyped
  <1>5. i \in Messages /\ m = Message[i].from /\ at[m] = SendAt(i)
    BY <1>4, CallOwner
  <1>6. MsgOK(i, st[i], node, at, arrived, lost)
    BY <1>1, <1>5 DEF AllMsgs
  <1>7. /\ Message[i].to \in Machines /\ Message[i].to # m
        /\ Message[i].long \in BOOLEAN /\ Message[i].buffered \in BOOLEAN /\ at[m] \in Nat
    BY <1>3, <1>5, MessageTypes DEF RTyped
  <1>8. st[i] = "unsent"
    BY <1>4, <1>5, <1>6, <1>7 DEF MsgOK, SenderAt
  <1>9. PICK d : d = IF Message[i].long THEN "ANNOUNCE" ELSE "SHORT"
    OBVIOUS
  <1>10. d \in PacketTypes /\ d \in Stages /\ On(d, i, m, Message[i].to) /\ st[i] \notin PacketTypes
    BY <1>5, <1>8, <1>9, StageTypes DEF On, From, To
  <1>11. told[m] = {}
    BY <1>3, <1>4, Active
  <1>12. /\ UNCHANGED <<thread, up, chan, buf, arrived, shutdown, peer_stat, lost, stale>>
         /\ link' = [link EXCEPT ![m][Message[i].to] = Append(@, Packet(d, i))]
         /\ IF Message[i].buffered THEN NextCall(m) ELSE Block(m, "wait_answer")
    BY <1>2, <1>9 DEF NodeSend, Send
  <1>13. told' = told /\ peer_stat' = peer_stat /\ up' = up /\ arrived' = arrived /\ lost' = lost /\ stale' = stale
    BY <1>12 DEF thread
  <1>14. /\ link' \in [Machines -> [Machines -> Seq(Packets)]]
         /\ AllLinks(link', [st EXCEPT ![i] = d], told', peer_stat')
    <2>1. link \in [Machines -> [Machines -> Seq(Packets)]]
      BY <1>3 DEF RTyped
    <2>2. PICK p \in Machines : p = Message[i].to
      BY <1>7
    <2>3. p \notin told[m] /\ On(d, i, m, p)
      BY <1>10, <1>11, <2>2
    <2>4. PICK l2 : l2 = [link EXCEPT ![m][p] = Append(@, Packet(d, i))]
      OBVIOUS
    <2>5. AllLinks(l2, [st EXCEPT ![i] = d], told, peer_stat) /\ l2 \in [Machines -> [Machines -> Seq(Packets)]]
      BY <1>1, <1>5, <1>10, <2>1, <2>3, <2>4, Sent
    <2>6. link' = l2
      BY <1>12, <2>2, <2>4
    <2> QED  BY <1>13, <2>5, <2>6
  <1>15. /\ node' = [node EXCEPT ![m] = IF Message[i].buffered THEN "run" ELSE "wait_answer"]
         /\ at' = [at EXCEPT ![m] = IF Message[i].buffered THEN at[m] + 1 ELSE at[m]]
    BY <1>3, <1>12 DEF NextCall, Block, RTyped
  <1>16. NodeMove(m, i)
    <2>1. PICK v, w : /\ v = IF Message[i].buffered THEN "run" ELSE "wait_answer"
                      /\ w = IF Message[i].buffered THEN at[m] + 1 ELSE at[m]
      OBVIOUS
    <2>2. node' = [node EXCEPT ![m] = v] /\ at' = [at EXCEPT ![m] = w]
      BY <1>15, <2>1
    <2>3. at[m] <= Len(Program[m]) /\ Call(m).msg = i /\ Call(m).op = "send"
      BY <1>4, <1>5, <1>7, Programs DEF Call
    <2> QED  BY <1>4, <2>1, <2>2, <2>3, Moves
  <1>17. MsgOK(i, d, node', at', arrived', lost')
    <2>1. /\ node'[m] = (IF Message[i].buffered THEN "run" ELSE "wait_answer")
          /\ at'[m] = (IF Message[i].buffered THEN at[m] + 1 ELSE at[m])
          /\ node'[Message[i].to] = node[Message[i].to] /\ at'[Message[i].to] = at[Message[i].to]
      BY <1>3, <1>7, <1>15 DEF RTyped
    <2>2. SenderAt(i, d, node', at')
      BY <1>5, <1>7, <1>9, <2>1 DEF SenderAt
    <2>3. ReceiverAt(i, d, node', at')
      BY <1>6, <1>8, <1>9, <2>1 DEF MsgOK, ReceiverAt
    <2> QED  BY <1>6, <1>8, <1>9, <1>13, <2>2, <2>3 DEF MsgOK
  <1>18. PumpMove
    BY <1>13 DEF PumpMove
  <1>19. /\ arrived' \in [Machines -> SUBSET Messages] /\ lost' \in SUBSET Messages /\ stale' \in SUBSET Messages
    BY <1>3, <1>13 DEF RTyped
  <1> QED  BY <1>1, <1>3, <1>5, <1>10, <1>12, <1>13, <1>14, <1>16, <1>17, <1>18, <1>19, MessageTurn

LEMMA DoPost ==
  ASSUME ProgramsMatch, RInv, NEW m \in Machines, NodePost(m)
  PROVE  RInv'
  <1>1. PICK st \in [Messages -> Stages] : AllMsgs(st, node, at, arrived, lost) /\ AllLinks(link, st, told, peer_stat)
    BY DEF RInv
  <1>2. PICK i : i = Call(m).msg
    OBVIOUS
  <1>3. /\ RTyped /\ \A x \in Machines : NodeOK(x) /\ PumpOK(x) 
        /\ \A j \in stale : Message[j].buffered
    BY DEF RInv
  <1>4. /\ node[m] = "run" /\ at[m] \in 1..Len(Program[m]) /\ Program[m][at[m]].op = "recv"
        /\ Program[m][at[m]].msg = i /\ i \notin arrived[m]
    BY <1>2, <1>3, Programs DEF NodePost, InProgram, Call, RTyped
  <1>5. i \in Messages /\ m = Message[i].to /\ at[m] = RecvAt(i)
    BY <1>4, CallOwner
  <1>6. MsgOK(i, st[i], node, at, arrived, lost)
    BY <1>1, <1>5 DEF AllMsgs
  <1>7. Message[i].from \in Machines /\ Message[i].from # m /\ at[m] \in Nat
    BY <1>3, <1>5, MessageTypes DEF RTyped
  <1>8. /\ UNCHANGED <<thread, up, chan, buf, arrived, link, shutdown, peer_stat, lost, stale>>
        /\ node' = [node EXCEPT ![m] = "wait_message"] /\ at' = [at EXCEPT ![m] = at[m]]
    BY <1>3 DEF NodePost, Block, RTyped
  <1>9. told' = told /\ peer_stat' = peer_stat /\ up' = up /\ arrived' = arrived /\ lost' = lost /\ stale' = stale
        /\ link' = link
    BY <1>8 DEF thread
  <1>10. [st EXCEPT ![i] = st[i]] = st
    BY <1>5
  <1>11. NodeMove(m, i)
    <2>1. at[m] <= Len(Program[m]) /\ Call(m).msg = i /\ Call(m).op = "recv"
      BY <1>4, <1>5, <1>7, Programs DEF Call
    <2> QED  BY <1>4, <1>8, <2>1, Moves
  <1>12. MsgOK(i, st[i], node', at', arrived', lost')
    <2>1. /\ node'[m] = "wait_message" /\ at'[m] = at[m]
          /\ node'[Message[i].from] = node[Message[i].from] /\ at'[Message[i].from] = at[Message[i].from]
      BY <1>3, <1>7, <1>8 DEF RTyped
    <2>2. SenderAt(i, st[i], node', at')
      BY <1>6, <2>1 DEF MsgOK, SenderAt
    <2>3. ReceiverAt(i, st[i], node', at')
      BY <1>4, <1>5, <1>6, <1>7, <2>1 DEF MsgOK, ReceiverAt
    <2> QED  BY <1>6, <1>9, <2>2, <2>3 DEF MsgOK
  <1>13. PumpMove
    BY <1>9 DEF PumpMove
  <1>14. /\ arrived' \in [Machines -> SUBSET Messages] /\ lost' \in SUBSET Messages /\ stale' \in SUBSET Messages
         /\ link' \in [Machines -> [Machines -> Seq(Packets)]] /\ st[i] \in Stages
         /\ AllLinks(link', [st EXCEPT ![i] = st[i]], told', peer_stat')
    BY <1>1, <1>3, <1>5, <1>9, <1>10 DEF RTyped
  <1> QED  BY <1>1, <1>3, <1>5, <1>8, <1>9, <1>11, <1>12, <1>13, <1>14, MessageTurn

LEMMA DoRecv ==
  ASSUME ProgramsMatch, RInv, NEW m \in Machines, NodeRecv(m)
  PROVE  RInv'
  <1>1. PICK st \in [Messages -> Stages] : AllMsgs(st, node, at, arrived, lost) /\ AllLinks(link, st, told, peer_stat)
    BY DEF RInv
  <1>2. PICK i : i = Call(m).msg
    OBVIOUS
  <1>3. /\ RTyped /\ \A x \in Machines : NodeOK(x) /\ PumpOK(x) 
        /\ \A j \in stale : Message[j].buffered
    BY DEF RInv
  <1>4. /\ node[m] = "run" /\ at[m] \in 1..Len(Program[m]) /\ Program[m][at[m]].op = "recv"
        /\ Program[m][at[m]].msg = i /\ i \in arrived[m]
    BY <1>2, <1>3, Programs DEF NodeRecv, InProgram, Call, RTyped
  <1>5. i \in Messages /\ m = Message[i].to /\ at[m] = RecvAt(i)
    BY <1>4, CallOwner
  <1>6. MsgOK(i, st[i], node, at, arrived, lost)
    BY <1>1, <1>5 DEF AllMsgs
  <1>7. /\ Message[i].from \in Machines /\ Message[i].from # m /\ at[m] \in Nat
        /\ Message[i].long \in BOOLEAN /\ Message[i].buffered \in BOOLEAN
    BY <1>3, <1>5, MessageTypes DEF RTyped
  <1>8. st[i] = "arrived"
    BY <1>4, <1>5, <1>6 DEF MsgOK
  <1>9. PICK d : d = IF Message[i].long THEN "ASK" ELSE "ANSWER"
    OBVIOUS
  <1>10. d \in PacketTypes /\ d \in Stages /\ On(d, i, m, Message[i].from) /\ st[i] \notin PacketTypes
    BY <1>5, <1>8, <1>9, StageTypes DEF On, From, To
  <1>11. told[m] = {}
    BY <1>3, <1>4, Active
  <1>12. /\ UNCHANGED <<thread, up, chan, buf, shutdown, peer_stat, lost, stale>>
         /\ arrived' = [arrived EXCEPT ![m] = @ \ {i}]
         /\ link' = [link EXCEPT ![m][Message[i].from] = Append(@, Packet(d, i))]
         /\ IF Message[i].long THEN Block(m, "wait_data") ELSE NextCall(m)
    BY <1>2, <1>9 DEF NodeRecv, Send
  <1>13. told' = told /\ peer_stat' = peer_stat /\ up' = up /\ lost' = lost /\ stale' = stale
    BY <1>12 DEF thread
  <1>14. /\ link' \in [Machines -> [Machines -> Seq(Packets)]]
         /\ AllLinks(link', [st EXCEPT ![i] = d], told', peer_stat')
    <2>1. link \in [Machines -> [Machines -> Seq(Packets)]]
      BY <1>3 DEF RTyped
    <2>2. PICK p \in Machines : p = Message[i].from
      BY <1>7
    <2>3. p \notin told[m] /\ On(d, i, m, p)
      BY <1>10, <1>11, <2>2
    <2>4. PICK l2 : l2 = [link EXCEPT ![m][p] = Append(@, Packet(d, i))]
      OBVIOUS
    <2>5. AllLinks(l2, [st EXCEPT ![i] = d], told, peer_stat) /\ l2 \in [Machines -> [Machines -> Seq(Packets)]]
      BY <1>1, <1>5, <1>10, <2>1, <2>3, <2>4, Sent
    <2>6. link' = l2
      BY <1>12, <2>2, <2>4
    <2> QED  BY <1>13, <2>5, <2>6
  <1>15. /\ node' = [node EXCEPT ![m] = IF Message[i].long THEN "wait_data" ELSE "run"]
         /\ at' = [at EXCEPT ![m] = IF Message[i].long THEN at[m] ELSE at[m] + 1]
    BY <1>3, <1>12 DEF NextCall, Block, RTyped
  <1>16. NodeMove(m, i)
    <2>1. PICK v, w : /\ v = IF Message[i].long THEN "wait_data" ELSE "run"
                      /\ w = IF Message[i].long THEN at[m] ELSE at[m] + 1
      OBVIOUS
    <2>2. node' = [node EXCEPT ![m] = v] /\ at' = [at EXCEPT ![m] = w]
      BY <1>15, <2>1
    <2>3. at[m] <= Len(Program[m]) /\ Call(m).msg = i /\ Call(m).op = "recv"
      BY <1>4, <1>5, <1>7, Programs DEF Call
    <2> QED  BY <1>4, <2>1, <2>2, <2>3, Moves
  <1>17. /\ arrived' \in [Machines -> SUBSET Messages] /\ lost' \in SUBSET Messages /\ stale' \in SUBSET Messages
         /\ i \notin arrived'[m] /\ \A x \in Machines, j \in Messages : j # i => (j \in arrived'[x] <=> j \in arrived[x])
    BY <1>3, <1>12, <1>13 DEF RTyped
  <1>18. MsgOK(i, d, node', at', arrived', lost')
    <2>1. /\ node'[m] = (IF Message[i].long THEN "wait_data" ELSE "run")
          /\ at'[m] = (IF Message[i].long THEN at[m] ELSE at[m] + 1)
          /\ node'[Message[i].from] = node[Message[i].from] /\ at'[Message[i].from] = at[Message[i].from]
      BY <1>3, <1>7, <1>15 DEF RTyped
    <2>2. SenderAt(i, d, node', at')
      BY <1>6, <1>8, <1>9, <2>1 DEF MsgOK, SenderAt
    <2>3. ReceiverAt(i, d, node', at')
      BY <1>5, <1>7, <1>9, <2>1 DEF ReceiverAt
    <2> QED  BY <1>5, <1>6, <1>8, <1>9, <1>13, <1>17, <2>2, <2>3 DEF MsgOK
  <1>19. PumpMove
    BY <1>13 DEF PumpMove
  <1>20. \A j \in Messages : j # i => /\ j \in arrived'[Message[j].to] <=> j \in arrived[Message[j].to]
                                      /\ j \in lost' <=> j \in lost
    BY <1>13, <1>17, MessageTypes
  <1> QED  BY <1>1, <1>3, <1>5, <1>10, <1>12, <1>13, <1>14, <1>16, <1>17, <1>18, <1>19, <1>20, MessageTurn
----------------------------------------------------------------------------
(* The handlers of the movin thread. *)
LEMMA Incomes ==
  ASSUME NEW st \in [Messages -> Stages], AllLinks(link, st, told, peer_stat), NEW m \in Machines, NEW p \in Peers(m),
         NEW T, T \subseteq PacketTypes, Incoming(m, p, T)
  PROVE  /\ up[m] = "poll" /\ p \in Machines /\ p # m /\ link[p][m] # <<>>
         /\ \E i \in Messages : /\ Head(link[p][m]) = Packet(st[i], i) /\ On(st[i], i, p, m) /\ st[i] \in T
                                /\ Head(link[p][m]).msg = i /\ Head(link[p][m]).type = st[i]
  <1>1. up[m] = "poll" /\ p \in Machines /\ p # m /\ link[p][m] # <<>> /\ Head(link[p][m]).type \in T
    BY DEF Incoming, Peers
  <1>2. Head(link[p][m]) # Down
    BY <1>1 DEF Down, PacketTypes
  <1> QED  BY <1>1, <1>2, OnLink

LEMMA GoesRound ==
  ASSUME NEW m \in Machines, up[m] = "poll", Again(m)
  PROVE  PumpMove
  BY DEF Again, PumpMove

LEMMA ReadOne ==
  ASSUME RTyped, NEW st \in [Messages -> Stages], AllLinks(link, st, told, peer_stat), NEW m \in Machines,
         NEW p \in Machines, link[p][m] # <<>>,
         NEW i \in Messages, Head(link[p][m]) = Packet(st[i], i), On(st[i], i, p, m),
         NEW d \in Stages, d \notin PacketTypes, Read(m, p), told' = told, peer_stat' = peer_stat
  PROVE  /\ link' \in [Machines -> [Machines -> Seq(Packets)]]
         /\ AllLinks(link', [st EXCEPT ![i] = d], told', peer_stat')
  <1>1. link \in [Machines -> [Machines -> Seq(Packets)]]
    BY DEF RTyped
  <1>2. PICK l2 : l2 = [link EXCEPT ![p][m] = Tail(@)]
    OBVIOUS
  <1>3. AllLinks(l2, [st EXCEPT ![i] = d], told, peer_stat) /\ l2 \in [Machines -> [Machines -> Seq(Packets)]]
    BY <1>1, <1>2, Got
  <1> QED  BY <1>2, <1>3 DEF Read

\* Read and answered: the message is nowhere for a moment.
LEMMA ReplyOne ==
  ASSUME RTyped, NEW st \in [Messages -> Stages], AllLinks(link, st, told, peer_stat), NEW m \in Machines,
         NEW p \in Machines, m # p, link[p][m] # <<>>, told[m] = {},
         NEW i \in Messages, Head(link[p][m]) = Packet(st[i], i), On(st[i], i, p, m),
         NEW d \in PacketTypes, On(d, i, m, p), Reply(m, p, Packet(d, i)), told' = told, peer_stat' = peer_stat
  PROVE  /\ link' \in [Machines -> [Machines -> Seq(Packets)]]
         /\ AllLinks(link', [st EXCEPT ![i] = d], told', peer_stat')
  <1>1. link \in [Machines -> [Machines -> Seq(Packets)]] /\ p \notin told[m]
    BY DEF RTyped
  <1>2. PICK l1, sv : l1 = [link EXCEPT ![p][m] = Tail(@)] /\ sv = [st EXCEPT ![i] = "over"]
    OBVIOUS
  <1>3. "over" \in Stages /\ "over" \notin PacketTypes /\ d \in Stages
    BY DEF Stages, PacketTypes
  <1>4. AllLinks(l1, sv, told, peer_stat) /\ l1 \in [Machines -> [Machines -> Seq(Packets)]]
    BY <1>1, <1>2, <1>3, Got
  <1>5. sv \in [Messages -> Stages] /\ sv[i] \notin PacketTypes
    BY <1>2, <1>3
  <1>6. PICK l2 : l2 = [l1 EXCEPT ![m][p] = Append(@, Packet(d, i))]
    OBVIOUS
  <1>7. AllLinks(l2, [sv EXCEPT ![i] = d], told, peer_stat) /\ l2 \in [Machines -> [Machines -> Seq(Packets)]]
    BY <1>1, <1>4, <1>5, <1>6, Sent
  <1>8. link' = [link EXCEPT ![p][m] = Tail(@), ![m][p] = Append(@, Packet(d, i))]
    BY DEF Reply
  <1>9. link' = l2
    BY <1>1, <1>2, <1>6, <1>8
  <1>10. [sv EXCEPT ![i] = d] = [st EXCEPT ![i] = d]
    BY <1>2
  <1> QED  BY <1>7, <1>9, <1>10

LEMMA DoMessage ==
  ASSUME ProgramsMatch, RInv, NEW m \in Machines, NEW p \in Peers(m), HandleMessage(m, p)
  PROVE  RInv'
  <1>1. PICK st \in [Messages -> Stages] : AllMsgs(st, node, at, arrived, lost) /\ AllLinks(link, st, told, peer_stat)
    BY DEF RInv
  <1>2. /\ RTyped /\ \A x \in Machines : NodeOK(x) /\ PumpOK(x)
        /\ \A j \in stale : Message[j].buffered
    BY DEF RInv
  <1>3. Incoming(m, p, {"SHORT", "ANNOUNCE"}) /\ {"SHORT", "ANNOUNCE"} \subseteq PacketTypes /\ Again(m)
    BY StageTypes DEF HandleMessage
  <1>4. up[m] = "poll" /\ p \in Machines /\ p # m /\ link[p][m] # <<>>
    BY <1>1, <1>3, Incomes
  <1>5. PICK i \in Messages : /\ Head(link[p][m]) = Packet(st[i], i) /\ On(st[i], i, p, m)
                              /\ st[i] \in {"SHORT", "ANNOUNCE"}
                              /\ Head(link[p][m]).msg = i /\ Head(link[p][m]).type = st[i]
    BY <1>1, <1>3, Incomes
  <1>6. p = Message[i].from /\ m = Message[i].to
    BY <1>5 DEF On, From, To
  <1>7. MsgOK(i, st[i], node, at, arrived, lost)
    BY <1>1 DEF AllMsgs
  <1>8. PumpMove
    BY <1>3, <1>4, GoesRound
  <1>9. /\ UNCHANGED <<thread, chan, buf, shutdown, peer_stat>> /\ stale' = stale
        /\ told' = told /\ peer_stat' = peer_stat
    BY DEF HandleMessage, thread
  <1>10. /\ arrived \in [Machines -> SUBSET Messages] /\ lost \in SUBSET Messages /\ stale' \in SUBSET Messages
         /\ node \in [Machines -> NodeStates] /\ at \in [Machines -> Nat] /\ at[m] \in Nat /\ at[m] >= 1
    BY <1>2, <1>9 DEF RTyped, NodeStates
  <1>11. /\ RecvAt(i) \in 1..Len(Program[m]) /\ Len(Program[m]) \in Nat
         /\ Program[m][RecvAt(i)] = [op |-> "recv", msg |-> i]
    BY <1>6, RecvPosition, Programs
  <1>12. ASSUME Awaited(m, i)
         PROVE  /\ node[m] = "wait_message" /\ at[m] <= Len(Program[m]) /\ Call(m).msg = i /\ Call(m).op = "recv"
                /\ at[m] = RecvAt(i) /\ told[m] = {} /\ "wait_message" \in Waits
    <2>1. node[m] = "wait_message" /\ Call(m).msg = i /\ "wait_message" \in Waits
      BY <1>12 DEF Awaited, Waits
    <2>2. at[m] <= Len(Program[m]) /\ Call(m).op = "recv"
      BY <1>2, <2>1 DEF NodeOK
    <2>3. at[m] \in 1..Len(Program[m])
      BY <1>10, <1>11, <2>2
    <2>4. at[m] = RecvAt(i)
      BY <2>1, <2>2, <2>3, CallOwner DEF Call
    <2> QED  BY <1>2, <2>1, <2>2, <2>4, Active
  <1>13. ASSUME ~Awaited(m, i) PROVE ~(at[m] = RecvAt(i) /\ node[m] = "wait_message")
    BY <1>11, <1>13 DEF Awaited, Call
  <1>14. CASE /\ Awaited(m, i) /\ st[i] = "SHORT"
              /\ Reply(m, p, Packet("ANSWER", i)) /\ NextCall(m) /\ UNCHANGED <<arrived, lost>>
    <2>1. "ANSWER" \in PacketTypes /\ "ANSWER" \in Stages /\ On("ANSWER", i, m, p)
      BY <1>6, StageTypes DEF On, From, To
    <2>2. /\ link' \in [Machines -> [Machines -> Seq(Packets)]]
          /\ AllLinks(link', [st EXCEPT ![i] = "ANSWER"], told', peer_stat')
      BY <1>1, <1>2, <1>4, <1>5, <1>9, <1>12, <1>14, <2>1, ReplyOne
    <2>3. node' = [node EXCEPT ![m] = "run"] /\ at' = [at EXCEPT ![m] = at[m] + 1]
      BY <1>14 DEF NextCall
    <2>4. NodeMove(m, i)
      BY <1>12, <1>14, <2>3, Moves
    <2>5. /\ node'[m] = "run" /\ at'[m] = at[m] + 1 /\ node'[p] = node[p] /\ at'[p] = at[p]
      BY <1>4, <1>10, <2>3
    <2>6. SenderAt(i, "ANSWER", node', at')
      BY <1>6, <1>7, <1>14, <2>5 DEF MsgOK, SenderAt
    <2>7. ReceiverAt(i, "ANSWER", node', at')
      BY <1>6, <1>10, <1>12, <1>14, <2>5 DEF ReceiverAt
    <2>8. MsgOK(i, "ANSWER", node', at', arrived', lost')
      BY <1>7, <1>14, <2>6, <2>7 DEF MsgOK
    <2> QED  BY <1>1, <1>2, <1>8, <1>9, <1>10, <1>14, <2>1, <2>2, <2>4, <2>8, MessageTurn
  <1>15. CASE /\ Awaited(m, i) /\ st[i] = "ANNOUNCE"
              /\ Reply(m, p, Packet("ASK", i)) /\ Block(m, "wait_data") /\ UNCHANGED <<arrived, lost>>
    <2>1. "ASK" \in PacketTypes /\ "ASK" \in Stages /\ On("ASK", i, m, p)
      BY <1>6, StageTypes DEF On, From, To
    <2>2. /\ link' \in [Machines -> [Machines -> Seq(Packets)]]
          /\ AllLinks(link', [st EXCEPT ![i] = "ASK"], told', peer_stat')
      BY <1>1, <1>2, <1>4, <1>5, <1>9, <1>12, <1>15, <2>1, ReplyOne
    <2>3. node' = [node EXCEPT ![m] = "wait_data"] /\ at' = [at EXCEPT ![m] = at[m]]
      BY <1>10, <1>15 DEF Block
    <2>4. NodeMove(m, i)
      BY <1>12, <1>15, <2>3, Moves
    <2>5. /\ node'[m] = "wait_data" /\ at'[m] = at[m] /\ node'[p] = node[p] /\ at'[p] = at[p]
      BY <1>4, <1>10, <2>3
    <2>6. SenderAt(i, "ASK", node', at')
      BY <1>6, <1>7, <1>15, <2>5 DEF MsgOK, SenderAt
    <2>7. ReceiverAt(i, "ASK", node', at')
      BY <1>6, <1>10, <1>12, <1>15, <2>5 DEF ReceiverAt
    <2>8. MsgOK(i, "ASK", node', at', arrived', lost')
      BY <1>7, <1>15, <2>6, <2>7 DEF MsgOK
    <2> QED  BY <1>1, <1>2, <1>8, <1>9, <1>10, <1>15, <2>1, <2>2, <2>4, <2>8, MessageTurn
  <1>16. CASE /\ ~Awaited(m, i)
              /\ arrived' = [arrived EXCEPT ![m] = @ \cup {i}] /\ Read(m, p) /\ UNCHANGED <<nodes, lost>>
    <2>1. "arrived" \in Stages /\ "arrived" \notin PacketTypes
      BY StageTypes
    <2>2. /\ link' \in [Machines -> [Machines -> Seq(Packets)]]
          /\ AllLinks(link', [st EXCEPT ![i] = "arrived"], told', peer_stat')
      BY <1>1, <1>2, <1>4, <1>5, <1>9, <1>16, <2>1, ReadOne
    <2>3. node' = node /\ at' = at /\ lost' = lost
      BY <1>16 DEF nodes
    <2>4. NodeMove(m, i)
      BY <2>3 DEF NodeMove
    <2>5. /\ arrived' \in [Machines -> SUBSET Messages] /\ i \in arrived'[m]
          /\ \A x \in Machines, j \in Messages : j # i => (j \in arrived'[x] <=> j \in arrived[x])
      BY <1>10, <1>16
    <2>6. SenderAt(i, "arrived", node', at')
      BY <1>5, <1>7, <2>3 DEF MsgOK, SenderAt
    <2>7. ReceiverAt(i, "arrived", node', at')
      BY <1>5, <1>6, <1>7, <1>13, <1>16, <2>3 DEF MsgOK, ReceiverAt
    <2>8. MsgOK(i, "arrived", node', at', arrived', lost')
      BY <1>5, <1>6, <1>7, <2>3, <2>5, <2>6, <2>7 DEF MsgOK
    <2>9. \A j \in Messages : j # i => /\ j \in arrived'[Message[j].to] <=> j \in arrived[Message[j].to]
                                       /\ j \in lost' <=> j \in lost
      BY <2>3, <2>5, MessageTypes
    <2>10. lost' \in SUBSET Messages
      BY <1>10, <2>3
    <2> QED  BY <1>1, <1>2, <1>8, <1>9, <1>10, <2>1, <2>2, <2>4, <2>5, <2>8, <2>9, <2>10, MessageTurn
  <1>17. CASE lost' = lost \cup {i} /\ Read(m, p) /\ UNCHANGED <<nodes, arrived>>
    <2>1. "lost" \in Stages /\ "lost" \notin PacketTypes
      BY StageTypes
    <2>2. /\ link' \in [Machines -> [Machines -> Seq(Packets)]]
          /\ AllLinks(link', [st EXCEPT ![i] = "lost"], told', peer_stat')
      BY <1>1, <1>2, <1>4, <1>5, <1>9, <1>17, <2>1, ReadOne
    <2>3. node' = node /\ at' = at /\ arrived' = arrived
      BY <1>17 DEF nodes
    <2>4. NodeMove(m, i)
      BY <2>3 DEF NodeMove
    <2>5. lost' \in SUBSET Messages /\ \A j \in Messages : j # i => (j \in lost' <=> j \in lost)
      BY <1>10, <1>17
    <2>6. SenderAt(i, "lost", node', at')
      BY <1>5, <1>7, <2>3 DEF MsgOK, SenderAt
    <2>7. ReceiverAt(i, "lost", node', at')
      BY <1>5, <1>6, <1>7, <2>3 DEF MsgOK, ReceiverAt
    <2>8. MsgOK(i, "lost", node', at', arrived', lost')
      BY <1>5, <1>6, <1>7, <1>17, <2>3, <2>6, <2>7 DEF MsgOK
    <2>9. arrived' \in [Machines -> SUBSET Messages]
      BY <1>10, <2>3
    <2> QED  BY <1>1, <1>2, <1>8, <1>9, <1>10, <2>1, <2>2, <2>3, <2>4, <2>5, <2>8, <2>9, MessageTurn
  <1>18. \/ /\ Awaited(m, i) /\ st[i] = "SHORT"
            /\ Reply(m, p, Packet("ANSWER", i)) /\ NextCall(m) /\ UNCHANGED <<arrived, lost>>
         \/ /\ Awaited(m, i) /\ st[i] = "ANNOUNCE"
            /\ Reply(m, p, Packet("ASK", i)) /\ Block(m, "wait_data") /\ UNCHANGED <<arrived, lost>>
         \/ /\ ~Awaited(m, i)
            /\ arrived' = [arrived EXCEPT ![m] = @ \cup {i}] /\ Read(m, p) /\ UNCHANGED <<nodes, lost>>
         \/ lost' = lost \cup {i} /\ Read(m, p) /\ UNCHANGED <<nodes, arrived>>
    BY <1>5 DEF HandleMessage
  <1> QED  BY <1>14, <1>15, <1>16, <1>17, <1>18
LEMMA DoData ==
  ASSUME ProgramsMatch, RInv, NEW m \in Machines, NEW p \in Peers(m), HandleData(m, p)
  PROVE  RInv'
  <1>1. PICK st \in [Messages -> Stages] : AllMsgs(st, node, at, arrived, lost) /\ AllLinks(link, st, told, peer_stat)
    BY DEF RInv
  <1>2. /\ RTyped /\ \A x \in Machines : NodeOK(x) /\ PumpOK(x)
        /\ \A j \in stale : Message[j].buffered
    BY DEF RInv
  <1>3. Incoming(m, p, {"DATA"}) /\ {"DATA"} \subseteq PacketTypes /\ Again(m)
    BY StageTypes DEF HandleData
  <1>4. up[m] = "poll" /\ p \in Machines /\ p # m /\ link[p][m] # <<>>
    BY <1>1, <1>3, Incomes
  <1>5. PICK i \in Messages : /\ Head(link[p][m]) = Packet(st[i], i) /\ On(st[i], i, p, m) /\ st[i] \in {"DATA"}
                              /\ Head(link[p][m]).msg = i
    BY <1>1, <1>3, Incomes
  <1>6. st[i] = "DATA" /\ p = Message[i].from /\ m = Message[i].to
    BY <1>5 DEF On, From, To
  <1>7. MsgOK(i, st[i], node, at, arrived, lost)
    BY <1>1 DEF AllMsgs
  <1>8. PumpMove
    BY <1>3, <1>4, GoesRound
  <1>9. /\ UNCHANGED <<thread, chan, buf, shutdown, peer_stat>> /\ stale' = stale /\ arrived' = arrived
        /\ lost' = lost /\ told' = told /\ peer_stat' = peer_stat
        /\ Reply(m, p, Packet("ANSWER", i)) /\ NextCall(m)
    BY <1>5 DEF HandleData, thread
  <1>10. /\ arrived' \in [Machines -> SUBSET Messages] /\ lost' \in SUBSET Messages /\ stale' \in SUBSET Messages
         /\ node \in [Machines -> NodeStates] /\ at \in [Machines -> Nat] /\ at[m] \in Nat
    BY <1>2, <1>9 DEF RTyped, NodeStates
  <1>11. at[m] = RecvAt(i) /\ node[m] = "wait_data" /\ node[m] \in Waits
    BY <1>6, <1>7 DEF MsgOK, ReceiverAt, Waits
  <1>12. at[m] <= Len(Program[m]) /\ Call(m).msg = i
    <2>1. RecvAt(i) \in 1..Len(Program[m]) /\ Program[m][RecvAt(i)] = [op |-> "recv", msg |-> i]
      BY <1>6, RecvPosition
    <2>2. Len(Program[m]) \in Nat
      BY Programs
    <2> QED  BY <1>11, <2>1, <2>2 DEF Call
  <1>13. told[m] = {}
    BY <1>2, <1>11, Active
  <1>14. "ANSWER" \in PacketTypes /\ "ANSWER" \in Stages /\ On("ANSWER", i, m, p)
    BY <1>6, StageTypes DEF On, From, To
  <1>15. /\ link' \in [Machines -> [Machines -> Seq(Packets)]]
         /\ AllLinks(link', [st EXCEPT ![i] = "ANSWER"], told', peer_stat')
    BY <1>1, <1>2, <1>4, <1>5, <1>9, <1>13, <1>14, ReplyOne
  <1>16. node' = [node EXCEPT ![m] = "run"] /\ at' = [at EXCEPT ![m] = at[m] + 1]
    BY <1>9 DEF NextCall
  <1>17. NodeMove(m, i)
    BY <1>11, <1>12, <1>16, Moves
  <1>18. /\ node'[m] = "run" /\ at'[m] = at[m] + 1 /\ node'[p] = node[p] /\ at'[p] = at[p]
    BY <1>4, <1>10, <1>16
  <1>19. SenderAt(i, "ANSWER", node', at')
    BY <1>6, <1>7, <1>18 DEF MsgOK, SenderAt
  <1>20. ReceiverAt(i, "ANSWER", node', at')
    BY <1>6, <1>10, <1>11, <1>18 DEF ReceiverAt
  <1>21. MsgOK(i, "ANSWER", node', at', arrived', lost')
    BY <1>6, <1>7, <1>9, <1>19, <1>20 DEF MsgOK
  <1> QED  BY <1>1, <1>2, <1>8, <1>9, <1>10, <1>14, <1>15, <1>17, <1>21, MessageTurn

\* The sender of a message that is not buffered waits until it is answered.
LEMMA SenderWaits ==
  ASSUME ProgramsMatch, RTyped, NEW i \in Messages, ~Message[i].buffered, NEW c \in PacketTypes,
         MsgOK(i, c, node, at, arrived, lost)
  PROVE  LET s == Message[i].from IN
         /\ at[s] = SendAt(i) /\ node[s] = "wait_answer" /\ node[s] \in Waits
         /\ at[s] \in 1..Len(Program[s]) /\ Call(s).msg = i
  <1>1. PICK s \in Machines : s = Message[i].from
    BY MessageTypes
  <1>2. /\ SendAt(i) \in 1..Len(Program[s]) /\ Program[s][SendAt(i)] = [op |-> "send", msg |-> i]
        /\ Len(Program[s]) \in Nat /\ at[s] \in Nat
    BY <1>1, SendPosition, Programs DEF RTyped
  <1>3. c # "unsent" /\ c # "over"
    BY StageTypes
  <1>4. ~(at[s] < SendAt(i)) /\ ~(at[s] > SendAt(i)) /\ ~(at[s] = SendAt(i) /\ node[s] # "wait_answer")
    BY <1>1, <1>3 DEF MsgOK, SenderAt
  <1>5. at[s] = SendAt(i)
    BY <1>2, <1>4
  <1> QED  BY <1>1, <1>2, <1>4, <1>5 DEF Call, Waits

LEMMA DoAsk ==
  ASSUME ProgramsMatch, RInv, NEW m \in Machines, NEW p \in Peers(m), HandleAsk(m, p)
  PROVE  RInv'
  <1>1. PICK st \in [Messages -> Stages] : AllMsgs(st, node, at, arrived, lost) /\ AllLinks(link, st, told, peer_stat)
    BY DEF RInv
  <1>2. /\ RTyped /\ \A x \in Machines : NodeOK(x) /\ PumpOK(x)
        /\ \A j \in stale : Message[j].buffered
    BY DEF RInv
  <1>3. Incoming(m, p, {"ASK"}) /\ {"ASK"} \subseteq PacketTypes /\ Again(m)
    BY StageTypes DEF HandleAsk
  <1>4. up[m] = "poll" /\ p \in Machines /\ p # m /\ link[p][m] # <<>>
    BY <1>1, <1>3, Incomes
  <1>5. PICK i \in Messages : /\ Head(link[p][m]) = Packet(st[i], i) /\ On(st[i], i, p, m) /\ st[i] \in {"ASK"}
                              /\ Head(link[p][m]).msg = i
    BY <1>1, <1>3, Incomes
  <1>6. st[i] = "ASK" /\ m = Message[i].from /\ p = Message[i].to
    BY <1>5 DEF On, From, To
  <1>7. MsgOK(i, st[i], node, at, arrived, lost)
    BY <1>1 DEF AllMsgs
  <1>8. PumpMove
    BY <1>3, <1>4, GoesRound
  <1>9. Message[i].long /\ ~Message[i].buffered
    BY <1>6, <1>7, MessageTypes DEF MsgOK, ProgramsMatch
  <1>10. node[m] \in Waits
    BY <1>2, <1>3, <1>6, <1>7, <1>9, SenderWaits
  <1>11. chan[m] /\ told[m] = {}
    BY <1>2, <1>10, Active
  <1>12. /\ UNCHANGED <<thread, chan, buf, shutdown, peer_stat>> /\ stale' = stale /\ arrived' = arrived
         /\ lost' = lost /\ told' = told /\ peer_stat' = peer_stat /\ node' = node /\ at' = at
         /\ Reply(m, p, Packet("DATA", i))
    BY <1>5, <1>9, <1>11 DEF HandleAsk, Usable, thread, nodes
  <1>13. /\ arrived' \in [Machines -> SUBSET Messages] /\ lost' \in SUBSET Messages /\ stale' \in SUBSET Messages
    BY <1>2, <1>12 DEF RTyped
  <1>14. "DATA" \in PacketTypes /\ "DATA" \in Stages /\ On("DATA", i, m, p)
    BY <1>6, StageTypes DEF On, From, To
  <1>15. /\ link' \in [Machines -> [Machines -> Seq(Packets)]]
         /\ AllLinks(link', [st EXCEPT ![i] = "DATA"], told', peer_stat')
    BY <1>1, <1>2, <1>4, <1>5, <1>11, <1>12, <1>14, ReplyOne
  <1>16. NodeMove(m, i)
    BY <1>12 DEF NodeMove
  <1>17. SenderAt(i, "DATA", node', at') /\ ReceiverAt(i, "DATA", node', at')
    BY <1>6, <1>7, <1>12 DEF MsgOK, SenderAt, ReceiverAt
  <1>18. MsgOK(i, "DATA", node', at', arrived', lost')
    BY <1>6, <1>7, <1>12, <1>17 DEF MsgOK
  <1> QED  BY <1>1, <1>2, <1>8, <1>12, <1>13, <1>14, <1>15, <1>16, <1>18, MessageTurn

LEMMA DoAnswer ==
  ASSUME ProgramsMatch, RInv, NEW m \in Machines, NEW p \in Peers(m), HandleAnswer(m, p)
  PROVE  RInv'
  <1>1. PICK st \in [Messages -> Stages] : AllMsgs(st, node, at, arrived, lost) /\ AllLinks(link, st, told, peer_stat)
    BY DEF RInv
  <1>2. /\ RTyped /\ \A x \in Machines : NodeOK(x) /\ PumpOK(x)
        /\ \A j \in stale : Message[j].buffered
    BY DEF RInv
  <1>3. Incoming(m, p, {"ANSWER"}) /\ {"ANSWER"} \subseteq PacketTypes /\ Again(m)
    BY StageTypes DEF HandleAnswer
  <1>4. up[m] = "poll" /\ p \in Machines /\ p # m /\ link[p][m] # <<>>
    BY <1>1, <1>3, Incomes
  <1>5. PICK i \in Messages : /\ Head(link[p][m]) = Packet(st[i], i) /\ On(st[i], i, p, m) /\ st[i] \in {"ANSWER"}
                              /\ Head(link[p][m]).msg = i
    BY <1>1, <1>3, Incomes
  <1>6. st[i] = "ANSWER" /\ m = Message[i].from /\ p = Message[i].to
    BY <1>5 DEF On, From, To
  <1>7. MsgOK(i, st[i], node, at, arrived, lost)
    BY <1>1 DEF AllMsgs
  <1>8. PumpMove
    BY <1>3, <1>4, GoesRound
  <1>9. /\ UNCHANGED <<thread, chan, buf, shutdown, peer_stat>> /\ arrived' = arrived
        /\ lost' = lost /\ told' = told /\ peer_stat' = peer_stat /\ Read(m, p)
        /\ stale' = (IF Usable(m, i) THEN stale ELSE stale \cup {i})
        /\ IF node[m] = "wait_answer" /\ Call(m).msg = i THEN NextCall(m) ELSE node' = node /\ at' = at
    BY <1>5 DEF HandleAnswer, thread, nodes
  <1>10. /\ arrived' \in [Machines -> SUBSET Messages] /\ lost' \in SUBSET Messages /\ stale' \in SUBSET Messages
         /\ node \in [Machines -> NodeStates] /\ at \in [Machines -> Nat] /\ at[m] \in Nat
    BY <1>2, <1>9 DEF RTyped, NodeStates
  <1>11. "over" \in Stages /\ "over" \notin PacketTypes /\ "ANSWER" \in PacketTypes
    BY StageTypes
  <1>12. /\ link' \in [Machines -> [Machines -> Seq(Packets)]]
         /\ AllLinks(link', [st EXCEPT ![i] = "over"], told', peer_stat')
    BY <1>1, <1>2, <1>4, <1>5, <1>9, <1>11, ReadOne
  <1>13. Message[i].buffered \in BOOLEAN
    BY MessageTypes
  <1>14. CASE Message[i].buffered
    <2>1. ~(node[m] = "wait_answer" /\ Call(m).msg = i)
      BY <1>2, <1>14 DEF NodeOK
    <2>2. node' = node /\ at' = at
      BY <1>9, <2>1
    <2>3. NodeMove(m, i)
      BY <2>2 DEF NodeMove
    <2>4. \A j \in stale' : Message[j].buffered
      BY <1>2, <1>9, <1>14
    <2>5. SenderAt(i, "over", node', at') /\ ReceiverAt(i, "over", node', at')
      BY <1>6, <1>7, <1>14, <2>2 DEF MsgOK, SenderAt, ReceiverAt
    <2>6. MsgOK(i, "over", node', at', arrived', lost')
      BY <1>6, <1>7, <1>9, <2>5 DEF MsgOK
    <2> QED  BY <1>1, <1>2, <1>8, <1>9, <1>10, <1>11, <1>12, <2>3, <2>4, <2>6, MessageTurn
  <1>15. CASE ~Message[i].buffered
    <2>1. /\ at[m] = SendAt(i) /\ node[m] = "wait_answer" /\ node[m] \in Waits
          /\ at[m] \in 1..Len(Program[m]) /\ Call(m).msg = i
      BY <1>2, <1>6, <1>7, <1>11, <1>15, SenderWaits
    <2>2. chan[m]
      BY <1>2, <2>1, Active
    <2>3. stale' = stale
      BY <1>9, <1>15, <2>2 DEF Usable
    <2>4. node' = [node EXCEPT ![m] = "run"] /\ at' = [at EXCEPT ![m] = at[m] + 1]
      BY <1>9, <2>1 DEF NextCall
    <2>5. at[m] <= Len(Program[m])
      BY <2>1, Programs
    <2>6. NodeMove(m, i)
      BY <2>1, <2>4, <2>5, Moves
    <2>7. /\ node'[m] = "run" /\ at'[m] = at[m] + 1 /\ node'[p] = node[p] /\ at'[p] = at[p]
      BY <1>4, <1>10, <2>4
    <2>8. SenderAt(i, "over", node', at')
      BY <1>6, <1>10, <1>15, <2>1, <2>7 DEF SenderAt
    <2>9. ReceiverAt(i, "over", node', at')
      BY <1>6, <1>7, <2>7 DEF MsgOK, ReceiverAt
    <2>10. MsgOK(i, "over", node', at', arrived', lost')
      BY <1>6, <1>7, <1>9, <2>8, <2>9 DEF MsgOK
    <2> QED  BY <1>1, <1>2, <1>8, <1>9, <1>10, <1>11, <1>12, <2>3, <2>6, <2>10, MessageTurn
  <1> QED  BY <1>13, <1>14, <1>15
----------------------------------------------------------------------------
(* The end of a machine: the last message on its links. *)
LEMMA DoDown ==
  ASSUME RInv, NEW m \in Machines, NEW p \in Peers(m), HandleDown(m, p)
  PROVE  RInv'
  <1>1. PICK st \in [Messages -> Stages] : AllMsgs(st, node, at, arrived, lost) /\ AllLinks(link, st, told, peer_stat)
    BY DEF RInv
  <1>2. /\ RTyped /\ \A x \in Machines : NodeOK(x) /\ PumpOK(x)
        /\ \A j \in stale : Message[j].buffered
    BY DEF RInv
  <1>3. /\ up[m] = "poll" /\ link[p][m] # <<>> /\ Head(link[p][m]).type = "DOWN" /\ p \in Machines /\ p # m
        /\ link' = [link EXCEPT ![p][m] = Tail(@)]
        /\ peer_stat' = [peer_stat EXCEPT ![m] = peer_stat[m] \cup {p}]
    BY DEF HandleDown, Incoming, Read, Peers
  <1>4. up' = [up EXCEPT ![m] = IF peer_stat[m] \cup {p} = Peers(m) THEN "gone" ELSE "top"]
    BY DEF HandleDown, check_for_termination
  <1>5. /\ main' = main /\ netd' = netd /\ announced' = announced /\ told' = told /\ chan' = chan /\ buf' = buf
        /\ shutdown' = shutdown /\ node' = node /\ at' = at /\ arrived' = arrived /\ lost' = lost /\ stale' = stale
    BY DEF HandleDown, thread, nodes
  <1>6. PICK q : q = link[p][m]
    OBVIOUS
  <1>7. q \in Seq(Packets) /\ Apart(q) /\ q # <<>> /\ LinkOK(q, p, m, st, told, peer_stat)
    BY <1>1, <1>3, <1>6 DEF AllLinks, LinkOK
  <1>8. Head(q) = Down
    <2>1. Head(q) \in Packets
      BY <1>7, HeadTailProperties
    <2>2. Head(q) \notin [type : PacketTypes, msg : Messages]
      BY <1>3, <1>6 DEF PacketTypes
    <2> QED  BY <2>1, <2>2 DEF Packets
  <1>9. /\ Has(q, Head(q)) /\ \A y : Has(Tail(q), y) <=> Has(q, y) /\ y # Head(q)
        /\ q[Len(q)] = Head(q) => Tail(q) = <<>>
    BY <1>7, AtHead
  <1>10. m \in told[p] /\ Tail(q) = <<>>
    BY <1>7, <1>8, <1>9 DEF LinkOK
  <1>11. \A a, b \in Machines : /\ link'[a][b] = IF a = p /\ b = m THEN <<>> ELSE link[a][b]
                                /\ a \in peer_stat'[b] <=> a \in peer_stat[b] \/ (a = p /\ b = m)
    BY <1>2, <1>3, <1>6, <1>10 DEF RTyped
  <1>12. <<>> \in Seq(Packets) /\ Apart(<<>>) /\ \A y : ~Has(<<>>, y)
    BY DEF Apart, Has
  <1>13. ASSUME NEW a \in Machines, NEW b \in Machines
         PROVE  LinkOK(link'[a][b], a, b, st, told', peer_stat')
    <2>1. LinkOK(link[a][b], a, b, st, told, peer_stat)
      BY <1>1 DEF AllLinks
    <2>2. CASE a = p /\ b = m
      <3>1. ASSUME NEW i \in Messages, NEW c \in PacketTypes
            PROVE  ~(st[i] = c /\ On(c, i, p, m))
        <4>1. ~Has(q, Packet(c, i))
          <5>1. Packet(c, i) # Head(q)
            BY <1>8, PacketFacts
          <5>2. ~Has(Tail(q), Packet(c, i))
            BY <1>10, <1>12
          <5> QED  BY <1>9, <5>1, <5>2
        <4> QED  BY <1>7, <4>1 DEF LinkOK
      <3> QED  BY <1>5, <1>10, <1>11, <1>12, <2>2, <3>1 DEF LinkOK
    <2>3. CASE ~(a = p /\ b = m)
      BY <1>5, <1>11, <2>1, <2>3 DEF LinkOK
    <2> QED  BY <2>2, <2>3
  <1>14. AllLinks(link', st, told', peer_stat')
    BY <1>13 DEF AllLinks
  <1>15. link' \in [Machines -> [Machines -> Seq(Packets)]]
    <2>1. link' = [link EXCEPT ![p][m] = <<>>]
      BY <1>3, <1>6, <1>10
    <2> QED  BY <1>2, <1>12, <2>1 DEF RTyped
  <1>16. RTyped'
    <2>1. peer_stat' \in [Machines -> SUBSET Machines]
      BY <1>2, <1>3 DEF RTyped
    <2>2. PICK w \in {"gone", "top"} : up' = [up EXCEPT ![m] = w]
      BY <1>4
    <2>3. up' \in [Machines -> {"none", "new", "top", "poll", "gone"}]
      BY <1>2, <2>2 DEF RTyped
    <2> QED  BY <1>2, <1>5, <1>15, <2>1, <2>3 DEF RTyped
  <1>17. \A x \in Machines : NodeOK(x)'
    BY <1>2, <1>5 DEF NodeOK, Call
  <1>18. ASSUME NEW x \in Machines PROVE PumpOK(x)'
    <2>1. PumpOK(x) /\ up' \in [Machines -> {"none", "new", "top", "poll", "gone"}]
      BY <1>2, <1>16 DEF RTyped
    <2>2. CASE x = m
      <3>1. /\ up'[m] = (IF peer_stat[m] \cup {p} = Peers(m) THEN "gone" ELSE "top")
            /\ peer_stat'[m] = peer_stat[m] \cup {p}
        BY <1>2, <1>3, <1>4 DEF RTyped
      <3>2. main[m] \notin {"off", "failed", "tables", "wait_all", "down"}
        BY <1>3, <2>1, <2>2 DEF PumpOK
      <3>3. p \in Peers(m)
        OBVIOUS
      <3> QED  BY <1>5, <2>1, <2>2, <3>1, <3>2, <3>3 DEF PumpOK
    <2>3. CASE x # m
      <3>1. up'[x] = up[x] /\ peer_stat'[x] = peer_stat[x]
        BY <1>2, <1>3, <1>4, <2>3 DEF RTyped
      <3> QED  BY <1>5, <2>1, <3>1 DEF PumpOK
    <2> QED  BY <2>2, <2>3
  <1>19. AllMsgs(st, node', at', arrived', lost') /\ \A j \in stale' : Message[j].buffered
    BY <1>1, <1>2, <1>5
  <1> QED  BY <1>14, <1>16, <1>17, <1>18, <1>19 DEF RInv

LEMMA DoTell ==
  ASSUME RInv, NEW m \in Machines, NEW p \in Machines, TellPeer(m, p)
  PROVE  RInv'
  <1>1. PICK st \in [Messages -> Stages] : AllMsgs(st, node, at, arrived, lost) /\ AllLinks(link, st, told, peer_stat)
    BY DEF RInv
  <1>2. /\ RTyped /\ \A x \in Machines : NodeOK(x) /\ PumpOK(x)
        /\ \A j \in stale : Message[j].buffered
    BY DEF RInv
  <1>3. /\ main[m] = "tell" /\ p \in Peers(m) /\ p \notin told[m]
        /\ told' = [told EXCEPT ![m] = @ \cup {p}]
        /\ link' = [link EXCEPT ![m][p] = Append(@, Down)]
    BY DEF TellPeer, Send, Down
  <1>4. /\ main' = main /\ netd' = netd /\ announced' = announced /\ up' = up /\ chan' = chan /\ buf' = buf
        /\ shutdown' = shutdown /\ node' = node /\ at' = at /\ arrived' = arrived /\ lost' = lost /\ stale' = stale
        /\ peer_stat' = peer_stat
    BY DEF TellPeer, nodes
  <1>5. PICK q : q = link[m][p]
    OBVIOUS
  <1>6. q \in Seq(Packets) /\ Apart(q) /\ LinkOK(q, m, p, st, told, peer_stat)
    BY <1>1, <1>5 DEF AllLinks, LinkOK
  <1>7. ~Has(q, Down) /\ m \notin peer_stat[p] /\ Down \in Packets
    BY <1>3, <1>6 DEF LinkOK, Packets
  <1>8. /\ Append(q, Down) \in Seq(Packets) /\ Apart(Append(q, Down))
        /\ \A y : Has(Append(q, Down), y) <=> Has(q, y) \/ y = Down
        /\ Append(q, Down)[Len(Append(q, Down))] = Down
    BY <1>6, <1>7, AtEnd
  <1>9. \A a, b \in Machines : /\ link'[a][b] = IF a = m /\ b = p THEN Append(q, Down) ELSE link[a][b]
                               /\ b \in told'[a] <=> b \in told[a] \/ (a = m /\ b = p)
    BY <1>2, <1>3, <1>5 DEF RTyped
  <1>10. ASSUME NEW a \in Machines, NEW b \in Machines
         PROVE  LinkOK(link'[a][b], a, b, st, told', peer_stat')
    <2>1. LinkOK(link[a][b], a, b, st, told, peer_stat)
      BY <1>1 DEF AllLinks
    <2>2. CASE a = m /\ b = p
      <3>1. ASSUME NEW i \in Messages, NEW c \in PacketTypes
            PROVE  Has(Append(q, Down), Packet(c, i)) <=> st[i] = c /\ On(c, i, m, p)
        <4>1. Has(Append(q, Down), Packet(c, i)) <=> Has(q, Packet(c, i))
          BY <1>8, PacketFacts
        <4> QED  BY <1>6, <4>1 DEF LinkOK
      <3>2. PICK z : z = Append(q, Down)
        OBVIOUS
      <3>3. z \in Seq(Packets) /\ Apart(z) /\ z[Len(z)] = Down /\ p \in told'[m] /\ m \notin peer_stat'[p] /\ link'[m][p] = z
        BY <1>3, <1>4, <1>7, <1>8, <1>9, <3>2
      <3>4. \A i \in Messages, c \in PacketTypes : Has(z, Packet(c, i)) <=> st[i] = c /\ On(c, i, m, p)
        BY <3>1, <3>2
      <3>5. LinkOK(z, m, p, st, told', peer_stat')
        BY <3>3, <3>4 DEF LinkOK
      <3> QED  BY <2>2, <3>3, <3>5
    <2>3. CASE ~(a = m /\ b = p)
      BY <1>4, <1>9, <2>1, <2>3 DEF LinkOK
    <2> QED  BY <2>2, <2>3
  <1>11. AllLinks(link', st, told', peer_stat')
    BY <1>10 DEF AllLinks
  <1>12. link' \in [Machines -> [Machines -> Seq(Packets)]]
    <2>1. link' = [link EXCEPT ![m][p] = Append(q, Down)]
      BY <1>3, <1>5
    <2> QED  BY <1>2, <1>8, <2>1 DEF RTyped
  <1>13. RTyped'
    BY <1>2, <1>3, <1>4, <1>12 DEF RTyped
  <1>14. \A x \in Machines : NodeOK(x)'
    BY <1>2, <1>4 DEF NodeOK, Call
  <1>15. ASSUME NEW x \in Machines PROVE PumpOK(x)'
    <2>1. PumpOK(x)
      BY <1>2
    <2>2. CASE x = m
      <3>1. told'[m] = told[m] \cup {p} /\ shutdown[m]
        BY <1>2, <1>3 DEF RTyped, PumpOK
      <3> QED  BY <1>3, <1>4, <2>1, <2>2, <3>1 DEF PumpOK
    <2>3. CASE x # m
      <3>1. told'[x] = told[x]
        BY <1>2, <1>3, <2>3 DEF RTyped
      <3> QED  BY <1>4, <2>1, <3>1 DEF PumpOK
    <2> QED  BY <2>2, <2>3
  <1>16. AllMsgs(st, node', at', arrived', lost') /\ \A j \in stale' : Message[j].buffered
    BY <1>1, <1>2, <1>4
  <1> QED  BY <1>11, <1>13, <1>14, <1>15, <1>16 DEF RInv

----------------------------------------------------------------------------
(* The other steps leave the messages alone. *)
LEMMA ThreadTurn ==
  ASSUME RInv, NEW m \in Machines, node[m] \notin Waits,
         NEW v \in {"new", "run", "done"}, node' = [node EXCEPT ![m] = v],
         UNCHANGED <<thread, up, chan, at, arrived, link, shutdown, peer_stat, lost, stale>>,
         buf' \in [Machines -> BOOLEAN], NodeOK(m)'
  PROVE  RInv'
  <1>1. PICK st \in [Messages -> Stages] : AllMsgs(st, node, at, arrived, lost) /\ AllLinks(link, st, told, peer_stat)
    BY DEF RInv
  <1>2. /\ RTyped /\ \A x \in Machines : NodeOK(x) /\ PumpOK(x)
        /\ \A j \in stale : Message[j].buffered
    BY DEF RInv
  <1>3. /\ main' = main /\ netd' = netd /\ announced' = announced /\ told' = told /\ up' = up /\ chan' = chan
        /\ shutdown' = shutdown /\ at' = at /\ arrived' = arrived /\ lost' = lost /\ stale' = stale
        /\ peer_stat' = peer_stat /\ link' = link
    BY DEF thread
  <1>4. v \in NodeStates /\ v \notin Waits /\ node \in [Machines -> NodeStates]
    BY <1>2 DEF NodeStates, Waits, RTyped
  <1>5. RTyped'
    BY <1>2, <1>3, <1>4 DEF RTyped, NodeStates
  <1>6. ASSUME NEW x \in Machines PROVE NodeOK(x)' /\ PumpOK(x)'
    <2>1. CASE x = m
      BY <1>2, <1>3, <2>1 DEF PumpOK
    <2>2. CASE x # m
      <3>1. node'[x] = node[x]
        BY <1>4, <2>2
      <3> QED  BY <1>2, <1>3, <3>1 DEF NodeOK, PumpOK, Call
    <2> QED  BY <2>1, <2>2
  <1>7. ASSUME NEW i \in Messages PROVE MsgOK(i, st[i], node', at', arrived', lost')
    <2>1. MsgOK(i, st[i], node, at, arrived, lost)
      BY <1>1 DEF AllMsgs
    <2>2. MsgOK(i, st[i], node', at, arrived, lost)
      BY <1>4, <2>1, IdleKept
    <2> QED  BY <1>3, <2>2
  <1>8. AllMsgs(st, node', at', arrived', lost') /\ AllLinks(link', st, told', peer_stat')
    BY <1>1, <1>3, <1>7 DEF AllMsgs
  <1> QED  BY <1>2, <1>3, <1>5, <1>6, <1>8 DEF RInv

LEMMA DoThread ==
  ASSUME RInv, NEW m \in Machines, ThreadInit(m) \/ ThreadEnd(m)
  PROVE  RInv'
  <1>1. RTyped /\ NodeOK(m) /\ PumpOK(m)
    BY DEF RInv
  <1>2. CASE ThreadInit(m)
    <2>1. /\ main[m] = "run" /\ node[m] = "new" /\ node' = [node EXCEPT ![m] = "run"]
          /\ buf' = [buf EXCEPT ![m] = TRUE]
          /\ UNCHANGED <<thread, up, chan, at, arrived, link, shutdown, peer_stat, lost, stale>>
      BY <1>2 DEF ThreadInit
    <2>2. node'[m] = "run" /\ buf' \in [Machines -> BOOLEAN] /\ main' = main /\ chan' = chan
      BY <1>1, <2>1 DEF RTyped, thread
    <2>3. NodeOK(m)'
      BY <1>1, <2>1, <2>2 DEF NodeOK, Before, After, Waits
    <2>4. node[m] \notin Waits
      BY <2>1 DEF Waits
    <2> QED  BY <2>1, <2>2, <2>3, <2>4, ThreadTurn
  <1>3. CASE ThreadEnd(m)
    <2>1. /\ node[m] = "run" /\ at[m] > Len(Program[m]) /\ node' = [node EXCEPT ![m] = "done"]
          /\ buf' = [buf EXCEPT ![m] = FALSE]
          /\ UNCHANGED <<thread, up, chan, at, arrived, link, shutdown, peer_stat, lost, stale>>
      BY <1>3 DEF ThreadEnd
    <2>2. node'[m] = "done" /\ buf' \in [Machines -> BOOLEAN] /\ main' = main /\ chan' = chan /\ at' = at
      BY <1>1, <2>1 DEF RTyped, thread
    <2>3. main[m] = "run"
      BY <1>1, <2>1, Active
    <2>4. at[m] = Len(Program[m]) + 1
      BY <1>1, <2>1, Programs DEF RTyped
    <2>5. NodeOK(m)'
      BY <1>1, <2>2, <2>3, <2>4 DEF NodeOK, Before, After, Waits
    <2>6. node[m] \notin Waits
      BY <2>1 DEF Waits
    <2> QED  BY <2>1, <2>2, <2>5, <2>6, ThreadTurn
  <1> QED  BY <1>2, <1>3

LEMMA DoMovin ==
  ASSUME RInv, NEW m \in Machines, MovinUp(m) \/ MovinTop(m)
  PROVE  RInv'
  <1>1. PICK st \in [Messages -> Stages] : AllMsgs(st, node, at, arrived, lost) /\ AllLinks(link, st, told, peer_stat)
    BY DEF RInv
  <1>2. /\ RTyped /\ \A x \in Machines : NodeOK(x) /\ PumpOK(x)
        /\ \A j \in stale : Message[j].buffered
    BY DEF RInv
  <1>3. /\ main' = main /\ netd' = netd /\ announced' = announced /\ told' = told /\ chan' = chan /\ buf' = buf
        /\ shutdown' = shutdown /\ node' = node /\ at' = at /\ arrived' = arrived /\ lost' = lost /\ stale' = stale
        /\ peer_stat' = peer_stat /\ link' = link
    BY DEF MovinUp, MovinTop, thread, nodes
  <1>4. PICK w \in {"top", "poll", "gone"} : /\ up[m] \in {"new", "top"} /\ up' = [up EXCEPT ![m] = w]
                                             /\ w = "gone" => shutdown[m]
    <2>1. CASE MovinUp(m)
      BY <2>1 DEF MovinUp
    <2>2. CASE MovinTop(m)
      <3>1. PICK w : w = IF shutdown[m] THEN "gone" ELSE "poll"
        OBVIOUS
      <3> QED  BY <2>2, <3>1 DEF MovinTop
    <2> QED  BY <2>1, <2>2
  <1>5. RTyped'
    BY <1>2, <1>3, <1>4 DEF RTyped
  <1>6. ASSUME NEW x \in Machines PROVE NodeOK(x)' /\ PumpOK(x)'
    <2>1. NodeOK(x)'
      BY <1>2, <1>3 DEF NodeOK, Call
    <2>2. up'[x] = IF x = m THEN w ELSE up[x]
      BY <1>2, <1>4 DEF RTyped
    <2>3. PumpOK(x)'
      BY <1>2, <1>3, <1>4, <2>2 DEF PumpOK
    <2> QED  BY <2>1, <2>3
  <1>7. AllMsgs(st, node', at', arrived', lost') /\ AllLinks(link', st, told', peer_stat')
    BY <1>1, <1>3
  <1> QED  BY <1>2, <1>3, <1>5, <1>6, <1>7 DEF RInv
MainStates == Before \cup {"run"} \cup After

\* The main thread of machine m goes on.
LEMMA MainTurn ==
  ASSUME RInv, NEW m \in Machines, NEW w \in MainStates, main' = [main EXCEPT ![m] = w],
         main[m] \notin {"wait_all", "down"} \/ w = "down",
         UNCHANGED <<buf, nodes, arrived, link, peer_stat, told, lost, stale>>,
         netd' \in BOOLEAN, announced' \in BOOLEAN,
         NEW u \in {"none", "new", "top", "poll", "gone"}, up' = [up EXCEPT ![m] = u],
         NEW c \in BOOLEAN, chan' = [chan EXCEPT ![m] = c],
         NEW s \in BOOLEAN, shutdown' = [shutdown EXCEPT ![m] = s],
         NodeOK(m)', PumpOK(m)'
  PROVE  RInv'
  <1>1. PICK st \in [Messages -> Stages] : AllMsgs(st, node, at, arrived, lost) /\ AllLinks(link, st, told, peer_stat)
    BY DEF RInv
  <1>2. /\ RTyped /\ \A x \in Machines : NodeOK(x) /\ PumpOK(x)
        /\ \A j \in stale : Message[j].buffered
    BY DEF RInv
  <1>3. /\ told' = told /\ buf' = buf /\ node' = node /\ at' = at /\ arrived' = arrived /\ lost' = lost
        /\ stale' = stale /\ peer_stat' = peer_stat /\ link' = link
    BY DEF nodes
  <1>4. /\ main' \in [Machines -> MainStates] /\ up' \in [Machines -> {"none", "new", "top", "poll", "gone"}]
        /\ chan' \in [Machines -> BOOLEAN] /\ shutdown' \in [Machines -> BOOLEAN]
    BY <1>2 DEF RTyped, MainStates
  <1>5. RTyped'
    BY <1>2, <1>3, <1>4 DEF RTyped, MainStates
  <1>6. ASSUME NEW x \in Machines, x # m PROVE NodeOK(x)' /\ PumpOK(x)'
    <2>1. main'[x] = main[x] /\ up'[x] = up[x] /\ chan'[x] = chan[x] /\ shutdown'[x] = shutdown[x]
      BY <1>2, <1>6 DEF RTyped
    <2>2. NodeOK(x)'
      BY <1>2, <1>3, <2>1 DEF NodeOK, Call
    <2>3. ASSUME main[x] = "down", NEW y \in Machines PROVE main'[y] \in {"wait_all", "down"}
      <3>1. main[y] \in {"wait_all", "down"} /\ main[m] \in {"wait_all", "down"}
        BY <1>2, <2>3 DEF PumpOK
      <3>2. main'[y] = IF y = m THEN w ELSE main[y]
        BY <1>2 DEF RTyped
      <3> QED  BY <3>1, <3>2
    <2>4. PumpOK(x)'
      BY <1>2, <1>3, <2>1, <2>3 DEF PumpOK
    <2> QED  BY <2>2, <2>4
  <1>7. \A x \in Machines : NodeOK(x)' /\ PumpOK(x)'
    BY <1>6
  <1>8. AllMsgs(st, node', at', arrived', lost') /\ AllLinks(link', st, told', peer_stat')
    BY <1>1, <1>3
  <1> QED  BY <1>2, <1>3, <1>5, <1>7, <1>8 DEF RInv

\* The steps that move only the main thread.
LEMMA OnlyMain ==
  ASSUME RInv, NEW m \in Machines, NEW w \in MainStates, main' = [main EXCEPT ![m] = w],
         UNCHANGED <<up, chan, buf, nodes, arrived, link, shutdown, peer_stat, told, lost, stale>>,
         netd' \in BOOLEAN, announced' \in BOOLEAN,
         \/ main[m] = "off" /\ w \in {"failed", "tables"}
         \/ main[m] = "tables" /\ w = "tables"
         \/ main[m] = "spin" /\ w = "intra_init"
         \/ main[m] = "run" /\ w = "intra_end" /\ node[m] = "done"
         \/ main[m] = "tell" /\ w = "wait_all" /\ up[m] = "gone"
         \/ main[m] = "wait_all" /\ w = "down" /\ \A p \in Machines : main[p] \in {"wait_all", "down"}
  PROVE  RInv'
  <1>1. RTyped /\ NodeOK(m) /\ PumpOK(m)
    BY DEF RInv
  <1>2. /\ told' = told /\ node' = node /\ at' = at /\ up' = up /\ chan' = chan /\ shutdown' = shutdown
        /\ peer_stat' = peer_stat
    BY DEF nodes
  <1>3. main'[m] = w /\ \A x \in Machines : x # m => main'[x] = main[x]
    BY <1>1 DEF RTyped
  <1>4. NodeOK(m)'
    BY <1>1, <1>2, <1>3 DEF NodeOK, Call, Before, After
  <1>5. PumpOK(m)'
    BY <1>1, <1>2, <1>3 DEF PumpOK
  <1>6. /\ up[m] \in {"none", "new", "top", "poll", "gone"} /\ up' = [up EXCEPT ![m] = up[m]]
        /\ chan[m] \in BOOLEAN /\ chan' = [chan EXCEPT ![m] = chan[m]]
        /\ shutdown[m] \in BOOLEAN /\ shutdown' = [shutdown EXCEPT ![m] = shutdown[m]]
    BY <1>1, <1>2 DEF RTyped
  <1>7. main[m] \notin {"wait_all", "down"} \/ w = "down"
    OBVIOUS
  <1> QED  BY <1>4, <1>5, <1>6, <1>7, MainTurn

LEMMA MainStateNames ==
  {"failed", "tables", "spin", "intra_init", "run", "intra_end", "netq_end", "tell", "wait_all", "down"} \subseteq MainStates
  BY DEF MainStates, Before, After

LEMMA DoMain ==
  ASSUME RInv, NEW m \in Machines, MainStep(m)
  PROVE  RInv'
  <1>1. RTyped /\ NodeOK(m) /\ PumpOK(m)
    BY DEF RInv
  <1>2. netd \in BOOLEAN /\ announced \in BOOLEAN /\ main = [main EXCEPT ![m] = main[m]]
    BY <1>1 DEF RTyped
  <1>3. CASE m = Master /\ Announce
    <2>1. /\ main[m] = "tables" /\ main' = [main EXCEPT ![m] = "tables"] /\ announced' = TRUE /\ netd' = netd
      BY <1>2, <1>3 DEF Announce
    <2>2. UNCHANGED <<up, chan, buf, nodes, arrived, link, shutdown, peer_stat, told, lost, stale>>
      BY <1>3 DEF Announce
    <2> QED  BY <1>2, <2>1, <2>2, OnlyMain, MainStateNames
  <1>4. CASE m = Master /\ \E grp, res, readable \in BOOLEAN : StartMaster(grp, res, readable)
    <2>1. PICK grp \in BOOLEAN, res \in BOOLEAN, readable \in BOOLEAN : StartMaster(grp, res, readable)
      BY <1>4
    <2>2. PICK w : w = IF MacListFound(grp, res, readable) THEN "tables" ELSE "failed"
      OBVIOUS
    <2>3. /\ main[m] = "off" /\ main' = [main EXCEPT ![m] = w] /\ announced' = announced
          /\ netd' = MacListFound(grp, res, readable)
          /\ UNCHANGED <<up, chan, buf, nodes, arrived, link, shutdown, peer_stat, told, lost, stale>>
      BY <1>4, <2>1, <2>2 DEF StartMaster, ToMain
    <2>4. netd' \in BOOLEAN
      BY <2>3 DEF MacListFound
    <2>5. w \in {"failed", "tables"}
      BY <2>2
    <2> QED  BY <1>2, <2>3, <2>4, <2>5, OnlyMain, MainStateNames
  <1>5. CASE StartOther(m)
    <2>1. /\ main[m] = "off" /\ main' = [main EXCEPT ![m] = "tables"] /\ announced' = announced /\ netd' = netd
          /\ UNCHANGED <<up, chan, buf, nodes, arrived, link, shutdown, peer_stat, told, lost, stale>>
      BY <1>5 DEF StartOther, ToMain
    <2> QED  BY <1>2, <2>1, OnlyMain, MainStateNames
  <1>6. CASE CreateMovin(m)
    <2>1. /\ main[m] = "tables" /\ main' = [main EXCEPT ![m] = "spin"] /\ announced' = announced /\ netd' = netd
          /\ up' = [up EXCEPT ![m] = "new"]
          /\ UNCHANGED <<chan, buf, nodes, arrived, link, shutdown, peer_stat, told, lost, stale>>
      BY <1>6 DEF CreateMovin, ToMain
    <2>2. main'[m] = "spin" /\ up'[m] = "new" /\ node' = node /\ at' = at /\ chan' = chan /\ shutdown' = shutdown
      BY <1>1, <2>1 DEF RTyped, nodes
    <2>3. NodeOK(m)'
      BY <1>1, <2>1, <2>2 DEF NodeOK, Call, Before, After
    <2>4. PumpOK(m)'
      BY <1>1, <2>1, <2>2 DEF PumpOK
    <2>5. /\ chan[m] \in BOOLEAN /\ chan' = [chan EXCEPT ![m] = chan[m]]
          /\ shutdown[m] \in BOOLEAN /\ shutdown' = [shutdown EXCEPT ![m] = shutdown[m]]
      BY <1>1, <2>2 DEF RTyped
    <2>6. UNCHANGED <<buf, nodes, arrived, link, peer_stat, told, lost, stale>>
      BY <2>1
    <2> QED  BY <1>2, <2>1, <2>3, <2>4, <2>5, <2>6, MainTurn, MainStateNames
  <1>7. CASE NetqOn(m)
    <2>1. /\ main[m] = "spin" /\ main' = [main EXCEPT ![m] = "intra_init"] /\ announced' = announced /\ netd' = netd
          /\ UNCHANGED <<up, chan, buf, nodes, arrived, link, shutdown, peer_stat, told, lost, stale>>
      BY <1>7 DEF NetqOn, ToMain
    <2> QED  BY <1>2, <2>1, OnlyMain, MainStateNames
  <1>8. CASE IntraInit(m)
    <2>1. /\ main[m] = "intra_init" /\ main' = [main EXCEPT ![m] = "run"] /\ announced' = announced /\ netd' = netd
          /\ chan' = [chan EXCEPT ![m] = TRUE]
          /\ UNCHANGED <<up, buf, nodes, arrived, link, shutdown, peer_stat, told, lost, stale>>
      BY <1>8 DEF IntraInit, ToMain
    <2>2. main'[m] = "run" /\ chan'[m] = TRUE /\ node' = node /\ at' = at /\ up' = up /\ shutdown' = shutdown
      BY <1>1, <2>1 DEF RTyped, nodes
    <2>3. NodeOK(m)'
      BY <1>1, <2>1, <2>2 DEF NodeOK, Call, Before, After
    <2>4. PumpOK(m)'
      BY <1>1, <2>1, <2>2 DEF PumpOK
    <2>5. /\ up[m] \in {"none", "new", "top", "poll", "gone"} /\ up' = [up EXCEPT ![m] = up[m]]
          /\ shutdown[m] \in BOOLEAN /\ shutdown' = [shutdown EXCEPT ![m] = shutdown[m]]
      BY <1>1, <2>2 DEF RTyped
    <2>6. UNCHANGED <<buf, nodes, arrived, link, peer_stat, told, lost, stale>>
      BY <2>1
    <2> QED  BY <1>2, <2>1, <2>3, <2>4, <2>5, <2>6, MainTurn, MainStateNames
  <1>9. CASE JoinNodes(m)
    <2>1. /\ main[m] = "run" /\ node[m] = "done" /\ main' = [main EXCEPT ![m] = "intra_end"]
          /\ announced' = announced /\ netd' = netd
          /\ UNCHANGED <<up, chan, buf, nodes, arrived, link, shutdown, peer_stat, told, lost, stale>>
      BY <1>9 DEF JoinNodes, ToMain
    <2> QED  BY <1>2, <2>1, OnlyMain, MainStateNames
  <1>10. CASE IntraEnd(m)
    <2>1. /\ main[m] = "intra_end" /\ main' = [main EXCEPT ![m] = "netq_end"] /\ announced' = announced /\ netd' = netd
          /\ chan' = [chan EXCEPT ![m] = FALSE]
          /\ UNCHANGED <<up, buf, nodes, arrived, link, shutdown, peer_stat, told, lost, stale>>
      BY <1>10 DEF IntraEnd, ToMain
    <2>2. main'[m] = "netq_end" /\ chan'[m] = FALSE /\ node' = node /\ at' = at /\ up' = up /\ shutdown' = shutdown
      BY <1>1, <2>1 DEF RTyped, nodes
    <2>3. NodeOK(m)'
      BY <1>1, <2>1, <2>2 DEF NodeOK, Call, Before, After
    <2>4. PumpOK(m)'
      BY <1>1, <2>1, <2>2 DEF PumpOK
    <2>5. /\ up[m] \in {"none", "new", "top", "poll", "gone"} /\ up' = [up EXCEPT ![m] = up[m]]
          /\ shutdown[m] \in BOOLEAN /\ shutdown' = [shutdown EXCEPT ![m] = shutdown[m]]
      BY <1>1, <2>2 DEF RTyped
    <2>6. UNCHANGED <<buf, nodes, arrived, link, peer_stat, told, lost, stale>>
      BY <2>1
    <2> QED  BY <1>2, <2>1, <2>3, <2>4, <2>5, <2>6, MainTurn, MainStateNames
  <1>11. CASE NetqEnd(m)
    <2>1. /\ main[m] = "netq_end" /\ main' = [main EXCEPT ![m] = "tell"] /\ announced' = announced /\ netd' = netd
          /\ shutdown' = [shutdown EXCEPT ![m] = TRUE]
          /\ UNCHANGED <<up, chan, buf, nodes, arrived, link, peer_stat, told, lost, stale>>
      BY <1>11 DEF NetqEnd, ToMain
    <2>2. main'[m] = "tell" /\ shutdown'[m] = TRUE /\ node' = node /\ at' = at /\ up' = up /\ chan' = chan
      BY <1>1, <2>1 DEF RTyped, nodes
    <2>3. NodeOK(m)'
      BY <1>1, <2>1, <2>2 DEF NodeOK, Call, Before, After
    <2>4. PumpOK(m)'
      BY <1>1, <2>1, <2>2 DEF PumpOK
    <2>5. /\ up[m] \in {"none", "new", "top", "poll", "gone"} /\ up' = [up EXCEPT ![m] = up[m]]
          /\ chan[m] \in BOOLEAN /\ chan' = [chan EXCEPT ![m] = chan[m]]
      BY <1>1, <2>2 DEF RTyped
    <2>6. UNCHANGED <<buf, nodes, arrived, link, peer_stat, told, lost, stale>>
      BY <2>1
    <2> QED  BY <1>2, <2>1, <2>3, <2>4, <2>5, <2>6, MainTurn, MainStateNames
  <1>12. CASE \E p \in Machines : TellPeer(m, p)
    BY <1>12, DoTell
  <1>13. CASE JoinMovin(m)
    <2>1. /\ main[m] = "tell" /\ up[m] = "gone" /\ main' = [main EXCEPT ![m] = "wait_all"]
          /\ announced' = announced /\ netd' = netd
          /\ UNCHANGED <<up, chan, buf, nodes, arrived, link, shutdown, peer_stat, told, lost, stale>>
      BY <1>13 DEF JoinMovin, ToMain
    <2> QED  BY <1>2, <2>1, OnlyMain, MainStateNames
  <1>14. CASE WaitAll(m)
    <2>1. /\ main[m] = "wait_all" /\ \A p \in Machines : main[p] \in {"wait_all", "down"}
          /\ main' = [main EXCEPT ![m] = "down"] /\ announced' = announced /\ netd' = netd
          /\ UNCHANGED <<up, chan, buf, nodes, arrived, link, shutdown, peer_stat, told, lost, stale>>
      BY <1>14 DEF WaitAll, ToMain
    <2> QED  BY <1>2, <2>1, OnlyMain, MainStateNames
  <1> QED  BY <1>3, <1>4, <1>5, <1>6, <1>7, <1>8, <1>9, <1>10, <1>11, <1>12, <1>13, <1>14 DEF MainStep

----------------------------------------------------------------------------
LEMMA RuntimeStep ==
  ASSUME ProgramsMatch, RInv, [RuntimeNext]_runtime
  PROVE  RInv'
  <1>1. CASE UNCHANGED runtime
    BY <1>1 DEF runtime, RInv, RTyped, NodeOK, PumpOK, Call
  <1>2. CASE RuntimeNext
    <2>1. PICK m \in Machines : MainStep(m) \/ NodeStep(m) \/ MovinStep(m)
      BY <1>2 DEF RuntimeNext
    <2>2. CASE MainStep(m)
      BY <2>2, DoMain
    <2>3. CASE NodeStep(m)
      BY <2>3, DoThread, DoSend, DoPost, DoRecv DEF NodeStep
    <2>4. CASE MovinStep(m)
      BY <2>4, DoMovin, DoDown, DoMessage, DoData, DoAsk, DoAnswer DEF MovinStep
    <2> QED  BY <2>1, <2>2, <2>3, <2>4
  <1> QED  BY <1>1, <1>2

LEMMA RuntimeStart ==
  ASSUME ProgramsMatch, RuntimeInit
  PROVE  RInv
  <1>1. PICK st : st = [i \in Messages |-> "unsent"]
    OBVIOUS
  <1>2. st \in [Messages -> Stages] /\ \A i \in Messages : st[i] = "unsent"
    BY <1>1, StageTypes
  <1>3. RTyped
    <2>1. \A m \in Machines : Len(Program[m]) \in Nat
      BY Programs
    <2>2. \A m \in Machines : at[m] \in 1..(Len(Program[m]) + 1)
      BY <2>1 DEF RuntimeInit
    <2>3. <<>> \in Seq(Packets)
      OBVIOUS
    <2>4. link \in [Machines -> [Machines -> Seq(Packets)]]
      BY <2>3 DEF RuntimeInit
    <2> QED  BY <2>2, <2>4 DEF RuntimeInit, RTyped, Before
  <1>4. ASSUME NEW m \in Machines PROVE NodeOK(m) /\ PumpOK(m)
    BY DEF RuntimeInit, NodeOK, PumpOK, Before, After, Waits
  <1>5. ASSUME NEW i \in Messages PROVE MsgOK(i, st[i], node, at, arrived, lost)
    <2>1. Message[i].from \in Machines /\ Message[i].to \in Machines
      BY MessageTypes
    <2>2. SendAt(i) \in 1..Len(Program[Message[i].from]) /\ RecvAt(i) \in 1..Len(Program[Message[i].to])
      BY SendPosition, RecvPosition
    <2>3. SendAt(i) \in Nat /\ SendAt(i) >= 1 /\ RecvAt(i) \in Nat /\ RecvAt(i) >= 1
      BY <2>1, <2>2, Programs
    <2>4. /\ \A m \in Machines : at[m] = 1 /\ node[m] = "new" /\ arrived[m] = {}
          /\ lost = {}
      BY DEF RuntimeInit
    <2>5. SenderAt(i, "unsent", node, at)
      BY <2>1, <2>3, <2>4 DEF SenderAt
    <2>6. ReceiverAt(i, "unsent", node, at)
      BY <2>1, <2>3, <2>4 DEF ReceiverAt
    <2> QED  BY <1>2, <2>1, <2>4, <2>5, <2>6 DEF MsgOK
  <1>6. ASSUME NEW m \in Machines, NEW p \in Machines PROVE LinkOK(link[m][p], m, p, st, told, peer_stat)
    <2>1. link[m][p] = <<>> /\ told[m] = {} /\ peer_stat[p] = {}
      BY DEF RuntimeInit
    <2>2. <<>> \in Seq(Packets) /\ Apart(<<>>) /\ \A y : ~Has(<<>>, y)
      BY DEF Apart, Has
    <2>3. \A i \in Messages, c \in PacketTypes : st[i] # c
      BY <1>2, StageTypes
    <2> QED  BY <2>1, <2>2, <2>3 DEF LinkOK
  <1>7. AllMsgs(st, node, at, arrived, lost) /\ AllLinks(link, st, told, peer_stat)
    BY <1>5, <1>6 DEF AllMsgs, AllLinks
  <1>8. stale = {}
    BY DEF RuntimeInit
  <1> QED  BY <1>2, <1>3, <1>4, <1>7, <1>8 DEF RInv
----------------------------------------------------------------------------
(* What the invariant says. *)
LEMMA NothingRuns ==
  ASSUME RInv
  PROVE  NothingUsedAfterFree
  <1>1. ASSUME NEW m \in Machines, main[m] = "down"
        PROVE  /\ up[m] = "gone" /\ node[m] = "done"
               /\ \A p \in Machines : node[p] = "done" /\ main[p] \in {"wait_all", "down"}
    <2>1. up[m] = "gone" /\ \A p \in Machines : main[p] \in {"wait_all", "down"}
      BY <1>1 DEF RInv, PumpOK
    <2>2. \A p \in Machines : node[p] = "done"
      BY <2>1 DEF RInv, NodeOK, After
    <2> QED  BY <2>1, <2>2
  <1> QED  BY <1>1 DEF RInv, NothingUsedAfterFree, NothingRunsAfterDown, OnlyBufferedIsLeft

LEMMA TypesKept ==
  ASSUME RInv
  PROVE  RuntimeTypeOK
  <1>1. RTyped /\ \A m \in Machines : PumpOK(m)
    BY DEF RInv
  <1>2. ASSUME NEW m \in Machines
        PROVE  /\ main[m] \in {"off", "failed", "tables", "spin", "intra_init", "run", "intra_end",
                               "netq_end", "tell", "wait_all", "down"}
               /\ up[m] \in {"none", "new", "top", "poll", "gone"}
               /\ node[m] \in {"new", "run", "wait_message", "wait_data", "wait_answer", "done"}
               /\ at[m] \in 1..(Len(Program[m]) + 1)
    BY <1>1 DEF RTyped, Before, After, Waits
  <1>3. ASSUME NEW m \in Machines
        PROVE  /\ arrived[m] \subseteq Messages /\ {chan[m], buf[m], shutdown[m]} \subseteq BOOLEAN
               /\ peer_stat[m] \cup told[m] \subseteq Peers(m)
    BY <1>1 DEF RTyped, PumpOK
  <1>4. netd \in BOOLEAN /\ announced \in BOOLEAN /\ lost \cup stale \subseteq Messages
    BY <1>1 DEF RTyped
  <1> QED  BY <1>2, <1>3, <1>4 DEF RuntimeTypeOK

\* A pump that is gone from a running machine: all others are done, and sent nothing more.
LEMMA PeersDone ==
  ASSUME RInv, NEW m \in Machines, up[m] = "gone", ~shutdown[m], NEW p \in Peers(m)
  PROVE  link[p][m] = <<>> /\ node[p] = "done" /\ at[p] = Len(Program[p]) + 1
  <1>1. PICK st \in [Messages -> Stages] : AllMsgs(st, node, at, arrived, lost) /\ AllLinks(link, st, told, peer_stat)
    BY DEF RInv
  <1>2. p \in peer_stat[m] /\ p \in Machines
    BY DEF RInv, PumpOK, Peers
  <1>3. m \in told[p] /\ link[p][m] = <<>>
    BY <1>1, <1>2 DEF AllLinks, LinkOK
  <1>4. main[p] \in After
    BY <1>2, <1>3 DEF RInv, PumpOK, After
  <1> QED  BY <1>2, <1>3, <1>4 DEF RInv, NodeOK

LEMMA PumpStays ==
  ASSUME ProgramsMatch, RInv
  PROVE  PumpThere
  <1> SUFFICES ASSUME NEW m \in Machines, node[m] \in Waits, lost = {}, up[m] = "gone"
               PROVE  FALSE
    BY DEF PumpThere, Waits
  <1>1. PICK st \in [Messages -> Stages] : AllMsgs(st, node, at, arrived, lost) /\ AllLinks(link, st, told, peer_stat)
    BY DEF RInv
  <1>2. RTyped /\ NodeOK(m) /\ PumpOK(m)
    BY DEF RInv
  <1>3. ~shutdown[m]
    BY <1>2, Active
  <1>4. at[m] \in 1..Len(Program[m])
    BY <1>2, Programs DEF NodeOK, RTyped
  <1>5. PICK i \in Messages : i = Program[m][at[m]].msg
    BY <1>4, CallOwner
  <1>6. MsgOK(i, st[i], node, at, arrived, lost) /\ st[i] \in Stages
    BY <1>1 DEF AllMsgs
  <1>7. /\ Program[m][at[m]].op = "send" => m = Message[i].from /\ at[m] = SendAt(i)
        /\ Program[m][at[m]].op = "recv" => m = Message[i].to /\ at[m] = RecvAt(i)
    BY <1>4, <1>5, CallOwner
  <1>8. /\ Message[i].from \in Machines /\ Message[i].to \in Machines /\ Message[i].from # Message[i].to
        /\ Message[i].buffered \in BOOLEAN
    BY MessageTypes
  <1>9. /\ SendAt(i) \in 1..Len(Program[Message[i].from]) /\ Len(Program[Message[i].from]) \in Nat
        /\ RecvAt(i) \in 1..Len(Program[Message[i].to]) /\ Len(Program[Message[i].to]) \in Nat
    BY <1>8, SendPosition, RecvPosition, Programs
  <1>10. ASSUME NEW p \in Machines, p # m
         PROVE  /\ node[p] = "done" /\ at[p] = Len(Program[p]) + 1
                /\ \A c \in PacketTypes : ~(st[i] = c /\ On(c, i, p, m))
    <2>1. link[p][m] = <<>> /\ node[p] = "done" /\ at[p] = Len(Program[p]) + 1
      BY <1>3, <1>10, PeersDone DEF Peers
    <2>2. \A y : ~Has(<<>>, y)
      BY DEF Has
    <2> QED  BY <1>1, <2>1, <2>2 DEF AllLinks, LinkOK
  <1>11. CASE node[m] \in {"wait_message", "wait_data"}
    <2>1. PICK p \in Machines : p = Message[i].from
      BY <1>8
    <2>2. m = Message[i].to /\ at[m] = RecvAt(i) /\ p # m
      BY <1>2, <1>5, <1>7, <1>8, <1>11, <2>1 DEF NodeOK, Call
    <2>3. node[p] = "done" /\ at[p] > SendAt(i) /\ at[p] \in Nat /\ SendAt(i) \in Nat
      BY <1>9, <1>10, <2>1, <2>2
    <2>4. st[i] # "unsent"
      BY <1>6, <1>8, <2>1, <2>3 DEF MsgOK, SenderAt
    <2>5. st[i] # "lost" /\ st[i] \notin {"ANSWER", "over"}
      BY <1>6, <1>9, <2>2 DEF MsgOK, ReceiverAt
    <2>6. CASE node[m] = "wait_data"
      <3>1. st[i] \in {"ASK", "DATA"}
        BY <1>6, <2>2, <2>6 DEF MsgOK, ReceiverAt
      <3>2. ~Message[i].buffered /\ st[i] \in PacketTypes
        <4>1. Message[i].long
          BY <1>6, <3>1 DEF MsgOK
        <4>2. ~Message[i].buffered
          BY <4>1 DEF ProgramsMatch
        <4>3. st[i] \in PacketTypes
          BY <3>1, StageTypes
        <4> QED  BY <4>2, <4>3
      <3>3. node[p] = "wait_answer"
        BY <1>2, <1>6, <2>1, <3>2, SenderWaits
      <3> QED  BY <2>3, <3>3
    <2>7. CASE node[m] = "wait_message"
      <3>1. st[i] \notin {"arrived", "ASK", "DATA"}
        BY <1>6, <2>2, <2>7 DEF MsgOK, ReceiverAt
      <3>2. st[i] \in {"SHORT", "ANNOUNCE"}
        BY <1>6, <2>4, <2>5, <3>1 DEF Stages, PacketTypes
      <3>3. st[i] \in PacketTypes /\ On(st[i], i, p, m)
        BY <2>1, <2>2, <3>2, StageTypes DEF On, From, To
      <3> QED  BY <1>10, <2>2, <3>3
    <2> QED  BY <1>11, <2>6, <2>7
  <1>12. CASE node[m] = "wait_answer"
    <2>1. PICK p \in Machines : p = Message[i].to
      BY <1>8
    <2>2. m = Message[i].from /\ at[m] = SendAt(i) /\ p # m /\ ~Message[i].buffered
      BY <1>2, <1>5, <1>7, <1>8, <1>12, <2>1 DEF NodeOK, Call
    <2>3. at[p] > RecvAt(i)
      BY <1>9, <1>10, <2>1, <2>2
    <2>4. st[i] \in {"ANSWER", "over"}
      BY <1>6, <2>1, <2>3 DEF MsgOK, ReceiverAt
    <2>5. st[i] # "over"
      BY <1>6, <1>9, <2>2 DEF MsgOK, SenderAt
    <2>6. st[i] \in PacketTypes /\ On(st[i], i, p, m)
      BY <2>1, <2>2, <2>4, <2>5, StageTypes DEF On, From, To
    <2> QED  BY <1>10, <2>2, <2>6
  <1> QED  BY <1>11, <1>12 DEF Waits

LEMMA Pumps ==
  ASSUME ProgramsMatch, RInv
  PROVE  PumpSound
  <1>1. PumpLeavesNothing
    BY PeersDone DEF PumpLeavesNothing
  <1> QED  BY <1>1, TypesKept, PumpStays DEF PumpSound

----------------------------------------------------------------------------
\* The inductive invariant holds in every behaviour of the runtime (netq.c,
\* mpi_main.c, mpi_init.c), whatever the machines and their programs.
THEOREM RuntimeInvariant ==
  ASSUME ProgramsMatch
  PROVE  RuntimeSpec => []RInv
  <1>1. RuntimeInit => RInv
    BY RuntimeStart
  <1>2. RInv /\ [RuntimeNext]_runtime => RInv'
    BY RuntimeStep
  <1> QED  BY <1>1, <1>2, PTL DEF RuntimeSpec

\* The runtime is taken down in an order that nobody suffers from, for any number of
\* machines and any matching programs: no thread runs on what tmpi_main_end and
\* netq_end have destroyed, and only a buffered message is answered too late.
THEOREM TakenDownInOrder ==
  ASSUME ProgramsMatch
  PROVE  RuntimeSpec => []NothingUsedAfterFree
  <1>1. RInv => NothingUsedAfterFree
    BY NothingRuns
  <1> QED  BY <1>1, RuntimeInvariant, PTL

\* The movin thread (netq_movin_main, check_for_termination) is there as long as a node
\* of its machine waits, and ends with nothing left on its connections, for any number of
\* machines and any matching programs.
THEOREM PumpOutlivesItsUse ==
  ASSUME ProgramsMatch
  PROVE  RuntimeSpec => []PumpSound
  <1>1. RInv => PumpSound
    BY Pumps
  <1> QED  BY <1>1, RuntimeInvariant, PTL
=============================================================================
