---------------------------- MODULE InterProofs ----------------------------
(***************************************************************************)
(* Messages between machines: what holds of any number of machines, nodes, *)
(* handles and messages, on connections of any capacity.                   *)
(***************************************************************************)
EXTENDS Inter, Integers, SequenceTheorems, FiniteSetTheorems, TLAPS

\* Programs in which the code does not lose track of a request: persistent requests are for
\* sends that are waited for, and no ready send is cancelled.
Careful ==
  \A c \in SendCalls :
    /\ c.type = "PERSISTENT" => c.mode \in {"SYNC", "READY"}
    /\ c.mode = "READY" /\ "cancel" \in RequestCalls => c.type = "SEND"

----------------------------------------------------------------------------
(* Types. *)
SendTypes == {"SEND", "IMMEDIATE", "PERSISTENT"}
RecvTypes == {"RECV", "IMMEDIATE"}
Modes == {"STANDARD", "BUFFERED", "SYNC", "READY"}
SendHandle ==
  [stat : Stats, type : SendTypes, mode : Modes, dest : Nodes \cup {Nobody}, long : BOOLEAN,
   sys_buf : BOOLEAN, curdata : {"user", "sys", "garbage"}, msg : Nat, live : BOOLEAN,
   held : BOOLEAN]
RecvStats == {"NONE", "CREATE", "MATCH", "FREE", "PEND_STRT", "PEND_WAIT", "PEND_DATA", "PEND_DWAT"}
RecvHandle == [stat : RecvStats, type : RecvTypes, msg : Nat, live : BOOLEAN, held : BOOLEAN]
SendLocs == {"start_sh", "enter_wait_sh", "wait_sh", "sleep_sh", "wake_sh", "sleep_rdy", "cancel_sh"}
RecvLocs == {"start_rh", "answer", "enter_wait_rh", "wait_rh", "sleep_rh", "wake_rh"}
Numbers == Nodes \X Nat

Typed ==
  /\ sh \in [SH -> SendHandle] /\ rh \in [RH -> RecvHandle]
  /\ sq \in [Nodes -> Seq(Messages)] /\ rq \in [Nodes -> Seq(RH)]
  /\ chlock \in [Nodes -> Nodes \cup {Nobody}] /\ shlock \in [SH -> Machines \cup {Nobody}]
  /\ \A n \in Nodes : chlock[n] \in {n, Nobody}
  /\ conn \in [Machines -> [Machines -> Seq(Messages)]]
  /\ movin \in [Machines -> [at : {"recv", "reply", "data"}, msg : Messages \cup {NoMSG}]]
  /\ pc \in [Nodes -> SendLocs \cup RecvLocs \cup {"idle"}]
  /\ cur \in [Nodes -> Numbers] /\ out \in [Nodes -> Messages \cup {NoMSG}]
  /\ nsh \in [Nodes -> Nat] /\ nrh \in [Nodes -> Nat] /\ posted \in [Nodes -> Nat]
  /\ starts \in Nat /\ recvs \in Nat /\ spurious \in Nat
  /\ sent \in [Nodes -> Seq([dest : Nodes, mode : Modes])]
  /\ matched \subseteq [msg : Numbers, recv : Numbers]
  /\ received \subseteq [msg : Numbers, recv : Numbers,
                         data : {"none", "intact", "overwritten", "garbage"}, cancelled : BOOLEAN]

\* ... handle by handle and node by node.
TypeFacts ==
  /\ \A h \in SH : /\ h[1] \in Nodes /\ h[2] \in Nat /\ h = <<h[1], h[2]>> /\ h # Nobody
                  /\ sh[h] \in SendHandle /\ sh[h].msg \in Nat /\ sh[h].stat \in Stats
                  /\ shlock[h] \in Machines \cup {Nobody}
  /\ \A r \in RH : /\ r[1] \in Nodes /\ r[2] \in Nat /\ r = <<r[1], r[2]>> /\ r # Nobody
                  /\ rh[r] \in RecvHandle /\ rh[r].msg \in Nat /\ rh[r].stat \in RecvStats
  /\ \A n \in Nodes :
       /\ sq[n] \in Seq(Messages) /\ rq[n] \in Seq(RH) /\ Len(sq[n]) \in Nat /\ Len(rq[n]) \in Nat
       /\ chlock[n] \in {n, Nobody} /\ Mac[n] \in Machines
       /\ pc[n] \in SendLocs \cup RecvLocs \cup {"idle"}
       /\ cur[n] \in Numbers /\ out[n] \in Messages \cup {NoMSG}
       /\ nsh[n] \in Nat /\ nrh[n] \in Nat /\ posted[n] \in Nat
       /\ sent[n] \in Seq([dest : Nodes, mode : Modes]) /\ Len(sent[n]) \in Nat
  /\ \A m \in Machines :
       /\ movin[m].at \in {"recv", "reply", "data"} /\ movin[m].msg \in Messages \cup {NoMSG}
       /\ \A p \in Machines : conn[m][p] \in Seq(Messages) /\ Len(conn[m][p]) \in Nat
  /\ \A x \in Messages : /\ x.type \in Types /\ x.sh \in SH /\ x.rh \in RH \cup {Nobody}
                         /\ x.payload \in {"none", "intact", "overwritten", "garbage"}
  /\ \A y \in matched : /\ y.msg \in Numbers /\ y.recv \in Numbers
                        /\ y.msg[1] \in Nodes /\ y.msg[2] \in Nat
                        /\ y.recv[1] \in Nodes /\ y.recv[2] \in Nat

\* The bounds of the model.
Bounded ==
  /\ recvs <= MaxRecvs
  /\ \A m, p \in Machines : Len(conn[m][p]) <= Capacity
  /\ \A n \in Nodes :
       /\ nsh[n] <= MaxSends /\ nrh[n] <= recvs /\ posted[n] <= nrh[n]
       /\ pc[n] = "start_rh" => posted[n] < nrh[n]
       /\ Len(sent[n]) <= starts /\ Len(sent[n]) <= MaxStarts
       /\ pc[n] = "start_sh" => Len(sent[n]) < MaxStarts

----------------------------------------------------------------------------
(* Handles. *)

\* A send that waits for an answer, and in which half of a long exchange it is.
Early == {"PEND_STRT", "PEND_WAIT", "PEND_RELS", "CANCEL"}
Late == {"PEND_DATA", "PEND_DWAT", "PEND_RELS", "CANCEL"}
Awaiting(h) == sh[h].stat \in Early \cup Late
UsesSend(t, h) == pc[t] \in SendLocs /\ cur[t] = h
UsesRecv(t, r) == pc[t] \in RecvLocs /\ cur[t] = r

\* What each state says of the rest of the handle.
SendOK(h) ==
  LET s == sh[h] IN
  /\ h[2] > nsh[h[1]] => s = NoSend
  /\ h[2] <= nsh[h[1]] =>
       /\ s.stat # "NONE" /\ s.dest \in Nodes /\ Mac[h[1]] # Mac[s.dest]
       /\ s.type = "PERSISTENT" => s.mode \in {"SYNC", "READY"}
       /\ s.mode = "READY" /\ "cancel" \in RequestCalls => s.type = "SEND"
       /\ s.mode = "BUFFERED" => s.sys_buf
       /\ s.sys_buf => s.mode \in {"STANDARD", "BUFFERED"}
       /\ s.live <=> s.stat # "FREE" \/ s.type = "PERSISTENT"
       /\ s.held <=> s.live /\ s.type # "SEND" /\ (s.stat \in {"PEND_RELS", "CANCEL"} => s.type = "PERSISTENT")
       /\ s.stat = "PEND_RELS" => s.curdata = "sys" /\ ~Synchronous(s)
       /\ s.stat = "PEND_NRDY" => s.mode = "READY"
       /\ s.stat = "CANCEL" => "cancel" \in RequestCalls /\ s.mode # "READY"
       /\ s.curdata = "garbage" => "cancel" \in RequestCalls /\ s.stat \in {"CANCEL", "FREE"}
       /\ s.stat \in {"CREATE", "FREE"} /\ s.live => s.curdata = "user"
       /\ s.stat \in {"PEND_WAIT", "PEND_DWAT"} => UsesSend(h[1], h) /\ pc[h[1]] \in {"sleep_sh", "wake_sh"}
       /\ s.stat = "PEND_WAIT" => s.mode # "READY"
       /\ s.live /\ s.type = "SEND" /\ s.stat # "PEND_RELS" => UsesSend(h[1], h)

\* ... and what a node that is inside the library knows of the handle it works on.
SenderOK(t) ==
  LET h == cur[t]
      s == sh[h]
  IN
  pc[t] \in SendLocs =>
    /\ h \in SH /\ h[1] = t /\ h[2] <= nsh[t] /\ s.live
    /\ pc[t] = "start_sh" => s.stat \in {"CREATE", "FREE"}
    /\ pc[t] = "enter_wait_sh" => /\ s.stat # "PEND_RELS"
                                  /\ s.stat = "CANCEL" => s.type = "PERSISTENT"
                                  /\ s.type = "SEND" => s.stat \in PEND \cup {"MATCH"}
    /\ pc[t] = "wait_sh" => s.stat \in {"PEND_STRT", "PEND_DATA", "MATCH", "PEND_NRDY"}
    /\ pc[t] = "sleep_sh" => s.stat \in {"PEND_WAIT", "PEND_DWAT"}
    /\ pc[t] = "wake_sh" => s.stat \in {"PEND_WAIT", "PEND_DWAT", "MATCH"}
    /\ pc[t] = "sleep_rdy" => s.stat = "PEND_STRT" /\ s.mode = "READY"
    /\ pc[t] = "cancel_sh" =>
         /\ s.stat \in {"PEND_STRT", "PEND_DATA", "MATCH"} /\ s.held
         /\ "cancel" \in RequestCalls /\ s.mode # "READY"

RecvOK(r) ==
  LET s == rh[r] IN
  /\ r[2] > nrh[r[1]] => s = NoRecv
  /\ r[2] <= nrh[r[1]] => s.stat # "NONE"
  /\ s.live <=> s.stat \notin {"NONE", "FREE"}
  /\ s.held <=> s.live /\ s.type # "RECV"
  /\ s.live /\ s.type = "RECV" => UsesRecv(r[1], r)
  /\ s.stat = "CREATE" => UsesRecv(r[1], r) /\ pc[r[1]] = "start_rh"
  /\ s.stat \in {"PEND_WAIT", "PEND_DWAT"} => UsesRecv(r[1], r) /\ pc[r[1]] \in {"sleep_rh", "wake_rh"}
  /\ s.msg <= posted[r[1]]

ReceiverOK(t) ==
  LET r == cur[t]
      s == rh[r]
  IN
  pc[t] \in RecvLocs =>
    /\ r \in RH /\ r[1] = t /\ r[2] <= nrh[t] /\ s.live
    /\ pc[t] = "start_rh" => s.stat = "CREATE"
    /\ pc[t] \in {"answer", "enter_wait_rh", "wait_rh"} => s.stat \in {"PEND_STRT", "PEND_DATA", "MATCH"}
    /\ pc[t] = "sleep_rh" => s.stat \in {"PEND_WAIT", "PEND_DWAT"}
    /\ pc[t] = "wake_rh" => s.stat \in {"PEND_WAIT", "PEND_DWAT", "MATCH"}

HandlesOK ==
  /\ \A h \in SH : SendOK(h)
  /\ \A r \in RH : RecvOK(r)
  /\ \A t \in Nodes : SenderOK(t) /\ ReceiverOK(t)

----------------------------------------------------------------------------
(* What is under way: every message with the place where it is. *)
Elems(s) == {s[i] : i \in 1..Len(s)}
Places == {"conn", "movin", "node", "sq"} \X (Machines \cup Nodes) \X (Machines \cup Nodes)

Here(p, x) ==
  \/ p[1] = "conn" /\ p[2] \in Machines /\ p[3] \in Machines /\ x \in Elems(conn[p[2]][p[3]])
  \/ p[1] = "movin" /\ p[2] \in Machines /\ p[3] = p[2] /\ movin[p[2]].at # "recv" /\ x = movin[p[2]].msg
  \/ p[1] = "node" /\ p[2] \in Nodes /\ p[3] = p[2] /\ pc[p[2]] = "answer" /\ x = out[p[2]]
  \/ p[1] = "sq" /\ p[2] \in Nodes /\ p[3] = p[2] /\ x \in Elems(sq[p[2]])
Tokens == {u \in Places \X Messages : Here(u[1], u[2])}

\* Where a message of each type can be, and what its send handle is then like.
Starting == {"MSG_SEND", "MSGDAT_SEND"}
Right(p, x) ==
  LET s == sh[x.sh]
      d == s.dest
      to == Mac[s.dest]
      from == Mac[x.sh[1]]
  IN
  /\ x.type \in Starting =>
       /\ p = <<"conn", from, to>> \/ (p = <<"sq", d, d>> /\ s.mode # "READY")
       /\ s.stat \in Early
  /\ x.type \in {"MSG_RECV", "MSGDAT_RECV"} =>
       /\ p = <<"node", d, d>> \/ p = <<"movin", to, to>> \/ p = <<"conn", to, from>>
       /\ s.stat \in Early
  /\ x.type = "DAT_SEND" =>
       \/ p = <<"movin", from, from>> /\ s.stat \in Early
       \/ p = <<"conn", from, to>> /\ s.stat \in Late
  /\ x.type = "DAT_RECV" =>
       (p = <<"movin", to, to>> \/ p = <<"conn", to, from>>) /\ s.stat \in Late
  /\ x.type = "NRDY" =>
       /\ p = <<"movin", to, to>> \/ p = <<"conn", to, from>>
       /\ s.stat = "PEND_STRT" /\ s.mode = "READY"

\* A message that names a receive is for the one its send was matched with.
NamesRecv(x) ==
  IF x.type \in {"MSG_RECV", "DAT_SEND"}
  THEN /\ x.rh \in RH /\ x.rh[1] = sh[x.sh].dest
       /\ rh[x.rh].stat \in {"PEND_DATA", "PEND_DWAT"}
       /\ Pair(x.sh, x.rh) \in matched
  ELSE x.rh = Nobody

Payload(x) ==
  /\ x.type = "MSGDAT_SEND" => x.payload = "intact"
  /\ x.type = "DAT_SEND" => x.payload # "overwritten"
  /\ x.payload = "garbage" => sh[x.sh].stat = "CANCEL"

\* The send it is about has been started under its number.
Started(x) ==
  LET h == x.sh IN
  /\ h[2] <= nsh[h[1]]
  /\ sh[h].msg \in 1..Len(sent[h[1]])
  /\ sent[h[1]][sh[h].msg] = [dest |-> sh[h].dest, mode |-> sh[h].mode]

Carries(h) == \E u \in Tokens : u[2].sh = h
Names(r) == \E u \in Tokens : u[2].rh = r
Distinct(s) == \A i, j \in 1..Len(s) : s[i].sh = s[j].sh => i = j

TokensOK ==
  /\ \A u \in Tokens : Right(u[1], u[2]) /\ NamesRecv(u[2]) /\ Payload(u[2]) /\ Started(u[2])
  /\ \A u, v \in Tokens : u[2].sh = v[2].sh => u = v
  /\ \A u, v \in Tokens : u[2].rh = v[2].rh /\ u[2].rh # Nobody => u = v
  /\ \A h \in SH : Awaiting(h) => Carries(h)
  /\ \A r \in RH : rh[r].stat \in {"PEND_DATA", "PEND_DWAT"} => Names(r)

\* A place holds a message once; a movin thread sends data under the lock of its handle.
PlacesOK ==
  /\ \A m, p \in Machines : Distinct(conn[m][p])
  /\ \A n \in Nodes : Distinct(sq[n])
  /\ \A m \in Machines : movin[m].at # "recv" =>
       movin[m].msg \in Messages /\ (movin[m].at = "data" <=> movin[m].msg.type = "DAT_SEND")
  /\ \A t \in Nodes : pc[t] = "answer" => out[t] \in Messages

\* Receives that wait to be matched are in the queue of their node, in the order of
\* their posting and after all that have been matched.
RecvQueues ==
  /\ \A n \in Nodes : \A i, j \in 1..Len(rq[n]) : i < j => rh[rq[n][i]].msg < rh[rq[n][j]].msg
  /\ \A n \in Nodes : \A r \in Elems(rq[n]) : r[1] = n /\ rh[r].stat \in {"PEND_STRT", "PEND_WAIT"}
  /\ \A r \in RH : rh[r].stat \in {"PEND_STRT", "PEND_WAIT"} => r \in Elems(rq[r[1]])
  /\ \A y \in matched : \A r \in Elems(rq[y.recv[1]]) : y.recv[2] < rh[r].msg
  /\ NoMissedMatch

----------------------------------------------------------------------------
(* Order. *)

\* The messages of one node to another that have not been matched, in the order in which
\* they will be.
Alike(f, g, h) == g[1] = h[1] /\ f[g].dest = f[h].dest
Rising(f, s) ==
  \A i, j \in 1..Len(s) :
    i < j /\ s[i].type \in Starting /\ s[j].type \in Starting /\ Alike(f, s[i].sh, s[j].sh) =>
      f[s[i].sh].msg < f[s[j].sh].msg

Announced == {u[2].sh : u \in {v \in Tokens : v[2].type \in Starting}}

Ordered ==
  /\ \A m, p \in Machines : Rising(sh, conn[m][p])
  /\ \A n \in Nodes : Rising(sh, sq[n])
  /\ \A n \in Nodes, m, p \in Machines : \A x \in Elems(sq[n]), y \in Elems(conn[m][p]) :
       y.type \in Starting /\ Alike(sh, x.sh, y.sh) => sh[x.sh].msg < sh[y.sh].msg

OrderOK ==
  /\ Ordered
  /\ \A h \in Announced : \A y \in matched :
       y.msg[1] = h[1] /\ y.recv[1] = sh[h].dest => y.msg[2] < sh[h].msg
  /\ \A s \in Nodes : \A k \in 1..Len(sent[s]) :
       \/ sent[s][k].mode = "READY"
       \/ \E y \in matched : y.msg = <<s, k>>
       \/ \E h \in Announced : h[1] = s /\ sh[h].msg = k

MatchedOK ==
  /\ \A y \in matched :
       /\ y.msg[2] \in 1..Len(sent[y.msg[1]]) /\ sent[y.msg[1]][y.msg[2]].dest = y.recv[1]
       /\ y.recv[2] <= posted[y.recv[1]]
  /\ \A x, y \in matched : x.msg = y.msg <=> x.recv = y.recv
  /\ NonOvertaking

ReceivedOK ==
  \A x \in received :
    /\ [msg |-> x.msg, recv |-> x.recv] \in matched
    /\ x.data # "overwritten" /\ (x.data = "garbage" => x.cancelled)

Inv ==
  /\ Typed /\ Bounded /\ HandlesOK /\ TokensOK /\ PlacesOK
  /\ RecvQueues /\ OrderOK /\ MatchedOK /\ ReceivedOK

----------------------------------------------------------------------------
LEMMA TypesAre == Typed => TypeFacts
  <1> SUFFICES ASSUME Typed PROVE TypeFacts
    OBVIOUS
  <1>1. ASSUME NEW h \in SH
        PROVE  /\ h[1] \in Nodes /\ h[2] \in Nat /\ h = <<h[1], h[2]>> /\ h # Nobody
               /\ sh[h] \in SendHandle /\ sh[h].msg \in Nat /\ sh[h].stat \in Stats
               /\ shlock[h] \in Machines \cup {Nobody}
    <2>1. h[1] \in Nodes /\ h[2] \in Nat /\ h = <<h[1], h[2]>> /\ h \in Nodes \X Nat
      BY DEF SH
    <2>2. h # Nobody
      BY <2>1, RemoteAssumption
    <2>3. sh[h] \in SendHandle /\ shlock[h] \in Machines \cup {Nobody}
      BY DEF Typed
    <2> QED  BY <2>1, <2>2, <2>3 DEF SendHandle
  <1>2. ASSUME NEW r \in RH
        PROVE  /\ r[1] \in Nodes /\ r[2] \in Nat /\ r = <<r[1], r[2]>> /\ r # Nobody
               /\ rh[r] \in RecvHandle /\ rh[r].msg \in Nat /\ rh[r].stat \in RecvStats
    <2>1. r[1] \in Nodes /\ r[2] \in Nat /\ r = <<r[1], r[2]>> /\ r \in Nodes \X Nat
      BY DEF RH
    <2>2. r # Nobody
      BY <2>1, RemoteAssumption
    <2>3. rh[r] \in RecvHandle
      BY DEF Typed
    <2> QED  BY <2>1, <2>2, <2>3 DEF RecvHandle
  <1>3. ASSUME NEW n \in Nodes
        PROVE  /\ sq[n] \in Seq(Messages) /\ rq[n] \in Seq(RH) /\ Len(sq[n]) \in Nat /\ Len(rq[n]) \in Nat
               /\ chlock[n] \in {n, Nobody} /\ Mac[n] \in Machines
               /\ pc[n] \in SendLocs \cup RecvLocs \cup {"idle"}
               /\ cur[n] \in Numbers /\ out[n] \in Messages \cup {NoMSG}
               /\ nsh[n] \in Nat /\ nrh[n] \in Nat /\ posted[n] \in Nat
               /\ sent[n] \in Seq([dest : Nodes, mode : Modes]) /\ Len(sent[n]) \in Nat
    <2>1. /\ sq[n] \in Seq(Messages) /\ rq[n] \in Seq(RH) /\ chlock[n] \in {n, Nobody}
          /\ pc[n] \in SendLocs \cup RecvLocs \cup {"idle"}
          /\ cur[n] \in Numbers /\ out[n] \in Messages \cup {NoMSG}
          /\ nsh[n] \in Nat /\ nrh[n] \in Nat /\ posted[n] \in Nat
          /\ sent[n] \in Seq([dest : Nodes, mode : Modes])
      BY DEF Typed
    <2>2. Len(sq[n]) \in Nat /\ Len(rq[n]) \in Nat /\ Len(sent[n]) \in Nat
      BY <2>1, LenProperties
    <2> QED  BY <2>1, <2>2, RemoteAssumption
  <1>4. ASSUME NEW m \in Machines
        PROVE  /\ movin[m].at \in {"recv", "reply", "data"} /\ movin[m].msg \in Messages \cup {NoMSG}
               /\ \A p \in Machines : conn[m][p] \in Seq(Messages) /\ Len(conn[m][p]) \in Nat
    <2>1. /\ movin[m] \in [at : {"recv", "reply", "data"}, msg : Messages \cup {NoMSG}]
          /\ \A p \in Machines : conn[m][p] \in Seq(Messages)
      BY DEF Typed
    <2> QED  BY <2>1, LenProperties
  <1>5. ASSUME NEW x \in Messages
        PROVE  /\ x.type \in Types /\ x.sh \in SH /\ x.rh \in RH \cup {Nobody}
               /\ x.payload \in {"none", "intact", "overwritten", "garbage"}
    BY DEF Messages
  <1>6. ASSUME NEW y \in matched
        PROVE  /\ y.msg \in Numbers /\ y.recv \in Numbers
               /\ y.msg[1] \in Nodes /\ y.msg[2] \in Nat
               /\ y.recv[1] \in Nodes /\ y.recv[2] \in Nat
    <2>1. y \in [msg : Numbers, recv : Numbers]
      BY DEF Typed
    <2> QED  BY <2>1 DEF Numbers
  <1> QED  BY <1>1, <1>2, <1>3, <1>4, <1>5, <1>6 DEF TypeFacts

LEMMA TypesAreNext == Typed' => TypeFacts'
  BY TypesAre, PTL

----------------------------------------------------------------------------
(* Sequences of messages. *)

\* The first message is taken from a sequence.
LEMMA TailOf ==
  ASSUME NEW X, NEW s \in Seq(X), s # <<>>
  PROVE  /\ Len(s) \in Nat /\ Len(s) >= 1 /\ Head(s) = s[1] /\ s[1] \in X
         /\ Tail(s) \in Seq(X) /\ Len(Tail(s)) = Len(s) - 1
         /\ \A i \in 1..(Len(s) - 1) : Tail(s)[i] = s[i + 1]
         /\ \A x \in Elems(Tail(s)) : x \in Elems(s)
         /\ \A x \in Elems(s) : x = s[1] \/ x \in Elems(Tail(s))
         /\ s[1] \in Elems(s)
  <1>1. Len(s) \in Nat /\ Len(s) >= 1
    BY EmptySeq
  <1>2. /\ Head(s) = s[1] /\ s[1] \in X
        /\ Tail(s) \in Seq(X) /\ Len(Tail(s)) = Len(s) - 1
        /\ \A i \in 1..(Len(s) - 1) : Tail(s)[i] = s[i + 1]
    BY <1>1, HeadTailProperties, ElementOfSeq
  <1>3. ASSUME NEW x \in Elems(Tail(s)) PROVE x \in Elems(s)
    <2>1. PICK i \in 1..(Len(s) - 1) : x = Tail(s)[i]
      BY <1>2 DEF Elems
    <2>2. i + 1 \in 1..Len(s) /\ x = s[i + 1]
      BY <1>1, <1>2, <2>1
    <2> QED  BY <2>2 DEF Elems
  <1>4. ASSUME NEW x \in Elems(s) PROVE x = s[1] \/ x \in Elems(Tail(s))
    <2>1. PICK i \in 1..Len(s) : x = s[i]
      BY DEF Elems
    <2>2. CASE i # 1
      <3>1. i - 1 \in 1..(Len(s) - 1) /\ (i - 1) + 1 = i
        BY <1>1, <2>2
      <3>2. Tail(s)[i - 1] = x
        BY <1>2, <2>1, <3>1
      <3> QED  BY <1>2, <3>1, <3>2 DEF Elems
    <2> QED  BY <2>1, <2>2
  <1>5. s[1] \in Elems(s)
    <2>1. 1 \in 1..Len(s)
      BY <1>1
    <2> QED  BY <2>1 DEF Elems
  <1> QED  BY <1>1, <1>2, <1>3, <1>4, <1>5

\* A message is put at the end of a sequence.
LEMMA AppendTo ==
  ASSUME NEW X, NEW s \in Seq(X), NEW x \in X
  PROVE  /\ Append(s, x) \in Seq(X) /\ Len(s) \in Nat /\ Len(Append(s, x)) = Len(s) + 1
         /\ \A i \in 1..Len(s) : Append(s, x)[i] = s[i]
         /\ Append(s, x)[Len(s) + 1] = x
         /\ Elems(Append(s, x)) = Elems(s) \cup {x}
  <1>1. /\ Append(s, x) \in Seq(X) /\ Len(s) \in Nat /\ Len(Append(s, x)) = Len(s) + 1
        /\ \A i \in 1..Len(s) : Append(s, x)[i] = s[i]
        /\ Append(s, x)[Len(s) + 1] = x
    BY AppendProperties
  <1>2. 1..(Len(s) + 1) = (1..Len(s)) \cup {Len(s) + 1}
    BY <1>1
  <1>3. Elems(Append(s, x)) = Elems(s) \cup {x}
    BY <1>1, <1>2 DEF Elems
  <1> QED  BY <1>1, <1>3

\* Each message stays in its place only once.
LEMMA DistinctTail ==
  ASSUME NEW s \in Seq(Messages), s # <<>>, Distinct(s)
  PROVE  /\ Distinct(Tail(s))
         /\ Elems(Tail(s)) = Elems(s) \ {s[1]}
         /\ \A x \in Elems(s) : x.sh = s[1].sh => x = s[1]
  <1>1. /\ Len(s) \in Nat /\ Len(s) >= 1 /\ Len(Tail(s)) = Len(s) - 1
        /\ \A i \in 1..(Len(s) - 1) : Tail(s)[i] = s[i + 1]
        /\ \A x \in Elems(Tail(s)) : x \in Elems(s)
        /\ \A x \in Elems(s) : x = s[1] \/ x \in Elems(Tail(s))
    BY TailOf
  <1>2. Distinct(Tail(s))
    <2> SUFFICES ASSUME NEW i \in 1..(Len(s) - 1), NEW j \in 1..(Len(s) - 1),
                        Tail(s)[i].sh = Tail(s)[j].sh
                 PROVE  i = j
      BY <1>1 DEF Distinct
    <2>1. i + 1 \in 1..Len(s) /\ j + 1 \in 1..Len(s) /\ s[i + 1].sh = s[j + 1].sh
      BY <1>1
    <2>2. i + 1 = j + 1
      BY <2>1 DEF Distinct
    <2> QED  BY <1>1, <2>2
  <1>3. \A x \in Elems(s) : x.sh = s[1].sh => x = s[1]
    <2>1. 1 \in 1..Len(s)
      BY <1>1
    <2> QED  BY <2>1 DEF Distinct, Elems
  <1>4. s[1] \notin Elems(Tail(s))
    <2> SUFFICES ASSUME NEW i \in 1..(Len(s) - 1), Tail(s)[i] = s[1] PROVE FALSE
      BY <1>1 DEF Elems
    <2>1. i + 1 \in 1..Len(s) /\ 1 \in 1..Len(s) /\ s[i + 1].sh = s[1].sh
      BY <1>1
    <2>2. i + 1 = 1
      BY <2>1 DEF Distinct
    <2> QED  BY <2>2
  <1> QED  BY <1>1, <1>2, <1>3, <1>4

LEMMA DistinctAppend ==
  ASSUME NEW s \in Seq(Messages), NEW x \in Messages, Distinct(s),
         \A y \in Elems(s) : y.sh # x.sh
  PROVE  Distinct(Append(s, x))
  <1>1. /\ Len(s) \in Nat /\ Len(Append(s, x)) = Len(s) + 1
        /\ \A i \in 1..Len(s) : Append(s, x)[i] = s[i]
        /\ Append(s, x)[Len(s) + 1] = x
    BY AppendTo
  <1>2. 1..(Len(s) + 1) = (1..Len(s)) \cup {Len(s) + 1}
    BY <1>1
  <1>3. \A i \in 1..Len(s) : s[i].sh # x.sh
    BY DEF Elems
  <1> QED  BY <1>1, <1>2, <1>3 DEF Distinct

----------------------------------------------------------------------------
(* How the messages under way change. *)

KeepsSend(h) ==
  /\ sh'[h].msg = sh[h].msg /\ sh'[h].dest = sh[h].dest /\ sh'[h].mode = sh[h].mode
  /\ sh[h].stat \in Early => sh'[h].stat \in Early
  /\ sh[h].stat \in Late => sh'[h].stat \in Late
  /\ sh[h].stat = "PEND_STRT" /\ sh[h].mode = "READY" => sh'[h].stat = "PEND_STRT"
  /\ sh[h].stat = "CANCEL" => sh'[h].stat = "CANCEL"
KeepsRecv(r) ==
  /\ rh'[r].msg = rh[r].msg
  /\ rh[r].stat \in {"PEND_DATA", "PEND_DWAT"} => rh'[r].stat \in {"PEND_DATA", "PEND_DWAT"}
HistoryGrows ==
  /\ matched \subseteq matched'
  /\ \A n \in Nodes : /\ nsh[n] <= nsh'[n] /\ Len(sent[n]) <= Len(sent'[n])
                      /\ \A k \in 1..Len(sent[n]) : sent'[n][k] = sent[n][k]

\* A message whose handles are left as they were is as right as it was.
LEMMA TokenKept ==
  ASSUME Typed, TokensOK, Typed', HistoryGrows, NEW u \in Tokens, KeepsSend(u[2].sh),
         u[2].rh # Nobody => KeepsRecv(u[2].rh)
  PROVE  Right(u[1], u[2])' /\ NamesRecv(u[2])' /\ Payload(u[2])' /\ Started(u[2])'
  <1> DEFINE p == u[1]
             x == u[2]
             h == u[2].sh
  <1>1. /\ x \in Messages /\ h \in SH /\ h[1] \in Nodes /\ h[2] \in Nat
        /\ Right(p, x) /\ NamesRecv(x) /\ Payload(x) /\ Started(x)
    BY DEF Tokens, TokensOK, Messages, SH
  <1>2. Payload(x)'
    BY <1>1 DEF Payload, KeepsSend
  <1>3. Right(p, x)'
    BY <1>1 DEF Right, KeepsSend, Early, Late, Starting
  <1>4. Started(x)'
    <2>1. nsh[h[1]] \in Nat /\ nsh'[h[1]] \in Nat /\ sh'[h].msg = sh[h].msg
          /\ Len(sent[h[1]]) \in Nat /\ Len(sent'[h[1]]) \in Nat
      <3>1. nsh[h[1]] \in Nat /\ Len(sent[h[1]]) \in Nat
        BY <1>1, TypesAre DEF TypeFacts
      <3>2. nsh'[h[1]] \in Nat /\ Len(sent'[h[1]]) \in Nat
        BY <1>1, TypesAreNext DEF TypeFacts
      <3>3. sh'[h].msg = sh[h].msg
        BY DEF KeepsSend
      <3> QED  BY <3>1, <3>2, <3>3
    <2> QED  BY SMTT(30), <1>1, <2>1 DEF Started, KeepsSend, HistoryGrows
  <1>5. NamesRecv(x)'
    <2>1. CASE x.type \in {"MSG_RECV", "DAT_SEND"}
      <3>1. /\ x.rh \in RH /\ x.rh[1] = sh[h].dest
            /\ rh[x.rh].stat \in {"PEND_DATA", "PEND_DWAT"}
            /\ Pair(h, x.rh) \in matched
        BY <1>1, <2>1 DEF NamesRecv
      <3>2. x.rh # Nobody
        BY <3>1, TypesAre DEF TypeFacts
      <3>3. KeepsRecv(x.rh)
        BY <3>2
      <3>4. Pair(h, x.rh)' = Pair(h, x.rh)
        BY <3>3 DEF Pair, KeepsSend, KeepsRecv
      <3> QED  BY <2>1, <3>1, <3>3, <3>4 DEF NamesRecv, KeepsSend, KeepsRecv, HistoryGrows
    <2>2. CASE x.type \notin {"MSG_RECV", "DAT_SEND"}
      BY <1>1, <2>2 DEF NamesRecv
    <2> QED  BY <2>1, <2>2
  <1> QED  BY <1>2, <1>3, <1>4, <1>5

\* A step that takes the messages of A away and puts that of B, if any, under way.
Moves(A, B) ==
  /\ Tokens' = (Tokens \ A) \cup B
  /\ \A u \in Tokens \ A : KeepsSend(u[2].sh) /\ (u[2].rh # Nobody => KeepsRecv(u[2].rh))
  /\ \A v \in B : Right(v[1], v[2])' /\ NamesRecv(v[2])' /\ Payload(v[2])' /\ Started(v[2])'
  /\ \A v, w \in B : v = w
  /\ \A v \in B, u \in Tokens \ A :
       v[2].sh # u[2].sh /\ (v[2].rh = u[2].rh => v[2].rh = Nobody)
  /\ \A h \in SH : Awaiting(h)' =>
       \/ Awaiting(h) /\ \A u \in A : u[2].sh # h
       \/ \E v \in B : v[2].sh = h
  /\ \A r \in RH : rh'[r].stat \in {"PEND_DATA", "PEND_DWAT"} =>
       \/ rh[r].stat \in {"PEND_DATA", "PEND_DWAT"} /\ \A u \in A : u[2].rh # r
       \/ \E v \in B : v[2].rh = r

LEMMA TokensStep ==
  ASSUME Typed, TokensOK, Typed', HistoryGrows, NEW A, NEW B, Moves(A, B)
  PROVE  TokensOK'
  <1>1. ASSUME NEW u \in Tokens'
        PROVE  Right(u[1], u[2])' /\ NamesRecv(u[2])' /\ Payload(u[2])' /\ Started(u[2])'
    <2>1. CASE u \in B
      BY <2>1 DEF Moves
    <2>2. CASE u \in Tokens \ A
      <3>1. KeepsSend(u[2].sh) /\ (u[2].rh # Nobody => KeepsRecv(u[2].rh))
        BY <2>2 DEF Moves
      <3> QED  BY <2>2, <3>1, TokenKept
    <2> QED  BY <2>1, <2>2 DEF Moves
  <1>2. ASSUME NEW u \in Tokens', NEW v \in Tokens', u[2].sh = v[2].sh PROVE u = v
    BY <1>2 DEF TokensOK, Moves
  <1>3. ASSUME NEW u \in Tokens', NEW v \in Tokens', u[2].rh = v[2].rh, u[2].rh # Nobody
        PROVE  u = v
    BY <1>3 DEF TokensOK, Moves
  <1>4. ASSUME NEW h \in SH, Awaiting(h)' PROVE Carries(h)'
    <2>1. CASE \E v \in B : v[2].sh = h
      BY <2>1 DEF Carries, Moves
    <2>2. CASE Awaiting(h) /\ \A u \in A : u[2].sh # h
      <3>1. PICK u \in Tokens : u[2].sh = h
        BY <2>2 DEF TokensOK, Carries
      <3> QED  BY <2>2, <3>1 DEF Carries, Moves
    <2> QED  BY <1>4, <2>1, <2>2 DEF Moves
  <1>5. ASSUME NEW r \in RH, rh'[r].stat \in {"PEND_DATA", "PEND_DWAT"} PROVE Names(r)'
    <2>1. CASE \E v \in B : v[2].rh = r
      BY <2>1 DEF Names, Moves
    <2>2. CASE rh[r].stat \in {"PEND_DATA", "PEND_DWAT"} /\ \A u \in A : u[2].rh # r
      <3>1. PICK u \in Tokens : u[2].rh = r
        BY <2>2 DEF TokensOK, Names
      <3> QED  BY <2>2, <3>1 DEF Names, Moves
    <2> QED  BY <1>5, <2>1, <2>2 DEF Moves
  <1> QED  BY <1>1, <1>2, <1>3, <1>4, <1>5 DEF TokensOK

----------------------------------------------------------------------------
(* How the order of messages is kept. *)

LEMMA RisingTail ==
  ASSUME NEW f, NEW s \in Seq(Messages), s # <<>>, Rising(f, s)
  PROVE  /\ Rising(f, Tail(s))
         /\ \A y \in Elems(Tail(s)) :
              s[1].type \in Starting /\ y.type \in Starting /\ Alike(f, s[1].sh, y.sh) =>
                f[s[1].sh].msg < f[y.sh].msg
  <1>1. /\ Len(s) \in Nat /\ Len(s) >= 1 /\ Len(Tail(s)) = Len(s) - 1
        /\ \A i \in 1..(Len(s) - 1) : Tail(s)[i] = s[i + 1]
    BY TailOf
  <1>2. Rising(f, Tail(s))
    <2> SUFFICES ASSUME NEW i \in 1..(Len(s) - 1), NEW j \in 1..(Len(s) - 1), i < j,
                        Tail(s)[i].type \in Starting, Tail(s)[j].type \in Starting,
                        Alike(f, Tail(s)[i].sh, Tail(s)[j].sh)
                 PROVE  f[Tail(s)[i].sh].msg < f[Tail(s)[j].sh].msg
      BY <1>1 DEF Rising
    <2>1. /\ i + 1 \in 1..Len(s) /\ j + 1 \in 1..Len(s) /\ i + 1 < j + 1
          /\ Tail(s)[i] = s[i + 1] /\ Tail(s)[j] = s[j + 1]
      BY <1>1
    <2> QED  BY <2>1 DEF Rising
  <1>3. ASSUME NEW y \in Elems(Tail(s)), s[1].type \in Starting, y.type \in Starting,
               Alike(f, s[1].sh, y.sh)
        PROVE  f[s[1].sh].msg < f[y.sh].msg
    <2>1. PICK i \in 1..(Len(s) - 1) : y = Tail(s)[i]
      BY <1>1 DEF Elems
    <2>2. i + 1 \in 1..Len(s) /\ 1 \in 1..Len(s) /\ 1 < i + 1 /\ y = s[i + 1]
      BY <1>1, <2>1
    <2> QED  BY <1>3, <2>2 DEF Rising
  <1> QED  BY <1>2, <1>3

LEMMA RisingAppend ==
  ASSUME NEW f, NEW s \in Seq(Messages), NEW x \in Messages, Rising(f, s),
         \A y \in Elems(s) :
            x.type \in Starting /\ y.type \in Starting /\ Alike(f, y.sh, x.sh) =>
              f[y.sh].msg < f[x.sh].msg
  PROVE  Rising(f, Append(s, x))
  <1>1. /\ Len(s) \in Nat /\ Len(Append(s, x)) = Len(s) + 1
        /\ \A i \in 1..Len(s) : Append(s, x)[i] = s[i]
        /\ Append(s, x)[Len(s) + 1] = x
    BY AppendTo
  <1> SUFFICES ASSUME NEW i \in 1..(Len(s) + 1), NEW j \in 1..(Len(s) + 1), i < j,
                      Append(s, x)[i].type \in Starting, Append(s, x)[j].type \in Starting,
                      Alike(f, Append(s, x)[i].sh, Append(s, x)[j].sh)
               PROVE  f[Append(s, x)[i].sh].msg < f[Append(s, x)[j].sh].msg
    BY <1>1 DEF Rising
  <1>2. i \in 1..Len(s) /\ Append(s, x)[i] = s[i] /\ s[i] \in Elems(s)
    BY <1>1 DEF Elems
  <1>3. CASE j = Len(s) + 1
    BY <1>1, <1>2, <1>3
  <1>4. CASE j # Len(s) + 1
    <2>1. j \in 1..Len(s) /\ Append(s, x)[j] = s[j]
      BY <1>1, <1>4
    <2> QED  BY <1>2, <2>1 DEF Rising
  <1> QED  BY <1>3, <1>4

LEMMA RisingKept ==
  ASSUME NEW f, NEW g, NEW s, Rising(f, s),
         \A x \in Elems(s) : g[x.sh].msg = f[x.sh].msg /\ g[x.sh].dest = f[x.sh].dest
  PROVE  Rising(g, s)
  <1>1. \A i \in 1..Len(s) : g[s[i].sh].msg = f[s[i].sh].msg /\ g[s[i].sh].dest = f[s[i].sh].dest
    BY DEF Elems
  <1> QED  BY <1>1 DEF Rising, Alike

----------------------------------------------------------------------------
(* What a message under way tells. *)

LEMMA ElemsIn ==
  ASSUME NEW X, NEW s \in Seq(X), NEW x \in Elems(s)
  PROVE  x \in X
  BY ElementOfSeq DEF Elems

LEMMA InConn ==
  ASSUME Typed, NEW m \in Machines, NEW p \in Machines, NEW x \in Elems(conn[m][p])
  PROVE  x \in Messages /\ <<<<"conn", m, p>>, x>> \in Tokens
  <1>1. x \in Messages
    BY TypesAre, ElemsIn DEF TypeFacts
  <1> QED  BY <1>1 DEF Tokens, Here, Places

LEMMA InQueue ==
  ASSUME Typed, NEW n \in Nodes, NEW x \in Elems(sq[n])
  PROVE  x \in Messages /\ <<<<"sq", n, n>>, x>> \in Tokens
  <1>1. x \in Messages
    BY TypesAre, ElemsIn DEF TypeFacts
  <1> QED  BY <1>1 DEF Tokens, Here, Places

LEMMA InMovin ==
  ASSUME Typed, PlacesOK, NEW m \in Machines, movin[m].at # "recv"
  PROVE  movin[m].msg \in Messages /\ <<<<"movin", m, m>>, movin[m].msg>> \in Tokens
  BY DEF Tokens, Here, Places, PlacesOK

LEMMA InNode ==
  ASSUME Typed, PlacesOK, NEW n \in Nodes, pc[n] = "answer"
  PROVE  out[n] \in Messages /\ <<<<"node", n, n>>, out[n]>> \in Tokens
  BY DEF Tokens, Here, Places, PlacesOK

LEMMA TokenFacts ==
  ASSUME Typed, HandlesOK, TokensOK, NEW u \in Tokens
  PROVE  /\ u[1] \in Places /\ u[2] \in Messages /\ u[2].type \in Types
         /\ u[2].sh \in SH /\ u[2].sh[1] \in Nodes /\ u[2].sh[2] \in Nat
         /\ Here(u[1], u[2])
         /\ Right(u[1], u[2]) /\ NamesRecv(u[2]) /\ Payload(u[2]) /\ Started(u[2])
         /\ Awaiting(u[2].sh) /\ sh[u[2].sh].dest \in Nodes
         /\ Mac[u[2].sh[1]] # Mac[sh[u[2].sh].dest]
         /\ Mac[u[2].sh[1]] \in Machines /\ Mac[sh[u[2].sh].dest] \in Machines
         /\ sh[u[2].sh].live /\ sh[u[2].sh].msg \in 1..Len(sent[u[2].sh[1]])
         /\ sent[u[2].sh[1]][sh[u[2].sh].msg].dest = sh[u[2].sh].dest
         /\ sent[u[2].sh[1]][sh[u[2].sh].msg].mode = sh[u[2].sh].mode
  <1> DEFINE x == u[2]
             h == u[2].sh
  <1>1. u[1] \in Places /\ x \in Messages /\ Here(u[1], x)
    BY DEF Tokens
  <1>2. x.type \in Types /\ h \in SH /\ h[1] \in Nodes /\ h[2] \in Nat
    BY <1>1, TypesAre DEF TypeFacts
  <1>3. Right(u[1], x) /\ NamesRecv(x) /\ Payload(x) /\ Started(x)
    BY DEF TokensOK
  <1>4. Awaiting(h)
    BY <1>2, <1>3 DEF Right, Awaiting, Types, Starting, Early, Late
  <1>5. /\ sh[h].dest \in Nodes /\ Mac[h[1]] # Mac[sh[h].dest]
        /\ sh[h].live
    <2>1. h[2] <= nsh[h[1]] /\ SendOK(h)
      BY <1>2, <1>3 DEF Started, HandlesOK
    <2>2. sh[h].stat # "FREE"
      BY <1>4 DEF Awaiting, Early, Late
    <2> QED  BY <2>1, <2>2 DEF SendOK
  <1>6. Mac[h[1]] \in Machines /\ Mac[sh[h].dest] \in Machines
    BY <1>2, <1>5, RemoteAssumption
  <1> QED  BY <1>1, <1>2, <1>3, <1>4, <1>5, <1>6 DEF Started

\* Where a message that has not been matched is.
LEMMA AnnouncedWhere ==
  ASSUME Typed, HandlesOK, TokensOK, NEW g \in Announced
  PROVE  \E u \in Tokens :
           /\ u[2].sh = g /\ u[2].type \in Starting
           /\ \/ u[2] \in Elems(conn[Mac[g[1]]][Mac[sh[g].dest]])
              \/ u[2] \in Elems(sq[sh[g].dest]) /\ sh[g].mode # "READY"
  <1>1. PICK u \in Tokens : u[2].sh = g /\ u[2].type \in Starting
    BY DEF Announced
  <1>2. Right(u[1], u[2]) /\ Here(u[1], u[2])
    BY TokenFacts
  <1>3. CASE u[1] = <<"conn", Mac[g[1]], Mac[sh[g].dest]>>
    BY <1>1, <1>2, <1>3 DEF Here
  <1>4. CASE u[1] = <<"sq", sh[g].dest, sh[g].dest>> /\ sh[g].mode # "READY"
    BY <1>1, <1>2, <1>4 DEF Here
  <1> QED  BY <1>1, <1>2, <1>3, <1>4 DEF Right

LEMMA AnnouncedFacts ==
  ASSUME Typed, HandlesOK, TokensOK, NEW g \in Announced
  PROVE  /\ g \in SH /\ g[1] \in Nodes /\ sh[g].dest \in Nodes
         /\ sh[g].msg \in 1..Len(sent[g[1]])
         /\ sent[g[1]][sh[g].msg].dest = sh[g].dest /\ sent[g[1]][sh[g].msg].mode = sh[g].mode
         /\ Awaiting(g) /\ Len(sent[g[1]]) \in Nat /\ sh[g].msg \in Nat
  <1>1. PICK u \in Tokens : u[2].sh = g
    BY DEF Announced
  <1> QED  BY <1>1, TokenFacts, TypesAre DEF TypeFacts

----------------------------------------------------------------------------
(* Steps, seen from the messages under way. *)

\* What a step does at every place ...
ConnMove(A, B) ==
  \A m, p \in Machines, x \in Messages :
    x \in Elems(conn'[m][p]) <=>
      \/ x \in Elems(conn[m][p]) /\ <<<<"conn", m, p>>, x>> \notin A
      \/ <<<<"conn", m, p>>, x>> \in B
MovinMove(A, B) ==
  \A m \in Machines, x \in Messages :
    movin'[m].at # "recv" /\ x = movin'[m].msg <=>
      \/ movin[m].at # "recv" /\ x = movin[m].msg /\ <<<<"movin", m, m>>, x>> \notin A
      \/ <<<<"movin", m, m>>, x>> \in B
NodeMove(A, B) ==
  \A n \in Nodes, x \in Messages :
    pc'[n] = "answer" /\ x = out'[n] <=>
      \/ pc[n] = "answer" /\ x = out[n] /\ <<<<"node", n, n>>, x>> \notin A
      \/ <<<<"node", n, n>>, x>> \in B
QueueMove(A, B) ==
  \A n \in Nodes, x \in Messages :
    x \in Elems(sq'[n]) <=>
      \/ x \in Elems(sq[n]) /\ <<<<"sq", n, n>>, x>> \notin A
      \/ <<<<"sq", n, n>>, x>> \in B
Put(B) ==
  \A v \in B :
    /\ v \in Places \X Messages
    /\ \/ v[1][1] = "conn" /\ v[1][2] \in Machines /\ v[1][3] \in Machines
       \/ v[1][1] = "movin" /\ v[1][2] \in Machines /\ v[1][3] = v[1][2]
       \/ v[1][1] \in {"node", "sq"} /\ v[1][2] \in Nodes /\ v[1][3] = v[1][2]

\* ... is what it does to the messages under way.
LEMMA TokensMove ==
  ASSUME NEW A, NEW B,
         ConnMove(A, B), MovinMove(A, B), NodeMove(A, B), QueueMove(A, B), Put(B)
  PROVE  Tokens' = (Tokens \ A) \cup B
  <1>1. ASSUME NEW p \in Places, NEW x \in Messages
        PROVE  Here(p, x)' <=> (Here(p, x) /\ <<p, x>> \notin A) \/ <<p, x>> \in B
    <2>1. p = <<p[1], p[2], p[3]>> /\ p[1] \in {"conn", "movin", "node", "sq"}
      BY DEF Places
    <2>2. CASE p[1] = "conn" /\ p[2] \in Machines /\ p[3] \in Machines
      BY <2>1, <2>2 DEF Here, ConnMove
    <2>3. CASE p[1] = "movin" /\ p[2] \in Machines /\ p[3] = p[2]
      BY <2>1, <2>3 DEF Here, MovinMove
    <2>4. CASE p[1] = "node" /\ p[2] \in Nodes /\ p[3] = p[2]
      BY <2>1, <2>4 DEF Here, NodeMove
    <2>5. CASE p[1] = "sq" /\ p[2] \in Nodes /\ p[3] = p[2]
      BY <2>1, <2>5 DEF Here, QueueMove
    <2>6. CASE ~(\/ p[1] = "conn" /\ p[2] \in Machines /\ p[3] \in Machines
                 \/ p[1] = "movin" /\ p[2] \in Machines /\ p[3] = p[2]
                 \/ p[1] \in {"node", "sq"} /\ p[2] \in Nodes /\ p[3] = p[2])
      <3>1. ~Here(p, x) /\ ~Here(p, x)'
        BY <2>1, <2>6 DEF Here
      <3>2. <<p, x>> \notin B
        BY <2>6 DEF Put
      <3> QED  BY <3>1, <3>2
    <2> QED  BY <2>1, <2>2, <2>3, <2>4, <2>5, <2>6
  <1>2. ASSUME NEW u \in Places \X Messages
        PROVE  Here(u[1], u[2])' <=> (Here(u[1], u[2]) /\ u \notin A) \/ u \in B
    <2>1. u[1] \in Places /\ u[2] \in Messages /\ u = <<u[1], u[2]>>
      OBVIOUS
    <2> QED  BY <1>1, <2>1
  <1>3. Tokens' = {u \in Places \X Messages : Here(u[1], u[2])'}
    BY DEF Tokens, Places, Messages, SH, RH
  <1> QED  BY <1>2, <1>3 DEF Tokens, Put

\* Elements of queues are under way, so their sends keep what the order is about.
SendsKept ==
  \A u \in Tokens : sh'[u[2].sh].msg = sh[u[2].sh].msg /\ sh'[u[2].sh].dest = sh[u[2].sh].dest

\* Steps that take messages from queues, or append answers and data.
LEMMA QueuesRise ==
  ASSUME Typed, Typed', OrderOK, SendsKept,
         \A m, p \in Machines :
            \/ conn'[m][p] = conn[m][p]
            \/ conn[m][p] # <<>> /\ conn'[m][p] = Tail(conn[m][p])
            \/ \E x \in Messages : x.type \notin Starting /\ conn'[m][p] = Append(conn[m][p], x),
         \A n \in Nodes : sq'[n] = sq[n] \/ (sq[n] # <<>> /\ sq'[n] = Tail(sq[n]))
  PROVE  Ordered'
  <1>1. ASSUME NEW m \in Machines, NEW p \in Machines
        PROVE  /\ Rising(sh', conn'[m][p])
               /\ \A y \in Elems(conn'[m][p]) : y.type \in Starting => y \in Elems(conn[m][p])
    <2> DEFINE s == conn[m][p]
    <2>1. s \in Seq(Messages) /\ Rising(sh, s)
      BY TypesAre DEF TypeFacts, OrderOK, Ordered
    <2>2. \A x \in Elems(s) : sh'[x.sh].msg = sh[x.sh].msg /\ sh'[x.sh].dest = sh[x.sh].dest
      <3> TAKE x \in Elems(s)
      <3>1. <<<<"conn", m, p>>, x>> \in Tokens
        BY InConn
      <3> QED  BY <3>1 DEF SendsKept
    <2>3. Rising(sh', s)
      BY <2>1, <2>2, RisingKept
    <2>4. CASE conn'[m][p] = s
      BY <2>3, <2>4
    <2>5. CASE s # <<>> /\ conn'[m][p] = Tail(s)
      BY <2>1, <2>3, <2>5, RisingTail, TailOf
    <2>6. CASE \E x \in Messages : x.type \notin Starting /\ conn'[m][p] = Append(s, x)
      <3>1. PICK x \in Messages : x.type \notin Starting /\ conn'[m][p] = Append(s, x)
        BY <2>6
      <3>2. Rising(sh', Append(s, x))
        BY <2>1, <2>3, <3>1, RisingAppend
      <3>3. Elems(Append(s, x)) = Elems(s) \cup {x}
        BY <2>1, AppendTo
      <3> QED  BY <3>1, <3>2, <3>3
    <2> QED  BY <2>4, <2>5, <2>6
  <1>2. ASSUME NEW n \in Nodes
        PROVE  /\ Rising(sh', sq'[n])
               /\ \A x \in Elems(sq'[n]) : x \in Elems(sq[n])
    <2> DEFINE s == sq[n]
    <2>1. s \in Seq(Messages) /\ Rising(sh, s)
      BY TypesAre DEF TypeFacts, OrderOK, Ordered
    <2>2. \A x \in Elems(s) : sh'[x.sh].msg = sh[x.sh].msg /\ sh'[x.sh].dest = sh[x.sh].dest
      <3> TAKE x \in Elems(s)
      <3>1. <<<<"sq", n, n>>, x>> \in Tokens
        BY InQueue
      <3> QED  BY <3>1 DEF SendsKept
    <2>3. Rising(sh', s)
      BY <2>1, <2>2, RisingKept
    <2>4. CASE sq'[n] = s
      BY <2>3, <2>4
    <2>5. CASE s # <<>> /\ sq'[n] = Tail(s)
      BY <2>1, <2>3, <2>5, RisingTail, TailOf
    <2> QED  BY <2>4, <2>5
  <1>3. ASSUME NEW n \in Nodes, NEW m \in Machines, NEW p \in Machines,
               NEW x \in Elems(sq'[n]), NEW y \in Elems(conn'[m][p]),
               y.type \in Starting, Alike(sh', x.sh, y.sh)
        PROVE  sh'[x.sh].msg < sh'[y.sh].msg
    <2>1. x \in Elems(sq[n]) /\ y \in Elems(conn[m][p])
      BY <1>1, <1>2, <1>3
    <2>2. <<<<"sq", n, n>>, x>> \in Tokens /\ <<<<"conn", m, p>>, y>> \in Tokens
      BY <2>1, InConn, InQueue
    <2>3. /\ sh'[x.sh].msg = sh[x.sh].msg /\ sh'[x.sh].dest = sh[x.sh].dest
          /\ sh'[y.sh].msg = sh[y.sh].msg /\ sh'[y.sh].dest = sh[y.sh].dest
      BY <2>2 DEF SendsKept
    <2>4. Alike(sh, x.sh, y.sh)
      BY <1>3, <2>3 DEF Alike
    <2> QED  BY <1>3, <2>1, <2>3, <2>4 DEF OrderOK, Ordered
  <1> QED  BY <1>1, <1>2, <1>3 DEF Ordered

\* A step that matches nothing leaves the order; a ready send may have been refused.
LEMMA OrderKept ==
  ASSUME Typed, HandlesOK, TokensOK, OrderOK, SendsKept, Ordered',
         matched' = matched, sent' = sent,
         Announced' \subseteq Announced,
         \A h \in Announced : h \in Announced' \/ sh[h].mode = "READY"
  PROVE  OrderOK'
  <1>1. ASSUME NEW h \in Announced
        PROVE  sh'[h].msg = sh[h].msg /\ sh'[h].dest = sh[h].dest
    <2>1. PICK u \in Tokens : u[2].sh = h
      BY DEF Announced
    <2> QED  BY <2>1 DEF SendsKept
  <1>2. ASSUME NEW h \in Announced', NEW y \in matched', y.msg[1] = h[1], y.recv[1] = sh'[h].dest
        PROVE  y.msg[2] < sh'[h].msg
    <2>1. h \in Announced
      OBVIOUS
    <2> QED  BY <1>1, <1>2, <2>1 DEF OrderOK
  <1>3. ASSUME NEW s \in Nodes, NEW k \in 1..Len(sent'[s])
        PROVE  \/ sent'[s][k].mode = "READY"
               \/ \E y \in matched' : y.msg = <<s, k>>
               \/ \E h \in Announced' : h[1] = s /\ sh'[h].msg = k
    <2>1. CASE \E h \in Announced : h[1] = s /\ sh[h].msg = k
      <3>1. PICK h \in Announced : h[1] = s /\ sh[h].msg = k
        BY <2>1
      <3>2. CASE h \in Announced'
        BY <1>1, <3>1, <3>2
      <3>3. CASE sh[h].mode = "READY"
        <4>1. sent[h[1]][sh[h].msg].mode = "READY"
          BY <3>3, AnnouncedFacts
        <4> QED  BY <3>1, <4>1
      <3> QED  BY <3>2, <3>3
    <2> QED  BY <2>1 DEF OrderOK
  <1> QED  BY <1>2, <1>3 DEF OrderOK

\* The message of h, the next of its kind, is matched with receive number k of its destination.
LEMMA MatchStep ==
  ASSUME Typed, HandlesOK, TokensOK, OrderOK, MatchedOK, SendsKept, Ordered',
         sent' = sent,
         NEW h \in Announced, NEW k \in Nat,
         matched' = matched \cup {[msg |-> <<h[1], sh[h].msg>>, recv |-> <<sh[h].dest, k>>]},
         Announced' = Announced \ {h},
         \A g \in Announced : g # h /\ Alike(sh, h, g) => sh[h].msg < sh[g].msg,
         \A y \in matched : y.recv[1] = sh[h].dest => y.recv[2] < k,
         \A n \in Nodes : posted'[n] \in Nat /\ posted[n] <= posted'[n],
         k <= posted'[sh[h].dest]
  PROVE  OrderOK' /\ MatchedOK'
  <1> DEFINE new == [msg |-> <<h[1], sh[h].msg>>, recv |-> <<sh[h].dest, k>>]
             d == sh[h].dest
  <1>1. ASSUME NEW g \in Announced
        PROVE  sh'[g].msg = sh[g].msg /\ sh'[g].dest = sh[g].dest
    <2>1. PICK u \in Tokens : u[2].sh = g
      BY DEF Announced
    <2> QED  BY <2>1 DEF SendsKept
  <1>2. /\ h \in SH /\ h[1] \in Nodes /\ d \in Nodes /\ sh[h].msg \in 1..Len(sent[h[1]])
        /\ sent[h[1]][sh[h].msg].dest = d /\ sh[h].msg \in Nat
    BY AnnouncedFacts
  <1>3. ASSUME NEW g \in Announced', NEW y \in matched', y.msg[1] = g[1], y.recv[1] = sh'[g].dest
        PROVE  y.msg[2] < sh'[g].msg
    <2>1. g \in Announced /\ g # h
      OBVIOUS
    <2>2. CASE y \in matched
      BY <1>1, <1>3, <2>1, <2>2 DEF OrderOK
    <2>3. CASE y = new
      <3>1. Alike(sh, h, g)
        BY <1>1, <1>3, <2>1, <2>3 DEF Alike
      <3> QED  BY <1>1, <2>1, <2>3, <3>1
    <2> QED  BY <2>2, <2>3
  <1>a. \A s \in Nodes : \A i \in 1..Len(sent[s]) :
          \/ sent[s][i].mode = "READY"
          \/ \E y \in matched : y.msg = <<s, i>>
          \/ \E g \in Announced : g[1] = s /\ sh[g].msg = i
    BY DEF OrderOK
  <1>4. ASSUME NEW s \in Nodes, NEW i \in 1..Len(sent'[s])
        PROVE  \/ sent'[s][i].mode = "READY"
               \/ \E y \in matched' : y.msg = <<s, i>>
               \/ \E g \in Announced' : g[1] = s /\ sh'[g].msg = i
    <2>1. CASE \E g \in Announced : g[1] = s /\ sh[g].msg = i
      <3>1. PICK g \in Announced : g[1] = s /\ sh[g].msg = i
        BY <2>1
      <3>2. CASE g = h
        <4>1. new \in matched' /\ new.msg = <<s, i>>
          BY <3>1, <3>2
        <4> QED  BY <4>1
      <3>3. CASE g # h
        BY <1>1, <3>1, <3>3
      <3> QED  BY <3>2, <3>3
    <2>2. CASE \E y \in matched : y.msg = <<s, i>>
      BY <2>2
    <2>3. CASE sent[s][i].mode = "READY"
      BY <2>3
    <2> QED  BY <1>a, <2>1, <2>2, <2>3
  <1>5. OrderOK'
    BY <1>3, <1>4 DEF OrderOK
  <1>6. ASSUME NEW y \in matched
        PROVE  /\ y.msg[1] \in Nodes /\ y.msg[2] \in Nat /\ y.recv[1] \in Nodes /\ y.recv[2] \in Nat
               /\ y.msg[2] \in 1..Len(sent[y.msg[1]]) /\ sent[y.msg[1]][y.msg[2]].dest = y.recv[1]
               /\ y.recv[2] <= posted[y.recv[1]] /\ posted[y.recv[1]] \in Nat
               /\ y.msg = <<y.msg[1], y.msg[2]>> /\ y.recv = <<y.recv[1], y.recv[2]>>
               /\ (y.msg[1] = h[1] /\ y.recv[1] = d => y.msg[2] < sh[h].msg)
    <2>1. y.msg \in Numbers /\ y.recv \in Numbers
      BY TypesAre DEF TypeFacts
    <2> QED  BY <2>1, TypesAre DEF Numbers, MatchedOK, OrderOK, TypeFacts
  <1>7. ASSUME NEW y \in matched'
        PROVE  /\ y.msg[2] \in 1..Len(sent'[y.msg[1]]) /\ sent'[y.msg[1]][y.msg[2]].dest = y.recv[1]
               /\ y.recv[2] <= posted'[y.recv[1]]
    <2>1. CASE y \in matched
      <3>1. posted'[y.recv[1]] \in Nat /\ posted[y.recv[1]] <= posted'[y.recv[1]]
        BY <1>6, <2>1
      <3> QED  BY <1>6, <2>1, <3>1
    <2>2. CASE y = new
      BY <1>2, <2>2
    <2> QED  BY <2>1, <2>2
  <1>8. ASSUME NEW x \in matched
        PROVE  x.msg # new.msg /\ x.recv # new.recv
    <2>1. x.msg # new.msg
      <3> SUFFICES ASSUME x.msg = new.msg PROVE FALSE
        OBVIOUS
      <3>1. x.msg[1] = h[1] /\ x.msg[2] = sh[h].msg
        OBVIOUS
      <3> QED  BY <1>2, <1>6, <3>1
    <2>2. x.recv # new.recv
      <3> SUFFICES ASSUME x.recv = new.recv PROVE FALSE
        OBVIOUS
      <3>1. x.recv[1] = d /\ x.recv[2] = k
        OBVIOUS
      <3> QED  BY <3>1
    <2> QED  BY <2>1, <2>2
  <1>9. ASSUME NEW x \in matched', NEW y \in matched'
        PROVE  x.msg = y.msg <=> x.recv = y.recv
    <2>1. CASE x \in matched /\ y \in matched
      BY <2>1 DEF MatchedOK
    <2>2. CASE x = new \/ y = new
      BY <1>8, <2>2
    <2> QED  BY <2>1, <2>2
  <1>10. ASSUME NEW y \in matched', NEW i \in 1..(y.msg[2] - 1), sent'[y.msg[1]][i].dest = y.recv[1]
         PROVE  /\ \A x \in matched' : x.msg = <<y.msg[1], i>> => x.recv[2] < y.recv[2]
                /\ (\A x \in matched' : x.msg # <<y.msg[1], i>>) => sent'[y.msg[1]][i].mode = "READY"
    <2>1. CASE y \in matched
      <3>1. sent[y.msg[1]][i].dest = y.recv[1]
        BY <1>10
      <3>2. /\ \A x \in matched : x.msg = <<y.msg[1], i>> => x.recv[2] < y.recv[2]
            /\ (\A x \in matched : x.msg # <<y.msg[1], i>>) => sent[y.msg[1]][i].mode = "READY"
        <4>1. NonOvertaking
          BY DEF MatchedOK
        <4> QED  BY <2>1, <3>1, <4>1 DEF NonOvertaking
      <3>3. new.msg # <<y.msg[1], i>>
        <4> SUFFICES ASSUME new.msg = <<y.msg[1], i>> PROVE FALSE
          OBVIOUS
        <4>1. h[1] = y.msg[1] /\ sh[h].msg = i
          OBVIOUS
        <4>2. d = y.recv[1]
          BY <1>2, <3>1, <4>1
        <4>3. y.msg[2] < i /\ y.msg[2] \in Nat
          BY <1>6, <2>1, <4>1, <4>2
        <4> QED  BY <4>3
      <3> QED  BY <3>2, <3>3
    <2>2. CASE y = new
      <3>1. /\ y.msg[1] = h[1] /\ y.msg[2] = sh[h].msg /\ y.recv[1] = d /\ y.recv[2] = k
            /\ i \in 1..(sh[h].msg - 1) /\ sent[h[1]][i].dest = d /\ i < sh[h].msg /\ i \in Nat
            /\ i \in 1..Len(sent[h[1]])
        <4>1. /\ y.msg[1] = h[1] /\ y.msg[2] = sh[h].msg /\ y.recv[1] = d /\ y.recv[2] = k
          BY <2>2
        <4>2. Len(sent[h[1]]) \in Nat
          BY <1>2, TypesAre DEF TypeFacts
        <4> QED  BY <1>2, <1>10, <4>1, <4>2
      <3>2. ASSUME NEW x \in matched', x.msg = <<h[1], i>> PROVE x.recv[2] < k
        <4>1. x # new
          BY <3>1, <3>2
        <4>2. x \in matched /\ x.msg[1] = h[1] /\ x.msg[2] = i
          BY <3>2, <4>1
        <4>3. x.recv[1] = d
          BY <1>6, <3>1, <4>2
        <4> QED  BY <4>2, <4>3
      <3>3. ASSUME \A x \in matched' : x.msg # <<h[1], i>> PROVE sent[h[1]][i].mode = "READY"
        <4> SUFFICES ASSUME sent[h[1]][i].mode # "READY" PROVE FALSE
          OBVIOUS
        <4>0. ~\E z \in matched : z.msg = <<h[1], i>>
          BY <3>3
        <4>1. PICK g \in Announced : g[1] = h[1] /\ sh[g].msg = i
          BY <1>2, <1>a, <3>1, <4>0
        <4>2. g # h
          BY <3>1, <4>1
        <4>3. sh[g].dest = d
          BY <3>1, <4>1, AnnouncedFacts
        <4>4. sh[h].msg < i
          BY <4>1, <4>2, <4>3 DEF Alike
        <4> QED  BY <1>2, <3>1, <4>4
      <3> QED  BY <3>1, <3>2, <3>3
    <2> QED  BY <2>1, <2>2
  <1>11. NonOvertaking'
    BY <1>10 DEF NonOvertaking
  <1> QED  BY <1>5, <1>7, <1>9, <1>11 DEF MatchedOK

----------------------------------------------------------------------------
(* Steps, seen from the handles: one send handle and one receive handle at a time. *)

LEMMA SendSide ==
  ASSUME Typed, HandlesOK, Typed', NEW h \in SH, NEW t \in Nodes, h[1] = t,
         \A g \in SH : g # h => sh'[g] = sh[g],
         \A n \in Nodes : n # t => pc'[n] = pc[n] /\ cur'[n] = cur[n] /\ nsh'[n] = nsh[n],
         \A g \in SH : g # h /\ g[1] = t => (g[2] <= nsh'[t] <=> g[2] <= nsh[t]),
         \/ pc'[t] = pc[t] /\ cur'[t] = cur[t] /\ nsh'[t] = nsh[t]
         \/ (pc[t] \in SendLocs => cur[t] = h) /\ (pc'[t] \in SendLocs => cur'[t] = h),
         SendOK(h)',
         cur'[t] = h => SenderOK(t)'
  PROVE  (\A g \in SH : SendOK(g)') /\ (\A n \in Nodes : SenderOK(n)')
  <1>1. ASSUME NEW g \in SH, g # h PROVE SendOK(g)'
    <2>1. /\ SendOK(g) /\ sh'[g] = sh[g] /\ g[1] \in Nodes /\ g[2] \in Nat
          /\ nsh[g[1]] \in Nat /\ nsh'[g[1]] \in Nat
      BY <1>1, TypesAre, TypesAreNext DEF HandlesOK, TypeFacts
    <2>2. g[2] > nsh'[g[1]] <=> g[2] > nsh[g[1]]
      BY <1>1, <2>1
    <2>3. /\ UsesSend(g[1], g)' <=> UsesSend(g[1], g)
          /\ UsesSend(g[1], g) => pc'[g[1]] = pc[g[1]]
      BY <1>1, <2>1 DEF UsesSend
    <2>4. g[2] <= nsh'[g[1]] <=> g[2] <= nsh[g[1]]
      BY <2>1, <2>2
    <2> QED  BY <2>1, <2>2, <2>3, <2>4 DEF SendOK
  <1>2. ASSUME NEW n \in Nodes PROVE SenderOK(n)'
    <2>1. SenderOK(n)
      BY DEF HandlesOK
    <2>2. CASE n # t
      <3>1. pc'[n] = pc[n] /\ cur'[n] = cur[n] /\ nsh'[n] = nsh[n]
        BY <2>2
      <3>2. CASE pc[n] \in SendLocs
        <4>1. cur[n] \in SH /\ cur[n][1] = n
          BY <2>1, <3>2 DEF SenderOK
        <4>2. sh'[cur[n]] = sh[cur[n]]
          BY <2>2, <4>1
        <4> QED  BY <2>1, <3>1, <4>2 DEF SenderOK
      <3>3. CASE pc[n] \notin SendLocs
        BY <3>1, <3>3 DEF SenderOK
      <3> QED  BY <3>2, <3>3
    <2>3. CASE n = t /\ pc'[t] \in SendLocs /\ cur'[t] # h
      <3>1. pc'[t] = pc[t] /\ cur'[t] = cur[t] /\ nsh'[t] = nsh[t]
        BY <2>3
      <3>2. cur[t] \in SH
        BY <2>1, <2>3, <3>1 DEF SenderOK
      <3>3. sh'[cur[t]] = sh[cur[t]]
        BY <2>3, <3>1, <3>2
      <3> QED  BY <2>1, <2>3, <3>1, <3>3 DEF SenderOK
    <2>4. CASE n = t /\ (pc'[t] \notin SendLocs \/ cur'[t] = h)
      BY <2>4 DEF SenderOK
    <2> QED  BY <2>2, <2>3, <2>4
  <1> QED  BY <1>1, <1>2

LEMMA SendQuiet ==
  ASSUME Typed, HandlesOK, sh' = sh, nsh' = nsh,
         \A n \in Nodes : \/ pc'[n] = pc[n] /\ cur'[n] = cur[n]
                          \/ pc[n] \notin SendLocs /\ pc'[n] \notin SendLocs
  PROVE  (\A g \in SH : SendOK(g)') /\ (\A n \in Nodes : SenderOK(n)')
  <1>1. ASSUME NEW g \in SH PROVE SendOK(g)'
    <2>1. SendOK(g) /\ g[1] \in Nodes
      BY TypesAre DEF HandlesOK, TypeFacts
    <2>2. /\ UsesSend(g[1], g)' <=> UsesSend(g[1], g)
          /\ UsesSend(g[1], g) => pc'[g[1]] = pc[g[1]]
      BY <2>1 DEF UsesSend
    <2> QED  BY <2>1, <2>2 DEF SendOK
  <1>2. ASSUME NEW n \in Nodes PROVE SenderOK(n)'
    <2>1. SenderOK(n)
      BY DEF HandlesOK
    <2>2. CASE pc'[n] = pc[n] /\ cur'[n] = cur[n]
      BY <2>1, <2>2 DEF SenderOK
    <2>3. CASE pc'[n] \notin SendLocs
      BY <2>3 DEF SenderOK
    <2> QED  BY <2>2, <2>3
  <1> QED  BY <1>1, <1>2

LEMMA RecvSide ==
  ASSUME Typed, HandlesOK, Typed', NEW r \in RH, NEW t \in Nodes, r[1] = t,
         \A g \in RH : g # r => rh'[g] = rh[g],
         \A n \in Nodes : n # t => pc'[n] = pc[n] /\ cur'[n] = cur[n] /\ nrh'[n] = nrh[n],
         \A n \in Nodes : posted[n] <= posted'[n],
         \A g \in RH : g # r /\ g[1] = t => (g[2] <= nrh'[t] <=> g[2] <= nrh[t]),
         \/ pc'[t] = pc[t] /\ cur'[t] = cur[t] /\ nrh'[t] = nrh[t]
         \/ (pc[t] \in RecvLocs => cur[t] = r) /\ (pc'[t] \in RecvLocs => cur'[t] = r),
         RecvOK(r)',
         cur'[t] = r => ReceiverOK(t)'
  PROVE  (\A g \in RH : RecvOK(g)') /\ (\A n \in Nodes : ReceiverOK(n)')
  <1>1. ASSUME NEW g \in RH, g # r PROVE RecvOK(g)'
    <2>1. /\ RecvOK(g) /\ rh'[g] = rh[g] /\ g[1] \in Nodes /\ g[2] \in Nat
          /\ nrh[g[1]] \in Nat /\ nrh'[g[1]] \in Nat /\ rh[g].msg \in Nat
          /\ posted[g[1]] \in Nat /\ posted'[g[1]] \in Nat /\ posted[g[1]] <= posted'[g[1]]
      BY <1>1, TypesAre, TypesAreNext DEF HandlesOK, TypeFacts
    <2>2. g[2] > nrh'[g[1]] <=> g[2] > nrh[g[1]]
      BY <1>1, <2>1
    <2>3. /\ UsesRecv(g[1], g)' <=> UsesRecv(g[1], g)
          /\ UsesRecv(g[1], g) => pc'[g[1]] = pc[g[1]]
      BY <1>1, <2>1 DEF UsesRecv
    <2>4. g[2] <= nrh'[g[1]] <=> g[2] <= nrh[g[1]]
      BY <2>1, <2>2
    <2>5. rh[g].msg <= posted'[g[1]]
      BY <2>1 DEF RecvOK
    <2> QED  BY <2>1, <2>2, <2>3, <2>4, <2>5 DEF RecvOK
  <1>2. ASSUME NEW n \in Nodes PROVE ReceiverOK(n)'
    <2>1. ReceiverOK(n)
      BY DEF HandlesOK
    <2>2. CASE n # t
      <3>1. pc'[n] = pc[n] /\ cur'[n] = cur[n] /\ nrh'[n] = nrh[n]
        BY <2>2
      <3>2. CASE pc[n] \in RecvLocs
        <4>1. cur[n] \in RH /\ cur[n][1] = n
          BY <2>1, <3>2 DEF ReceiverOK
        <4>2. rh'[cur[n]] = rh[cur[n]]
          BY <2>2, <4>1
        <4> QED  BY <2>1, <3>1, <4>2 DEF ReceiverOK
      <3>3. CASE pc[n] \notin RecvLocs
        BY <3>1, <3>3 DEF ReceiverOK
      <3> QED  BY <3>2, <3>3
    <2>3. CASE n = t /\ pc'[t] \in RecvLocs /\ cur'[t] # r
      <3>1. pc'[t] = pc[t] /\ cur'[t] = cur[t] /\ nrh'[t] = nrh[t]
        BY <2>3
      <3>2. cur[t] \in RH
        BY <2>1, <2>3, <3>1 DEF ReceiverOK
      <3>3. rh'[cur[t]] = rh[cur[t]]
        BY <2>3, <3>1, <3>2
      <3> QED  BY <2>1, <2>3, <3>1, <3>3 DEF ReceiverOK
    <2>4. CASE n = t /\ (pc'[t] \notin RecvLocs \/ cur'[t] = r)
      BY <2>4 DEF ReceiverOK
    <2> QED  BY <2>2, <2>3, <2>4
  <1> QED  BY <1>1, <1>2

LEMMA RecvQuiet ==
  ASSUME Typed, HandlesOK, rh' = rh, nrh' = nrh, posted' = posted,
         \A n \in Nodes : \/ pc'[n] = pc[n] /\ cur'[n] = cur[n]
                          \/ pc[n] \notin RecvLocs /\ pc'[n] \notin RecvLocs
  PROVE  (\A g \in RH : RecvOK(g)') /\ (\A n \in Nodes : ReceiverOK(n)')
  <1>1. ASSUME NEW g \in RH PROVE RecvOK(g)'
    <2>1. RecvOK(g) /\ g[1] \in Nodes
      BY TypesAre DEF HandlesOK, TypeFacts
    <2>2. /\ UsesRecv(g[1], g)' <=> UsesRecv(g[1], g)
          /\ UsesRecv(g[1], g) => pc'[g[1]] = pc[g[1]]
      BY <2>1 DEF UsesRecv
    <2> QED  BY <2>1, <2>2 DEF RecvOK
  <1>2. ASSUME NEW n \in Nodes PROVE ReceiverOK(n)'
    <2>1. ReceiverOK(n)
      BY DEF HandlesOK
    <2>2. CASE pc'[n] = pc[n] /\ cur'[n] = cur[n]
      BY <2>1, <2>2 DEF ReceiverOK
    <2>3. CASE pc'[n] \notin RecvLocs
      BY <2>3 DEF ReceiverOK
    <2> QED  BY <2>2, <2>3
  <1> QED  BY <1>1, <1>2

----------------------------------------------------------------------------
(* Steps that leave every message where it is. *)

Data == {"PEND_DATA", "PEND_DWAT"}
Queue == {"PEND_STRT", "PEND_WAIT"}

LEMMA LocalStep ==
  ASSUME Inv, Typed', Bounded', HandlesOK', UNCHANGED <<queues, net, out, history>>,
         \A n \in Nodes : nsh[n] <= nsh'[n],
         \A n \in Nodes : pc'[n] = "answer" <=> pc[n] = "answer",
         \A h \in SH : (Awaiting(h) => KeepsSend(h)) /\ (Awaiting(h)' => Awaiting(h)),
         \A r \in RH : /\ rh'[r].msg = rh[r].msg
                       /\ rh'[r].stat \in Data <=> rh[r].stat \in Data
                       /\ rh'[r].stat \in Queue <=> rh[r].stat \in Queue
  PROVE  Inv'
  <1> USE DEF Data, Queue
  <1>1. /\ Typed /\ HandlesOK /\ TokensOK /\ PlacesOK /\ RecvQueues /\ OrderOK /\ MatchedOK /\ ReceivedOK
    BY DEF Inv
  <1>2. /\ conn' = conn /\ movin' = movin /\ sq' = sq /\ rq' = rq /\ out' = out
        /\ sent' = sent /\ posted' = posted /\ matched' = matched /\ received' = received
    BY DEF queues, net, history
  <1>3. Tokens' = Tokens
    <2>1. ConnMove({}, {}) /\ MovinMove({}, {}) /\ NodeMove({}, {}) /\ QueueMove({}, {}) /\ Put({})
      BY <1>2 DEF ConnMove, MovinMove, NodeMove, QueueMove, Put
    <2>2. Tokens' = (Tokens \ {}) \cup {}
      BY <2>1, TokensMove
    <2> QED  BY <2>2
  <1>4. HistoryGrows
    BY <1>1, <1>2, TypesAre DEF HistoryGrows, TypeFacts
  <1>5. ASSUME NEW u \in Tokens
        PROVE  KeepsSend(u[2].sh) /\ (u[2].rh # Nobody => KeepsRecv(u[2].rh))
    <2>1. u[2].sh \in SH /\ Awaiting(u[2].sh) /\ u[2].rh \in RH \cup {Nobody}
      BY <1>1, TokenFacts, TypesAre DEF TypeFacts
    <2> QED  BY <2>1 DEF KeepsRecv
  <1>6. TokensOK'
    <2>1. Moves({}, {})
      BY <1>3, <1>5 DEF Moves
    <2> QED  BY <1>1, <1>4, <2>1, TokensStep
  <1>7. PlacesOK'
    BY <1>1, <1>2 DEF PlacesOK
  <1>8. RecvQueues'
    <2>1. \A n \in Nodes : \A i \in 1..Len(rq[n]) : rq[n][i] \in RH
      BY <1>1, TypesAre, ElementOfSeq DEF TypeFacts
    <2>2. \A y \in matched : y.recv[1] \in Nodes
      BY <1>1, TypesAre DEF TypeFacts
    <2>3. \A n \in Nodes : \A i, j \in 1..Len(rq[n]) : i < j => rh'[rq[n][i]].msg < rh'[rq[n][j]].msg
      BY <1>1, <2>1 DEF RecvQueues
    <2>4. \A n \in Nodes : \A r \in Elems(rq[n]) : r[1] = n /\ rh'[r].stat \in {"PEND_STRT", "PEND_WAIT"}
      BY <1>1, <2>1 DEF RecvQueues, Elems
    <2>5. \A r \in RH : rh'[r].stat \in {"PEND_STRT", "PEND_WAIT"} => r \in Elems(rq[r[1]])
      BY <1>1 DEF RecvQueues
    <2>6. \A y \in matched : \A r \in Elems(rq[y.recv[1]]) : y.recv[2] < rh'[r].msg
      BY <1>1, <2>1, <2>2 DEF RecvQueues, Elems
    <2>7. NoMissedMatch'
      BY <1>1, <1>2 DEF RecvQueues, NoMissedMatch
    <2> QED  BY <1>2, <2>3, <2>4, <2>5, <2>6, <2>7 DEF RecvQueues
  <1>9. SendsKept
    BY <1>5 DEF SendsKept, KeepsSend
  <1>10. OrderOK'
    <2>1. Announced' = Announced
      BY <1>3 DEF Announced
    <2> QED  BY <1>1, <1>2, <1>9, <2>1, QueuesRise, OrderKept
  <1>11. MatchedOK' /\ ReceivedOK'
    BY <1>1, <1>2 DEF MatchedOK, ReceivedOK, NonOvertaking
  <1> QED  BY <1>6, <1>7, <1>8, <1>10, <1>11 DEF Inv

\* A step of node t on its send handle that gives it state s.
LEMMA OnSendStep ==
  ASSUME Inv, NEW t \in Nodes, NEW s \in SendHandle, NEW l \in (SendLocs \cup {"idle"}) \ {"start_sh"},
         pc[t] \in SendLocs, OnSend(t, s, l),
         /\ s.type = sh[cur[t]].type /\ s.mode = sh[cur[t]].mode /\ s.dest = sh[cur[t]].dest
         /\ s.msg = sh[cur[t]].msg,
         Awaiting(cur[t]) =>
            /\ sh[cur[t]].stat \in Early => s.stat \in Early
            /\ sh[cur[t]].stat \in Late => s.stat \in Late
            /\ sh[cur[t]].stat = "PEND_STRT" /\ sh[cur[t]].mode = "READY" => s.stat = "PEND_STRT"
            /\ sh[cur[t]].stat = "CANCEL" => s.stat = "CANCEL",
         s.stat \in Early \cup Late => Awaiting(cur[t]),
         SendOK(cur[t])', SenderOK(t)'
  PROVE  Inv'
  <1> DEFINE h == cur[t]
  <1>1. /\ sh' = [sh EXCEPT ![h] = s] /\ pc' = [pc EXCEPT ![t] = l]
        /\ UNCHANGED <<rh, queues, locks, net, cur, out, counts, history>>
        /\ UNCHANGED <<rh, sq, rq, chlock, shlock, conn, movin, cur, out, nsh, nrh, starts, recvs,
                       spurious, sent, posted, matched, received>>
    BY DEF OnSend, queues, locks, net, counts, history
  <1>2. Typed /\ HandlesOK /\ Bounded
    BY DEF Inv
  <1>3. h \in SH /\ h[1] = t
    BY <1>2 DEF HandlesOK, SenderOK
  <1>4. Typed'
    <2>1. sh' \in [SH -> SendHandle] /\ pc' \in [Nodes -> SendLocs \cup RecvLocs \cup {"idle"}]
      BY <1>1, <1>2 DEF Typed
    <2> QED  BY <1>1, <1>2, <2>1 DEF Typed
  <1>5. /\ sh'[h] = s /\ \A g \in SH : g # h => sh'[g] = sh[g]
        /\ pc'[t] = l /\ \A n \in Nodes : n # t => pc'[n] = pc[n]
    BY <1>1, <1>2, <1>3 DEF Typed
  <1>6. Bounded'
    BY <1>1, <1>2, <1>5 DEF Bounded, SendLocs
  <1>7. HandlesOK'
    <2>1. (\A g \in SH : SendOK(g)') /\ (\A n \in Nodes : SenderOK(n)')
      BY <1>1, <1>2, <1>3, <1>4, <1>5, SendSide
    <2>2. (\A g \in RH : RecvOK(g)') /\ (\A n \in Nodes : ReceiverOK(n)')
      <3>1. pc[t] \notin RecvLocs /\ pc'[t] \notin RecvLocs
        BY <1>5 DEF SendLocs, RecvLocs
      <3> QED  BY <1>1, <1>2, <1>5, <3>1, RecvQuiet
    <2> QED  BY <2>1, <2>2 DEF HandlesOK
  <1>8. \A n \in Nodes : pc'[n] = "answer" <=> pc[n] = "answer"
    BY <1>5 DEF SendLocs
  <1>9. \A g \in SH : (Awaiting(g) => KeepsSend(g)) /\ (Awaiting(g)' => Awaiting(g))
    BY <1>3, <1>5 DEF KeepsSend, Awaiting
  <1>10. \A n \in Nodes : nsh[n] <= nsh'[n]
    BY <1>1, <1>2, TypesAre DEF TypeFacts
  <1> QED  BY <1>1, <1>4, <1>6, <1>7, <1>8, <1>9, <1>10, LocalStep

LEMMA OnRecvStep ==
  ASSUME Inv, NEW t \in Nodes, NEW s \in RecvHandle, NEW l \in {"wait_rh", "sleep_rh", "idle"},
         pc[t] \in RecvLocs \ {"answer"}, OnRecv(t, s, l),
         s.msg = rh[cur[t]].msg,
         s.stat \in Data <=> rh[cur[t]].stat \in Data,
         s.stat \in Queue <=> rh[cur[t]].stat \in Queue,
         RecvOK(cur[t])', ReceiverOK(t)'
  PROVE  Inv'
  <1> DEFINE r == cur[t]
  <1>1. /\ rh' = [rh EXCEPT ![r] = s] /\ pc' = [pc EXCEPT ![t] = l]
        /\ UNCHANGED <<queues, net, out, history>>
        /\ UNCHANGED <<sh, sq, rq, chlock, shlock, conn, movin, cur, out, nsh, nrh, starts, recvs,
                       spurious, sent, posted, matched, received>>
    BY DEF OnRecv, queues, locks, net, counts, history
  <1>2. Typed /\ HandlesOK /\ Bounded
    BY DEF Inv
  <1>3. r \in RH /\ r[1] = t
    BY <1>2 DEF HandlesOK, ReceiverOK
  <1>4. Typed'
    <2>1. rh' \in [RH -> RecvHandle] /\ pc' \in [Nodes -> SendLocs \cup RecvLocs \cup {"idle"}]
      BY <1>1, <1>2 DEF Typed, RecvLocs
    <2> QED  BY <1>1, <1>2, <2>1 DEF Typed
  <1>5. /\ rh'[r] = s /\ \A g \in RH : g # r => rh'[g] = rh[g]
        /\ pc'[t] = l /\ \A n \in Nodes : n # t => pc'[n] = pc[n]
    BY <1>1, <1>2, <1>3 DEF Typed
  <1>6. Bounded'
    BY <1>1, <1>2, <1>5 DEF Bounded
  <1>7. \A n \in Nodes : nsh[n] <= nsh'[n] /\ posted[n] <= posted'[n]
    BY <1>1, <1>2, TypesAre DEF TypeFacts
  <1>8. HandlesOK'
    <2>1. (\A g \in RH : RecvOK(g)') /\ (\A n \in Nodes : ReceiverOK(n)')
      BY <1>1, <1>2, <1>3, <1>4, <1>5, <1>7, RecvSide
    <2>2. (\A g \in SH : SendOK(g)') /\ (\A n \in Nodes : SenderOK(n)')
      <3>1. pc[t] \notin SendLocs /\ pc'[t] \notin SendLocs
        BY <1>5 DEF SendLocs, RecvLocs
      <3> QED  BY <1>1, <1>2, <1>5, <3>1, SendQuiet
    <2> QED  BY <2>1, <2>2 DEF HandlesOK
  <1>9. \A n \in Nodes : pc'[n] = "answer" <=> pc[n] = "answer"
    BY <1>5 DEF RecvLocs
  <1>10. \A g \in SH : (Awaiting(g) => KeepsSend(g)) /\ (Awaiting(g)' => Awaiting(g))
    BY <1>1 DEF KeepsSend, Awaiting
  <1>11. \A g \in RH :
           /\ rh'[g].msg = rh[g].msg
           /\ rh'[g].stat \in Data <=> rh[g].stat \in Data
           /\ rh'[g].stat \in Queue <=> rh[g].stat \in Queue
    BY <1>3, <1>5
  <1> QED  BY <1>1, <1>4, <1>6, <1>7, <1>8, <1>9, <1>10, <1>11, LocalStep

----------------------------------------------------------------------------
(* tmpi_inter_wait_sh, tmpi_inter_cancel_sh and tmpi_intra_wait_rh. *)

LEMMA SenderFacts ==
  ASSUME Inv, NEW t \in Nodes, pc[t] \in SendLocs
  PROVE  /\ cur[t] \in SH /\ cur[t][1] = t /\ cur[t][2] <= nsh[t] /\ ~(cur[t][2] > nsh[t])
         /\ sh[cur[t]] \in SendHandle /\ SendOK(cur[t]) /\ SenderOK(t) /\ sh[cur[t]].live
         /\ Typed /\ HandlesOK
  <1>1. Typed /\ HandlesOK /\ SenderOK(t)
    BY DEF Inv, HandlesOK
  <1>2. cur[t] \in SH /\ cur[t][1] = t /\ cur[t][2] <= nsh[t] /\ sh[cur[t]].live
    BY <1>1 DEF SenderOK
  <1>3. sh[cur[t]] \in SendHandle /\ SendOK(cur[t]) /\ cur[t][2] \in Nat /\ nsh[t] \in Nat
    BY <1>1, <1>2, TypesAre DEF HandlesOK, TypeFacts
  <1> QED  BY <1>1, <1>2, <1>3

LEMMA OnSendFacts ==
  ASSUME Inv, NEW t \in Nodes, pc[t] \in SendLocs, NEW s, NEW l, OnSend(t, s, l)
  PROVE  sh'[cur[t]] = s /\ pc'[t] = l /\ cur' = cur /\ nsh' = nsh
  <1>1. cur[t] \in SH /\ Typed
    BY SenderFacts
  <1> QED  BY <1>1 DEF OnSend, Typed, counts

\* The handle is left as it was.
LEMMA OnSendSame ==
  ASSUME Inv, NEW t \in Nodes, NEW l \in (SendLocs \cup {"idle"}) \ {"start_sh"},
         pc[t] \in SendLocs, OnSend(t, sh[cur[t]], l),
         sh[cur[t]].type = "SEND" => l # "idle",
         sh[cur[t]].stat \in {"PEND_WAIT", "PEND_DWAT"} => l \in {"sleep_sh", "wake_sh"},
         SenderOK(t)'
  PROVE  Inv'
  <1> DEFINE h == cur[t]
             s == sh[cur[t]]
  <1>1. /\ h \in SH /\ h[1] = t /\ h[2] <= nsh[t] /\ ~(h[2] > nsh[t]) /\ s \in SendHandle
        /\ SendOK(h) /\ s.live
    BY SenderFacts
  <1>2. sh'[h] = s /\ pc'[t] = l /\ cur' = cur /\ nsh' = nsh
    BY OnSendFacts
  <1>3. SendOK(h)'
    <2>1. l # "idle" => UsesSend(t, h)'
      BY <1>2 DEF UsesSend
    <2> QED  BY <1>1, <1>2, <2>1 DEF SendOK
  <1>4. s.stat \in Early \cup Late => Awaiting(h)
    BY DEF Awaiting
  <1> QED  BY <1>1, <1>3, <1>4, OnSendStep

\* The request is over.
LEMMA OnSendOver ==
  ASSUME Inv, NEW t \in Nodes, pc[t] \in SendLocs, OnSend(t, SendOver(sh[cur[t]]), "idle"),
         sh[cur[t]].stat \in {"MATCH", "PEND_NRDY"}
  PROVE  Inv'
  <1> DEFINE h == cur[t]
             s == sh[cur[t]]
             o == SendOver(sh[cur[t]])
  <1>1. /\ h \in SH /\ h[1] = t /\ h[2] <= nsh[t] /\ ~(h[2] > nsh[t]) /\ s \in SendHandle
        /\ SendOK(h) /\ s.live
    BY SenderFacts
  <1>2. sh'[h] = o /\ pc'[t] = "idle" /\ cur' = cur /\ nsh' = nsh
    BY OnSendFacts
  <1>3. /\ o \in SendHandle /\ o.stat = "FREE" /\ o.type = s.type /\ o.mode = s.mode
        /\ o.dest = s.dest /\ o.msg = s.msg /\ o.sys_buf = s.sys_buf
        /\ s.type = "PERSISTENT" => o.live = s.live /\ o.held = s.held /\ o.curdata = "user"
        /\ s.type # "PERSISTENT" => o.live = FALSE /\ o.held = FALSE /\ o.curdata = s.curdata
    BY <1>1 DEF SendOver, Freed, SendHandle, Stats
  <1>4. SendOK(h)'
    <2> HIDE DEF o
    <2> QED  BY <1>1, <1>2, <1>3 DEF SendOK
  <1>5. SenderOK(t)'
    BY <1>2 DEF SenderOK, SendLocs
  <1>6. ~Awaiting(h) /\ o.stat \notin Early \cup Late
    BY <1>3 DEF Awaiting, Early, Late
  <1> QED  BY <1>1, <1>3, <1>4, <1>5, <1>6, OnSendStep

LEMMA StepEnterWaitSend ==
  ASSUME Inv, NEW t \in Nodes, EnterWaitSend(t)
  PROVE  Inv'
  <1> DEFINE h == cur[t]
             l == IF sh[h].stat \in PEND \cup {"MATCH"} THEN "wait_sh" ELSE "idle"
  <1>1. pc[t] = "enter_wait_sh" /\ OnSend(t, sh[h], l) /\ pc[t] \in SendLocs
    BY DEF EnterWaitSend, SendLocs
  <1>2. /\ h \in SH /\ h[1] = t /\ h[2] <= nsh[t] /\ sh[h] \in SendHandle
        /\ SendOK(h) /\ sh[h].live /\ SenderOK(t)
    BY <1>1, SenderFacts
  <1>3. sh'[h] = sh[h] /\ pc'[t] = l /\ cur' = cur /\ nsh' = nsh
    BY <1>1, OnSendFacts
  <1>4. sh[h].stat \notin {"PEND_WAIT", "PEND_DWAT"}
    BY <1>1, <1>2 DEF SendOK
  <1>5. sh[h].type = "SEND" => sh[h].stat \in PEND \cup {"MATCH"}
    BY <1>1, <1>2 DEF SenderOK
  <1>6. l = "wait_sh" => sh[h].stat \in {"PEND_STRT", "PEND_DATA", "MATCH", "PEND_NRDY"}
    <2>1. sh[h].stat # "PEND_RELS"
      BY <1>1, <1>2 DEF SenderOK
    <2> QED  BY <1>4, <2>1 DEF PEND
  <1>7. SenderOK(t)'
    BY <1>2, <1>3, <1>6 DEF SenderOK, SendLocs
  <1> QED  BY <1>1, <1>4, <1>5, <1>7, OnSendSame DEF SendLocs

LEMMA StepWaitSendReady ==
  ASSUME Inv, NEW t \in Nodes, WaitSendReady(t)
  PROVE  Inv'
  <1> DEFINE h == cur[t]
  <1>1. /\ pc[t] \in SendLocs /\ OnSend(t, sh[h], "sleep_rdy")
        /\ sh[h].stat = "PEND_STRT" /\ sh[h].mode = "READY"
    BY DEF WaitSendReady, AtSend, SendLocs
  <1>2. h \in SH /\ h[1] = t /\ h[2] <= nsh[t] /\ sh[h].live
    BY <1>1, SenderFacts
  <1>3. sh'[h] = sh[h] /\ pc'[t] = "sleep_rdy" /\ cur' = cur /\ nsh' = nsh
    BY <1>1, OnSendFacts
  <1>4. SenderOK(t)'
    BY <1>1, <1>2, <1>3 DEF SenderOK
  <1> QED  BY <1>1, <1>4, OnSendSame DEF SendLocs

LEMMA StepWaitSendOver ==
  ASSUME Inv, NEW t \in Nodes, WaitSendOver(t)
  PROVE  Inv'
  <1>1. /\ pc[t] \in SendLocs /\ OnSend(t, SendOver(sh[cur[t]]), "idle")
        /\ sh[cur[t]].stat \in {"MATCH", "PEND_NRDY"}
    BY DEF WaitSendOver, AtSend, SendLocs
  <1> QED  BY <1>1, OnSendOver

LEMMA StepWaitSendSync ==
  ASSUME Inv, NEW t \in Nodes, WaitSendSync(t)
  PROVE  Inv'
  <1> DEFINE h == cur[t]
             s == sh[cur[t]]
             o == [s EXCEPT !.stat = IF @ = "PEND_STRT" THEN "PEND_WAIT" ELSE "PEND_DWAT"]
  <1>1. /\ pc[t] = "wait_sh" /\ pc[t] \in SendLocs /\ OnSend(t, o, "sleep_sh")
        /\ s.stat \notin {"MATCH", "PEND_NRDY"} /\ ~(s.stat = "PEND_STRT" /\ s.mode = "READY")
        /\ Synchronous(s)
    BY DEF WaitSendSync, AtSend, SendLocs
  <1>2. /\ h \in SH /\ h[1] = t /\ h[2] <= nsh[t] /\ ~(h[2] > nsh[t]) /\ s \in SendHandle
        /\ SendOK(h) /\ s.live /\ SenderOK(t)
    BY <1>1, SenderFacts
  <1>3. sh'[h] = o /\ pc'[t] = "sleep_sh" /\ cur' = cur /\ nsh' = nsh
    BY <1>1, OnSendFacts
  <1>4. s.stat \in {"PEND_STRT", "PEND_DATA"}
    BY <1>1, <1>2 DEF SenderOK
  <1>5. /\ o \in SendHandle /\ o.type = s.type /\ o.mode = s.mode
        /\ o.dest = s.dest /\ o.msg = s.msg /\ o.sys_buf = s.sys_buf
        /\ o.live = s.live /\ o.held = s.held /\ o.curdata = s.curdata
        /\ o.stat = IF s.stat = "PEND_STRT" THEN "PEND_WAIT" ELSE "PEND_DWAT"
    BY <1>2 DEF SendHandle, Stats, PEND
  <1>6. UsesSend(t, h)'
    BY <1>3 DEF UsesSend, SendLocs
  <1>7. SendOK(h)'
    <2> HIDE DEF o
    <2>1. o.stat = "PEND_WAIT" => o.mode # "READY"
      BY <1>1, <1>5
    <2> QED  BY <1>2, <1>3, <1>4, <1>5, <1>6, <2>1 DEF SendOK
  <1>8. SenderOK(t)'
    <2> HIDE DEF o
    <2> QED  BY <1>2, <1>3, <1>4, <1>5 DEF SenderOK
  <1>9. /\ Awaiting(h)
        /\ s.stat \in Early => o.stat \in Early
        /\ s.stat \in Late => o.stat \in Late
        /\ s.stat # "CANCEL"
    BY <1>4, <1>5 DEF Awaiting, Early, Late
  <1> QED  BY <1>1, <1>5, <1>7, <1>8, <1>9, OnSendStep DEF SendLocs

LEMMA StepWaitSendBuffered ==
  ASSUME Inv, NEW t \in Nodes, WaitSendBuffered(t)
  PROVE  Inv'
  <1> DEFINE h == cur[t]
             s == sh[cur[t]]
             o == SendLeft(sh[cur[t]])
  <1>1. /\ pc[t] = "wait_sh" /\ pc[t] \in SendLocs /\ OnSend(t, o, "idle")
        /\ s.stat \notin {"MATCH", "PEND_NRDY"} /\ ~Synchronous(s)
    BY DEF WaitSendBuffered, AtSend, SendLocs
  <1>2. /\ h \in SH /\ h[1] = t /\ h[2] <= nsh[t] /\ ~(h[2] > nsh[t]) /\ s \in SendHandle
        /\ SendOK(h) /\ s.live /\ SenderOK(t)
    BY <1>1, SenderFacts
  <1>3. sh'[h] = o /\ pc'[t] = "idle" /\ cur' = cur /\ nsh' = nsh
    BY <1>1, OnSendFacts
  <1>4. /\ s.stat \in {"PEND_STRT", "PEND_DATA"} /\ s.type # "PERSISTENT" /\ s.sys_buf
        /\ s.curdata \in {"user", "sys"} /\ s.mode # "READY"
    <2>1. s.stat \in {"PEND_STRT", "PEND_DATA"}
      BY <1>1, <1>2 DEF SenderOK
    <2>2. s.mode \in Modes /\ s.curdata \in {"user", "sys", "garbage"}
      BY <1>2 DEF SendHandle
    <2> QED  BY <1>1, <1>2, <2>1, <2>2 DEF SendOK, Synchronous, Modes
  <1>5. /\ o \in SendHandle /\ o.type = s.type /\ o.mode = s.mode
        /\ o.dest = s.dest /\ o.msg = s.msg /\ o.sys_buf = s.sys_buf
        /\ o.live = s.live /\ o.held = FALSE /\ o.curdata = "sys" /\ o.stat = "PEND_RELS"
    BY <1>2, <1>4 DEF SendLeft, SendHandle, Stats, PEND
  <1>6. ~Synchronous(o)
    <2> HIDE DEF o
    <2> QED  BY <1>1, <1>5 DEF Synchronous
  <1>7. SendOK(h)'
    <2> HIDE DEF o
    <2> QED  BY <1>2, <1>3, <1>4, <1>5, <1>6 DEF SendOK
  <1>8. SenderOK(t)'
    BY <1>3 DEF SenderOK, SendLocs
  <1>9. /\ Awaiting(h)
        /\ s.stat \in Early => o.stat \in Early
        /\ s.stat \in Late => o.stat \in Late
    BY <1>4, <1>5 DEF Awaiting, Early, Late
  <1> QED  BY <1>1, <1>4, <1>5, <1>7, <1>8, <1>9, OnSendStep DEF SendLocs

LEMMA StepWakeSend ==
  ASSUME Inv, NEW t \in Nodes, WakeSend(t)
  PROVE  Inv'
  <1> DEFINE h == cur[t]
  <1>1. pc[t] = "wake_sh" /\ pc[t] \in SendLocs
    BY DEF WakeSend, AtSend, SendLocs
  <1>2. CASE sh[h].stat = "MATCH" /\ OnSend(t, SendOver(sh[h]), "idle")
    BY <1>1, <1>2, OnSendOver
  <1>3. CASE sh[h].stat # "MATCH" /\ OnSend(t, sh[h], "sleep_sh")
    <2>1. h \in SH /\ h[1] = t /\ h[2] <= nsh[t] /\ sh[h].live /\ SenderOK(t)
      BY <1>1, SenderFacts
    <2>2. sh'[h] = sh[h] /\ pc'[t] = "sleep_sh" /\ cur' = cur /\ nsh' = nsh
      BY <1>1, <1>3, OnSendFacts
    <2>3. SenderOK(t)'
      BY <1>1, <1>3, <2>1, <2>2 DEF SenderOK
    <2> QED  BY <1>1, <1>3, <2>3, OnSendSame DEF SendLocs
  <1> QED  BY <1>2, <1>3 DEF WakeSend

LEMMA StepCancelSend ==
  ASSUME Inv, NEW t \in Nodes, CancelSend(t)
  PROVE  Inv'
  <1> DEFINE h == cur[t]
             s == sh[cur[t]]
             o == SendCancelled(sh[cur[t]])
  <1>1. pc[t] = "cancel_sh" /\ pc[t] \in SendLocs
    BY DEF CancelSend, AtSend, SendLocs
  <1>2. CASE s.stat \in {"MATCH", "PEND_NRDY"}
    <2>1. OnSend(t, SendOver(s), "idle")
      BY <1>2 DEF CancelSend
    <2> QED  BY <1>1, <1>2, <2>1, OnSendOver
  <1>3. CASE s.stat \notin {"MATCH", "PEND_NRDY"}
    <2>1. OnSend(t, o, "idle")
      BY <1>3 DEF CancelSend
    <2>2. /\ h \in SH /\ h[1] = t /\ h[2] <= nsh[t] /\ ~(h[2] > nsh[t]) /\ s \in SendHandle
          /\ SendOK(h) /\ s.live /\ SenderOK(t)
      BY <1>1, SenderFacts
    <2>3. sh'[h] = o /\ pc'[t] = "idle" /\ cur' = cur /\ nsh' = nsh
      BY <1>1, <2>1, OnSendFacts
    <2>4. /\ s.stat \in {"PEND_STRT", "PEND_DATA"} /\ s.held /\ s.type # "SEND"
          /\ "cancel" \in RequestCalls /\ s.mode # "READY"
      <3>1. s.stat \in {"PEND_STRT", "PEND_DATA"} /\ s.held /\ "cancel" \in RequestCalls /\ s.mode # "READY"
        BY <1>1, <1>3, <2>2 DEF SenderOK
      <3> QED  BY <2>2, <3>1 DEF SendOK
    <2>5. /\ o \in SendHandle /\ o.type = s.type /\ o.mode = s.mode
          /\ o.dest = s.dest /\ o.msg = s.msg /\ o.sys_buf = s.sys_buf
          /\ o.live = s.live /\ (o.held <=> s.type = "PERSISTENT") /\ o.curdata = "garbage" /\ o.stat = "CANCEL"
      BY <2>2 DEF SendCancelled, SendHandle, Stats
    <2>6. SendOK(h)'
      <3> HIDE DEF o
      <3> QED  BY <2>2, <2>3, <2>4, <2>5 DEF SendOK
    <2>7. SenderOK(t)'
      BY <2>3 DEF SenderOK, SendLocs
    <2>8. /\ Awaiting(h)
          /\ s.stat \in Early => o.stat \in Early
          /\ s.stat \in Late => o.stat \in Late
      BY <2>4, <2>5 DEF Awaiting, Early, Late
    <2> QED  BY <1>1, <2>1, <2>4, <2>5, <2>6, <2>7, <2>8, OnSendStep DEF SendLocs
  <1> QED  BY <1>2, <1>3

LEMMA ReceiverFacts ==
  ASSUME Inv, NEW t \in Nodes, pc[t] \in RecvLocs
  PROVE  /\ cur[t] \in RH /\ cur[t][1] = t /\ cur[t][2] <= nrh[t] /\ ~(cur[t][2] > nrh[t])
         /\ rh[cur[t]] \in RecvHandle /\ RecvOK(cur[t]) /\ ReceiverOK(t) /\ rh[cur[t]].live
         /\ Typed /\ HandlesOK
  <1>1. Typed /\ HandlesOK /\ ReceiverOK(t)
    BY DEF Inv, HandlesOK
  <1>2. cur[t] \in RH /\ cur[t][1] = t /\ cur[t][2] <= nrh[t] /\ rh[cur[t]].live
    BY <1>1 DEF ReceiverOK
  <1>3. rh[cur[t]] \in RecvHandle /\ RecvOK(cur[t]) /\ cur[t][2] \in Nat /\ nrh[t] \in Nat
    BY <1>1, <1>2, TypesAre DEF HandlesOK, TypeFacts
  <1> QED  BY <1>1, <1>2, <1>3

LEMMA OnRecvFacts ==
  ASSUME Inv, NEW t \in Nodes, pc[t] \in RecvLocs, NEW s, NEW l, OnRecv(t, s, l)
  PROVE  rh'[cur[t]] = s /\ pc'[t] = l /\ cur' = cur /\ nrh' = nrh /\ posted' = posted
  <1>1. cur[t] \in RH /\ Typed
    BY ReceiverFacts
  <1> QED  BY <1>1 DEF OnRecv, Typed, counts, history

\* The receive is over.
LEMMA OnRecvOver ==
  ASSUME Inv, NEW t \in Nodes, pc[t] \in RecvLocs \ {"answer"},
         OnRecv(t, RecvOver(rh[cur[t]]), "idle"), rh[cur[t]].stat = "MATCH"
  PROVE  Inv'
  <1> DEFINE r == cur[t]
             s == rh[cur[t]]
             o == RecvOver(rh[cur[t]])
  <1>1. /\ r \in RH /\ r[1] = t /\ r[2] <= nrh[t] /\ ~(r[2] > nrh[t]) /\ s \in RecvHandle
        /\ RecvOK(r) /\ s.live
    BY ReceiverFacts
  <1>2. rh'[r] = o /\ pc'[t] = "idle" /\ cur' = cur /\ nrh' = nrh /\ posted' = posted
    BY OnRecvFacts
  <1>3. /\ o \in RecvHandle /\ o.stat = "FREE" /\ o.msg = s.msg /\ o.live = FALSE /\ o.held = FALSE
    BY <1>1 DEF RecvOver, Freed, RecvHandle, RecvStats
  <1>4. RecvOK(r)'
    <2> HIDE DEF o
    <2> QED  BY <1>1, <1>2, <1>3 DEF RecvOK
  <1>5. ReceiverOK(t)'
    BY <1>2 DEF ReceiverOK, RecvLocs
  <1> QED  BY <1>3, <1>4, <1>5, OnRecvStep DEF Data, Queue

\* The receive waits, or goes on waiting.
LEMMA OnRecvWait ==
  ASSUME Inv, NEW t \in Nodes, pc[t] \in RecvLocs \ {"answer"},
         NEW st \in {"PEND_STRT", "PEND_DATA", "PEND_WAIT", "PEND_DWAT", "MATCH"},
         NEW l \in {"wait_rh", "sleep_rh"},
         OnRecv(t, [rh[cur[t]] EXCEPT !.stat = st], l),
         rh[cur[t]].stat \in {"PEND_STRT", "PEND_DATA", "PEND_WAIT", "PEND_DWAT", "MATCH"},
         st \in Data <=> rh[cur[t]].stat \in Data,
         st \in Queue <=> rh[cur[t]].stat \in Queue,
         l = "wait_rh" <=> st \in {"PEND_STRT", "PEND_DATA", "MATCH"},
         l = "sleep_rh" <=> st \in {"PEND_WAIT", "PEND_DWAT"}
  PROVE  Inv'
  <1> DEFINE r == cur[t]
             s == rh[cur[t]]
             o == [s EXCEPT !.stat = st]
  <1>1. /\ r \in RH /\ r[1] = t /\ r[2] <= nrh[t] /\ ~(r[2] > nrh[t]) /\ s \in RecvHandle
        /\ RecvOK(r) /\ s.live
    BY ReceiverFacts
  <1>2. rh'[r] = o /\ pc'[t] = l /\ cur' = cur /\ nrh' = nrh /\ posted' = posted
    BY OnRecvFacts
  <1>3. /\ o \in RecvHandle /\ o.stat = st /\ o.msg = s.msg /\ o.live = s.live /\ o.held = s.held
        /\ o.type = s.type
    BY <1>1 DEF RecvHandle, RecvStats
  <1>4. UsesRecv(t, r)'
    BY <1>2 DEF UsesRecv, RecvLocs
  <1>5. RecvOK(r)'
    <2> HIDE DEF o
    <2> QED  BY <1>1, <1>2, <1>3, <1>4 DEF RecvOK
  <1>6. ReceiverOK(t)'
    <2> HIDE DEF o
    <2> QED  BY <1>1, <1>2, <1>3 DEF ReceiverOK
  <1> QED  BY <1>3, <1>5, <1>6, OnRecvStep

LEMMA StepEnterWaitRecv ==
  ASSUME Inv, NEW t \in Nodes, EnterWaitRecv(t)
  PROVE  Inv'
  <1> DEFINE s == rh[cur[t]]
  <1>1. pc[t] = "enter_wait_rh" /\ pc[t] \in RecvLocs
    BY DEF EnterWaitRecv, RecvLocs
  <1>2. s \in RecvHandle /\ s.stat \in {"PEND_STRT", "PEND_DATA", "MATCH"}
    BY <1>1, ReceiverFacts DEF ReceiverOK
  <1>3. s = [s EXCEPT !.stat = s.stat]
    BY <1>2 DEF RecvHandle
  <1>4. OnRecv(t, s, "wait_rh")
    BY <1>2 DEF EnterWaitRecv, PEND
  <1>5. OnRecv(t, [s EXCEPT !.stat = s.stat], "wait_rh")
    BY <1>3, <1>4
  <1> QED  BY <1>1, <1>2, <1>5, OnRecvWait

LEMMA StepWaitRecv ==
  ASSUME Inv, NEW t \in Nodes, WaitRecv(t)
  PROVE  Inv'
  <1> DEFINE s == rh[cur[t]]
  <1>1. pc[t] = "wait_rh" /\ pc[t] \in RecvLocs
    BY DEF WaitRecv, RecvLocs
  <1>2. s.stat \in {"PEND_STRT", "PEND_DATA", "MATCH"}
    BY <1>1, ReceiverFacts DEF ReceiverOK
  <1>3. CASE s.stat = "MATCH"
    <2>1. OnRecv(t, RecvOver(s), "idle")
      BY <1>3 DEF WaitRecv
    <2> QED  BY <1>1, <1>3, <2>1, OnRecvOver
  <1>4. CASE s.stat = "PEND_STRT"
    <2>1. OnRecv(t, [s EXCEPT !.stat = "PEND_WAIT"], "sleep_rh")
      BY <1>4 DEF WaitRecv
    <2> QED  BY <1>1, <1>4, <2>1, OnRecvWait DEF Data, Queue
  <1>5. CASE s.stat = "PEND_DATA"
    <2>1. OnRecv(t, [s EXCEPT !.stat = "PEND_DWAT"], "sleep_rh")
      BY <1>5 DEF WaitRecv
    <2> QED  BY <1>1, <1>5, <2>1, OnRecvWait DEF Data, Queue
  <1> QED  BY <1>2, <1>3, <1>4, <1>5

LEMMA StepWakeRecv ==
  ASSUME Inv, NEW t \in Nodes, WakeRecv(t)
  PROVE  Inv'
  <1> DEFINE s == rh[cur[t]]
  <1>1. pc[t] = "wake_rh" /\ pc[t] \in RecvLocs
    BY DEF WakeRecv, RecvLocs
  <1>2. s \in RecvHandle /\ s.stat \in {"PEND_WAIT", "PEND_DWAT", "MATCH"}
    BY <1>1, ReceiverFacts DEF ReceiverOK
  <1>3. CASE s.stat = "MATCH"
    <2>1. OnRecv(t, RecvOver(s), "idle")
      BY <1>3 DEF WakeRecv
    <2> QED  BY <1>1, <1>3, <2>1, OnRecvOver
  <1>4. CASE s.stat # "MATCH"
    <2>1. s = [s EXCEPT !.stat = s.stat]
      BY <1>2 DEF RecvHandle
    <2>2. OnRecv(t, s, "sleep_rh")
      BY <1>4 DEF WakeRecv
    <2>3. OnRecv(t, [s EXCEPT !.stat = s.stat], "sleep_rh")
      BY <2>1, <2>2
    <2> QED  BY <1>1, <1>2, <1>4, <2>3, OnRecvWait
  <1> QED  BY <1>3, <1>4

----------------------------------------------------------------------------
(* The calls of a program, and spurious wake-ups. *)

LEMMA StepInitSend ==
  ASSUME Careful, Inv, NEW t \in Nodes, NEW c \in SendCalls, NEW sys \in BOOLEAN, InitSend(t, c, sys)
  PROVE  Inv'
  <1>0. PICK h : h = <<t, nsh[t] + 1>>
    OBVIOUS
  <1> DEFINE l == IF c.type = "PERSISTENT" THEN "idle" ELSE "start_sh"
             s == [stat |-> "CREATE", type |-> c.type, mode |-> c.mode, dest |-> c.dest,
                   long |-> c.long, sys_buf |-> sys, curdata |-> "user", msg |-> 0,
                   live |-> TRUE, held |-> c.type # "SEND"]
  <1>1. /\ c.from = t /\ nsh[t] < MaxSends /\ starts < MaxStarts
        /\ sys => c.mode \in {"STANDARD", "BUFFERED"}
        /\ c.mode = "BUFFERED" => sys
        /\ sh' = [sh EXCEPT ![h] = s] /\ cur' = [cur EXCEPT ![t] = h]
        /\ pc[t] = "idle" /\ pc' = [pc EXCEPT ![t] = l] /\ nsh' = [nsh EXCEPT ![t] = @ + 1]
        /\ UNCHANGED <<queues, net, out, history>>
        /\ UNCHANGED <<rh, sq, rq, chlock, shlock, conn, movin, out, nrh, starts, recvs,
                       spurious, sent, posted, matched, received>>
    BY <1>0 DEF InitSend, Goto, queues, locks, net, history
  <1>2. Typed /\ HandlesOK /\ Bounded
    BY DEF Inv
  <1>3. /\ c.from \in Nodes /\ c.dest \in Nodes /\ Mac[c.from] # Mac[c.dest]
        /\ c.mode \in Modes /\ c.long \in BOOLEAN /\ c.type \in SendTypes
        /\ c.type = "PERSISTENT" => c.mode \in {"SYNC", "READY"}
        /\ c.mode = "READY" /\ "cancel" \in RequestCalls => c.type = "SEND"
        /\ MaxSends \in Nat /\ MaxStarts \in Nat
    BY RemoteAssumption DEF Careful, Modes, SendTypes
  <1>4. nsh[t] \in Nat /\ nsh[t] + 1 \in 1..MaxSends /\ h \in SH /\ h[1] = t /\ h[2] = nsh[t] + 1
    BY <1>0, <1>1, <1>2, <1>3, TypesAre DEF TypeFacts, SH
  <1>5. /\ s \in SendHandle /\ s.stat = "CREATE" /\ s.type = c.type /\ s.mode = c.mode
        /\ s.dest = c.dest /\ s.sys_buf = sys /\ s.curdata = "user" /\ s.live = TRUE
        /\ (s.held <=> c.type # "SEND")
    BY <1>3 DEF SendHandle, Stats
  <1> HIDE DEF s
  <1>6. /\ sh'[h] = s /\ \A g \in SH : g # h => sh'[g] = sh[g]
        /\ pc'[t] = l /\ \A n \in Nodes : n # t => pc'[n] = pc[n]
        /\ cur'[t] = h /\ \A n \in Nodes : n # t => cur'[n] = cur[n]
        /\ nsh'[t] = nsh[t] + 1 /\ \A n \in Nodes : n # t => nsh'[n] = nsh[n]
    BY <1>1, <1>2, <1>4 DEF Typed
  <1>7. Typed'
    <2>1. /\ sh' \in [SH -> SendHandle] /\ pc' \in [Nodes -> SendLocs \cup RecvLocs \cup {"idle"}]
          /\ nsh' \in [Nodes -> Nat]
      BY <1>1, <1>2, <1>4, <1>5 DEF Typed, SendLocs
    <2>2. cur' \in [Nodes -> Numbers]
      BY <1>0, <1>1, <1>2, <1>4 DEF Typed, Numbers
    <2> QED  BY <1>1, <1>2, <2>1, <2>2 DEF Typed
  <1>8. Bounded'
    <2> SUFFICES ASSUME NEW n \in Nodes
                 PROVE  /\ nsh'[n] <= MaxSends
                        /\ pc'[n] = "start_rh" => posted[n] < nrh[n]
                        /\ pc'[n] = "start_sh" => Len(sent[n]) < MaxStarts
      BY <1>1, <1>2 DEF Bounded
    <2>1. Len(sent[n]) \in Nat /\ starts \in Nat /\ Len(sent[n]) <= starts
      BY <1>2, TypesAre DEF TypeFacts, Bounded, Typed
    <2>2. CASE n = t
      BY <1>1, <1>3, <1>4, <1>6, <2>1, <2>2
    <2>3. CASE n # t
      BY <1>2, <1>6, <2>3 DEF Bounded
    <2> QED  BY <2>2, <2>3
  <1>9. HandlesOK'
    <2>1. ~(h[2] > nsh'[t])
      BY <1>4, <1>6
    <2>2. c.type # "PERSISTENT" => UsesSend(t, h)'
      BY <1>6 DEF UsesSend, SendLocs
    <2>3. SendOK(h)'
      BY <1>1, <1>3, <1>4, <1>5, <1>6, <2>1, <2>2 DEF SendOK
    <2>4. SenderOK(t)'
      BY <1>4, <1>5, <1>6 DEF SenderOK, SendLocs
    <2>5. \A g \in SH : g # h /\ g[1] = t => (g[2] <= nsh'[t] <=> g[2] <= nsh[t])
      <3> SUFFICES ASSUME NEW g \in SH, g # h, g[1] = t PROVE g[2] <= nsh'[t] <=> g[2] <= nsh[t]
        OBVIOUS
      <3>1. g[2] \in Nat /\ g = <<t, g[2]>>
        BY <1>2, TypesAre DEF TypeFacts
      <3>2. g[2] # nsh[t] + 1
        BY <1>0, <3>1
      <3> QED  BY <1>4, <1>6, <3>1, <3>2
    <2>6. pc[t] \notin SendLocs /\ pc[t] \notin RecvLocs /\ pc'[t] \notin RecvLocs
      BY <1>1, <1>6 DEF SendLocs, RecvLocs
    <2>7. (\A g \in SH : SendOK(g)') /\ (\A n \in Nodes : SenderOK(n)')
      BY <1>2, <1>4, <1>6, <1>7, <2>3, <2>4, <2>5, <2>6, SendSide
    <2>8. (\A g \in RH : RecvOK(g)') /\ (\A n \in Nodes : ReceiverOK(n)')
      BY <1>1, <1>2, <1>6, <2>6, RecvQuiet
    <2> QED  BY <2>7, <2>8 DEF HandlesOK
  <1>10. \A n \in Nodes : (pc'[n] = "answer" <=> pc[n] = "answer") /\ nsh[n] <= nsh'[n]
    <2> TAKE n \in Nodes
    <2>1. nsh[n] \in Nat
      BY <1>2, TypesAre DEF TypeFacts
    <2>2. CASE n = t
      BY <1>1, <1>6, <2>1, <2>2
    <2> QED  BY <1>6, <2>1, <2>2
  <1>11. sh[h] = NoSend
    BY <1>2, <1>4 DEF HandlesOK, SendOK
  <1>12. ~Awaiting(h) /\ ~Awaiting(h)'
    BY <1>5, <1>6, <1>11 DEF Awaiting, Early, Late, NoSend
  <1>13. \A g \in SH : (Awaiting(g) => KeepsSend(g)) /\ (Awaiting(g)' => Awaiting(g))
    BY <1>6, <1>12 DEF KeepsSend, Awaiting
  <1> QED  BY <1>1, <1>7, <1>8, <1>9, <1>10, <1>13, LocalStep

LEMMA StepInitRecv ==
  ASSUME Inv, NEW t \in Nodes, NEW c \in RecvCalls, InitRecv(t, c)
  PROVE  Inv'
  <1>0. PICK r : r = <<t, nrh[t] + 1>>
    OBVIOUS
  <1> DEFINE s == [stat |-> "CREATE", type |-> c.type, msg |-> 0, live |-> TRUE, held |-> c.type # "RECV"]
  <1>1. /\ recvs < MaxRecvs
        /\ rh' = [rh EXCEPT ![r] = s] /\ cur' = [cur EXCEPT ![t] = r]
        /\ pc[t] = "idle" /\ pc' = [pc EXCEPT ![t] = "start_rh"] /\ nrh' = [nrh EXCEPT ![t] = @ + 1]
        /\ recvs' = recvs + 1
        /\ UNCHANGED <<queues, net, out, history>>
        /\ UNCHANGED <<sh, sq, rq, chlock, shlock, conn, movin, out, nsh, starts,
                       spurious, sent, posted, matched, received>>
    BY <1>0 DEF InitRecv, Goto, queues, locks, net, history
  <1>2. Typed /\ HandlesOK /\ Bounded
    BY DEF Inv
  <1>3. c.type \in RecvTypes /\ MaxRecvs \in Nat
    BY RemoteAssumption DEF RecvTypes
  <1>4. nrh[t] \in Nat /\ nrh[t] + 1 \in 1..MaxRecvs /\ r \in RH /\ r[1] = t /\ r[2] = nrh[t] + 1
    <2>1. nrh[t] \in Nat /\ recvs \in Nat /\ nrh[t] <= recvs
      BY <1>2, TypesAre DEF TypeFacts, Bounded, Typed
    <2>2. nrh[t] + 1 \in 1..MaxRecvs
      BY <1>1, <1>3, <2>1
    <2> QED  BY <1>0, <2>1, <2>2 DEF RH
  <1>5. /\ s \in RecvHandle /\ s.stat = "CREATE" /\ s.type = c.type /\ s.msg = 0 /\ s.live = TRUE
        /\ (s.held <=> c.type # "RECV")
    BY <1>3 DEF RecvHandle, RecvStats
  <1> HIDE DEF s
  <1>6. /\ rh'[r] = s /\ \A g \in RH : g # r => rh'[g] = rh[g]
        /\ pc'[t] = "start_rh" /\ \A n \in Nodes : n # t => pc'[n] = pc[n]
        /\ cur'[t] = r /\ \A n \in Nodes : n # t => cur'[n] = cur[n]
        /\ nrh'[t] = nrh[t] + 1 /\ \A n \in Nodes : n # t => nrh'[n] = nrh[n]
    BY <1>1, <1>2, <1>4 DEF Typed
  <1>7. Typed'
    <2>1. /\ rh' \in [RH -> RecvHandle] /\ pc' \in [Nodes -> SendLocs \cup RecvLocs \cup {"idle"}]
          /\ nrh' \in [Nodes -> Nat] /\ recvs' \in Nat
      BY <1>1, <1>2, <1>4, <1>5 DEF Typed, RecvLocs
    <2>2. cur' \in [Nodes -> Numbers]
      BY <1>0, <1>1, <1>2, <1>4 DEF Typed, Numbers
    <2> QED  BY <1>1, <1>2, <2>1, <2>2 DEF Typed
  <1>8. Bounded'
    <2>1. recvs' <= MaxRecvs /\ recvs \in Nat
      BY <1>1, <1>2, <1>3 DEF Typed
    <2> SUFFICES ASSUME NEW n \in Nodes
                 PROVE  /\ nrh'[n] <= recvs' /\ posted[n] <= nrh'[n]
                        /\ pc'[n] = "start_rh" => posted[n] < nrh'[n]
                        /\ pc'[n] = "start_sh" => Len(sent[n]) < MaxStarts
      BY <1>1, <1>2, <2>1 DEF Bounded
    <2>2. posted[n] \in Nat /\ nrh[n] \in Nat /\ posted[n] <= nrh[n] /\ nrh[n] <= recvs
      BY <1>2, TypesAre DEF TypeFacts, Bounded
    <2>3. CASE n = t
      BY <1>1, <1>6, <2>1, <2>2, <2>3
    <2>4. CASE n # t
      BY <1>1, <1>2, <1>6, <2>1, <2>2, <2>4 DEF Bounded
    <2> QED  BY <2>3, <2>4
  <1>9. HandlesOK'
    <2>1. ~(r[2] > nrh'[t]) /\ r[2] <= nrh'[t] /\ posted'[t] \in Nat
      BY <1>4, <1>6, <1>7, TypesAreNext DEF TypeFacts
    <2>2. UsesRecv(t, r)'
      BY <1>6 DEF UsesRecv, RecvLocs
    <2>3. RecvOK(r)'
      BY <1>3, <1>4, <1>5, <1>6, <2>1, <2>2 DEF RecvOK
    <2>4. ReceiverOK(t)'
      BY <1>4, <1>5, <1>6, <2>1 DEF ReceiverOK
    <2>5. \A g \in RH : g # r /\ g[1] = t => (g[2] <= nrh'[t] <=> g[2] <= nrh[t])
      <3> SUFFICES ASSUME NEW g \in RH, g # r, g[1] = t PROVE g[2] <= nrh'[t] <=> g[2] <= nrh[t]
        OBVIOUS
      <3>1. g[2] \in Nat /\ g = <<t, g[2]>>
        BY <1>2, TypesAre DEF TypeFacts
      <3>2. g[2] # nrh[t] + 1
        BY <1>0, <3>1
      <3> QED  BY <1>4, <1>6, <3>1, <3>2
    <2>6. pc[t] \notin RecvLocs /\ pc[t] \notin SendLocs /\ pc'[t] \notin SendLocs
      BY <1>1, <1>6 DEF SendLocs, RecvLocs
    <2>7. \A n \in Nodes : posted[n] <= posted'[n]
      BY <1>1, <1>2, TypesAre DEF TypeFacts
    <2>8. (\A g \in RH : RecvOK(g)') /\ (\A n \in Nodes : ReceiverOK(n)')
      BY <1>2, <1>4, <1>6, <1>7, <2>3, <2>4, <2>5, <2>6, <2>7, RecvSide
    <2>9. (\A g \in SH : SendOK(g)') /\ (\A n \in Nodes : SenderOK(n)')
      BY <1>1, <1>2, <1>6, <2>6, SendQuiet
    <2> QED  BY <2>8, <2>9 DEF HandlesOK
  <1>10. \A n \in Nodes : (pc'[n] = "answer" <=> pc[n] = "answer") /\ nsh[n] <= nsh'[n]
    <2> TAKE n \in Nodes
    <2>1. nsh[n] \in Nat
      BY <1>2, TypesAre DEF TypeFacts
    <2>2. CASE n = t
      BY <1>1, <1>6, <2>1, <2>2
    <2> QED  BY <1>1, <1>6, <2>1, <2>2
  <1>11. rh[r] = NoRecv
    BY <1>2, <1>4 DEF HandlesOK, RecvOK
  <1>12. \A g \in RH : /\ rh'[g].msg = rh[g].msg
                       /\ rh'[g].stat \in Data <=> rh[g].stat \in Data
                       /\ rh'[g].stat \in Queue <=> rh[g].stat \in Queue
    BY <1>5, <1>6, <1>11 DEF NoRecv, Data, Queue
  <1>13. \A g \in SH : (Awaiting(g) => KeepsSend(g)) /\ (Awaiting(g)' => Awaiting(g))
    BY <1>1 DEF KeepsSend, Awaiting
  <1> QED  BY <1>1, <1>7, <1>8, <1>9, <1>10, <1>12, <1>13, LocalStep

\* A step of node t that changes only where it is, on a send or on a receive handle.
LEMMA OnlyMoves ==
  ASSUME Inv, Typed', NEW t \in Nodes, NEW l, NEW h, l # "start_rh", l # "answer", pc[t] # "answer",
         /\ pc' = [pc EXCEPT ![t] = l] /\ cur' = [cur EXCEPT ![t] = h]
         /\ UNCHANGED <<sh, rh, queues, net, out, history>>
         /\ UNCHANGED <<nsh, nrh, starts, recvs>>,
         l = "start_sh" => starts < MaxStarts,
         \/ /\ l \in SendLocs /\ h \in SH /\ h[1] = t /\ pc[t] \notin RecvLocs
            /\ (pc[t] \in SendLocs => cur[t] = h) /\ SendOK(h)' /\ SenderOK(t)'
         \/ /\ l \in RecvLocs /\ h \in RH /\ h[1] = t /\ pc[t] \notin SendLocs
            /\ (pc[t] \in RecvLocs => cur[t] = h) /\ RecvOK(h)' /\ ReceiverOK(t)'
  PROVE  Inv'
  <1>1. /\ UNCHANGED <<sq, rq, conn, movin, sent, posted, matched, received>>
    BY DEF queues, net, history
  <1>2. Typed /\ HandlesOK /\ Bounded
    BY DEF Inv
  <1>3. /\ pc'[t] = l /\ \A n \in Nodes : n # t => pc'[n] = pc[n]
        /\ cur'[t] = h /\ \A n \in Nodes : n # t => cur'[n] = cur[n]
    BY <1>2 DEF Typed
  <1>4. Bounded'
    <2> SUFFICES ASSUME NEW n \in Nodes
                 PROVE  /\ pc'[n] = "start_rh" => posted[n] < nrh[n]
                        /\ pc'[n] = "start_sh" => Len(sent[n]) < MaxStarts
      BY <1>1, <1>2 DEF Bounded
    <2>1. Len(sent[n]) \in Nat /\ starts \in Nat /\ Len(sent[n]) <= starts
      BY <1>2, TypesAre DEF TypeFacts, Bounded, Typed
    <2>2. CASE n = t
      BY <1>3, <2>1, <2>2, RemoteAssumption
    <2>3. CASE n # t
      BY <1>2, <1>3, <2>3 DEF Bounded
    <2> QED  BY <2>2, <2>3
  <1>5. /\ \A n \in Nodes : nsh[n] <= nsh'[n] /\ posted[n] <= posted'[n]
        /\ \A n \in Nodes : pc'[n] = "answer" <=> pc[n] = "answer"
    BY <1>1, <1>2, <1>3, TypesAre DEF TypeFacts
  <1>6. HandlesOK'
    <2>1. CASE /\ l \in SendLocs /\ h \in SH /\ h[1] = t /\ pc[t] \notin RecvLocs
               /\ (pc[t] \in SendLocs => cur[t] = h) /\ SendOK(h)' /\ SenderOK(t)'
      <3>1. (\A g \in SH : SendOK(g)') /\ (\A n \in Nodes : SenderOK(n)')
        BY <1>2, <1>3, <2>1, SendSide
      <3>2. pc'[t] \notin RecvLocs
        BY <1>3, <2>1 DEF SendLocs, RecvLocs
      <3>3. (\A g \in RH : RecvOK(g)') /\ (\A n \in Nodes : ReceiverOK(n)')
        BY <1>1, <1>2, <1>3, <2>1, <3>2, RecvQuiet
      <3> QED  BY <3>1, <3>3 DEF HandlesOK
    <2>2. CASE /\ l \in RecvLocs /\ h \in RH /\ h[1] = t /\ pc[t] \notin SendLocs
               /\ (pc[t] \in RecvLocs => cur[t] = h) /\ RecvOK(h)' /\ ReceiverOK(t)'
      <3>1. (\A g \in RH : RecvOK(g)') /\ (\A n \in Nodes : ReceiverOK(n)')
        BY <1>1, <1>2, <1>3, <1>5, <2>2, RecvSide
      <3>2. pc'[t] \notin SendLocs
        BY <1>3, <2>2 DEF SendLocs, RecvLocs
      <3>3. (\A g \in SH : SendOK(g)') /\ (\A n \in Nodes : SenderOK(n)')
        BY <1>1, <1>2, <1>3, <2>2, <3>2, SendQuiet
      <3> QED  BY <3>1, <3>3 DEF HandlesOK
    <2> QED  BY <2>1, <2>2
  <1>7. \A g \in SH : (Awaiting(g) => KeepsSend(g)) /\ (Awaiting(g)' => Awaiting(g))
    BY DEF KeepsSend, Awaiting
  <1> QED  BY <1>4, <1>5, <1>6, <1>7, LocalStep

\* A call on a request takes an idle node into the library.
LEMMA CallOnSend ==
  ASSUME Inv, NEW t \in Nodes, NEW h \in SH, NEW what, NEW l \in {"start_sh", "enter_wait_sh", "cancel_sh"},
         h[1] = t, sh[h].held, CallOn(t, what, h, l),
         l = "start_sh" => starts < MaxStarts /\ sh[h].stat \in {"CREATE", "FREE"},
         l = "cancel_sh" => what = "cancel" /\ sh[h].stat \in PEND \cup {"MATCH"}
  PROVE  Inv'
  <1>1. /\ what \in RequestCalls /\ pc[t] = "idle"
        /\ pc' = [pc EXCEPT ![t] = l] /\ cur' = [cur EXCEPT ![t] = h]
        /\ UNCHANGED <<sh, rh, queues, net, out, history>>
        /\ UNCHANGED <<nsh, nrh, starts, recvs>>
        /\ UNCHANGED <<sh, rh, sq, rq, chlock, shlock, conn, movin, out, nsh, nrh, starts, recvs, spurious,
                       sent, posted, matched, received>>
    BY DEF CallOn, Goto, handles, queues, locks, net, counts, history
  <1>2. Typed /\ HandlesOK /\ SendOK(h)
    BY DEF Inv, HandlesOK
  <1>3. /\ sh[h] \in SendHandle /\ h[2] \in Nat /\ nsh[t] \in Nat /\ h \in Numbers /\ sh[h].stat \in Stats
    BY <1>2, TypesAre DEF TypeFacts, Numbers
  <1>4. h[2] <= nsh[t]
    BY <1>2, <1>3 DEF SendOK, NoSend
  <1>5. Typed'
    <2>1. /\ pc' \in [Nodes -> SendLocs \cup RecvLocs \cup {"idle"}] /\ cur' \in [Nodes -> Numbers]
      BY <1>1, <1>2, <1>3 DEF Typed, SendLocs
    <2> QED  BY <1>1, <1>2, <2>1 DEF Typed
  <1>6. pc'[t] = l /\ cur'[t] = h
    BY <1>1, <1>2 DEF Typed
  <1>7. ~UsesSend(t, h)
    BY <1>1 DEF UsesSend, SendLocs
  <1>8. /\ sh[h].live /\ sh[h].type # "SEND"
        /\ sh[h].stat \notin {"PEND_WAIT", "PEND_DWAT", "PEND_RELS", "NONE"}
        /\ sh[h].stat = "CANCEL" => sh[h].type = "PERSISTENT"
        /\ "cancel" \in RequestCalls => sh[h].mode # "READY" /\ sh[h].stat # "PEND_NRDY"
    BY <1>2, <1>4, <1>7 DEF SendOK, Synchronous
  <1>9. SendOK(h)'
    BY <1>1, <1>2, <1>4, <1>6, <1>8 DEF SendOK
  <1>10. l = "cancel_sh" => /\ sh[h].stat \in {"PEND_STRT", "PEND_DATA", "MATCH"}
                            /\ "cancel" \in RequestCalls /\ sh[h].mode # "READY"
    BY <1>1, <1>8 DEF PEND
  <1>11. SenderOK(t)'
    BY <1>1, <1>4, <1>6, <1>8, <1>10 DEF SenderOK, SendLocs
  <1>12. l \in SendLocs /\ pc[t] \notin RecvLocs /\ pc[t] \notin SendLocs
    BY <1>1 DEF SendLocs, RecvLocs
  <1> QED  BY <1>1, <1>5, <1>9, <1>11, <1>12, OnlyMoves

LEMMA StepCallSend ==
  ASSUME Inv, NEW t \in Nodes, NEW h \in SH,
         CallStartSend(t, h) \/ CallWaitSend(t, h) \/ CallCancelSend(t, h)
  PROVE  Inv'
  <1>1. CASE CallStartSend(t, h)
    BY <1>1, CallOnSend DEF CallStartSend
  <1>2. CASE CallWaitSend(t, h)
    BY <1>2, CallOnSend DEF CallWaitSend
  <1>3. CASE CallCancelSend(t, h)
    BY <1>3, CallOnSend DEF CallCancelSend
  <1> QED  BY <1>1, <1>2, <1>3

LEMMA StepCallWaitRecv ==
  ASSUME Inv, NEW t \in Nodes, NEW r \in RH, CallWaitRecv(t, r)
  PROVE  Inv'
  <1>1. /\ pc[t] = "idle" /\ r[1] = t /\ rh[r].held
        /\ pc' = [pc EXCEPT ![t] = "enter_wait_rh"] /\ cur' = [cur EXCEPT ![t] = r]
        /\ UNCHANGED <<sh, rh, queues, net, out, history>>
        /\ UNCHANGED <<nsh, nrh, starts, recvs>>
        /\ UNCHANGED <<sh, rh, sq, rq, chlock, shlock, conn, movin, out, nsh, nrh, starts, recvs, spurious,
                       sent, posted, matched, received>>
    BY DEF CallWaitRecv, CallOn, Goto, handles, queues, locks, net, counts, history
  <1>2. Typed /\ HandlesOK /\ RecvOK(r)
    BY DEF Inv, HandlesOK
  <1>3. /\ rh[r] \in RecvHandle /\ r[2] \in Nat /\ nrh[t] \in Nat /\ r \in Numbers /\ rh[r].stat \in RecvStats
    BY <1>1, <1>2, TypesAre DEF TypeFacts, Numbers
  <1>4. r[2] <= nrh[t]
    BY <1>1, <1>2, <1>3 DEF RecvOK, NoRecv
  <1>5. Typed'
    <2>1. /\ pc' \in [Nodes -> SendLocs \cup RecvLocs \cup {"idle"}] /\ cur' \in [Nodes -> Numbers]
      BY <1>1, <1>2, <1>3 DEF Typed, RecvLocs
    <2> QED  BY <1>1, <1>2, <2>1 DEF Typed
  <1>6. pc'[t] = "enter_wait_rh" /\ cur'[t] = r
    BY <1>1, <1>2 DEF Typed
  <1>7. ~UsesRecv(t, r)
    BY <1>1 DEF UsesRecv, RecvLocs
  <1>8. rh[r].live /\ rh[r].type # "RECV" /\ rh[r].stat \in {"PEND_STRT", "PEND_DATA", "MATCH"}
    BY <1>1, <1>2, <1>3, <1>4, <1>7 DEF RecvOK, RecvStats
  <1>9. RecvOK(r)'
    BY <1>1, <1>2, <1>4, <1>6, <1>8 DEF RecvOK
  <1>10. ReceiverOK(t)'
    BY <1>1, <1>4, <1>6, <1>8 DEF ReceiverOK
  <1>11. "enter_wait_rh" \in RecvLocs /\ pc[t] \notin SendLocs /\ pc[t] \notin RecvLocs
    BY <1>1 DEF SendLocs, RecvLocs
  <1> QED  BY <1>1, <1>5, <1>9, <1>10, <1>11, OnlyMoves

LEMMA StepSpuriousWakeup ==
  ASSUME Inv, NEW t \in Nodes, SpuriousWakeup(t)
  PROVE  Inv'
  <1>1. /\ UNCHANGED <<sh, rh, queues, net, out, history>>
        /\ UNCHANGED <<nsh, nrh, starts, recvs>>
        /\ UNCHANGED <<sh, rh, sq, rq, chlock, shlock, conn, movin, out, nsh, nrh, starts, recvs, cur,
                       sent, posted, matched, received>>
        /\ spurious' = spurious + 1
    BY DEF SpuriousWakeup, handles, queues, locks, net, history
  <1>2. Typed /\ HandlesOK
    BY DEF Inv
  <1>3. cur' = [cur EXCEPT ![t] = cur[t]]
    BY <1>1, <1>2 DEF Typed
  <1>4. ASSUME NEW l \in {"wake_sh", "wait_sh", "wake_rh"}, pc' = [pc EXCEPT ![t] = l] PROVE Typed'
    <2>1. pc' \in [Nodes -> SendLocs \cup RecvLocs \cup {"idle"}]
      BY <1>2, <1>4 DEF Typed, SendLocs, RecvLocs
    <2>2. spurious' \in Nat
      BY <1>1, <1>2 DEF Typed
    <2> QED  BY <1>1, <1>2, <2>1, <2>2 DEF Typed
  <1>5. CASE Goto(t, "sleep_sh", "wake_sh") \/ Goto(t, "sleep_rdy", "wait_sh")
    <2>1. PICK l \in {"wake_sh", "wait_sh"} :
            pc' = [pc EXCEPT ![t] = l] /\ pc[t] = IF l = "wake_sh" THEN "sleep_sh" ELSE "sleep_rdy"
      BY <1>5 DEF Goto
    <2>2. PICK h : h = cur[t]
      OBVIOUS
    <2>3. pc'[t] = l /\ pc[t] \in SendLocs /\ pc[t] \notin RecvLocs /\ l \in SendLocs
      BY <1>2, <2>1 DEF Typed, SendLocs, RecvLocs
    <2>4. /\ h \in SH /\ h[1] = t /\ h[2] <= nsh[t] /\ ~(h[2] > nsh[t])
          /\ SendOK(h) /\ SenderOK(t) /\ sh[h].live
      BY <2>2, <2>3, SenderFacts
    <2>5. SendOK(h)'
      <3>1. UsesSend(t, h)' /\ (l = "wait_sh" => sh[h].stat = "PEND_STRT")
        BY <1>1, <2>1, <2>2, <2>3, <2>4 DEF UsesSend, SenderOK
      <3> QED  BY <1>1, <2>1, <2>3, <2>4, <3>1 DEF SendOK
    <2>6. SenderOK(t)'
      BY <1>1, <2>1, <2>2, <2>3, <2>4 DEF SenderOK
    <2>7. Typed'
      BY <1>4, <2>1
    <2>8. cur' = [cur EXCEPT ![t] = h]
      BY <1>3, <2>2
    <2> QED  BY <1>1, <2>1, <2>2, <2>3, <2>4, <2>5, <2>6, <2>7, <2>8, OnlyMoves
  <1>6. CASE Goto(t, "sleep_rh", "wake_rh")
    <2>1. pc' = [pc EXCEPT ![t] = "wake_rh"] /\ pc[t] = "sleep_rh"
      BY <1>6 DEF Goto
    <2>2. PICK r : r = cur[t]
      OBVIOUS
    <2>3. pc'[t] = "wake_rh" /\ pc[t] \in RecvLocs /\ pc[t] \notin SendLocs /\ "wake_rh" \in RecvLocs
      BY <1>2, <2>1 DEF Typed, SendLocs, RecvLocs
    <2>4. /\ r \in RH /\ r[1] = t /\ r[2] <= nrh[t] /\ ~(r[2] > nrh[t])
          /\ RecvOK(r) /\ ReceiverOK(t) /\ rh[r].live
      BY <2>2, <2>3, ReceiverFacts
    <2>5. RecvOK(r)'
      <3>1. UsesRecv(t, r)' /\ rh[r].stat \in {"PEND_WAIT", "PEND_DWAT"}
        BY <1>1, <2>1, <2>2, <2>3, <2>4 DEF UsesRecv, ReceiverOK
      <3> QED  BY <1>1, <2>1, <2>3, <2>4, <3>1 DEF RecvOK
    <2>6. ReceiverOK(t)'
      BY <1>1, <2>1, <2>2, <2>3, <2>4 DEF ReceiverOK
    <2>7. Typed'
      BY <1>4, <2>1
    <2>8. cur' = [cur EXCEPT ![t] = r]
      BY <1>3, <2>2
    <2> QED  BY <1>1, <2>1, <2>2, <2>3, <2>4, <2>5, <2>6, <2>7, <2>8, OnlyMoves
  <1> QED  BY <1>5, <1>6 DEF SpuriousWakeup

----------------------------------------------------------------------------
(* Steps that move a message. *)

\* The message x has been taken from, or put on, a connection.
Taken(p, m, x) ==
  /\ x \in Messages /\ x \in Elems(conn[p][m]) /\ <<<<"conn", p, m>>, x>> \in Tokens
  /\ x = conn[p][m][1]
  /\ conn' \in [Machines -> [Machines -> Seq(Messages)]]
  /\ \A a, b \in Machines :
       /\ Distinct(conn'[a][b]) /\ Len(conn'[a][b]) <= Len(conn[a][b])
       /\ \/ conn'[a][b] = conn[a][b] /\ ~(a = p /\ b = m)
          \/ a = p /\ b = m /\ conn[a][b] # <<>> /\ conn'[a][b] = Tail(conn[a][b])
       /\ \A y \in Messages :
            y \in Elems(conn'[a][b]) <=> y \in Elems(conn[a][b]) /\ ~(a = p /\ b = m /\ y = x)
PutOn(m, q, x) ==
  /\ conn' \in [Machines -> [Machines -> Seq(Messages)]]
  /\ \A a, b \in Machines :
       /\ Distinct(conn'[a][b])
       /\ Len(conn[a][b]) <= Capacity => Len(conn'[a][b]) <= Capacity
       /\ \/ conn'[a][b] = conn[a][b] /\ ~(a = m /\ b = q)
          \/ a = m /\ b = q /\ conn'[a][b] = Append(conn[a][b], x)
       /\ \A y \in Messages :
            y \in Elems(conn'[a][b]) <=> y \in Elems(conn[a][b]) \/ (a = m /\ b = q /\ y = x)

LEMMA ConnConsume ==
  ASSUME Typed, PlacesOK, NEW m \in Machines, NEW p \in Machines, conn[p][m] # <<>>, Consume(m, p),
         NEW x, x = Head(conn[p][m])
  PROVE  Taken(p, m, x)
  <1>1. conn[p][m] \in Seq(Messages) /\ Distinct(conn[p][m])
    BY TypesAre DEF TypeFacts, PlacesOK
  <1>2. /\ Len(conn[p][m]) \in Nat /\ x = conn[p][m][1] /\ x \in Messages /\ x \in Elems(conn[p][m])
        /\ Tail(conn[p][m]) \in Seq(Messages) /\ Len(Tail(conn[p][m])) = Len(conn[p][m]) - 1
    BY <1>1, TailOf
  <1>3. Distinct(Tail(conn[p][m])) /\ Elems(Tail(conn[p][m])) = Elems(conn[p][m]) \ {x}
    BY <1>1, <1>2, DistinctTail
  <1>4. conn' = [conn EXCEPT ![p][m] = Tail(@)]
    BY DEF Consume
  <1>5. conn \in [Machines -> [Machines -> Seq(Messages)]]
    BY DEF Typed
  <1>6. conn' \in [Machines -> [Machines -> Seq(Messages)]]
    BY <1>2, <1>4, <1>5
  <1>7. ASSUME NEW a \in Machines, NEW b \in Machines
        PROVE  /\ Distinct(conn'[a][b]) /\ Len(conn'[a][b]) <= Len(conn[a][b])
               /\ \/ conn'[a][b] = conn[a][b] /\ ~(a = p /\ b = m)
                  \/ a = p /\ b = m /\ conn[a][b] # <<>> /\ conn'[a][b] = Tail(conn[a][b])
               /\ \A y \in Messages :
                    y \in Elems(conn'[a][b]) <=> y \in Elems(conn[a][b]) /\ ~(a = p /\ b = m /\ y = x)
    <2>1. CASE a = p /\ b = m
      <3>1. conn'[a][b] = Tail(conn[p][m])
        BY <1>4, <1>5, <2>1
      <3> QED  BY <1>2, <1>3, <2>1, <3>1
    <2>2. CASE ~(a = p /\ b = m)
      <3>1. conn'[a][b] = conn[a][b]
        BY <1>4, <1>5, <2>2
      <3>2. Distinct(conn[a][b]) /\ Len(conn[a][b]) \in Nat
        BY TypesAre DEF TypeFacts, PlacesOK
      <3> QED  BY <2>2, <3>1, <3>2
    <2> QED  BY <2>1, <2>2
  <1>8. <<<<"conn", p, m>>, x>> \in Tokens
    BY <1>2, InConn
  <1> QED  BY <1>2, <1>6, <1>7, <1>8 DEF Taken

LEMMA ConnSend ==
  ASSUME Typed, PlacesOK, NEW m \in Machines, NEW q \in Machines, NEW x \in Messages,
         Len(conn[m][q]) < Capacity,
         conn' = [conn EXCEPT ![m][q] = Append(@, x)],
         \A y \in Elems(conn[m][q]) : y.sh # x.sh
  PROVE  PutOn(m, q, x)
  <1>1. conn[m][q] \in Seq(Messages) /\ Distinct(conn[m][q]) /\ Capacity \in Nat
    BY TypesAre, RemoteAssumption DEF TypeFacts, PlacesOK
  <1>2. /\ Append(conn[m][q], x) \in Seq(Messages) /\ Len(conn[m][q]) \in Nat
        /\ Len(Append(conn[m][q], x)) = Len(conn[m][q]) + 1
        /\ Elems(Append(conn[m][q], x)) = Elems(conn[m][q]) \cup {x}
    BY <1>1, AppendTo
  <1>3. Distinct(Append(conn[m][q], x))
    BY <1>1, DistinctAppend
  <1>4. conn \in [Machines -> [Machines -> Seq(Messages)]]
    BY DEF Typed
  <1>5. conn' \in [Machines -> [Machines -> Seq(Messages)]]
    BY <1>2, <1>4
  <1>6. ASSUME NEW a \in Machines, NEW b \in Machines
        PROVE  /\ Distinct(conn'[a][b])
               /\ Len(conn[a][b]) <= Capacity => Len(conn'[a][b]) <= Capacity
               /\ \/ conn'[a][b] = conn[a][b] /\ ~(a = m /\ b = q)
                  \/ a = m /\ b = q /\ conn'[a][b] = Append(conn[a][b], x)
               /\ \A y \in Messages :
                    y \in Elems(conn'[a][b]) <=> y \in Elems(conn[a][b]) \/ (a = m /\ b = q /\ y = x)
    <2>1. CASE a = m /\ b = q
      <3>1. conn'[a][b] = Append(conn[m][q], x)
        BY <1>4, <2>1
      <3>2. Len(conn'[a][b]) <= Capacity
        BY <1>1, <1>2, <3>1
      <3> QED  BY <1>2, <1>3, <2>1, <3>1, <3>2
    <2>2. CASE ~(a = m /\ b = q)
      <3>1. conn'[a][b] = conn[a][b]
        BY <1>4, <2>2
      <3>2. Distinct(conn[a][b])
        BY DEF PlacesOK
      <3> QED  BY <2>2, <3>1, <3>2
    <2> QED  BY <2>1, <2>2
  <1> QED  BY <1>5, <1>6 DEF PutOn

\* The message u becomes the message v about the same send.
LEMMA OneMove ==
  ASSUME Typed, HandlesOK, TokensOK, NEW u \in Tokens, NEW v,
         Tokens' = (Tokens \ {u}) \cup {v}, v[2].sh = u[2].sh,
         \A g \in SH : g # u[2].sh => sh'[g] = sh[g],
         \A r \in RH : r # u[2].rh /\ rh[r].stat \in Data => rh'[r] = rh[r],
         \A r \in RH : rh'[r].stat \in Data => r = v[2].rh \/ (rh[r].stat \in Data /\ r # u[2].rh),
         v[2].rh \in {u[2].rh, Nobody} \/ (v[2].rh \in RH /\ rh[v[2].rh].stat \notin Data),
         Right(v[1], v[2])' /\ NamesRecv(v[2])' /\ Payload(v[2])' /\ Started(v[2])'
  PROVE  Moves({u}, {v})
  <1>1. ASSUME NEW w \in Tokens \ {u}
        PROVE  /\ w[2].sh # u[2].sh /\ w[2].sh \in SH
               /\ w[2].rh # Nobody =>
                    w[2].rh \in RH /\ w[2].rh # u[2].rh /\ rh[w[2].rh].stat \in Data
    <2>1. w[2].sh # u[2].sh /\ (w[2].rh # Nobody => w[2].rh # u[2].rh)
      BY DEF TokensOK
    <2>2. w[2].sh \in SH /\ NamesRecv(w[2])
      BY TokenFacts
    <2>3. w[2].rh # Nobody => w[2].rh \in RH /\ rh[w[2].rh].stat \in Data
      BY <2>2 DEF NamesRecv, Data
    <2> QED  BY <2>1, <2>2, <2>3
  <1>2. ASSUME NEW w \in Tokens \ {u}
        PROVE  KeepsSend(w[2].sh) /\ (w[2].rh # Nobody => KeepsRecv(w[2].rh))
    <2>1. KeepsSend(w[2].sh)
      BY <1>1 DEF KeepsSend
    <2>2. w[2].rh # Nobody => KeepsRecv(w[2].rh)
      BY <1>1 DEF KeepsRecv
    <2> QED  BY <2>1, <2>2
  <1>3. \A w \in Tokens \ {u} : v[2].sh # w[2].sh /\ (v[2].rh = w[2].rh => v[2].rh = Nobody)
    BY <1>1
  <1>4. \A h \in SH : Awaiting(h)' => h = u[2].sh \/ Awaiting(h)
    BY DEF Awaiting
  <1> QED  BY <1>2, <1>3, <1>4 DEF Moves, Data

\* The exchange of the message u is over.
LEMMA OneDeath ==
  ASSUME Typed, HandlesOK, TokensOK, NEW u \in Tokens,
         Tokens' = Tokens \ {u}, u[2].rh = Nobody, rh' = rh,
         \A g \in SH : g # u[2].sh => sh'[g] = sh[g],
         ~Awaiting(u[2].sh)'
  PROVE  Moves({u}, {})
  <1>1. ASSUME NEW w \in Tokens \ {u}
        PROVE  KeepsSend(w[2].sh) /\ (w[2].rh # Nobody => KeepsRecv(w[2].rh))
    <2>1. w[2].sh # u[2].sh /\ w[2].sh \in SH
      BY TokenFacts DEF TokensOK
    <2> QED  BY <2>1 DEF KeepsSend, KeepsRecv
  <1>2. \A h \in SH : Awaiting(h)' => Awaiting(h) /\ h # u[2].sh
    BY DEF Awaiting
  <1>3. \A r \in RH : r # Nobody
    BY TypesAre DEF TypeFacts
  <1> QED  BY <1>1, <1>2, <1>3 DEF Moves

LEMMA RecvQueuesKept ==
  ASSUME Typed, RecvQueues, rq' = rq, matched' = matched, NoMissedMatch',
         \A r \in RH : /\ rh'[r].msg = rh[r].msg
                       /\ rh'[r].stat \in Queue <=> rh[r].stat \in Queue
  PROVE  RecvQueues'
  <1> USE DEF Queue
  <1>1. \A n \in Nodes : \A i \in 1..Len(rq[n]) : rq[n][i] \in RH
    BY TypesAre, ElementOfSeq DEF TypeFacts
  <1>2. \A y \in matched : y.recv[1] \in Nodes
    BY TypesAre DEF TypeFacts
  <1>3. \A n \in Nodes : \A i, j \in 1..Len(rq[n]) : i < j => rh'[rq[n][i]].msg < rh'[rq[n][j]].msg
    BY <1>1 DEF RecvQueues
  <1>4. \A n \in Nodes : \A r \in Elems(rq[n]) : r[1] = n /\ rh'[r].stat \in {"PEND_STRT", "PEND_WAIT"}
    BY <1>1 DEF RecvQueues, Elems
  <1>5. \A r \in RH : rh'[r].stat \in {"PEND_STRT", "PEND_WAIT"} => r \in Elems(rq[r[1]])
    BY DEF RecvQueues
  <1>6. \A y \in matched : \A r \in Elems(rq[y.recv[1]]) : y.recv[2] < rh'[r].msg
    BY <1>1, <1>2 DEF RecvQueues, Elems
  <1> QED  BY <1>3, <1>4, <1>5, <1>6 DEF RecvQueues

\* A step that moves a message and matches nothing.
LEMMA QuietMove ==
  ASSUME Inv, Typed', Bounded', HandlesOK', PlacesOK', ReceivedOK', NoMissedMatch', Ordered', SendsKept,
         NEW A, NEW B, Moves(A, B),
         UNCHANGED <<nsh, sent, posted, matched, rq>>,
         \A r \in RH : /\ rh'[r].msg = rh[r].msg
                       /\ rh'[r].stat \in Queue <=> rh[r].stat \in Queue,
         \A v \in B : v[2].type \in Starting => v[2].sh \in Announced,
         \A u \in A : u[2].type \in Starting =>
            \/ sh[u[2].sh].mode = "READY"
            \/ \E v \in B : v[2].type \in Starting /\ v[2].sh = u[2].sh
  PROVE  Inv'
  <1>1. /\ Typed /\ HandlesOK /\ TokensOK /\ RecvQueues /\ OrderOK /\ MatchedOK
    BY DEF Inv
  <1>2. HistoryGrows
    BY <1>1, TypesAre DEF HistoryGrows, TypeFacts
  <1>3. TokensOK'
    BY <1>1, <1>2, TokensStep
  <1>4. RecvQueues'
    BY <1>1, RecvQueuesKept
  <1>5. Announced' \subseteq Announced
    BY DEF Announced, Moves
  <1>6. ASSUME NEW h \in Announced PROVE h \in Announced' \/ sh[h].mode = "READY"
    <2>1. PICK u \in Tokens : u[2].type \in Starting /\ u[2].sh = h
      BY DEF Announced
    <2>2. CASE u \in A
      BY <2>1, <2>2 DEF Announced, Moves
    <2>3. CASE u \notin A
      BY <2>1, <2>3 DEF Announced, Moves
    <2> QED  BY <2>2, <2>3
  <1>7. OrderOK'
    BY <1>1, <1>5, <1>6, OrderKept
  <1>8. MatchedOK'
    BY <1>1 DEF MatchedOK, NonOvertaking
  <1> QED  BY <1>3, <1>4, <1>7, <1>8 DEF Inv

\* What the moves of a message do to the places.
AnswersKept == \A n \in Nodes : pc'[n] = "answer" <=> pc[n] = "answer"
Tails == \A a, b \in Machines :
  conn'[a][b] = conn[a][b] \/ (conn[a][b] # <<>> /\ conn'[a][b] = Tail(conn[a][b]))
Grows == \A a, b \in Machines :
  \/ conn'[a][b] = conn[a][b]
  \/ \E x \in Messages : x.type \notin Starting /\ conn'[a][b] = Append(conn[a][b], x)
PlacesTyped ==
  /\ conn' \in [Machines -> [Machines -> Seq(Messages)]]
  /\ movin' \in [Machines -> [at : {"recv", "reply", "data"}, msg : Messages \cup {NoMSG}]]
  /\ \A a, b \in Machines : Len(conn'[a][b]) <= Capacity

LEMMA MovinSends ==
  ASSUME Inv, NEW m \in Machines, movin[m].at # "recv", NEW x, x = movin[m].msg,
         NEW q \in Machines, q = Target(x), netq_send(m, x), movin' = [movin EXCEPT ![m] = Receiving],
         sq' = sq, out' = out, AnswersKept, x.type \notin Starting
  PROVE  /\ PlacesTyped /\ PlacesOK' /\ Grows
         /\ <<<<"movin", m, m>>, x>> \in Tokens
         /\ Tokens' = (Tokens \ {<<<<"movin", m, m>>, x>>}) \cup {<<<<"conn", m, q>>, x>>}
  <1>1. Typed /\ Bounded /\ HandlesOK /\ TokensOK /\ PlacesOK
    BY DEF Inv
  <1>2. x \in Messages /\ <<<<"movin", m, m>>, x>> \in Tokens
    BY <1>1, InMovin
  <1>3. Len(conn[m][q]) < Capacity /\ conn' = [conn EXCEPT ![m][q] = Append(@, x)]
    BY DEF netq_send, Room
  <1>4. \A y \in Elems(conn[m][q]) : y.sh # x.sh
    <2> TAKE y \in Elems(conn[m][q])
    <2>1. <<<<"conn", m, q>>, y>> \in Tokens
      BY <1>1, InConn
    <2> QED  BY <1>1, <1>2, <2>1 DEF TokensOK
  <1>5. /\ conn' \in [Machines -> [Machines -> Seq(Messages)]]
        /\ \A a, b \in Machines :
              /\ Distinct(conn'[a][b])
              /\ Len(conn[a][b]) <= Capacity => Len(conn'[a][b]) <= Capacity
              /\ \/ conn'[a][b] = conn[a][b] /\ ~(a = m /\ b = q)
                 \/ a = m /\ b = q /\ conn'[a][b] = Append(conn[a][b], x)
              /\ \A y \in Messages :
                   y \in Elems(conn'[a][b]) <=> y \in Elems(conn[a][b]) \/ (a = m /\ b = q /\ y = x)
    <2>1. PutOn(m, q, x)
      BY <1>1, <1>2, <1>3, <1>4, ConnSend
    <2> QED  BY <2>1 DEF PutOn
  <1>6. /\ movin' \in [Machines -> [at : {"recv", "reply", "data"}, msg : Messages \cup {NoMSG}]]
        /\ movin'[m].at = "recv" /\ \A a \in Machines : a # m => movin'[a] = movin[a]
    BY <1>1 DEF Typed, Receiving
  <1>7. PlacesTyped /\ Grows
    <2>1. \A a, b \in Machines : Len(conn'[a][b]) <= Capacity
      BY <1>1, <1>5 DEF Bounded
    <2> QED  BY <1>2, <1>5, <1>6, <2>1 DEF PlacesTyped, Grows
  <1>8. PlacesOK'
    <2>1. \A a \in Machines : movin'[a].at # "recv" =>
            movin'[a].msg \in Messages /\ (movin'[a].at = "data" <=> movin'[a].msg.type = "DAT_SEND")
      BY <1>1, <1>6 DEF PlacesOK
    <2>2. \A n \in Nodes : pc'[n] = "answer" => out'[n] \in Messages
      BY <1>1 DEF PlacesOK, AnswersKept
    <2> QED  BY <1>1, <1>5, <2>1, <2>2 DEF PlacesOK
  <1>9. PICK u, v : u = <<<<"movin", m, m>>, x>> /\ v = <<<<"conn", m, q>>, x>>
    OBVIOUS
  <1>10. Tokens' = (Tokens \ {u}) \cup {v}
    <2>1. ConnMove({u}, {v})
      BY <1>5, <1>9 DEF ConnMove
    <2>2. MovinMove({u}, {v})
      BY <1>6, <1>9 DEF MovinMove
    <2>3. NodeMove({u}, {v}) /\ QueueMove({u}, {v})
      BY <1>9 DEF NodeMove, QueueMove, AnswersKept
    <2>4. Put({v})
      BY <1>2, <1>9 DEF Put, Places
    <2> QED  BY <2>1, <2>2, <2>3, <2>4, TokensMove
  <1> QED  BY <1>2, <1>7, <1>8, <1>9, <1>10

LEMMA MovinTakes ==
  ASSUME Inv, NEW m \in Machines, NEW p \in Machines, movin[m].at = "recv",
         conn[p][m] # <<>>, Consume(m, p), NEW x, x = Head(conn[p][m]),
         NEW at \in {"reply", "data"}, NEW y \in Messages, Answer(m, at, y),
         at = "data" <=> y.type = "DAT_SEND",
         sq' = sq, out' = out, AnswersKept
  PROVE  /\ PlacesTyped /\ PlacesOK' /\ Tails
         /\ x \in Messages /\ <<<<"conn", p, m>>, x>> \in Tokens
         /\ Tokens' = (Tokens \ {<<<<"conn", p, m>>, x>>}) \cup {<<<<"movin", m, m>>, y>>}
  <1>1. Typed /\ Bounded /\ HandlesOK /\ TokensOK /\ PlacesOK
    BY DEF Inv
  <1>2. /\ x \in Messages /\ x \in Elems(conn[p][m]) /\ <<<<"conn", p, m>>, x>> \in Tokens
        /\ conn' \in [Machines -> [Machines -> Seq(Messages)]]
        /\ \A a, b \in Machines :
              /\ Distinct(conn'[a][b]) /\ Len(conn'[a][b]) <= Len(conn[a][b])
              /\ \/ conn'[a][b] = conn[a][b] /\ ~(a = p /\ b = m)
                 \/ a = p /\ b = m /\ conn[a][b] # <<>> /\ conn'[a][b] = Tail(conn[a][b])
              /\ \A z \in Messages :
                   z \in Elems(conn'[a][b]) <=> z \in Elems(conn[a][b]) /\ ~(a = p /\ b = m /\ z = x)
    <2>1. Taken(p, m, x)
      BY <1>1, ConnConsume
    <2> QED  BY <2>1 DEF Taken
  <1>3. /\ movin' \in [Machines -> [at : {"recv", "reply", "data"}, msg : Messages \cup {NoMSG}]]
        /\ movin'[m].at = at /\ movin'[m].msg = y /\ \A a \in Machines : a # m => movin'[a] = movin[a]
    BY <1>1 DEF Typed, Answer
  <1>4. PlacesTyped
    <2>1. ASSUME NEW a \in Machines, NEW b \in Machines PROVE Len(conn'[a][b]) <= Capacity
      <3>1. Len(conn[a][b]) <= Capacity /\ Len(conn'[a][b]) <= Len(conn[a][b])
        BY <1>1, <1>2 DEF Bounded
      <3>2. Len(conn[a][b]) \in Nat /\ Capacity \in Nat
        BY <1>1, TypesAre, RemoteAssumption DEF TypeFacts
      <3>3. Len(conn'[a][b]) \in Nat
        BY <1>2, LenProperties
      <3> QED  BY <3>1, <3>2, <3>3
    <2> QED  BY <1>2, <1>3, <2>1 DEF PlacesTyped
  <1>5. PlacesOK'
    <2>1. \A a \in Machines : movin'[a].at # "recv" =>
            movin'[a].msg \in Messages /\ (movin'[a].at = "data" <=> movin'[a].msg.type = "DAT_SEND")
      BY <1>1, <1>3 DEF PlacesOK
    <2>2. \A n \in Nodes : pc'[n] = "answer" => out'[n] \in Messages
      BY <1>1 DEF PlacesOK, AnswersKept
    <2> QED  BY <1>1, <1>2, <2>1, <2>2 DEF PlacesOK
  <1>6. Tails
    BY <1>2 DEF Tails
  <1>7. PICK u, v : u = <<<<"conn", p, m>>, x>> /\ v = <<<<"movin", m, m>>, y>>
    OBVIOUS
  <1>8. Tokens' = (Tokens \ {u}) \cup {v}
    <2>1. ConnMove({u}, {v})
      BY <1>2, <1>7 DEF ConnMove
    <2>2. MovinMove({u}, {v})
      BY <1>3, <1>7 DEF MovinMove
    <2>3. NodeMove({u}, {v}) /\ QueueMove({u}, {v})
      BY <1>7 DEF NodeMove, QueueMove, AnswersKept
    <2>4. Put({v})
      BY <1>7 DEF Put, Places
    <2> QED  BY <2>1, <2>2, <2>3, <2>4, TokensMove
  <1> QED  BY <1>2, <1>4, <1>5, <1>6, <1>7, <1>8

LEMMA MovinEnds ==
  ASSUME Inv, NEW m \in Machines, NEW p \in Machines,
         conn[p][m] # <<>>, Consume(m, p), NEW x, x = Head(conn[p][m]),
         movin' = movin, sq' = sq, out' = out, AnswersKept
  PROVE  /\ PlacesTyped /\ PlacesOK' /\ Tails
         /\ x \in Messages /\ <<<<"conn", p, m>>, x>> \in Tokens
         /\ Tokens' = Tokens \ {<<<<"conn", p, m>>, x>>}
  <1>1. Typed /\ Bounded /\ HandlesOK /\ TokensOK /\ PlacesOK
    BY DEF Inv
  <1>2. /\ x \in Messages /\ x \in Elems(conn[p][m]) /\ <<<<"conn", p, m>>, x>> \in Tokens
        /\ conn' \in [Machines -> [Machines -> Seq(Messages)]]
        /\ \A a, b \in Machines :
              /\ Distinct(conn'[a][b]) /\ Len(conn'[a][b]) <= Len(conn[a][b])
              /\ \/ conn'[a][b] = conn[a][b] /\ ~(a = p /\ b = m)
                 \/ a = p /\ b = m /\ conn[a][b] # <<>> /\ conn'[a][b] = Tail(conn[a][b])
              /\ \A z \in Messages :
                   z \in Elems(conn'[a][b]) <=> z \in Elems(conn[a][b]) /\ ~(a = p /\ b = m /\ z = x)
    <2>1. Taken(p, m, x)
      BY <1>1, ConnConsume
    <2> QED  BY <2>1 DEF Taken
  <1>3. PlacesTyped
    <2>1. ASSUME NEW a \in Machines, NEW b \in Machines PROVE Len(conn'[a][b]) <= Capacity
      <3>1. Len(conn[a][b]) <= Capacity /\ Len(conn'[a][b]) <= Len(conn[a][b])
        BY <1>1, <1>2 DEF Bounded
      <3>2. Len(conn[a][b]) \in Nat /\ Capacity \in Nat
        BY <1>1, TypesAre, RemoteAssumption DEF TypeFacts
      <3>3. Len(conn'[a][b]) \in Nat
        BY <1>2, LenProperties
      <3> QED  BY <3>1, <3>2, <3>3
    <2> QED  BY <1>1, <1>2, <2>1 DEF PlacesTyped, Typed
  <1>4. PlacesOK'
    <2>1. \A n \in Nodes : pc'[n] = "answer" => out'[n] \in Messages
      BY <1>1 DEF PlacesOK, AnswersKept
    <2> QED  BY <1>1, <1>2, <2>1 DEF PlacesOK
  <1>5. Tails
    BY <1>2 DEF Tails
  <1>6. PICK u : u = <<<<"conn", p, m>>, x>>
    OBVIOUS
  <1>7. Tokens' = (Tokens \ {u}) \cup {}
    <2>1. ConnMove({u}, {})
      BY <1>2, <1>6 DEF ConnMove
    <2>2. MovinMove({u}, {}) /\ NodeMove({u}, {}) /\ QueueMove({u}, {}) /\ Put({})
      BY <1>6 DEF MovinMove, NodeMove, QueueMove, AnswersKept, Put
    <2> QED  BY <2>1, <2>2, TokensMove
  <1> QED  BY <1>2, <1>3, <1>4, <1>5, <1>6, <1>7

----------------------------------------------------------------------------
(* The movin threads send: netq_send in tmpi_inter_msg_handle. *)

LEMMA HandlesUnchanged ==
  ASSUME Typed, HandlesOK, UNCHANGED <<sh, rh, nsh, nrh, posted, pc, cur>>
  PROVE  HandlesOK'
  <1>1. (\A g \in SH : SendOK(g)') /\ (\A n \in Nodes : SenderOK(n)')
    BY SendQuiet
  <1>2. (\A g \in RH : RecvOK(g)') /\ (\A n \in Nodes : ReceiverOK(n)')
    BY RecvQuiet
  <1> QED  BY <1>1, <1>2 DEF HandlesOK

LEMMA BoundedKept ==
  ASSUME Bounded, \A a, b \in Machines : Len(conn'[a][b]) <= Capacity,
         UNCHANGED <<nsh, nrh, starts, recvs, sent, posted>>,
         \A n \in Nodes : pc'[n] \in {"start_rh", "start_sh"} => pc'[n] = pc[n]
  PROVE  Bounded'
  BY DEF Bounded

LEMMA StepSendReply ==
  ASSUME Inv, NEW m \in Machines, SendReply(m)
  PROVE  Inv'
  <1>1. /\ movin[m].at = "reply" /\ netq_send(m, movin[m].msg) /\ movin' = [movin EXCEPT ![m] = Receiving]
        /\ UNCHANGED <<sh, rh, sq, rq, chlock, shlock, pc, cur, out, nsh, nrh, starts, recvs, spurious,
                       sent, posted, matched, received>>
    BY DEF SendReply, handles, queues, locks, thread, counts, history
  <1>2. Typed /\ Bounded /\ HandlesOK /\ TokensOK /\ PlacesOK /\ OrderOK /\ ReceivedOK /\ RecvQueues
    BY DEF Inv
  <1>3. PICK x : x = movin[m].msg
    OBVIOUS
  <1>4. PICK u : u = <<<<"movin", m, m>>, x>>
    OBVIOUS
  <1>5. x \in Messages /\ u \in Tokens /\ x.type # "DAT_SEND" /\ u[1] = <<"movin", m, m>> /\ u[2] = x
    BY <1>1, <1>2, <1>3, <1>4, InMovin DEF PlacesOK
  <1>6. /\ Right(u[1], x) /\ NamesRecv(x) /\ Payload(x) /\ Started(x) /\ x.type \in Types
        /\ x.sh[1] \in Nodes /\ Mac[x.sh[1]] \in Machines
    BY <1>2, <1>5, TokenFacts
  <1>7. x.type \in {"MSG_RECV", "MSGDAT_RECV", "DAT_RECV", "NRDY"} /\ m = Mac[sh[x.sh].dest]
    BY <1>5, <1>6 DEF Right, Types, Starting
  <1>8. PICK q : q = Mac[x.sh[1]]
    OBVIOUS
  <1>9. q = Target(x) /\ q \in Machines /\ x.type \notin Starting
    BY <1>6, <1>7, <1>8 DEF Target, Starting
  <1>10. AnswersKept
    BY <1>1 DEF AnswersKept
  <1>11. /\ PlacesTyped /\ PlacesOK' /\ Grows
         /\ Tokens' = (Tokens \ {<<<<"movin", m, m>>, x>>}) \cup {<<<<"conn", m, q>>, x>>}
    BY <1>1, <1>3, <1>9, <1>10, MovinSends
  <1>12. PICK v : v = <<<<"conn", m, q>>, x>>
    OBVIOUS
  <1>13. Tokens' = (Tokens \ {u}) \cup {v} /\ v[1] = <<"conn", m, q>> /\ v[2] = x
    BY <1>4, <1>11, <1>12
  <1>14. Typed'
    BY <1>1, <1>2, <1>11 DEF Typed, PlacesTyped
  <1>15. Right(v[1], v[2])'
    BY <1>1, <1>6, <1>7, <1>8, <1>13, <1>5 DEF Right, Starting
  <1>16. NamesRecv(v[2])' /\ Payload(v[2])' /\ Started(v[2])'
    BY <1>1, <1>6, <1>13 DEF NamesRecv, Payload, Started, Pair
  <1>17. Moves({u}, {v})
    <2>1. v[2].sh = u[2].sh /\ v[2].rh = u[2].rh
      BY <1>5, <1>13
    <2>2. \A r \in RH : rh'[r].stat \in Data => r = v[2].rh \/ (rh[r].stat \in Data /\ r # u[2].rh)
      BY <1>1, <2>1
    <2> QED  BY <1>1, <1>2, <1>5, <1>13, <1>15, <1>16, <2>1, <2>2, OneMove
  <1>18. Bounded'
    BY <1>1, <1>2, <1>11, BoundedKept DEF PlacesTyped
  <1>19. HandlesOK'
    BY <1>1, <1>2, HandlesUnchanged
  <1>20. SendsKept
    BY <1>1 DEF SendsKept
  <1>21. Ordered'
    BY <1>1, <1>2, <1>11, <1>14, <1>20, QueuesRise DEF Grows
  <1>22. ReceivedOK' /\ NoMissedMatch'
    BY <1>1, <1>2 DEF ReceivedOK, RecvQueues, NoMissedMatch
  <1> QED  BY <1>1, <1>5, <1>9, <1>11, <1>13, <1>14, <1>17, <1>18, <1>19, <1>20, <1>21, <1>22, QuietMove

\* Waking up whoever sleeps on a handle is to the node that uses it.
LEMMA WakesSender ==
  ASSUME Typed, HandlesOK, NEW h \in SH, pc' = pc \/ pc' = WakeSender(h)
  PROVE  /\ pc' \in [Nodes -> SendLocs \cup RecvLocs \cup {"idle"}] /\ AnswersKept
         /\ \A n \in Nodes :
              /\ n # h[1] \/ cur[n] # h => pc'[n] = pc[n]
              /\ pc'[n] # pc[n] => pc[n] \in SendLocs /\ pc'[n] \in SendLocs
              /\ pc'[n] \in {"start_rh", "start_sh"} => pc'[n] = pc[n]
              /\ pc[n] = "sleep_sh" => pc'[n] \in {"sleep_sh", "wake_sh"}
              /\ pc[n] = "sleep_rdy" => pc'[n] \in {"sleep_rdy", "wait_sh"}
              /\ pc[n] \notin {"sleep_sh", "sleep_rdy"} => pc'[n] = pc[n]
              /\ pc' = WakeSender(h) /\ cur[n] = h => pc'[n] \notin {"sleep_sh", "sleep_rdy"}
  <1>1. pc \in [Nodes -> SendLocs \cup RecvLocs \cup {"idle"}]
    BY DEF Typed
  <1>2. ASSUME NEW n \in Nodes
        PROVE  /\ n # h[1] \/ cur[n] # h => pc'[n] = pc[n]
               /\ pc'[n] # pc[n] => pc[n] \in SendLocs /\ pc'[n] \in SendLocs
               /\ pc'[n] \in {"start_rh", "start_sh"} => pc'[n] = pc[n]
               /\ pc'[n] = "answer" <=> pc[n] = "answer"
               /\ pc'[n] \in SendLocs \cup RecvLocs \cup {"idle"}
               /\ pc[n] = "sleep_sh" => pc'[n] \in {"sleep_sh", "wake_sh"}
               /\ pc[n] = "sleep_rdy" => pc'[n] \in {"sleep_rdy", "wait_sh"}
               /\ pc[n] \notin {"sleep_sh", "sleep_rdy"} => pc'[n] = pc[n]
               /\ pc' = WakeSender(h) /\ cur[n] = h => pc'[n] \notin {"sleep_sh", "sleep_rdy"}
    <2>1. SenderOK(n)
      BY DEF HandlesOK
    <2>2. pc[n] \in {"sleep_sh", "sleep_rdy"} => cur[n][1] = n
      BY <2>1 DEF SenderOK, SendLocs
    <2>3. CASE pc' = pc /\ pc' # WakeSender(h)
      BY <1>1, <2>3
    <2>4. CASE pc' = WakeSender(h)
      <3>1. pc'[n] = IF cur[n] # h THEN pc[n]
                     ELSE IF pc[n] = "sleep_sh" THEN "wake_sh"
                     ELSE IF pc[n] = "sleep_rdy" THEN "wait_sh" ELSE pc[n]
        BY <2>4 DEF WakeSender
      <3>2. pc[n] \in SendLocs \cup RecvLocs \cup {"idle"}
        BY <1>1
      <3> QED  BY <2>2, <3>1, <3>2 DEF SendLocs
    <2> QED  BY <2>3, <2>4
  <1>3. pc' \in [Nodes -> SendLocs \cup RecvLocs \cup {"idle"}]
    <2>1. DOMAIN pc' = Nodes /\ pc' = [n \in Nodes |-> pc'[n]]
      BY <1>1 DEF WakeSender
    <2> QED  BY <1>2, <2>1
  <1> QED  BY <1>2, <1>3 DEF AnswersKept

LEMMA SenderStep ==
  ASSUME Typed, Typed', HandlesOK, NEW h \in SH, pc' = pc \/ pc' = WakeSender(h),
         \A g \in SH : g # h => sh'[g] = sh[g],
         UNCHANGED <<rh, nsh, nrh, posted, cur>>,
         SendOK(h)',
         cur[h[1]] = h => SenderOK(h[1])'
  PROVE  HandlesOK'
  <1>1. \A n \in Nodes :
          /\ n # h[1] \/ cur[n] # h => pc'[n] = pc[n]
          /\ pc'[n] # pc[n] => pc[n] \in SendLocs /\ pc'[n] \in SendLocs
    BY WakesSender
  <1>2. h[1] \in Nodes
    BY TypesAre DEF TypeFacts
  <1>3. (\A g \in SH : SendOK(g)') /\ (\A n \in Nodes : SenderOK(n)')
    <2>1. \/ pc'[h[1]] = pc[h[1]] /\ cur'[h[1]] = cur[h[1]] /\ nsh'[h[1]] = nsh[h[1]]
          \/ /\ pc[h[1]] \in SendLocs => cur[h[1]] = h
             /\ pc'[h[1]] \in SendLocs => cur'[h[1]] = h
      BY <1>1, <1>2
    <2>2. \A n \in Nodes : n # h[1] => pc'[n] = pc[n] /\ cur'[n] = cur[n] /\ nsh'[n] = nsh[n]
      BY <1>1
    <2>3. \A g \in SH : g # h /\ g[1] = h[1] => (g[2] <= nsh'[h[1]] <=> g[2] <= nsh[h[1]])
      OBVIOUS
    <2> QED  BY <1>2, <2>1, <2>2, <2>3, SendSide
  <1>4. (\A g \in RH : RecvOK(g)') /\ (\A n \in Nodes : ReceiverOK(n)')
    <2>1. \A n \in Nodes : \/ pc'[n] = pc[n] /\ cur'[n] = cur[n]
                           \/ pc[n] \notin RecvLocs /\ pc'[n] \notin RecvLocs
      BY <1>1 DEF SendLocs, RecvLocs
    <2> QED  BY <2>1, RecvQuiet
  <1> QED  BY <1>3, <1>4 DEF HandlesOK

LEMMA StepSendData ==
  ASSUME Inv, NEW m \in Machines, SendData(m)
  PROVE  Inv'
  <1>1. PICK x, h : x = movin[m].msg /\ h = x.sh
    OBVIOUS
  <1>2. /\ movin[m].at = "data" /\ netq_send(m, x) /\ movin' = [movin EXCEPT ![m] = Receiving]
        /\ sh' = [sh EXCEPT ![h].stat = CASE @ = "PEND_STRT" -> "PEND_DATA"
                                          [] @ = "PEND_WAIT" -> "PEND_DWAT"
                                          [] OTHER -> @]
        /\ pc' = IF sh[h].stat = "PEND_STRT" /\ sh[h].mode = "READY" THEN WakeSender(h) ELSE pc
        /\ shlock' = [shlock EXCEPT ![h] = Nobody]
        /\ UNCHANGED <<rh, sq, rq, chlock, cur, out, nsh, nrh, starts, recvs, spurious,
                       sent, posted, matched, received>>
    BY <1>1 DEF SendData, queues, counts, history
  <1>3. Typed /\ Bounded /\ HandlesOK /\ TokensOK /\ PlacesOK /\ OrderOK /\ ReceivedOK /\ RecvQueues
    BY DEF Inv
  <1>4. PICK u : u = <<<<"movin", m, m>>, x>>
    OBVIOUS
  <1>5. x \in Messages /\ u \in Tokens /\ x.type = "DAT_SEND" /\ u[1] = <<"movin", m, m>> /\ u[2] = x
    BY <1>1, <1>2, <1>3, <1>4, InMovin DEF PlacesOK
  <1>6. /\ Right(u[1], x) /\ NamesRecv(x) /\ Payload(x) /\ Started(x)
        /\ h \in SH /\ h[1] \in Nodes /\ Mac[h[1]] \in Machines /\ Mac[sh[h].dest] \in Machines
    BY <1>1, <1>3, <1>5, TokenFacts
  <1>7. m = Mac[h[1]] /\ sh[h].stat \in Early
    BY <1>1, <1>5, <1>6 DEF Right, Types, Starting
  <1>8. PICK q : q = Mac[sh[h].dest]
    OBVIOUS
  <1>9. q = Target(x) /\ q \in Machines /\ x.type \notin Starting
    BY <1>1, <1>5, <1>6, <1>8 DEF Target, Starting
  <1>10. pc' = pc \/ pc' = WakeSender(h)
    BY <1>2
  <1>11. AnswersKept /\ pc' \in [Nodes -> SendLocs \cup RecvLocs \cup {"idle"}]
    BY <1>3, <1>6, <1>10, WakesSender
  <1>12. /\ PlacesTyped /\ PlacesOK' /\ Grows
         /\ Tokens' = (Tokens \ {<<<<"movin", m, m>>, x>>}) \cup {<<<<"conn", m, q>>, x>>}
    BY <1>1, <1>2, <1>9, <1>11, MovinSends
  <1>13. PICK v : v = <<<<"conn", m, q>>, x>>
    OBVIOUS
  <1>14. Tokens' = (Tokens \ {u}) \cup {v} /\ v[1] = <<"conn", m, q>> /\ v[2] = x
    BY <1>4, <1>12, <1>13
  <1>15. PICK o : o = sh'[h]
    OBVIOUS
  <1>16. /\ o \in SendHandle /\ sh'[h] = o /\ \A g \in SH : g # h => sh'[g] = sh[g]
         /\ o.type = sh[h].type /\ o.mode = sh[h].mode /\ o.dest = sh[h].dest /\ o.sys_buf = sh[h].sys_buf
         /\ o.curdata = sh[h].curdata /\ o.msg = sh[h].msg /\ o.live = sh[h].live /\ o.held = sh[h].held
         /\ o.stat = CASE sh[h].stat = "PEND_STRT" -> "PEND_DATA"
                       [] sh[h].stat = "PEND_WAIT" -> "PEND_DWAT"
                       [] OTHER -> sh[h].stat
    <2>1. sh \in [SH -> SendHandle] /\ sh[h] \in SendHandle
      BY <1>3, <1>6 DEF Typed
    <2> QED  BY <1>2, <1>6, <1>15, <2>1 DEF SendHandle, Stats, PEND
  <1>17. /\ sh[h].stat = "PEND_STRT" => o.stat = "PEND_DATA"
         /\ sh[h].stat = "PEND_WAIT" => o.stat = "PEND_DWAT"
         /\ sh[h].stat \in {"PEND_RELS", "CANCEL"} => o.stat = sh[h].stat
         /\ o.stat \in Late /\ sh[h].stat \in {"PEND_STRT", "PEND_WAIT", "PEND_RELS", "CANCEL"}
    BY <1>7, <1>16 DEF Early, Late
  <1>18. Typed'
    <2>1. sh' \in [SH -> SendHandle]
      BY <1>2, <1>3, <1>6, <1>16 DEF Typed
    <2>2. shlock' \in [SH -> Machines \cup {Nobody}]
      BY <1>2, <1>3, <1>6 DEF Typed
    <2> QED  BY <1>2, <1>3, <1>11, <1>12, <2>1, <2>2 DEF Typed, PlacesTyped
  <1>19. Right(v[1], v[2])'
    BY <1>1, <1>5, <1>7, <1>8, <1>14, <1>16, <1>17 DEF Right, Starting
  <1>20. NamesRecv(v[2])' /\ Payload(v[2])' /\ Started(v[2])'
    <2>1. /\ sh'[h].msg = sh[h].msg /\ sh'[h].dest = sh[h].dest /\ sh'[h].mode = sh[h].mode
          /\ rh' = rh /\ matched' = matched /\ nsh' = nsh /\ sent' = sent
          /\ sh[h].stat = "CANCEL" => sh'[h].stat = "CANCEL"
      BY <1>2, <1>16, <1>17
    <2>2. Payload(v[2])'
      BY <1>1, <1>6, <1>14, <2>1 DEF Payload
    <2> QED  BY <1>1, <1>6, <1>14, <2>1, <2>2 DEF NamesRecv, Started, Pair
  <1>21. Moves({u}, {v})
    <2>1. v[2].sh = u[2].sh /\ v[2].rh = u[2].rh /\ u[2].sh = h
      BY <1>1, <1>5, <1>14
    <2>2. \A r \in RH : rh'[r].stat \in Data => r = v[2].rh \/ (rh[r].stat \in Data /\ r # u[2].rh)
      BY <1>2, <2>1
    <2> QED  BY <1>2, <1>3, <1>5, <1>14, <1>16, <1>19, <1>20, <2>1, <2>2, OneMove
  <1>22. Bounded'
    <2>1. \A n \in Nodes : pc'[n] \in {"start_rh", "start_sh"} => pc'[n] = pc[n]
      BY <1>3, <1>6, <1>10, WakesSender
    <2> QED  BY <1>2, <1>3, <1>12, <2>1, BoundedKept DEF PlacesTyped
  <1>23. HandlesOK'
    <2>1. /\ SendOK(h) /\ SenderOK(h[1]) /\ h[2] <= nsh[h[1]] /\ ~(h[2] > nsh[h[1]])
      BY SMTT(30), <1>1, <1>3, <1>6, TypesAre DEF HandlesOK, Started, TypeFacts
    <2>2. PICK t : t = h[1]
      OBVIOUS
    <2>3. t \in Nodes /\ cur'[t] = cur[t] /\ nsh'[t] = nsh[t]
      BY <1>2, <1>6, <2>2
    <2>4. /\ cur[t] # h => pc'[t] = pc[t]
          /\ pc'[t] # pc[t] => pc[t] \in SendLocs /\ pc'[t] \in SendLocs
          /\ pc[t] = "sleep_sh" => pc'[t] \in {"sleep_sh", "wake_sh"}
          /\ pc[t] = "sleep_rdy" => pc'[t] \in {"sleep_rdy", "wait_sh"}
          /\ pc[t] \notin {"sleep_sh", "sleep_rdy"} => pc'[t] = pc[t]
          /\ pc' = WakeSender(h) /\ cur[t] = h => pc'[t] \notin {"sleep_sh", "sleep_rdy"}
      BY <1>3, <1>6, <1>10, <2>2, <2>3, WakesSender
    <2>5. UsesSend(t, h) => UsesSend(t, h)'
      BY <2>3, <2>4 DEF UsesSend
    <2>6. Synchronous(o) <=> Synchronous(sh[h])
      BY <1>16 DEF Synchronous
    <2>7. SendOK(h)'
      <3>1. o.stat = "PEND_DWAT" => UsesSend(t, h)' /\ pc'[t] \in {"sleep_sh", "wake_sh"}
        BY <1>17, <2>1, <2>2, <2>4, <2>5 DEF SendOK
      <3> QED  BY <1>16, <1>17, <2>1, <2>2, <2>3, <2>5, <2>6, <3>1 DEF SendOK
    <2>8. ASSUME cur[t] = h PROVE SenderOK(t)'
      <3>1. CASE pc[t] \in SendLocs
        <4>1. pc[t] = "sleep_rdy" => pc'[t] = "wait_sh"
          <5>1. ASSUME pc[t] = "sleep_rdy" PROVE pc' = WakeSender(h)
            BY <1>2, <2>1, <2>2, <2>8, <3>1, <5>1 DEF SenderOK
          <5> QED  BY <2>4, <2>8, <5>1
        <4> QED  BY <1>6, <1>16, <1>17, <2>1, <2>2, <2>3, <2>4, <2>8, <3>1, <4>1 DEF SenderOK, PEND
      <3>2. CASE pc[t] \notin SendLocs
        BY <2>4, <3>2 DEF SenderOK
      <3> QED  BY <3>1, <3>2
    <2> QED  BY <1>2, <1>3, <1>6, <1>10, <1>16, <1>18, <2>2, <2>7, <2>8, SenderStep
  <1>24. SendsKept
    <2>1. \A g \in SH : sh'[g].msg = sh[g].msg /\ sh'[g].dest = sh[g].dest
      BY <1>16
    <2>2. \A w \in Tokens : w[2].sh \in SH
      BY <1>3, TokenFacts
    <2> QED  BY <2>1, <2>2 DEF SendsKept
  <1>25. Ordered'
    BY <1>2, <1>3, <1>12, <1>18, <1>24, QueuesRise DEF Grows
  <1>26. ReceivedOK' /\ NoMissedMatch'
    BY <1>2, <1>3 DEF ReceivedOK, RecvQueues, NoMissedMatch
  <1> QED  BY <1>2, <1>5, <1>9, <1>12, <1>14, <1>18, <1>21, <1>22, <1>23, <1>24, <1>25, <1>26, QuietMove

----------------------------------------------------------------------------
(* Answers that end an exchange, and the request for data. *)

\* tmpi_rdr_handle, tmpi_rmdr_handle and tmpi_rndy_handle leave the send in state o.
LEMMA AnswerStep ==
  ASSUME Inv, NEW m \in Machines, NEW p \in Machines, conn[p][m] # <<>>, Consume(m, p),
         NEW x, x = Head(conn[p][m]), x.type \in {"DAT_RECV", "MSGDAT_RECV", "NRDY"},
         NEW h, h = x.sh, NEW o \in SendHandle, sh' = [sh EXCEPT ![h] = o],
         pc' = pc \/ pc' = WakeSender(h),
         UNCHANGED <<rh, sq, rq, chlock, shlock, movin, cur, out, nsh, nrh, starts, recvs, spurious,
                     sent, posted, matched, received>>,
         o.msg = sh[h].msg, o.dest = sh[h].dest, o.stat \notin Early \cup Late,
         SendOK(h)', cur[h[1]] = h => SenderOK(h[1])'
  PROVE  Inv'
  <1>1. Typed /\ Bounded /\ HandlesOK /\ TokensOK /\ PlacesOK /\ OrderOK /\ ReceivedOK /\ RecvQueues
    BY DEF Inv
  <1>2. Taken(p, m, x)
    BY <1>1, ConnConsume
  <1>3. PICK u : u = <<<<"conn", p, m>>, x>>
    OBVIOUS
  <1>4. u \in Tokens /\ u[2] = x /\ h \in SH /\ NamesRecv(x)
    BY <1>1, <1>2, <1>3, TokenFacts DEF Taken
  <1>5. AnswersKept /\ pc' \in [Nodes -> SendLocs \cup RecvLocs \cup {"idle"}]
    BY <1>1, <1>4, WakesSender
  <1>6. /\ PlacesTyped /\ PlacesOK' /\ Tails /\ Tokens' = Tokens \ {u}
    BY <1>3, <1>5, MovinEnds
  <1>7. /\ sh' \in [SH -> SendHandle] /\ sh'[h] = o /\ \A g \in SH : g # h => sh'[g] = sh[g]
    BY <1>1, <1>4 DEF Typed
  <1>8. Typed'
    BY <1>1, <1>5, <1>6, <1>7 DEF Typed, PlacesTyped
  <1>9. Moves({u}, {})
    <2>1. u[2].rh = Nobody
      BY <1>4 DEF NamesRecv
    <2>2. ~Awaiting(u[2].sh)'
      BY <1>4, <1>7 DEF Awaiting
    <2> QED  BY <1>1, <1>4, <1>6, <1>7, <2>1, <2>2, OneDeath
  <1>10. Bounded'
    <2>1. \A n \in Nodes : pc'[n] \in {"start_rh", "start_sh"} => pc'[n] = pc[n]
      BY <1>1, <1>4, WakesSender
    <2> QED  BY <1>1, <1>6, <2>1, BoundedKept DEF PlacesTyped
  <1>11. HandlesOK'
    BY <1>1, <1>4, <1>7, <1>8, SenderStep
  <1>12. SendsKept
    <2>1. \A g \in SH : sh'[g].msg = sh[g].msg /\ sh'[g].dest = sh[g].dest
      BY <1>7
    <2>2. \A w \in Tokens : w[2].sh \in SH
      BY <1>1, TokenFacts
    <2> QED  BY <2>1, <2>2 DEF SendsKept
  <1>13. Ordered'
    BY <1>1, <1>6, <1>8, <1>12, QueuesRise DEF Tails
  <1>14. ReceivedOK' /\ NoMissedMatch'
    BY <1>1 DEF ReceivedOK, RecvQueues, NoMissedMatch
  <1>15. x.type \notin Starting
    BY DEF Starting
  <1>16. \A w \in {u} : w[2].type \in Starting =>
           sh[w[2].sh].mode = "READY" \/ \E v \in {} : v[2].type \in Starting /\ v[2].sh = w[2].sh
    BY <1>4, <1>15
  <1>17. \A v \in {} : v[2].type \in Starting => v[2].sh \in Announced
    OBVIOUS
  <1>18. \A r \in RH : rh'[r].msg = rh[r].msg /\ (rh'[r].stat \in Queue <=> rh[r].stat \in Queue)
    OBVIOUS
  <1>19. UNCHANGED <<nsh, sent, posted, matched, rq>>
    OBVIOUS
  <1> QED  BY <1>6, <1>8, <1>9, <1>10, <1>11, <1>12, <1>13, <1>14, <1>16, <1>17, <1>18, <1>19, QuietMove

\* What is known of the handle of such an answer.
LEMMA AnsweredFacts ==
  ASSUME Inv, NEW m \in Machines, NEW p \in Machines, conn[p][m] # <<>>, Consume(m, p),
         NEW x, x = Head(conn[p][m]), NEW h, h = x.sh
  PROVE  /\ x \in Messages /\ h \in SH /\ h[1] \in Nodes /\ h[2] <= nsh[h[1]] /\ ~(h[2] > nsh[h[1]])
         /\ Right(<<"conn", p, m>>, x) /\ SendOK(h) /\ SenderOK(h[1]) /\ sh[h] \in SendHandle
         /\ sh[h].live /\ Typed /\ HandlesOK
  <1>1. Typed /\ HandlesOK /\ TokensOK /\ PlacesOK
    BY DEF Inv
  <1>2. Taken(p, m, x)
    BY <1>1, ConnConsume
  <1>3. PICK u : u = <<<<"conn", p, m>>, x>>
    OBVIOUS
  <1>4. u \in Tokens /\ u[1] = <<"conn", p, m>> /\ u[2] = x
    BY <1>2, <1>3 DEF Taken
  <1>5. x \in Messages /\ h \in SH /\ h[1] \in Nodes /\ Right(u[1], x) /\ Started(x) /\ sh[h].live
    BY <1>1, <1>4, TokenFacts
  <1>6. /\ SendOK(h) /\ SenderOK(h[1]) /\ sh[h] \in SendHandle /\ h[2] \in Nat /\ nsh[h[1]] \in Nat
    BY <1>1, <1>5, TypesAre DEF HandlesOK, TypeFacts
  <1>7. h[2] <= nsh[h[1]]
    BY <1>5 DEF Started
  <1>8. ~(h[2] > nsh[h[1]])
    BY <1>6, <1>7
  <1> QED  BY <1>1, <1>4, <1>5, <1>6, <1>7, <1>8

\* Where the node that uses the handle is after a wake-up.
LEMMA WokenNode ==
  ASSUME Typed, HandlesOK, NEW h \in SH, NEW t \in Nodes, pc' = pc \/ pc' = WakeSender(h), t = h[1], cur' = cur
  PROVE  /\ cur[t] # h => pc'[t] = pc[t]
         /\ pc'[t] # pc[t] => pc[t] \in SendLocs /\ pc'[t] \in SendLocs
         /\ pc[t] = "sleep_sh" => pc'[t] \in {"sleep_sh", "wake_sh"}
         /\ pc[t] = "sleep_rdy" => pc'[t] \in {"sleep_rdy", "wait_sh"}
         /\ pc[t] \notin {"sleep_sh", "sleep_rdy"} => pc'[t] = pc[t]
         /\ pc' = WakeSender(h) /\ cur[t] = h => pc'[t] \notin {"sleep_sh", "sleep_rdy"}
         /\ UsesSend(t, h) => UsesSend(t, h)'
  <1>1. /\ cur[t] # h => pc'[t] = pc[t]
        /\ pc'[t] # pc[t] => pc[t] \in SendLocs /\ pc'[t] \in SendLocs
        /\ pc[t] = "sleep_sh" => pc'[t] \in {"sleep_sh", "wake_sh"}
        /\ pc[t] = "sleep_rdy" => pc'[t] \in {"sleep_rdy", "wait_sh"}
        /\ pc[t] \notin {"sleep_sh", "sleep_rdy"} => pc'[t] = pc[t]
        /\ pc' = WakeSender(h) /\ cur[t] = h => pc'[t] \notin {"sleep_sh", "sleep_rdy"}
    BY WakesSender
  <1>2. UsesSend(t, h) => UsesSend(t, h)'
    BY <1>1 DEF UsesSend
  <1> QED  BY <1>1, <1>2

LEMMA StepAcknowledge ==
  ASSUME Inv, NEW m \in Machines, NEW p \in Machines, NEW type, NEW early \in BOOLEAN,
         type = IF early THEN "MSGDAT_RECV" ELSE "DAT_RECV",
         Acknowledge(m, p, type, {IF early THEN "PEND_STRT" ELSE "PEND_DATA"},
                                 {IF early THEN "PEND_WAIT" ELSE "PEND_DWAT"})
  PROVE  Inv'
  <1>0. PICK x, h, s, t : x = Head(conn[p][m]) /\ h = x.sh /\ s = sh[h] /\ t = h[1]
    OBVIOUS
  <1> DEFINE waiting == IF early THEN "PEND_STRT" ELSE "PEND_DATA"
             asleep == IF early THEN "PEND_WAIT" ELSE "PEND_DWAT"
             o == CASE s.stat \in {waiting} \cup {asleep} -> [s EXCEPT !.stat = "MATCH"]
                    [] s.stat \in {"CANCEL", "PEND_RELS"} -> SendOver(s)
                    [] OTHER -> s
  <1>1. /\ conn[p][m] # <<>> /\ x.type = type /\ Consume(m, p)
        /\ pc' = IF s.stat \in {asleep} \/ (s.stat = "PEND_STRT" /\ s.mode = "READY")
                 THEN WakeSender(h) ELSE pc
        /\ UNCHANGED <<rh, sq, rq, chlock, shlock, movin, cur, out, nsh, nrh, starts, recvs, spurious,
                       sent, posted, matched, received>>
    BY <1>0 DEF Acknowledge, Incoming, queues, locks, counts, history
  <1>2. /\ x \in Messages /\ h \in SH /\ t \in Nodes /\ h[2] <= nsh[t] /\ ~(h[2] > nsh[t])
        /\ Right(<<"conn", p, m>>, x) /\ SendOK(h) /\ SenderOK(t) /\ s \in SendHandle /\ s.live
        /\ Typed /\ HandlesOK
    BY <1>0, <1>1, AnsweredFacts
  <1>3. sh' = [sh EXCEPT ![h] = o]
    BY <1>0, <1>2 DEF Acknowledge, Typed
  <1>4. s.stat \in {waiting, asleep, "CANCEL", "PEND_RELS"}
    <2>1. s.stat \in IF early THEN Early ELSE Late
      BY <1>0, <1>1, <1>2 DEF Right
    <2> QED  BY <2>1 DEF Early, Late
  <1>5. /\ o \in SendHandle /\ o.type = s.type /\ o.mode = s.mode /\ o.dest = s.dest /\ o.msg = s.msg
        /\ o.sys_buf = s.sys_buf
        /\ s.stat \in {waiting, asleep} =>
             o.stat = "MATCH" /\ o.live = s.live /\ o.held = s.held /\ o.curdata = s.curdata
        /\ s.stat \in {"CANCEL", "PEND_RELS"} =>
             /\ o.stat = "FREE"
             /\ s.type = "PERSISTENT" => o.live = s.live /\ o.held = s.held /\ o.curdata = "user"
             /\ s.type # "PERSISTENT" => o.live = FALSE /\ o.held = FALSE /\ o.curdata = s.curdata
    <2>1. CASE s.stat \in {waiting, asleep}
      <3>1. o = [s EXCEPT !.stat = "MATCH"] /\ s.stat \notin {"CANCEL", "PEND_RELS"}
        BY <2>1
      <3> QED  BY <1>2, <2>1, <3>1 DEF SendHandle, Stats
    <2>2. CASE s.stat \in {"CANCEL", "PEND_RELS"}
      <3>1. o = SendOver(s) /\ s.stat \notin {waiting, asleep}
        BY <2>2
      <3> QED  BY <1>2, <2>2, <3>1 DEF SendOver, Freed, SendHandle, Stats
    <2> QED  BY <1>4, <2>1, <2>2
  <1> HIDE DEF o
  <1>6. pc' = pc \/ pc' = WakeSender(h)
    BY <1>1
  <1>7. sh'[h] = o /\ cur' = cur /\ nsh' = nsh
    BY <1>1, <1>2, <1>3 DEF Typed
  <1>8. /\ cur[t] # h => pc'[t] = pc[t]
        /\ pc'[t] # pc[t] => pc[t] \in SendLocs /\ pc'[t] \in SendLocs
        /\ pc[t] = "sleep_sh" => pc'[t] \in {"sleep_sh", "wake_sh"}
        /\ pc[t] = "sleep_rdy" => pc'[t] \in {"sleep_rdy", "wait_sh"}
        /\ pc[t] \notin {"sleep_sh", "sleep_rdy"} => pc'[t] = pc[t]
        /\ pc' = WakeSender(h) /\ cur[t] = h => pc'[t] \notin {"sleep_sh", "sleep_rdy"}
        /\ UsesSend(t, h) => UsesSend(t, h)'
    BY <1>0, <1>2, <1>6, <1>7, WokenNode
  <1>9. SendOK(h)'
    <2>0. /\ s.stat # "NONE" /\ s.dest \in Nodes /\ Mac[h[1]] # Mac[s.dest]
          /\ s.type = "PERSISTENT" => s.mode \in {"SYNC", "READY"}
          /\ s.mode = "READY" /\ "cancel" \in RequestCalls => s.type = "SEND"
          /\ s.mode = "BUFFERED" => s.sys_buf
          /\ s.sys_buf => s.mode \in {"STANDARD", "BUFFERED"}
          /\ s.held <=> s.type # "SEND" /\ (s.stat \in {"PEND_RELS", "CANCEL"} => s.type = "PERSISTENT")
          /\ s.curdata = "garbage" => "cancel" \in RequestCalls /\ s.stat \in {"CANCEL", "FREE"}
          /\ s.type = "SEND" /\ s.stat # "PEND_RELS" => UsesSend(h[1], h)
      BY <1>0, <1>2 DEF SendOK
    <2>a. UsesSend(h[1], h) => UsesSend(h[1], h)'
      BY <1>0, <1>8
    <2>b. ~(h[2] > nsh'[h[1]]) /\ sh'[h] = o
      BY <1>0, <1>2, <1>7
    <2>1. CASE s.stat \in {waiting, asleep}
      <3>1. /\ o.stat = "MATCH" /\ o.live /\ o.held = s.held /\ o.curdata = s.curdata
            /\ s.stat \notin {"PEND_RELS", "CANCEL", "FREE"}
        BY <1>2, <1>5, <2>1
      <3> QED  BY <1>5, <2>0, <2>a, <2>b, <3>1 DEF SendOK
    <2>2. CASE s.stat \in {"CANCEL", "PEND_RELS"}
      <3>1. /\ o.stat = "FREE" /\ s.type = "PERSISTENT" => o.live
            /\ s.type = "PERSISTENT" => o.held = s.held /\ o.curdata = "user"
            /\ s.type # "PERSISTENT" => o.live = FALSE /\ o.held = FALSE /\ o.curdata = s.curdata
        BY <1>2, <1>5, <2>2
      <3> QED  BY <1>5, <2>0, <2>2, <2>a, <2>b, <3>1 DEF SendOK
    <2> QED  BY <1>4, <2>1, <2>2
  <1>10. ASSUME cur[t] = h, pc[t] \in SendLocs PROVE SenderOK(t)'
    <2>1. CASE s.stat \in {waiting, asleep}
      <3>1. pc'[t] \notin {"sleep_sh", "sleep_rdy"}
        <4>1. CASE pc[t] = "sleep_sh"
          <5>1. s.stat = asleep
            <6>1. sh[cur[t]].stat \in {"PEND_WAIT", "PEND_DWAT"}
              BY <1>2, <1>10, <4>1 DEF SenderOK
            <6> QED  BY <1>0, <1>10, <2>1, <6>1
          <5> QED  BY <1>1, <1>8, <1>10, <5>1
        <4>2. CASE pc[t] = "sleep_rdy"
          <5>1. s.stat = "PEND_STRT" /\ s.mode = "READY"
            <6>1. sh[cur[t]].stat = "PEND_STRT" /\ sh[cur[t]].mode = "READY"
              BY <1>2, <1>10, <4>2 DEF SenderOK
            <6> QED  BY <1>0, <1>10, <6>1
          <5> QED  BY <1>1, <1>8, <1>10, <5>1
        <4> QED  BY <1>8, <4>1, <4>2
      <3>2. /\ h \in SH /\ h[1] = t /\ h[2] <= nsh'[t] /\ o.live /\ cur'[t] = h /\ sh'[h] = o
            /\ o.stat = "MATCH" /\ o.held = s.held /\ o.mode = s.mode
        BY <1>0, <1>2, <1>5, <1>7, <1>10, <2>1
      <3>3. /\ pc[t] # "start_sh"
            /\ pc[t] = "cancel_sh" => s.held /\ "cancel" \in RequestCalls /\ s.mode # "READY"
        <4>1. pc[t] = "start_sh" => s.stat \in {"CREATE", "FREE"}
          BY <1>0, <1>2, <1>10 DEF SenderOK
        <4>2. pc[t] = "cancel_sh" => s.held /\ "cancel" \in RequestCalls /\ s.mode # "READY"
          BY <1>0, <1>2, <1>10 DEF SenderOK
        <4> QED  BY <2>1, <4>1, <4>2
      <3>4. pc'[t] # "start_sh" /\ (pc'[t] = "cancel_sh" => pc[t] = "cancel_sh")
        BY <1>8, <3>3
      <3> QED  BY <3>1, <3>2, <3>3, <3>4 DEF SenderOK, PEND
    <2>2. CASE s.stat \in {"CANCEL", "PEND_RELS"}
      <3>1. pc[t] = "enter_wait_sh" /\ s.type = "PERSISTENT"
        BY <1>0, <1>2, <1>10, <2>2 DEF SenderOK, SendLocs
      <3> QED  BY ZenonT(40), <1>0, <1>2, <1>5, <1>7, <1>8, <1>10, <2>2, <3>1 DEF SenderOK
    <2> QED  BY <1>4, <2>1, <2>2
  <1>11. cur[t] = h => SenderOK(t)'
    <2>1. pc[t] \notin SendLocs => pc'[t] \notin SendLocs
      BY <1>8
    <2> QED  BY <1>10, <2>1 DEF SenderOK
  <1>12. o.stat \notin Early \cup Late
    BY <1>4, <1>5 DEF Early, Late
  <1> QED  BY <1>0, <1>1, <1>3, <1>5, <1>6, <1>9, <1>11, <1>12, AnswerStep

LEMMA StepHandleNRDY ==
  ASSUME Inv, NEW m \in Machines, NEW p \in Machines, HandleNRDY(m, p)
  PROVE  Inv'
  <1>0. PICK x, h, s, t : x = Head(conn[p][m]) /\ h = x.sh /\ s = sh[h] /\ t = h[1]
    OBVIOUS
  <1>1. /\ conn[p][m] # <<>> /\ x.type = "NRDY" /\ Consume(m, p)
        /\ sh' = [sh EXCEPT ![h].stat = IF @ = "PEND_STRT" THEN "PEND_NRDY" ELSE @]
        /\ pc' = IF s.stat = "PEND_STRT" THEN WakeSender(h) ELSE pc
        /\ UNCHANGED <<rh, sq, rq, chlock, shlock, movin, cur, out, nsh, nrh, starts, recvs, spurious,
                       sent, posted, matched, received>>
    BY <1>0 DEF HandleNRDY, Incoming, queues, locks, counts, history
  <1>2. /\ x \in Messages /\ h \in SH /\ t \in Nodes /\ h[2] <= nsh[t] /\ ~(h[2] > nsh[t])
        /\ Right(<<"conn", p, m>>, x) /\ SendOK(h) /\ SenderOK(t) /\ s \in SendHandle /\ s.live
        /\ Typed /\ HandlesOK
    BY <1>0, <1>1, AnsweredFacts
  <1>3. s.stat = "PEND_STRT" /\ s.mode = "READY"
    BY <1>0, <1>1, <1>2 DEF Right
  <1>4. PICK o : o = [s EXCEPT !.stat = "PEND_NRDY"]
    OBVIOUS
  <1>5. sh' = [sh EXCEPT ![h] = o]
    BY <1>0, <1>1, <1>2, <1>3, <1>4 DEF Typed
  <1>6. /\ o \in SendHandle /\ o.type = s.type /\ o.mode = s.mode /\ o.dest = s.dest /\ o.msg = s.msg
        /\ o.sys_buf = s.sys_buf /\ o.stat = "PEND_NRDY" /\ o.live = s.live /\ o.held = s.held
        /\ o.curdata = s.curdata
    BY <1>2, <1>4 DEF SendHandle, Stats, PEND
  <1>7. pc' = WakeSender(h)
    BY <1>1, <1>3
  <1>8. sh'[h] = o /\ cur' = cur /\ nsh' = nsh
    BY <1>1, <1>2, <1>5 DEF Typed
  <1>9. /\ cur[t] # h => pc'[t] = pc[t]
        /\ pc'[t] # pc[t] => pc[t] \in SendLocs /\ pc'[t] \in SendLocs
        /\ pc[t] = "sleep_sh" => pc'[t] \in {"sleep_sh", "wake_sh"}
        /\ pc[t] = "sleep_rdy" => pc'[t] \in {"sleep_rdy", "wait_sh"}
        /\ pc[t] \notin {"sleep_sh", "sleep_rdy"} => pc'[t] = pc[t]
        /\ cur[t] = h => pc'[t] \notin {"sleep_sh", "sleep_rdy"}
        /\ UsesSend(t, h) => UsesSend(t, h)'
    BY <1>0, <1>2, <1>7, <1>8, WokenNode
  <1>10. SendOK(h)'
    <2>0. /\ s.stat # "NONE" /\ s.dest \in Nodes /\ Mac[h[1]] # Mac[s.dest]
          /\ s.type = "PERSISTENT" => s.mode \in {"SYNC", "READY"}
          /\ s.mode = "READY" /\ "cancel" \in RequestCalls => s.type = "SEND"
          /\ s.mode = "BUFFERED" => s.sys_buf
          /\ s.sys_buf => s.mode \in {"STANDARD", "BUFFERED"}
          /\ s.held <=> s.type # "SEND"
          /\ s.curdata # "garbage"
          /\ s.type = "SEND" => UsesSend(h[1], h)
      BY <1>0, <1>2, <1>3 DEF SendOK
    <2>1. UsesSend(h[1], h) => UsesSend(h[1], h)'
      BY <1>0, <1>9
    <2>2. ~(h[2] > nsh'[h[1]]) /\ sh'[h] = o
      BY <1>0, <1>2, <1>8
    <2> QED  BY <1>2, <1>3, <1>6, <2>0, <2>1, <2>2 DEF SendOK
  <1>11. cur[t] = h => SenderOK(t)'
    <2>1. ASSUME pc[t] \in SendLocs, cur[t] = h PROVE SenderOK(t)'
      <3>1. /\ h \in SH /\ h[1] = t /\ h[2] <= nsh'[t] /\ o.live /\ cur'[t] = h /\ sh'[h] = o
        BY <1>0, <1>2, <1>6, <1>8, <2>1
      <3>2. pc[t] \notin {"start_sh", "sleep_sh", "wake_sh", "cancel_sh"}
        <4>1. pc[t] = "cancel_sh" => s.mode # "READY"
          BY <1>0, <1>2, <2>1 DEF SenderOK
        <4>2. pc[t] \in {"start_sh", "sleep_sh", "wake_sh"} => s.stat # "PEND_STRT"
          BY <1>0, <1>2, <2>1 DEF SenderOK
        <4> QED  BY <1>3, <4>1, <4>2
      <3>3. pc'[t] \in {"enter_wait_sh", "wait_sh"} \/ pc'[t] \notin SendLocs
        BY <1>9, <2>1, <3>2 DEF SendLocs
      <3> QED  BY <1>6, <3>1, <3>3 DEF SenderOK, PEND
    <2>2. CASE pc[t] \notin SendLocs
      BY <1>9, <2>2 DEF SenderOK
    <2> QED  BY <2>1, <2>2
  <1>12. o.stat \notin Early \cup Late
    BY <1>6 DEF Early, Late
  <1> QED  BY <1>0, <1>1, <1>5, <1>6, <1>7, <1>10, <1>11, <1>12, AnswerStep

\* A handler answers x with y and leaves the handles alone.
LEMMA AnswerOnly ==
  ASSUME Inv, NEW m \in Machines, NEW p \in Machines, movin[m].at = "recv",
         conn[p][m] # <<>>, Consume(m, p), NEW x, x = Head(conn[p][m]),
         NEW at \in {"reply", "data"}, NEW y \in Messages, Answer(m, at, y),
         at = "data" <=> y.type = "DAT_SEND",
         shlock' \in [SH -> Machines \cup {Nobody}],
         UNCHANGED <<sh, rh, sq, rq, chlock, pc, cur, out, nsh, nrh, starts, recvs, spurious,
                     sent, posted, matched, received>>,
         y.sh = x.sh, y.rh = x.rh, y.type \notin Starting,
         x.type \in Starting => sh[x.sh].mode = "READY",
         Right(<<"movin", m, m>>, y) /\ NamesRecv(y) /\ Payload(y)
  PROVE  Inv'
  <1>1. Typed /\ Bounded /\ HandlesOK /\ TokensOK /\ PlacesOK /\ OrderOK /\ ReceivedOK /\ RecvQueues
    BY DEF Inv
  <1>2. AnswersKept
    BY DEF AnswersKept
  <1>3. /\ PlacesTyped /\ PlacesOK' /\ Tails
        /\ x \in Messages /\ <<<<"conn", p, m>>, x>> \in Tokens
        /\ Tokens' = (Tokens \ {<<<<"conn", p, m>>, x>>}) \cup {<<<<"movin", m, m>>, y>>}
    BY <1>2, MovinTakes
  <1>4. PICK u, v : u = <<<<"conn", p, m>>, x>> /\ v = <<<<"movin", m, m>>, y>>
    OBVIOUS
  <1>5. /\ u \in Tokens /\ Tokens' = (Tokens \ {u}) \cup {v}
        /\ u[2] = x /\ v[1] = <<"movin", m, m>> /\ v[2] = y
    BY <1>3, <1>4
  <1>6. Started(x)
    BY <1>1, <1>5, TokenFacts
  <1>7. Typed'
    BY <1>1, <1>3 DEF Typed, PlacesTyped
  <1>8. Right(v[1], v[2])'
    BY <1>5 DEF Right
  <1>9. NamesRecv(v[2])' /\ Payload(v[2])' /\ Started(v[2])'
    BY <1>5, <1>6 DEF NamesRecv, Payload, Started, Pair
  <1>10. Moves({u}, {v})
    <2>1. v[2].sh = u[2].sh /\ v[2].rh = u[2].rh
      BY <1>5
    <2>2. \A r \in RH : rh'[r].stat \in Data => r = v[2].rh \/ (rh[r].stat \in Data /\ r # u[2].rh)
      BY <2>1
    <2> QED  BY <1>1, <1>5, <1>8, <1>9, <2>1, <2>2, OneMove
  <1>11. Bounded'
    BY <1>1, <1>3, BoundedKept DEF PlacesTyped
  <1>12. HandlesOK'
    BY <1>1, HandlesUnchanged
  <1>13. SendsKept
    BY DEF SendsKept
  <1>14. Ordered'
    BY <1>1, <1>3, <1>7, <1>13, QueuesRise DEF Tails
  <1>15. ReceivedOK' /\ NoMissedMatch'
    BY <1>1 DEF ReceivedOK, RecvQueues, NoMissedMatch
  <1>16. \A w \in {u} : w[2].type \in Starting =>
           sh[w[2].sh].mode = "READY" \/ \E z \in {v} : z[2].type \in Starting /\ z[2].sh = w[2].sh
    BY <1>5
  <1>17. \A w \in {v} : w[2].type \in Starting => w[2].sh \in Announced
    BY <1>5
  <1> QED  BY <1>3, <1>7, <1>10, <1>11, <1>12, <1>13, <1>14, <1>15, <1>16, <1>17, QuietMove

\* What is known of the message a handler reads.
LEMMA IncomingFacts ==
  ASSUME Inv, NEW m \in Machines, NEW p \in Machines, conn[p][m] # <<>>, Consume(m, p),
         NEW x, x = Head(conn[p][m])
  PROVE  /\ x \in Messages /\ x.sh \in SH /\ x.sh[1] \in Nodes /\ <<<<"conn", p, m>>, x>> \in Tokens
         /\ Right(<<"conn", p, m>>, x) /\ NamesRecv(x) /\ Payload(x) /\ Started(x)
         /\ sh[x.sh].dest \in Nodes /\ sh[x.sh] \in SendHandle /\ SendOK(x.sh) /\ ~(x.sh[2] > nsh[x.sh[1]])
         /\ Taken(p, m, x)
  <1>1. Typed /\ HandlesOK /\ TokensOK /\ PlacesOK
    BY DEF Inv
  <1>2. Taken(p, m, x)
    BY <1>1, ConnConsume
  <1>3. PICK u : u = <<<<"conn", p, m>>, x>>
    OBVIOUS
  <1>4. u \in Tokens /\ u[1] = <<"conn", p, m>> /\ u[2] = x
    BY <1>2, <1>3 DEF Taken
  <1>5. /\ x \in Messages /\ x.sh \in SH /\ x.sh[1] \in Nodes
        /\ Right(u[1], x) /\ NamesRecv(x) /\ Payload(x) /\ Started(x) /\ sh[x.sh].dest \in Nodes
    BY <1>1, <1>4, TokenFacts
  <1>6. /\ SendOK(x.sh) /\ sh[x.sh] \in SendHandle /\ x.sh[2] \in Nat /\ nsh[x.sh[1]] \in Nat
    BY <1>1, <1>5, TypesAre DEF HandlesOK, TypeFacts
  <1>7. x.sh[2] <= nsh[x.sh[1]]
    BY <1>5 DEF Started
  <1>8. ~(x.sh[2] > nsh[x.sh[1]])
    BY <1>6, <1>7
  <1> QED  BY <1>2, <1>3, <1>4, <1>5, <1>6, <1>8

LEMMA StepHandleRMR ==
  ASSUME Inv, NEW m \in Machines, NEW p \in Machines, HandleRMR(m, p)
  PROVE  Inv'
  <1>0. PICK x, h, s : x = Head(conn[p][m]) /\ h = x.sh /\ s = sh[h]
    OBVIOUS
  <1>1. PICK y : y = MSG("DAT_SEND", h, x.rh, Content(s))
    OBVIOUS
  <1>2. /\ movin[m].at = "recv" /\ conn[p][m] # <<>> /\ x.type = "MSG_RECV" /\ Consume(m, p)
        /\ Answer(m, "data", y) /\ shlock' = [shlock EXCEPT ![h] = m]
        /\ UNCHANGED <<sh, rh, sq, rq, chlock, pc, cur, out, nsh, nrh, starts, recvs, spurious,
                       sent, posted, matched, received>>
    BY <1>0, <1>1 DEF HandleRMR, Incoming, handles, queues, thread, counts, history
  <1>3. /\ x \in Messages /\ h \in SH /\ Right(<<"conn", p, m>>, x) /\ NamesRecv(x) /\ SendOK(h)
        /\ s \in SendHandle /\ ~(h[2] > nsh[h[1]]) /\ Started(x)
    BY <1>0, <1>2, IncomingFacts
  <1>4. m = Mac[h[1]] /\ s.stat \in Early
    BY <1>0, <1>2, <1>3 DEF Right
  <1>5. /\ y.type = "DAT_SEND" /\ y.sh = h /\ y.rh = x.rh /\ y.payload = Content(s)
        /\ y = [type |-> "DAT_SEND", sh |-> h, rh |-> x.rh, payload |-> Content(s)]
    BY <1>1 DEF MSG
  <1>6. /\ y.payload \in {"intact", "garbage"} /\ (y.payload = "garbage" => s.stat = "CANCEL")
    <2>1. h[2] <= nsh[h[1]]
      BY <1>0, <1>3 DEF Started
    <2>2. /\ s.stat = "PEND_RELS" => s.curdata = "sys"
          /\ s.curdata = "garbage" => s.stat = "CANCEL"
      BY <1>0, <1>3, <1>4, <2>1 DEF SendOK, Early
    <2>3. CASE s.curdata = "garbage"
      <3>1. Content(s) = "garbage"
        BY <2>3 DEF Content
      <3> QED  BY <1>5, <2>2, <2>3, <3>1
    <2>4. CASE s.curdata # "garbage"
      <3>1. ~(s.curdata = "user" /\ s.stat \in {"PEND_RELS", "FREE"})
        BY <1>4, <2>2 DEF Early
      <3>2. Content(s) = "intact"
        BY <2>4, <3>1 DEF Content
      <3> QED  BY <1>5, <3>2
    <2> QED  BY <2>3, <2>4
  <1>7. y \in Messages
    BY <1>3, <1>5, <1>6 DEF Messages, Types
  <1>8. Right(<<"movin", m, m>>, y)
    BY <1>0, <1>4, <1>5 DEF Right, Starting
  <1>9. NamesRecv(y) /\ Payload(y)
    BY <1>0, <1>2, <1>3, <1>5, <1>6 DEF NamesRecv, Payload
  <1>10. shlock' \in [SH -> Machines \cup {Nobody}]
    BY <1>2, <1>3 DEF Inv, Typed
  <1>11. y.type \notin Starting /\ x.type \notin Starting /\ y.sh = x.sh
    BY <1>0, <1>2, <1>5 DEF Starting
  <1> QED  BY <1>0, <1>2, <1>5, <1>7, <1>8, <1>9, <1>10, <1>11, AnswerOnly

----------------------------------------------------------------------------
(* Messages that no receive waits for. *)

\* A ready send is refused.
LEMMA Refused ==
  ASSUME Inv, NEW m \in Machines, NEW p \in Machines, movin[m].at = "recv",
         conn[p][m] # <<>>, Consume(m, p), NEW x, x = Head(conn[p][m]), x.type \in Starting,
         sh[x.sh].mode = "READY", Answer(m, "reply", MSG("NRDY", x.sh, Nobody, "none")),
         UNCHANGED <<sh, rh, sq, rq, chlock, shlock, pc, cur, out, nsh, nrh, starts, recvs, spurious,
                     sent, posted, matched, received>>
  PROVE  Inv'
  <1>1. PICK h, s, y : h = x.sh /\ s = sh[h] /\ y = MSG("NRDY", h, Nobody, "none")
    OBVIOUS
  <1>2. /\ x \in Messages /\ h \in SH /\ Right(<<"conn", p, m>>, x) /\ NamesRecv(x) /\ SendOK(h)
        /\ s \in SendHandle /\ Started(x)
    BY <1>1, IncomingFacts
  <1>3. /\ y.type = "NRDY" /\ y.sh = h /\ y.rh = Nobody /\ y.payload = "none"
        /\ y = [type |-> "NRDY", sh |-> h, rh |-> Nobody, payload |-> "none"]
    BY <1>1 DEF MSG
  <1>4. y \in Messages
    BY <1>2, <1>3 DEF Messages, Types
  <1>5. m = Mac[s.dest] /\ s.stat \in Early
    BY <1>1, <1>2 DEF Right
  <1>6. s.stat = "PEND_STRT"
    <2>1. h[2] <= nsh[h[1]]
      BY <1>1, <1>2 DEF Started
    <2>2. /\ s.stat = "PEND_RELS" => ~Synchronous(s)
          /\ s.stat = "CANCEL" => s.mode # "READY"
          /\ s.stat = "PEND_WAIT" => s.mode # "READY"
      BY <1>1, <1>2, <2>1 DEF SendOK
    <2>3. Synchronous(s) /\ s.mode = "READY"
      BY <1>1 DEF Synchronous
    <2> QED  BY <1>5, <2>2, <2>3 DEF Early
  <1>7. Right(<<"movin", m, m>>, y)
    BY <1>1, <1>3, <1>5, <1>6 DEF Right, Starting
  <1>8. NamesRecv(y) /\ Payload(y)
    BY <1>3 DEF NamesRecv, Payload
  <1>9. x.rh = Nobody /\ y.type \notin Starting
    BY <1>2, <1>3 DEF NamesRecv, Starting
  <1>10. shlock' \in [SH -> Machines \cup {Nobody}]
    BY DEF Inv, Typed
  <1>11. y.sh = x.sh /\ y.rh = x.rh /\ y.type # "DAT_SEND" /\ Answer(m, "reply", y)
    BY <1>1, <1>3, <1>9
  <1> QED  BY <1>4, <1>7, <1>8, <1>9, <1>10, <1>11, AnswerOnly

\* The message y has been put at the end of the queue of d.
QueuedAt(d, y) ==
  /\ sq' \in [Nodes -> Seq(Messages)]
  /\ \A n \in Nodes :
       /\ Distinct(sq'[n])
       /\ \/ sq'[n] = sq[n] /\ n # d
          \/ n = d /\ sq'[n] = Append(sq[n], y)
       /\ \A z \in Messages : z \in Elems(sq'[n]) <=> z \in Elems(sq[n]) \/ (n = d /\ z = y)

LEMMA QueueAppend ==
  ASSUME Typed, PlacesOK, NEW d \in Nodes, NEW y \in Messages,
         sq' = [sq EXCEPT ![d] = Append(@, y)], \A z \in Elems(sq[d]) : z.sh # y.sh
  PROVE  QueuedAt(d, y)
  <1>1. sq[d] \in Seq(Messages) /\ Distinct(sq[d])
    BY TypesAre DEF TypeFacts, PlacesOK
  <1>2. Append(sq[d], y) \in Seq(Messages) /\ Elems(Append(sq[d], y)) = Elems(sq[d]) \cup {y}
    BY <1>1, AppendTo
  <1>3. Distinct(Append(sq[d], y))
    BY <1>1, DistinctAppend
  <1>4. sq \in [Nodes -> Seq(Messages)]
    BY DEF Typed
  <1>5. sq' \in [Nodes -> Seq(Messages)]
    BY <1>2, <1>4
  <1>6. ASSUME NEW n \in Nodes
        PROVE  /\ Distinct(sq'[n])
               /\ \/ sq'[n] = sq[n] /\ n # d
                  \/ n = d /\ sq'[n] = Append(sq[n], y)
               /\ \A z \in Messages : z \in Elems(sq'[n]) <=> z \in Elems(sq[n]) \/ (n = d /\ z = y)
    <2>1. CASE n = d
      <3>1. sq'[n] = Append(sq[d], y)
        BY <1>4, <2>1
      <3> QED  BY <1>2, <1>3, <2>1, <3>1
    <2>2. CASE n # d
      <3>1. sq'[n] = sq[n] /\ Distinct(sq[n])
        BY <1>4, <2>2 DEF PlacesOK
      <3> QED  BY <2>2, <3>1
    <2> QED  BY <2>1, <2>2
  <1> QED  BY <1>5, <1>6 DEF QueuedAt

\* The order of messages when the next one from a connection is queued.
LEMMA QueueRises ==
  ASSUME Typed, HandlesOK, TokensOK, Ordered, NEW m \in Machines, NEW p \in Machines, NEW x,
         Taken(p, m, x), x.type \in Starting, NEW d, d = sh[x.sh].dest, NEW y \in Messages, y.sh = x.sh,
         y.type \in Starting, QueuedAt(d, y), sh' = sh
  PROVE  Ordered'
  <1>0. PICK h : h = x.sh
    OBVIOUS
  <1>1. /\ x \in Messages /\ x \in Elems(conn[p][m]) /\ <<<<"conn", p, m>>, x>> \in Tokens
        /\ x = conn[p][m][1] /\ y.sh = h
        /\ \A a, b \in Machines :
             \/ conn'[a][b] = conn[a][b] /\ ~(a = p /\ b = m)
             \/ a = p /\ b = m /\ conn[a][b] # <<>> /\ conn'[a][b] = Tail(conn[a][b])
        /\ \A a, b \in Machines : \A z \in Messages :
             z \in Elems(conn'[a][b]) <=> z \in Elems(conn[a][b]) /\ ~(a = p /\ b = m /\ z = x)
    BY <1>0 DEF Taken
  <1>2. /\ conn[p][m] # <<>> /\ conn'[p][m] = Tail(conn[p][m])
        /\ conn[p][m] \in Seq(Messages) /\ conn' \in [Machines -> [Machines -> Seq(Messages)]]
    BY <1>1, TypesAre DEF TypeFacts, Taken
  <1>3. /\ (\A a, b \in Machines : Rising(sh, conn[a][b])) /\ (\A n \in Nodes : Rising(sh, sq[n]))
        /\ \A n \in Nodes, a, b \in Machines : \A w \in Elems(sq[n]), z \in Elems(conn[a][b]) :
             z.type \in Starting /\ Alike(sh, w.sh, z.sh) => sh[w.sh].msg < sh[z.sh].msg
    BY DEF Ordered
  <1>4. /\ Rising(sh, Tail(conn[p][m]))
        /\ \A z \in Elems(Tail(conn[p][m])) :
             z.type \in Starting /\ Alike(sh, h, z.sh) => sh[h].msg < sh[z.sh].msg
    <2>1. /\ Rising(sh, Tail(conn[p][m]))
          /\ \A z \in Elems(Tail(conn[p][m])) :
               conn[p][m][1].type \in Starting /\ z.type \in Starting /\ Alike(sh, conn[p][m][1].sh, z.sh) =>
                 sh[conn[p][m][1].sh].msg < sh[z.sh].msg
      BY <1>2, <1>3, RisingTail
    <2> QED  BY <1>0, <1>1, <2>1
  <1>5. \A a, b \in Machines : Rising(sh', conn'[a][b])
    <2> TAKE a \in Machines, b \in Machines
    <2>1. CASE a = p /\ b = m
      BY <1>2, <1>4, <2>1
    <2>2. CASE ~(a = p /\ b = m)
      <3>1. conn'[a][b] = conn[a][b]
        BY <1>1, <2>2
      <3> QED  BY <1>3, <3>1
    <2> QED  BY <2>1, <2>2
  <1>6. p = Mac[h[1]] /\ m = Mac[d] /\ d \in Nodes
    <2>1. PICK u : u = <<<<"conn", p, m>>, x>>
      OBVIOUS
    <2>2. u \in Tokens /\ u[1] = <<"conn", p, m>> /\ u[2] = x
      BY <1>1, <2>1
    <2>3. Right(u[1], x) /\ sh[x.sh].dest \in Nodes
      BY <2>2, TokenFacts
    <2> QED  BY <1>0, <2>2, <2>3 DEF Right
  <1>7. \A n \in Nodes : Rising(sh', sq'[n])
    <2> TAKE n \in Nodes
    <2>1. CASE n = d
      <3>1. sq[n] \in Seq(Messages) /\ Rising(sh, sq[n]) /\ sq'[n] = Append(sq[n], y)
        BY <1>3, <2>1, TypesAre DEF TypeFacts, QueuedAt
      <3>2. \A w \in Elems(sq[n]) :
              y.type \in Starting /\ w.type \in Starting /\ Alike(sh, w.sh, y.sh) =>
                sh[w.sh].msg < sh[y.sh].msg
        BY <1>0, <1>1, <1>3
      <3> QED  BY <3>1, <3>2, RisingAppend
    <2>2. CASE n # d
      <3>1. sq'[n] = sq[n]
        BY <2>2 DEF QueuedAt
      <3> QED  BY <1>3, <3>1
    <2> QED  BY <2>1, <2>2
  <1>8. ASSUME NEW n \in Nodes, NEW a \in Machines, NEW b \in Machines,
               NEW w \in Elems(sq'[n]), NEW z \in Elems(conn'[a][b]),
               z.type \in Starting, Alike(sh, w.sh, z.sh)
        PROVE  sh[w.sh].msg < sh[z.sh].msg
    <2>1. w \in Messages /\ z \in Messages
      <3>1. sq'[n] \in Seq(Messages) /\ conn'[a][b] \in Seq(Messages)
        BY <1>2 DEF QueuedAt
      <3> QED  BY <3>1, ElemsIn
    <2>2. z \in Elems(conn[a][b]) /\ ~(a = p /\ b = m /\ z = x)
      BY <1>1, <2>1
    <2>3. w \in Elems(sq[n]) \/ (n = d /\ w = y)
      BY <2>1 DEF QueuedAt
    <2>4. CASE w \in Elems(sq[n])
      BY <1>3, <1>8, <2>2, <2>4
    <2>5. CASE n = d /\ w = y
      <3>1. Alike(sh, h, z.sh)
        BY <1>1, <1>8, <2>5
      <3>2. z.sh[1] = h[1] /\ sh[z.sh].dest = d
        BY <1>0, <3>1 DEF Alike
      <3>3. PICK u : u = <<<<"conn", a, b>>, z>>
        OBVIOUS
      <3>4. u \in Tokens /\ u[1] = <<"conn", a, b>> /\ u[2] = z
        BY <2>2, <3>3, InConn
      <3>5. Right(u[1], z)
        BY <3>4, TokenFacts
      <3>6. a = p /\ b = m
        BY <1>6, <1>8, <3>2, <3>4, <3>5 DEF Right
      <3>7. z \in Elems(Tail(conn[p][m]))
        BY <1>2, <3>6
      <3> QED  BY <1>1, <1>4, <1>8, <2>5, <3>1, <3>7
    <2> QED  BY <2>3, <2>4, <2>5
  <1> QED  BY <1>5, <1>7, <1>8 DEF Ordered

\* Any other message is put in the send queue of its destination, with or without its data.
StandsFor(y, x) == y = x \/ y = MSG("MSG_SEND", x.sh, Nobody, "none")
PutsLast(d, y) == sq' = [sq EXCEPT ![d] = Append(@, y)]

LEMMA QueuedUp ==
  ASSUME Inv, NEW m \in Machines, NEW p \in Machines,
         conn[p][m] # <<>>, Consume(m, p), NEW x, x = Head(conn[p][m]), x.type \in Starting,
         NEW d, d = sh[x.sh].dest, sh[x.sh].mode # "READY", rq[d] = <<>>,
         NEW y, StandsFor(y, x), PutsLast(d, y),
         UNCHANGED <<sh, rh, rq, chlock, shlock, movin, pc, cur, out, nsh, nrh, starts, recvs, spurious,
                     sent, posted, matched, received>>
  PROVE  Inv'
  <1>1. Typed /\ Bounded /\ HandlesOK /\ TokensOK /\ PlacesOK /\ OrderOK /\ ReceivedOK /\ RecvQueues
    BY DEF Inv
  <1>2. PICK h, s : h = x.sh /\ s = sh[h]
    OBVIOUS
  <1>3. /\ x \in Messages /\ h \in SH /\ Right(<<"conn", p, m>>, x) /\ NamesRecv(x) /\ Payload(x)
        /\ Started(x) /\ d \in Nodes /\ Taken(p, m, x) /\ <<<<"conn", p, m>>, x>> \in Tokens
    BY <1>2, IncomingFacts
  <1>4. /\ y \in Messages /\ y.type \in Starting /\ y.sh = h /\ y.rh = Nobody /\ x.rh = Nobody
        /\ Payload(y)
    <2>1. x.rh = Nobody
      BY <1>3 DEF NamesRecv, Starting
    <2>2. CASE y = x
      BY <1>2, <1>3, <2>1, <2>2
    <2>3. CASE y = MSG("MSG_SEND", x.sh, Nobody, "none")
      <3>1. y = [type |-> "MSG_SEND", sh |-> h, rh |-> Nobody, payload |-> "none"]
        BY <1>2, <2>3 DEF MSG
      <3> QED  BY <1>3, <2>1, <3>1 DEF Messages, Types, Starting, Payload
    <2> QED  BY <2>2, <2>3 DEF StandsFor
  <1>5. PICK u, v : u = <<<<"conn", p, m>>, x>> /\ v = <<<<"sq", d, d>>, y>>
    OBVIOUS
  <1>6. u \in Tokens /\ u[1] = <<"conn", p, m>> /\ u[2] = x /\ v[1] = <<"sq", d, d>> /\ v[2] = y
    BY <1>3, <1>5
  <1>7. QueuedAt(d, y)
    <2>1. \A z \in Elems(sq[d]) : z.sh # y.sh
      <3> TAKE z \in Elems(sq[d])
      <3>1. PICK w : w = <<<<"sq", d, d>>, z>>
        OBVIOUS
      <3>2. w \in Tokens /\ w # u /\ w[2] = z
        BY <1>1, <1>3, <1>5, <3>1, InQueue
      <3> QED  BY <1>1, <1>2, <1>4, <1>6, <3>2 DEF TokensOK
    <2> QED  BY <1>1, <1>3, <1>4, <2>1, QueueAppend DEF PutsLast
  <1>8. Typed'
    BY <1>1, <1>3, <1>7 DEF Typed, Taken, QueuedAt
  <1>9. PlacesOK'
    <2>1. \A a, b \in Machines : Distinct(conn'[a][b])
      BY <1>3 DEF Taken
    <2>2. \A n \in Nodes : Distinct(sq'[n])
      BY <1>7 DEF QueuedAt
    <2> QED  BY <1>1, <2>1, <2>2 DEF PlacesOK
  <1>10. Bounded'
    <2>1. ASSUME NEW a \in Machines, NEW b \in Machines PROVE Len(conn'[a][b]) <= Capacity
      <3>1. Len(conn[a][b]) <= Capacity /\ Len(conn'[a][b]) <= Len(conn[a][b])
        BY <1>1, <1>3 DEF Bounded, Taken
      <3>2. Len(conn[a][b]) \in Nat /\ Capacity \in Nat /\ Len(conn'[a][b]) \in Nat
        BY <1>1, <1>8, TypesAre, TypesAreNext, RemoteAssumption DEF TypeFacts
      <3> QED  BY <3>1, <3>2
    <2> QED  BY <1>1, <2>1, BoundedKept
  <1>11. HandlesOK'
    BY <1>1, HandlesUnchanged
  <1>12. Tokens' = (Tokens \ {u}) \cup {v}
    <2>1. ConnMove({u}, {v})
      <3>1. \A a, b \in Machines : \A z \in Messages :
              z \in Elems(conn'[a][b]) <=> z \in Elems(conn[a][b]) /\ ~(a = p /\ b = m /\ z = x)
        BY <1>3 DEF Taken
      <3> QED  BY <1>5, <3>1 DEF ConnMove
    <2>2. QueueMove({u}, {v})
      <3>1. \A n \in Nodes : \A z \in Messages :
              z \in Elems(sq'[n]) <=> z \in Elems(sq[n]) \/ (n = d /\ z = y)
        BY <1>7 DEF QueuedAt
      <3> QED  BY <1>5, <3>1 DEF QueueMove
    <2>3. MovinMove({u}, {v}) /\ NodeMove({u}, {v})
      BY <1>5 DEF MovinMove, NodeMove
    <2>4. Put({v})
      <3>1. <<"sq", d, d>> \in Places
        BY <1>3 DEF Places
      <3>2. v[1][1] = "sq" /\ v[1][2] = d /\ v[1][3] = d
        BY SMTT(30), <1>6
      <3>3. v \in Places \X Messages
        <4>1. y \in Messages
          BY <1>4
        <4> QED  BY <1>5, <3>1, <4>1
      <3>4. d \in Nodes
        BY <1>3
      <3> QED  BY <3>2, <3>3, <3>4 DEF Put
    <2> QED  BY <2>1, <2>2, <2>3, <2>4, TokensMove
  <1>13. Right(v[1], v[2])'
    <2>1. s.stat \in Early
      BY <1>2, <1>3 DEF Right
    <2> QED  BY <1>2, <1>4, <1>6, <2>1 DEF Right, Starting
  <1>14. NamesRecv(v[2])' /\ Payload(v[2])' /\ Started(v[2])'
    BY <1>2, <1>3, <1>4, <1>6 DEF NamesRecv, Payload, Started, Starting
  <1>15. Moves({u}, {v})
    <2>1. v[2].sh = u[2].sh /\ v[2].rh = u[2].rh
      BY <1>2, <1>4, <1>6
    <2>2. \A r \in RH : rh'[r].stat \in Data => r = v[2].rh \/ (rh[r].stat \in Data /\ r # u[2].rh)
      BY <2>1
    <2> QED  BY <1>1, <1>6, <1>12, <1>13, <1>14, <2>1, <2>2, OneMove
  <1>16. SendsKept
    BY DEF SendsKept
  <1>17. Ordered'
    <2>1. Ordered /\ y.sh = x.sh
      BY <1>1, <1>2, <1>4 DEF OrderOK
    <2> QED  BY <1>1, <1>3, <1>4, <1>7, <2>1, QueueRises
  <1>18. ReceivedOK'
    BY <1>1 DEF ReceivedOK
  <1>19. NoMissedMatch'
    <2> SUFFICES ASSUME NEW n \in Nodes PROVE sq'[n] = <<>> \/ rq[n] = <<>>
      BY DEF NoMissedMatch
    <2>1. n = d \/ sq'[n] = sq[n]
      BY <1>7 DEF QueuedAt
    <2> QED  BY <1>1, <2>1 DEF RecvQueues, NoMissedMatch
  <1>20. \A w \in {u} : w[2].type \in Starting =>
           sh[w[2].sh].mode = "READY" \/ \E z \in {v} : z[2].type \in Starting /\ z[2].sh = w[2].sh
    BY <1>2, <1>4, <1>6
  <1>21. \A w \in {v} : w[2].type \in Starting => w[2].sh \in Announced
    BY <1>2, <1>4, <1>6 DEF Announced
  <1>22. \A r \in RH : rh'[r].msg = rh[r].msg /\ (rh'[r].stat \in Queue <=> rh[r].stat \in Queue)
    OBVIOUS
  <1> QED  BY SMTT(30), <1>8, <1>9, <1>10, <1>11, <1>15, <1>16, <1>17, <1>18, <1>19, <1>20, <1>21, <1>22, QuietMove

----------------------------------------------------------------------------
(* Steps on the receive handle that a message is for. *)

LEMMA WakesReceiver ==
  ASSUME Typed, HandlesOK, NEW r \in RH, pc' = pc \/ pc' = WakeReceiver(r)
  PROVE  /\ pc' \in [Nodes -> SendLocs \cup RecvLocs \cup {"idle"}] /\ AnswersKept
         /\ \A n \in Nodes :
              /\ n # r[1] \/ cur[n] # r => pc'[n] = pc[n]
              /\ pc'[n] # pc[n] => pc[n] = "sleep_rh" /\ pc'[n] = "wake_rh"
              /\ pc' = WakeReceiver(r) /\ cur[n] = r => pc'[n] # "sleep_rh"
  <1>1. pc \in [Nodes -> SendLocs \cup RecvLocs \cup {"idle"}]
    BY DEF Typed
  <1>2. ASSUME NEW n \in Nodes
        PROVE  /\ n # r[1] \/ cur[n] # r => pc'[n] = pc[n]
               /\ pc'[n] # pc[n] => pc[n] = "sleep_rh" /\ pc'[n] = "wake_rh"
               /\ pc' = WakeReceiver(r) /\ cur[n] = r => pc'[n] # "sleep_rh"
               /\ pc'[n] = "answer" <=> pc[n] = "answer"
               /\ pc'[n] \in SendLocs \cup RecvLocs \cup {"idle"}
    <2>1. ReceiverOK(n)
      BY DEF HandlesOK
    <2>2. pc[n] = "sleep_rh" => cur[n][1] = n
      BY <2>1 DEF ReceiverOK, RecvLocs
    <2>3. CASE pc' = pc /\ pc' # WakeReceiver(r)
      BY <1>1, <2>3
    <2>4. CASE pc' = WakeReceiver(r)
      <3>1. pc'[n] = IF pc[n] = "sleep_rh" /\ cur[n] = r THEN "wake_rh" ELSE pc[n]
        BY <2>4 DEF WakeReceiver
      <3>2. pc[n] \in SendLocs \cup RecvLocs \cup {"idle"}
        BY <1>1
      <3> QED  BY <2>2, <3>1, <3>2 DEF RecvLocs
    <2> QED  BY <2>3, <2>4
  <1>3. pc' \in [Nodes -> SendLocs \cup RecvLocs \cup {"idle"}]
    <2>1. DOMAIN pc' = Nodes /\ pc' = [n \in Nodes |-> pc'[n]]
      BY <1>1 DEF WakeReceiver
    <2> QED  BY <1>2, <2>1
  <1> QED  BY <1>2, <1>3 DEF AnswersKept

\* The receive r is matched, or its data asked for.
RecvGoesOn(r, o) ==
  /\ o \in RecvHandle /\ rh' = [rh EXCEPT ![r] = o]
  /\ o.type = rh[r].type /\ o.msg = rh[r].msg /\ o.live = rh[r].live /\ o.held = rh[r].held
  /\ \/ /\ o.stat = "MATCH" /\ rh[r].stat \in Queue \cup Data
        /\ pc' = WakeReceiver(r) \/ (pc' = pc /\ rh[r].stat \notin {"PEND_WAIT", "PEND_DWAT"})
     \/ rh[r].stat = "PEND_STRT" /\ o.stat = "PEND_DATA" /\ pc' = pc
     \/ rh[r].stat = "PEND_WAIT" /\ o.stat = "PEND_DWAT" /\ pc' = pc

LEMMA ReceiverStep ==
  ASSUME Typed, Typed', HandlesOK, NEW r \in RH, NEW o, RecvGoesOn(r, o),
         UNCHANGED <<sh, nsh, nrh, posted, cur>>
  PROVE  HandlesOK'
  <1>0. PICK t, s : t = r[1] /\ s = rh[r]
    OBVIOUS
  <1>1. /\ t \in Nodes /\ s \in RecvHandle /\ RecvOK(r) /\ ReceiverOK(t) /\ r[2] \in Nat /\ nrh[t] \in Nat
    BY <1>0, TypesAre DEF TypeFacts, HandlesOK
  <1>2. pc' = pc \/ pc' = WakeReceiver(r)
    BY DEF RecvGoesOn
  <1>3. \A n \in Nodes :
          /\ n # r[1] \/ cur[n] # r => pc'[n] = pc[n]
          /\ pc'[n] # pc[n] => pc[n] = "sleep_rh" /\ pc'[n] = "wake_rh"
          /\ pc' = WakeReceiver(r) /\ cur[n] = r => pc'[n] # "sleep_rh"
    BY <1>2, WakesReceiver
  <1>4. rh'[r] = o /\ \A g \in RH : g # r => rh'[g] = rh[g]
    BY DEF RecvGoesOn, Typed
  <1>5. /\ o.type = s.type /\ o.msg = s.msg /\ o.live = s.live /\ o.held = s.held
        /\ s.stat \in {"PEND_STRT", "PEND_WAIT", "PEND_DATA", "PEND_DWAT"}
        /\ o.stat \in {"MATCH", "PEND_DATA", "PEND_DWAT"}
        /\ o.stat = "PEND_DATA" => s.stat = "PEND_STRT" /\ pc' = pc
        /\ o.stat = "PEND_DWAT" => s.stat = "PEND_WAIT" /\ pc' = pc
        /\ o.stat = "MATCH" =>
             pc' = WakeReceiver(r) \/ (pc' = pc /\ s.stat \notin {"PEND_WAIT", "PEND_DWAT"})
    BY <1>0 DEF RecvGoesOn, Queue, Data
  <1>6. /\ r[2] <= nrh[t] /\ ~(r[2] > nrh[t]) /\ s.live /\ (s.held <=> s.type # "RECV")
        /\ s.type = "RECV" => UsesRecv(t, r)
        /\ s.stat \in {"PEND_WAIT", "PEND_DWAT"} => UsesRecv(t, r) /\ pc[t] \in {"sleep_rh", "wake_rh"}
        /\ s.msg <= posted[t]
    <2>1. r[2] > nrh[t] => s.stat = "NONE"
      BY <1>0, <1>1 DEF RecvOK, NoRecv
    <2>2. ~(r[2] > nrh[t])
      BY <1>5, <2>1
    <2>3. r[2] <= nrh[t]
      BY <1>1, <2>2
    <2> QED  BY <1>0, <1>1, <1>5, <2>2, <2>3 DEF RecvOK
  <1>7. pc'[t] = pc[t] \/ (pc[t] = "sleep_rh" /\ pc'[t] = "wake_rh")
    BY <1>0, <1>1, <1>3
  <1>8. UsesRecv(t, r) => UsesRecv(t, r)'
    BY <1>7 DEF UsesRecv, RecvLocs
  <1>9. RecvOK(r)'
    <2>1. ~(r[2] > nrh'[r[1]]) /\ posted'[r[1]] = posted[t] /\ rh'[r] = o
      BY <1>0, <1>4, <1>6
    <2>2. s.type = "RECV" => UsesRecv(r[1], r)'
      BY <1>0, <1>6, <1>8
    <2>3. o.stat \in {"PEND_WAIT", "PEND_DWAT"} => UsesRecv(r[1], r)' /\ pc'[r[1]] \in {"sleep_rh", "wake_rh"}
      BY <1>0, <1>5, <1>6, <1>7, <1>8
    <2> QED  BY <1>5, <1>6, <2>1, <2>2, <2>3 DEF RecvOK
  <1>10. ASSUME cur'[t] = r PROVE ReceiverOK(t)'
    <2>1. CASE pc[t] \in RecvLocs
      <3>1. /\ pc[t] # "start_rh"
            /\ pc[t] \in {"answer", "enter_wait_rh", "wait_rh"} => s.stat \in {"PEND_STRT", "PEND_DATA"}
            /\ pc[t] \in {"sleep_rh", "wake_rh"} => s.stat \in {"PEND_WAIT", "PEND_DWAT"}
        <4>1. /\ pc[t] = "start_rh" => s.stat = "CREATE"
              /\ pc[t] \in {"answer", "enter_wait_rh", "wait_rh"} => s.stat \in {"PEND_STRT", "PEND_DATA", "MATCH"}
              /\ pc[t] \in {"sleep_rh", "wake_rh"} => s.stat \in {"PEND_WAIT", "PEND_DWAT", "MATCH"}
          BY <1>0, <1>1, <1>10, <2>1 DEF ReceiverOK
        <4> QED  BY <1>5, <4>1
      <3>2. cur'[t] = r /\ rh'[r] = o /\ r[1] = t /\ r[2] <= nrh'[t] /\ o.live
        BY <1>0, <1>4, <1>5, <1>6, <1>10
      <3>3. /\ pc'[t] # "start_rh"
            /\ pc'[t] \in {"answer", "enter_wait_rh", "wait_rh"} => o.stat \in {"PEND_DATA", "MATCH"}
            /\ pc'[t] = "sleep_rh" => o.stat = "PEND_DWAT"
            /\ pc'[t] = "wake_rh" => o.stat \in {"PEND_DWAT", "MATCH"}
        <4>1. pc'[t] = "sleep_rh" => o.stat = "PEND_DWAT"
          <5> SUFFICES ASSUME pc'[t] = "sleep_rh" PROVE o.stat = "PEND_DWAT"
            OBVIOUS
          <5>1. pc[t] = "sleep_rh" /\ s.stat \in {"PEND_WAIT", "PEND_DWAT"}
            BY <1>7, <3>1
          <5>2. pc' # WakeReceiver(r)
            BY <1>1, <1>3, <1>10
          <5> QED  BY <1>5, <5>1, <5>2
        <4> QED  BY <1>5, <1>7, <3>1, <4>1
      <3> QED  BY <3>2, <3>3 DEF ReceiverOK
    <2>2. CASE pc[t] \notin RecvLocs
      <3>1. pc'[t] \notin RecvLocs
        BY <1>7, <2>2 DEF RecvLocs
      <3> QED  BY <3>1 DEF ReceiverOK
    <2> QED  BY <2>1, <2>2
  <1>11. (\A g \in SH : SendOK(g)') /\ (\A n \in Nodes : SenderOK(n)')
    <2>1. \A n \in Nodes : \/ pc'[n] = pc[n] /\ cur'[n] = cur[n]
                           \/ pc[n] \notin SendLocs /\ pc'[n] \notin SendLocs
      BY <1>3 DEF SendLocs
    <2> QED  BY <2>1, SendQuiet
  <1>12. (\A g \in RH : RecvOK(g)') /\ (\A n \in Nodes : ReceiverOK(n)')
    <2>1. \/ pc'[t] = pc[t] /\ cur'[t] = cur[t] /\ nrh'[t] = nrh[t]
          \/ (pc[t] \in RecvLocs => cur[t] = r) /\ (pc'[t] \in RecvLocs => cur'[t] = r)
      BY <1>0, <1>1, <1>3
    <2>2. \A n \in Nodes : n # t => pc'[n] = pc[n] /\ cur'[n] = cur[n] /\ nrh'[n] = nrh[n]
      BY <1>0, <1>3
    <2>3. \A n \in Nodes : posted[n] <= posted'[n]
      BY TypesAre DEF TypeFacts
    <2>4. \A g \in RH : g # r /\ g[1] = t => (g[2] <= nrh'[t] <=> g[2] <= nrh[t])
      OBVIOUS
    <2> QED  BY <1>0, <1>1, <1>4, <1>9, <1>10, <2>1, <2>2, <2>3, <2>4, RecvSide
  <1> QED  BY <1>11, <1>12 DEF HandlesOK

LEMMA StepHandleRDS ==
  ASSUME Inv, NEW m \in Machines, NEW p \in Machines, HandleRDS(m, p)
  PROVE  Inv'
  <1>0. PICK x, h, r : x = Head(conn[p][m]) /\ h = x.sh /\ r = x.rh
    OBVIOUS
  <1>1. PICK y, got : y = MSG("DAT_RECV", h, Nobody, "none") /\ got = Got(h, r, x.payload)
    OBVIOUS
  <1>2. /\ movin[m].at = "recv" /\ conn[p][m] # <<>> /\ x.type = "DAT_SEND" /\ Consume(m, p)
        /\ rh' = [rh EXCEPT ![r].stat = IF @ \in {"PEND_DATA", "PEND_DWAT"} THEN "MATCH" ELSE @]
        /\ pc' = IF rh[r].stat = "PEND_DWAT" THEN WakeReceiver(r) ELSE pc
        /\ received' = received \cup {got} /\ Answer(m, "reply", y)
        /\ UNCHANGED <<sh, sq, rq, chlock, shlock, cur, out, nsh, nrh, starts, recvs, spurious,
                       sent, posted, matched>>
    BY <1>0, <1>1 DEF HandleRDS, Incoming, queues, locks, counts
  <1>3. Typed /\ Bounded /\ HandlesOK /\ TokensOK /\ PlacesOK /\ OrderOK /\ ReceivedOK /\ RecvQueues
    BY DEF Inv
  <1>4. /\ x \in Messages /\ h \in SH /\ h[1] \in Nodes /\ Right(<<"conn", p, m>>, x) /\ NamesRecv(x)
        /\ Payload(x) /\ Started(x) /\ <<<<"conn", p, m>>, x>> \in Tokens
    BY <1>0, <1>2, IncomingFacts
  <1>5. r \in RH /\ rh[r].stat \in Data /\ Pair(h, r) \in matched
    BY <1>0, <1>2, <1>4 DEF NamesRecv, Data
  <1>6. m = Mac[sh[h].dest] /\ sh[h].stat \in Late
    BY <1>0, <1>2, <1>4 DEF Right
  <1>7. PICK o : o = [rh[r] EXCEPT !.stat = "MATCH"]
    OBVIOUS
  <1>8. rh' = [rh EXCEPT ![r] = o]
    BY <1>2, <1>3, <1>5, <1>7 DEF Typed, Data
  <1>9. /\ o \in RecvHandle /\ o.type = rh[r].type /\ o.msg = rh[r].msg /\ o.live = rh[r].live
        /\ o.held = rh[r].held /\ o.stat = "MATCH" /\ rh[r].msg \in Nat
    <2>1. rh[r] \in RecvHandle
      BY <1>3, <1>5 DEF Typed
    <2> QED  BY <1>7, <2>1 DEF RecvHandle, RecvStats
  <1>10. RecvGoesOn(r, o)
    <2>1. pc' = WakeReceiver(r) \/ (pc' = pc /\ rh[r].stat \notin {"PEND_WAIT", "PEND_DWAT"})
      BY <1>2, <1>5 DEF Data
    <2> QED  BY <1>5, <1>8, <1>9, <2>1 DEF RecvGoesOn
  <1>11. pc' = pc \/ pc' = WakeReceiver(r)
    BY <1>2
  <1>12. /\ AnswersKept /\ pc' \in [Nodes -> SendLocs \cup RecvLocs \cup {"idle"}]
         /\ \A n \in Nodes : pc'[n] \in {"start_rh", "start_sh"} => pc'[n] = pc[n]
    BY <1>3, <1>5, <1>11, WakesReceiver
  <1>13. /\ y.type = "DAT_RECV" /\ y.sh = h /\ y.rh = Nobody /\ y.payload = "none" /\ y \in Messages
    BY <1>1, <1>4 DEF MSG, Messages, Types
  <1>14. /\ PlacesTyped /\ PlacesOK' /\ Tails
         /\ Tokens' = (Tokens \ {<<<<"conn", p, m>>, x>>}) \cup {<<<<"movin", m, m>>, y>>}
    BY <1>0, <1>2, <1>12, <1>13, MovinTakes
  <1>15. PICK u, v : u = <<<<"conn", p, m>>, x>> /\ v = <<<<"movin", m, m>>, y>>
    OBVIOUS
  <1>16. /\ u \in Tokens /\ Tokens' = (Tokens \ {u}) \cup {v}
         /\ u[2] = x /\ v[1] = <<"movin", m, m>> /\ v[2] = y
    BY <1>4, <1>14, <1>15
  <1>17. rh'[r] = o /\ rh' \in [RH -> RecvHandle] /\ \A g \in RH : g # r => rh'[g] = rh[g]
    BY <1>3, <1>5, <1>8, <1>9 DEF Typed
  <1>18. /\ got.msg = <<h[1], sh[h].msg>> /\ got.recv = <<r[1], rh[r].msg>> /\ got.data = x.payload
         /\ got.cancelled = (sh[h].stat = "CANCEL")
         /\ got \in [msg : Numbers, recv : Numbers, data : {"none", "intact", "overwritten", "garbage"},
                                  cancelled : BOOLEAN]
    <2>1. h[1] \in Nodes /\ sh[h].msg \in Nat /\ r[1] \in Nodes /\ rh[r].msg \in Nat
          /\ x.payload \in {"none", "intact", "overwritten", "garbage"}
      BY <1>3, <1>4, <1>5, TypesAre DEF TypeFacts
    <2>2. got = [msg |-> <<h[1], sh[h].msg>>, recv |-> <<r[1], rh[r].msg>>, data |-> x.payload,
                 cancelled |-> sh[h].stat = "CANCEL"]
      BY <1>1 DEF Got
    <2> QED  BY <2>1, <2>2 DEF Numbers
  <1>19. Typed'
    <2>1. received' \subseteq [msg : Numbers, recv : Numbers, data : {"none", "intact", "overwritten", "garbage"},
                                  cancelled : BOOLEAN]
      BY <1>2, <1>3, <1>18 DEF Typed
    <2> QED  BY <1>2, <1>3, <1>12, <1>14, <1>17, <2>1 DEF Typed, PlacesTyped
  <1>20. ReceivedOK'
    <2>1. [msg |-> got.msg, recv |-> got.recv] \in matched
      BY <1>5, <1>18 DEF Pair
    <2>2. got.data # "overwritten" /\ (got.data = "garbage" => got.cancelled)
      BY <1>0, <1>2, <1>4, <1>18 DEF Payload
    <2> QED  BY <1>2, <1>3, <2>1, <2>2 DEF ReceivedOK
  <1>21. Right(v[1], v[2])'
    BY <1>2, <1>6, <1>13, <1>16 DEF Right, Starting
  <1>22. NamesRecv(v[2])' /\ Payload(v[2])' /\ Started(v[2])'
    BY <1>0, <1>2, <1>4, <1>13, <1>16 DEF NamesRecv, Payload, Started
  <1>23. Moves({u}, {v})
    <2>1. v[2].sh = u[2].sh /\ u[2].rh = r /\ v[2].rh = Nobody
      BY <1>0, <1>13, <1>16
    <2>2. \A g \in RH : rh'[g].stat \in Data => g = v[2].rh \/ (rh[g].stat \in Data /\ g # u[2].rh)
      BY <1>9, <1>17, <2>1 DEF Data
    <2>3. \A g \in RH : g # u[2].rh /\ rh[g].stat \in Data => rh'[g] = rh[g]
      BY <1>17, <2>1
    <2> QED  BY <1>2, <1>3, <1>16, <1>21, <1>22, <2>1, <2>2, <2>3, OneMove
  <1>24. Bounded'
    BY <1>2, <1>3, <1>12, <1>14, BoundedKept DEF PlacesTyped
  <1>25. HandlesOK'
    BY <1>2, <1>3, <1>5, <1>10, <1>19, ReceiverStep
  <1>26. SendsKept
    BY <1>2 DEF SendsKept
  <1>27. Ordered'
    BY <1>2, <1>3, <1>14, <1>19, <1>26, QueuesRise DEF Tails
  <1>28. NoMissedMatch'
    BY <1>2, <1>3 DEF RecvQueues, NoMissedMatch
  <1>29. \A g \in RH : rh'[g].msg = rh[g].msg /\ (rh'[g].stat \in Queue <=> rh[g].stat \in Queue)
    BY <1>5, <1>9, <1>17 DEF Queue, Data
  <1>30. \A w \in {u} : w[2].type \in Starting =>
           sh[w[2].sh].mode = "READY" \/ \E z \in {v} : z[2].type \in Starting /\ z[2].sh = w[2].sh
    BY <1>2, <1>16 DEF Starting
  <1>31. \A w \in {v} : w[2].type \in Starting => w[2].sh \in Announced
    BY <1>13, <1>16 DEF Starting
  <1> QED  BY <1>2, <1>14, <1>19, <1>20, <1>23, <1>24, <1>25, <1>26, <1>27, <1>28, <1>29, <1>30, <1>31, QuietMove

----------------------------------------------------------------------------
(* Messages that are matched. *)

\* A step that makes the message u, which announces a send, the answer v.
LEMMA MatchingMove ==
  ASSUME Inv, Typed', Bounded', HandlesOK', PlacesOK', ReceivedOK', RecvQueues', Ordered', SendsKept,
         NEW u \in Tokens, NEW v, Moves({u}, {v}),
         u[2].type \in Starting, v[2].type \notin Starting, NEW h, h = u[2].sh,
         UNCHANGED <<nsh, sent>>, NEW k \in Nat,
         matched' = matched \cup {[msg |-> <<h[1], sh[h].msg>>, recv |-> <<sh[h].dest, k>>]},
         \A g \in Announced : g # h /\ Alike(sh, h, g) => sh[h].msg < sh[g].msg,
         \A y \in matched : y.recv[1] = sh[h].dest => y.recv[2] < k,
         \A n \in Nodes : posted'[n] \in Nat /\ posted[n] <= posted'[n],
         k <= posted'[sh[h].dest]
  PROVE  Inv'
  <1>1. /\ Typed /\ HandlesOK /\ TokensOK /\ OrderOK /\ MatchedOK
    BY DEF Inv
  <1>2. HistoryGrows
    <2>1. \A n \in Nodes : nsh[n] \in Nat /\ Len(sent[n]) \in Nat
      BY <1>1, TypesAre DEF TypeFacts
    <2>2. matched \subseteq matched'
      OBVIOUS
    <2> QED  BY <2>1, <2>2 DEF HistoryGrows
  <1>3. TokensOK'
    BY <1>1, <1>2, TokensStep
  <1>4. Tokens' = (Tokens \ {u}) \cup {v}
    BY DEF Moves
  <1>5. h \in Announced
    BY DEF Announced
  <1>6. Announced' = Announced \ {h}
    <2>1. \A w \in Tokens \ {u} : w[2].sh # h
      BY <1>1 DEF TokensOK
    <2>2. Announced' = {w[2].sh : w \in {z \in Tokens' : z[2].type \in Starting}}
      BY DEF Announced, Starting
    <2>3. ASSUME NEW g \in Announced' PROVE g \in Announced /\ g # h
      <3>1. PICK w \in Tokens' : w[2].type \in Starting /\ w[2].sh = g
        BY <2>2
      <3>2. w \in Tokens \ {u}
        BY <1>4, <3>1
      <3> QED  BY <2>1, <3>1, <3>2 DEF Announced
    <2>4. ASSUME NEW g \in Announced, g # h PROVE g \in Announced'
      <3>1. PICK w \in Tokens : w[2].type \in Starting /\ w[2].sh = g
        BY DEF Announced
      <3>2. w \in Tokens'
        BY <1>4, <2>4, <3>1
      <3> QED  BY <2>2, <3>1, <3>2
    <2> QED  BY <2>3, <2>4
  <1>7. OrderOK' /\ MatchedOK'
    BY <1>1, <1>5, <1>6, MatchStep
  <1> QED  BY <1>3, <1>7 DEF Inv

\* The first of the receives that wait to be matched is taken from its queue.
FirstTaken(d, r) ==
  /\ rq[d] # <<>> /\ r = Head(rq[d]) /\ rq' = [rq EXCEPT ![d] = Tail(@)]
FirstFacts(d, r) ==
  /\ r \in RH /\ r[1] = d /\ rh[r].stat \in Queue /\ sq[d] = <<>> /\ rq' \in [Nodes -> Seq(RH)]
  /\ \A y \in matched : y.recv[1] = d => y.recv[2] < rh[r].msg

LEMMA FirstOfQueue ==
  ASSUME Typed, RecvQueues, NEW d \in Nodes, NEW r, FirstTaken(d, r)
  PROVE  FirstFacts(d, r)
  <1>1. rq[d] \in Seq(RH) /\ rq[d] # <<>>
    BY TypesAre DEF TypeFacts, FirstTaken
  <1>2. r \in RH /\ r \in Elems(rq[d]) /\ Tail(rq[d]) \in Seq(RH)
    BY <1>1, TailOf DEF FirstTaken
  <1>3. r[1] = d /\ rh[r].stat \in Queue /\ sq[d] = <<>>
    BY <1>1, <1>2 DEF RecvQueues, Queue, NoMissedMatch
  <1>4. rq' \in [Nodes -> Seq(RH)]
    BY <1>2 DEF FirstTaken, Typed
  <1>5. \A y \in matched : y.recv[1] = d => y.recv[2] < rh[r].msg
    BY <1>2 DEF RecvQueues
  <1> QED  BY <1>2, <1>3, <1>4, <1>5 DEF FirstFacts

LEMMA RecvQueuesTail ==
  ASSUME Typed, RecvQueues, NEW d \in Nodes, NEW r, FirstTaken(d, r), sq' = sq,
         \A g \in RH : g # r => rh'[g] = rh[g], rh'[r].stat \notin Queue,
         NEW new, matched' = matched \cup {new}, new.recv = <<d, rh[r].msg>>
  PROVE  RecvQueues'
  <1>1. FirstFacts(d, r)
    BY FirstOfQueue
  <1>2. PICK s : s = rq[d]
    OBVIOUS
  <1>3. /\ s \in Seq(RH) /\ s # <<>> /\ r = Head(s) /\ rq' = [rq EXCEPT ![d] = Tail(s)]
        /\ rq \in [Nodes -> Seq(RH)]
    BY <1>2 DEF FirstTaken, Typed
  <1>4. /\ Len(s) \in Nat /\ Len(s) >= 1 /\ r = s[1] /\ Tail(s) \in Seq(RH) /\ Len(Tail(s)) = Len(s) - 1
        /\ \A i \in 1..(Len(s) - 1) : Tail(s)[i] = s[i + 1]
        /\ \A x \in Elems(Tail(s)) : x \in Elems(s)
        /\ \A x \in Elems(s) : x = s[1] \/ x \in Elems(Tail(s))
    BY <1>3, TailOf
  <1>5. \A i, j \in 1..Len(s) : i < j => rh[s[i]].msg < rh[s[j]].msg
    BY <1>2 DEF RecvQueues
  <1>6. \A g \in RH : rh[g].msg \in Nat
    BY TypesAre DEF TypeFacts
  <1>7. ASSUME NEW g \in Elems(Tail(s)) PROVE g \in RH /\ g # r /\ rh[r].msg < rh[g].msg /\ g \in Elems(s)
    <2>1. PICK i \in 1..(Len(s) - 1) : g = s[i + 1]
      BY <1>4 DEF Elems
    <2>2. 1 \in 1..Len(s) /\ i + 1 \in 1..Len(s) /\ 1 < i + 1
      BY <1>4
    <2>3. rh[r].msg < rh[g].msg
      BY <1>4, <1>5, <2>1, <2>2
    <2>4. r \in RH /\ rh[r].msg \in Nat
      BY <1>1, <1>6 DEF FirstFacts
    <2>5. g # r
      BY <2>3, <2>4
    <2>6. g \in RH
      BY <1>4, ElemsIn
    <2> QED  BY <1>4, <2>3, <2>5, <2>6
  <1>8. rq'[d] = Tail(s) /\ \A n \in Nodes : n # d => rq'[n] = rq[n]
    BY <1>3
  <1>9. \A n \in Nodes : \A g \in Elems(rq'[n]) : g \in Elems(rq[n]) /\ g \in RH /\ g # r
    <2> TAKE n \in Nodes
    <2> TAKE g \in Elems(rq'[n])
    <2>1. CASE n = d
      BY <1>2, <1>7, <1>8, <2>1
    <2>2. CASE n # d
      <3>1. g \in Elems(rq[n]) /\ rq[n] \in Seq(RH)
        BY <1>8, <2>2, TypesAre DEF TypeFacts
      <3>2. g \in RH
        BY <3>1, ElemsIn
      <3>3. g[1] = n
        BY <3>1 DEF RecvQueues
      <3> QED  BY <1>1, <2>2, <3>1, <3>2, <3>3 DEF FirstFacts
    <2> QED  BY <2>1, <2>2
  <1>10. ASSUME NEW n \in Nodes, NEW i \in 1..Len(rq'[n]), NEW j \in 1..Len(rq'[n]), i < j
         PROVE  rh'[rq'[n][i]].msg < rh'[rq'[n][j]].msg
    <2>1. rq'[n][i] \in Elems(rq'[n]) /\ rq'[n][j] \in Elems(rq'[n])
      BY DEF Elems
    <2>2. rh'[rq'[n][i]] = rh[rq'[n][i]] /\ rh'[rq'[n][j]] = rh[rq'[n][j]]
      BY <1>9, <2>1
    <2>3. CASE n = d
      <3>1. i \in 1..(Len(s) - 1) /\ j \in 1..(Len(s) - 1)
        BY <1>4, <1>8, <2>3
      <3>2. i + 1 \in 1..Len(s) /\ j + 1 \in 1..Len(s) /\ i + 1 < j + 1
        BY <1>4, <1>10, <3>1
      <3>3. rq'[n][i] = s[i + 1] /\ rq'[n][j] = s[j + 1]
        BY <1>4, <1>8, <2>3, <3>1
      <3> QED  BY <1>5, <2>2, <3>2, <3>3
    <2>4. CASE n # d
      <3>1. rq'[n] = rq[n]
        BY <1>8, <2>4
      <3> QED  BY <1>10, <2>2, <3>1 DEF RecvQueues
    <2> QED  BY <2>3, <2>4
  <1>11. ASSUME NEW n \in Nodes, NEW g \in Elems(rq'[n])
         PROVE  g[1] = n /\ rh'[g].stat \in {"PEND_STRT", "PEND_WAIT"}
    <2>1. g \in Elems(rq[n]) /\ rh'[g] = rh[g]
      BY <1>9
    <2> QED  BY <2>1 DEF RecvQueues
  <1>12. ASSUME NEW g \in RH, rh'[g].stat \in {"PEND_STRT", "PEND_WAIT"} PROVE g \in Elems(rq'[g[1]])
    <2>1. g # r
      BY <1>12 DEF Queue
    <2>2. g \in Elems(rq[g[1]]) /\ g[1] \in Nodes
      BY <1>12, <2>1, TypesAre DEF RecvQueues, TypeFacts
    <2>3. CASE g[1] = d
      BY <1>2, <1>4, <1>8, <2>1, <2>2, <2>3
    <2>4. CASE g[1] # d
      BY <1>8, <2>2, <2>4
    <2> QED  BY <2>3, <2>4
  <1>13. ASSUME NEW y \in matched', NEW g \in Elems(rq'[y.recv[1]]) PROVE y.recv[2] < rh'[g].msg
    <2>1. CASE y \in matched
      <3>1. y.recv[1] \in Nodes
        BY <2>1, TypesAre DEF TypeFacts
      <3>2. g \in Elems(rq[y.recv[1]]) /\ rh'[g] = rh[g]
        BY <1>9, <3>1
      <3> QED  BY <2>1, <3>2 DEF RecvQueues
    <2>2. CASE y = new
      <3>1. y.recv[1] = d /\ y.recv[2] = rh[r].msg
        BY <2>2
      <3>2. g \in Elems(Tail(s)) /\ g \in Elems(rq'[d])
        BY <1>8, <3>1
      <3>3. rh'[g] = rh[g] /\ rh[r].msg < rh[g].msg
        BY <1>7, <1>9, <3>2
      <3> QED  BY <3>1, <3>3
    <2> QED  BY <2>1, <2>2
  <1>14. NoMissedMatch'
    <2> SUFFICES ASSUME NEW n \in Nodes PROVE sq[n] = <<>> \/ rq'[n] = <<>>
      BY DEF NoMissedMatch
    <2>1. CASE n = d
      BY <1>1, <2>1 DEF FirstFacts
    <2>2. CASE n # d
      BY <1>8, <2>2 DEF RecvQueues, NoMissedMatch
    <2> QED  BY <2>1, <2>2
  <1> QED  BY <1>10, <1>11, <1>12, <1>13, <1>14 DEF RecvQueues

\* The first message on a connection, when none is queued, is the next of its kind.
LEMMA FirstOnConn ==
  ASSUME Typed, HandlesOK, TokensOK, OrderOK, NEW m \in Machines, NEW p \in Machines, NEW x,
         Taken(p, m, x), x.type \in Starting, sq[sh[x.sh].dest] = <<>>
  PROVE  \A g \in Announced : g # x.sh /\ Alike(sh, x.sh, g) => sh[x.sh].msg < sh[g].msg
  <1>0. PICK h, d, s : h = x.sh /\ d = sh[h].dest /\ s = conn[p][m]
    OBVIOUS
  <1>1. /\ x \in Messages /\ x \in Elems(s) /\ <<<<"conn", p, m>>, x>> \in Tokens /\ x = s[1]
        /\ s \in Seq(Messages) /\ s # <<>> /\ Rising(sh, s)
    <2>1. /\ x \in Messages /\ x \in Elems(s) /\ <<<<"conn", p, m>>, x>> \in Tokens /\ x = s[1] /\ s # <<>>
      BY <1>0 DEF Taken
    <2>2. s \in Seq(Messages) /\ Rising(sh, s)
      BY <1>0, TypesAre DEF TypeFacts, OrderOK, Ordered
    <2> QED  BY <2>1, <2>2
  <1>2. p = Mac[h[1]] /\ m = Mac[d] /\ d \in Nodes
    <2>1. PICK u : u = <<<<"conn", p, m>>, x>>
      OBVIOUS
    <2>2. u \in Tokens /\ u[1] = <<"conn", p, m>> /\ u[2] = x
      BY <1>1, <2>1
    <2>3. Right(u[1], x) /\ sh[x.sh].dest \in Nodes
      BY <2>2, TokenFacts
    <2> QED  BY <1>0, <2>2, <2>3 DEF Right
  <1>3. \A z \in Elems(Tail(s)) :
          z.type \in Starting /\ Alike(sh, h, z.sh) => sh[h].msg < sh[z.sh].msg
    <2>1. \A z \in Elems(Tail(s)) :
            s[1].type \in Starting /\ z.type \in Starting /\ Alike(sh, s[1].sh, z.sh) =>
              sh[s[1].sh].msg < sh[z.sh].msg
      BY <1>1, RisingTail
    <2> QED  BY <1>0, <1>1, <2>1
  <1>4. \A z \in Elems(s) : z = x \/ z \in Elems(Tail(s))
    BY <1>1, TailOf
  <1>5. ASSUME NEW g \in Announced, g # h, Alike(sh, h, g) PROVE sh[h].msg < sh[g].msg
    <2>1. g[1] = h[1] /\ sh[g].dest = d
      BY <1>0, <1>5 DEF Alike
    <2>2. PICK u \in Tokens :
            /\ u[2].sh = g /\ u[2].type \in Starting
            /\ \/ u[2] \in Elems(conn[Mac[g[1]]][Mac[sh[g].dest]])
               \/ u[2] \in Elems(sq[sh[g].dest]) /\ sh[g].mode # "READY"
      BY AnnouncedWhere
    <2>3. sq[sh[g].dest] = <<>>
      BY <1>0, <2>1
    <2>4. Elems(<<>>) = {}
      BY DEF Elems
    <2>5. u[2] \in Elems(s)
      BY <1>0, <1>2, <2>1, <2>2, <2>3, <2>4
    <2>6. u[2] \in Elems(Tail(s))
      BY <1>0, <1>4, <1>5, <2>2, <2>5
    <2> QED  BY <1>3, <1>5, <2>2, <2>6
  <1> QED  BY <1>0, <1>5

\* What a handler does for a message and the receive that waits for it: ask for the data, or
\* take it and say so.
Matches(x, r, o, y) ==
  \/ /\ x.type = "MSG_SEND" /\ o.stat \in Data /\ received' = received
     /\ y = MSG("MSG_RECV", x.sh, r, "none")
  \/ /\ x.type = "MSGDAT_SEND" /\ o.stat = "MATCH" /\ received' = received \cup {Got(x.sh, r, x.payload)}
     /\ y = MSG("MSGDAT_RECV", x.sh, Nobody, "none")

MatchAnswer(x, r, o, y) ==
  /\ x.type \in Starting /\ y \in Messages /\ y.sh = x.sh /\ Payload(y)
  /\ y.type \in {"MSG_RECV", "MSGDAT_RECV"}
  /\ y.type = "MSG_RECV" => y.rh = r /\ o.stat \in Data
  /\ y.type = "MSGDAT_RECV" => y.rh = Nobody /\ o.stat = "MATCH"
  /\ \A g \in received' : g \in received \/ (g = Got(x.sh, r, x.payload) /\ x.payload = "intact")

LEMMA MatchesFacts ==
  ASSUME NEW x \in Messages, NEW r \in RH, NEW o, NEW y, Matches(x, r, o, y), Payload(x), x.sh \in SH
  PROVE  MatchAnswer(x, r, o, y)
  <1> USE DEF MatchAnswer
  <1>1. CASE /\ x.type = "MSG_SEND" /\ o.stat \in Data /\ received' = received
             /\ y = MSG("MSG_RECV", x.sh, r, "none")
    <2>1. y = [type |-> "MSG_RECV", sh |-> x.sh, rh |-> r, payload |-> "none"]
      BY <1>1 DEF MSG
    <2> QED  BY <1>1, <2>1 DEF Messages, Types, Starting, Payload
  <1>2. CASE /\ x.type = "MSGDAT_SEND" /\ o.stat = "MATCH"
             /\ received' = received \cup {Got(x.sh, r, x.payload)}
             /\ y = MSG("MSGDAT_RECV", x.sh, Nobody, "none")
    <2>1. y = [type |-> "MSGDAT_RECV", sh |-> x.sh, rh |-> Nobody, payload |-> "none"]
      BY <1>2 DEF MSG
    <2> QED  BY <1>2, <2>1 DEF Messages, Types, Starting, Payload
  <1> QED  BY <1>1, <1>2 DEF Matches

LEMMA MatchedOnArrival ==
  ASSUME Inv, NEW m \in Machines, NEW p \in Machines, movin[m].at = "recv",
         conn[p][m] # <<>>, Consume(m, p), NEW x, x = Head(conn[p][m]),
         NEW d, d = sh[x.sh].dest, NEW r, FirstTaken(d, r), NEW o, RecvGoesOn(r, o),
         NEW y, Answer(m, "reply", y), Matches(x, r, o, y), matched' = matched \cup {Pair(x.sh, r)},
         UNCHANGED <<sh, sq, chlock, shlock, cur, out, nsh, nrh, starts, recvs, spurious, sent, posted>>
  PROVE  Inv'
  <1>1. Typed /\ Bounded /\ HandlesOK /\ TokensOK /\ PlacesOK /\ OrderOK /\ ReceivedOK /\ RecvQueues /\ MatchedOK
    BY DEF Inv
  <1>2. PICK h : h = x.sh
    OBVIOUS
  <1>3. /\ x \in Messages /\ h \in SH /\ h[1] \in Nodes /\ Right(<<"conn", p, m>>, x) /\ NamesRecv(x)
        /\ Payload(x) /\ Started(x) /\ d \in Nodes /\ Taken(p, m, x) /\ <<<<"conn", p, m>>, x>> \in Tokens
    BY <1>2, IncomingFacts
  <1>4. FirstFacts(d, r)
    BY <1>1, <1>3, FirstOfQueue
  <1>5. /\ r \in RH /\ r[1] = d /\ rh[r].stat \in Queue /\ sq[d] = <<>> /\ rq' \in [Nodes -> Seq(RH)]
        /\ \A z \in matched : z.recv[1] = d => z.recv[2] < rh[r].msg
    BY <1>4 DEF FirstFacts
  <1>6. /\ x.type \in Starting /\ y \in Messages /\ y.sh = h /\ Payload(y)
        /\ y.type \in {"MSG_RECV", "MSGDAT_RECV"}
        /\ y.type = "MSG_RECV" => y.rh = r /\ o.stat \in Data
        /\ y.type = "MSGDAT_RECV" => y.rh = Nobody /\ o.stat = "MATCH"
        /\ \A g \in received' : g \in received \/ (g = Got(h, r, x.payload) /\ x.payload = "intact")
    <2>1. MatchAnswer(x, r, o, y)
      BY <1>2, <1>3, <1>5, MatchesFacts
    <2> QED  BY <1>2, <2>1 DEF MatchAnswer
  <1>7. /\ o \in RecvHandle /\ o.msg = rh[r].msg /\ rh'[r] = o /\ rh' \in [RH -> RecvHandle]
        /\ \A g \in RH : g # r => rh'[g] = rh[g]
    BY <1>1, <1>5 DEF RecvGoesOn, Typed
  <1>8. /\ AnswersKept /\ pc' \in [Nodes -> SendLocs \cup RecvLocs \cup {"idle"}]
        /\ \A n \in Nodes : pc'[n] \in {"start_rh", "start_sh"} => pc'[n] = pc[n]
    <2>1. pc' = pc \/ pc' = WakeReceiver(r)
      BY DEF RecvGoesOn
    <2> QED  BY <1>1, <1>5, <2>1, WakesReceiver
  <1>9. y.type # "DAT_SEND" /\ y.type \notin Starting /\ x.rh = Nobody /\ m = Mac[d] /\ sh[h].stat \in Early
    BY <1>2, <1>3, <1>6 DEF Starting, NamesRecv, Right
  <1>10. /\ PlacesTyped /\ PlacesOK' /\ Tails
         /\ Tokens' = (Tokens \ {<<<<"conn", p, m>>, x>>}) \cup {<<<<"movin", m, m>>, y>>}
    BY <1>6, <1>8, <1>9, MovinTakes
  <1>11. PICK u, v : u = <<<<"conn", p, m>>, x>> /\ v = <<<<"movin", m, m>>, y>>
    OBVIOUS
  <1>12. /\ u \in Tokens /\ Tokens' = (Tokens \ {u}) \cup {v}
         /\ u[2] = x /\ v[1] = <<"movin", m, m>> /\ v[2] = y
    BY <1>3, <1>10, <1>11
  <1>13. PICK new : new = Pair(h, r)
    OBVIOUS
  <1>14. /\ new = [msg |-> <<h[1], sh[h].msg>>, recv |-> <<sh[h].dest, rh[r].msg>>]
         /\ new.recv = <<d, rh[r].msg>> /\ matched' = matched \cup {new} /\ new \in matched'
         /\ sh[h].msg \in Nat /\ rh[r].msg \in Nat /\ new \in [msg : Numbers, recv : Numbers]
    <2>1. sh[h].msg \in Nat /\ rh[r].msg \in Nat
      BY <1>1, <1>3, <1>5, TypesAre DEF TypeFacts
    <2> QED  BY <1>2, <1>3, <1>5, <1>13, <2>1 DEF Pair, Numbers
  <1>15. ASSUME NEW g \in received'
         PROVE  /\ g \in [msg : Numbers, recv : Numbers, data : {"none", "intact", "overwritten", "garbage"},
                                  cancelled : BOOLEAN]
                /\ [msg |-> g.msg, recv |-> g.recv] \in matched'
                /\ g.data # "overwritten" /\ (g.data = "garbage" => g.cancelled)
    <2>1. CASE g \in received
      BY <1>1, <1>14, <2>1 DEF Typed, ReceivedOK
    <2>2. CASE g = Got(h, r, x.payload) /\ x.payload = "intact"
      <3>1. g = [msg |-> new.msg, recv |-> new.recv, data |-> "intact",
                 cancelled |-> sh[h].stat = "CANCEL"]
        BY <1>13, <2>2 DEF Got, Pair
      <3>2. [msg |-> g.msg, recv |-> g.recv] = new
        BY <1>14, <3>1
      <3> QED  BY <1>14, <3>1, <3>2
    <2> QED  BY <1>6, <2>1, <2>2
  <1>16. ReceivedOK'
    BY <1>15 DEF ReceivedOK
  <1>17. Typed'
    <2>1. matched' \subseteq [msg : Numbers, recv : Numbers]
      BY <1>1, <1>14 DEF Typed
    <2>2. received' \subseteq [msg : Numbers, recv : Numbers, data : {"none", "intact", "overwritten", "garbage"},
                                  cancelled : BOOLEAN]
      BY <1>15
    <2> QED  BY <1>1, <1>5, <1>7, <1>8, <1>10, <2>1, <2>2 DEF Typed, PlacesTyped
  <1>18. Right(v[1], v[2])'
    BY <1>2, <1>6, <1>9, <1>12 DEF Right, Starting
  <1>19. NamesRecv(v[2])' /\ Payload(v[2])' /\ Started(v[2])'
    <2>1. NamesRecv(y)'
      <3>1. Pair(h, r)' = new
        BY <1>7, <1>13 DEF Pair
      <3> QED  BY <1>2, <1>5, <1>6, <1>7, <1>14, <3>1 DEF NamesRecv, Data
    <2>2. Payload(y)' /\ Started(y)'
      BY <1>2, <1>3, <1>6 DEF Payload, Started
    <2> QED  BY <1>12, <2>1, <2>2
  <1>20. Moves({u}, {v})
    <2>1. v[2].sh = u[2].sh /\ u[2].rh = Nobody /\ (v[2].rh = Nobody \/ (v[2].rh = r /\ rh[r].stat \notin Data))
      BY <1>2, <1>5, <1>6, <1>9, <1>12 DEF Queue, Data
    <2>2. \A g \in RH : rh'[g].stat \in Data => g = v[2].rh \/ (rh[g].stat \in Data /\ g # u[2].rh)
      <3> TAKE g \in RH
      <3>1. g # Nobody
        BY <1>1, TypesAre DEF TypeFacts
      <3>2. CASE g = r
        BY <1>6, <1>7, <1>12, <3>2 DEF Data
      <3>3. CASE g # r
        BY <1>7, <2>1, <3>1, <3>3
      <3> QED  BY <3>2, <3>3
    <2>3. \A g \in RH : g # u[2].rh /\ rh[g].stat \in Data => rh'[g] = rh[g]
      BY <1>5, <1>7 DEF Queue, Data
    <2>4. v[2].rh \in {u[2].rh, Nobody} \/ (v[2].rh \in RH /\ rh[v[2].rh].stat \notin Data)
      BY <1>5, <2>1
    <2> QED  BY <1>1, <1>12, <1>18, <1>19, <2>1, <2>2, <2>3, <2>4, OneMove
  <1>21. Bounded'
    BY <1>1, <1>8, <1>10, BoundedKept DEF PlacesTyped
  <1>22. HandlesOK'
    BY <1>1, <1>5, <1>17, ReceiverStep
  <1>23. SendsKept
    BY DEF SendsKept
  <1>24. Ordered'
    BY <1>1, <1>10, <1>17, <1>23, QueuesRise DEF Tails
  <1>25. RecvQueues'
    <2>1. rh'[r].stat \notin Queue
      BY <1>6, <1>7 DEF Queue, Data
    <2> QED  BY <1>1, <1>3, <1>7, <1>14, <2>1, RecvQueuesTail
  <1>26. \A g \in Announced : g # h /\ Alike(sh, h, g) => sh[h].msg < sh[g].msg
    BY <1>1, <1>2, <1>3, <1>5, <1>6, FirstOnConn
  <1>27. /\ \A n \in Nodes : posted'[n] \in Nat /\ posted[n] <= posted'[n]
         /\ rh[r].msg <= posted'[sh[h].dest]
    <2>1. \A n \in Nodes : posted[n] \in Nat
      BY <1>1, TypesAre DEF TypeFacts
    <2>2. rh[r].msg <= posted[d]
      BY <1>1, <1>5 DEF HandlesOK, RecvOK
    <2> QED  BY SMTT(30), <1>2, <2>1, <2>2
  <1>28. \A z \in matched : z.recv[1] = sh[h].dest => z.recv[2] < rh[r].msg
    BY <1>2, <1>5
  <1>29. u[2].type \in Starting /\ v[2].type \notin Starting /\ h = u[2].sh
    BY <1>2, <1>6, <1>9, <1>12
  <1> QED  BY ZenonT(40), <1>10, <1>12, <1>14, <1>16, <1>17, <1>20, <1>21, <1>22, <1>23, <1>24, <1>25, <1>26,
              <1>27, <1>28, <1>29, MatchingMove

LEMMA StepHandleRMS ==
  ASSUME Inv, NEW m \in Machines, NEW p \in Machines, HandleRMS(m, p)
  PROVE  Inv'
  <1>0. PICK x, h, d, r : x = Head(conn[p][m]) /\ h = x.sh /\ d = sh[h].dest /\ r = Head(rq[d])
    OBVIOUS
  <1>1. /\ movin[m].at = "recv" /\ conn[p][m] # <<>> /\ x.type = "MSG_SEND" /\ Consume(m, p)
        /\ UNCHANGED <<sh, chlock, shlock, pc, cur, out, nsh, nrh, starts, recvs, spurious,
                       sent, posted, received>>
    BY <1>0 DEF HandleRMS, Incoming, locks, thread, counts
  <1>2. x.type \in Starting
    BY <1>1 DEF Starting
  <1>3. CASE rq[d] = <<>>
    <2>1. Unexpected(m, x, TRUE) /\ UNCHANGED <<rq, rh, matched>>
      BY <1>0, <1>3 DEF HandleRMS
    <2>2. CASE sh[x.sh].mode = "READY"
      <3>1. Answer(m, "reply", MSG("NRDY", x.sh, Nobody, "none")) /\ sq' = sq
        BY <2>1, <2>2 DEF Unexpected
      <3> QED  BY <1>0, <1>1, <1>2, <2>1, <2>2, <3>1, Refused
    <2>3. CASE sh[x.sh].mode # "READY"
      <3>1. PutsLast(d, x) /\ movin' = movin
        BY <1>0, <2>1, <2>3 DEF Unexpected, PutsLast
      <3>2. StandsFor(x, x) /\ d = sh[x.sh].dest
        BY <1>0 DEF StandsFor
      <3> QED  BY <1>0, <1>1, <1>2, <1>3, <2>1, <2>3, <3>1, <3>2, QueuedUp
    <2> QED  BY <2>2, <2>3
  <1>4. CASE rq[d] # <<>>
    <2>1. PICK y : y = MSG("MSG_RECV", x.sh, r, "none")
      OBVIOUS
    <2>2. /\ rq' = [rq EXCEPT ![d] = Tail(@)]
          /\ rh' = [rh EXCEPT ![r].stat = CASE @ = "PEND_STRT" -> "PEND_DATA"
                                            [] @ = "PEND_WAIT" -> "PEND_DWAT"
                                            [] OTHER -> @]
          /\ matched' = matched \cup {Pair(x.sh, r)}
          /\ Answer(m, "reply", y) /\ sq' = sq
      BY <1>0, <1>4, <2>1 DEF HandleRMS
    <2>3. FirstTaken(d, r) /\ d = sh[x.sh].dest
      BY <1>0, <1>4, <2>2 DEF FirstTaken
    <2>4. Typed /\ RecvQueues /\ d \in Nodes
      BY <1>0, <1>1, IncomingFacts DEF Inv
    <2>5. r \in RH /\ rh[r].stat \in Queue
      BY <2>3, <2>4, FirstOfQueue DEF FirstFacts
    <2>6. PICK to : to = IF rh[r].stat = "PEND_STRT" THEN "PEND_DATA" ELSE "PEND_DWAT"
      OBVIOUS
    <2>7. PICK o : o = [rh[r] EXCEPT !.stat = to]
      OBVIOUS
    <2>8. rh \in [RH -> RecvHandle] /\ rh[r] \in RecvHandle
      BY <2>4, <2>5 DEF Typed
    <2>9. rh' = [rh EXCEPT ![r] = o]
      BY <2>2, <2>5, <2>6, <2>7, <2>8 DEF Queue
    <2>10. /\ o \in RecvHandle /\ o.type = rh[r].type /\ o.msg = rh[r].msg /\ o.live = rh[r].live
           /\ o.held = rh[r].held /\ o.stat = to
      BY <2>6, <2>7, <2>8 DEF RecvHandle, RecvStats
    <2>11. RecvGoesOn(r, o)
      BY <1>1, <2>5, <2>6, <2>9, <2>10 DEF RecvGoesOn, Queue
    <2>12. Matches(x, r, o, y)
      BY <1>1, <2>1, <2>6, <2>10 DEF Matches, Data
    <2> QED  BY <1>0, <1>1, <2>2, <2>3, <2>11, <2>12, MatchedOnArrival
  <1> QED  BY <1>3, <1>4

LEMMA StepHandleRMDS ==
  ASSUME Inv, NEW m \in Machines, NEW p \in Machines, NEW room \in BOOLEAN, HandleRMDS(m, p, room)
  PROVE  Inv'
  <1>0. PICK x, h, d, r : x = Head(conn[p][m]) /\ h = x.sh /\ d = sh[h].dest /\ r = Head(rq[d])
    OBVIOUS
  <1>1. /\ movin[m].at = "recv" /\ conn[p][m] # <<>> /\ x.type = "MSGDAT_SEND" /\ Consume(m, p)
        /\ UNCHANGED <<sh, chlock, shlock, cur, out, nsh, nrh, starts, recvs, spurious, sent, posted>>
    BY <1>0 DEF HandleRMDS, Incoming, locks, counts
  <1>2. x.type \in Starting
    BY <1>1 DEF Starting
  <1>3. CASE rq[d] = <<>>
    <2>1. Unexpected(m, x, room) /\ UNCHANGED <<rq, rh, pc, matched, received>>
      BY <1>0, <1>3 DEF HandleRMDS
    <2>2. CASE sh[x.sh].mode = "READY"
      <3>1. Answer(m, "reply", MSG("NRDY", x.sh, Nobody, "none")) /\ sq' = sq
        BY <2>1, <2>2 DEF Unexpected
      <3> QED  BY <1>0, <1>1, <1>2, <2>1, <2>2, <3>1, Refused
    <2>3. CASE sh[x.sh].mode # "READY"
      <3>1. PICK y : y = IF room THEN x ELSE MSG("MSG_SEND", x.sh, Nobody, "none")
        OBVIOUS
      <3>2. PutsLast(d, y) /\ movin' = movin
        BY <1>0, <2>1, <2>3, <3>1 DEF Unexpected, PutsLast
      <3>3. StandsFor(y, x) /\ d = sh[x.sh].dest
        BY <1>0, <3>1 DEF StandsFor
      <3> QED  BY <1>0, <1>1, <1>2, <1>3, <2>1, <2>3, <3>2, <3>3, QueuedUp
    <2> QED  BY <2>2, <2>3
  <1>4. CASE rq[d] # <<>>
    <2>1. PICK y : y = MSG("MSGDAT_RECV", x.sh, Nobody, "none")
      OBVIOUS
    <2>2. /\ rq' = [rq EXCEPT ![d] = Tail(@)]
          /\ rh' = [rh EXCEPT ![r].stat = IF @ \in {"PEND_STRT", "PEND_WAIT"} THEN "MATCH" ELSE @]
          /\ pc' = WakeReceiver(r)
          /\ matched' = matched \cup {Pair(x.sh, r)}
          /\ received' = received \cup {Got(x.sh, r, x.payload)}
          /\ Answer(m, "reply", y) /\ sq' = sq
      BY <1>0, <1>4, <2>1 DEF HandleRMDS
    <2>3. FirstTaken(d, r) /\ d = sh[x.sh].dest
      BY <1>0, <1>4, <2>2 DEF FirstTaken
    <2>4. Typed /\ RecvQueues /\ d \in Nodes
      BY <1>0, <1>1, IncomingFacts DEF Inv
    <2>5. r \in RH /\ rh[r].stat \in Queue
      BY <2>3, <2>4, FirstOfQueue DEF FirstFacts
    <2>6. PICK o : o = [rh[r] EXCEPT !.stat = "MATCH"]
      OBVIOUS
    <2>7. rh \in [RH -> RecvHandle] /\ rh[r] \in RecvHandle
      BY <2>4, <2>5 DEF Typed
    <2>8. rh' = [rh EXCEPT ![r] = o]
      BY <2>2, <2>5, <2>6, <2>7 DEF Queue
    <2>9. /\ o \in RecvHandle /\ o.type = rh[r].type /\ o.msg = rh[r].msg /\ o.live = rh[r].live
          /\ o.held = rh[r].held /\ o.stat = "MATCH"
      BY <2>6, <2>7 DEF RecvHandle, RecvStats
    <2>10. RecvGoesOn(r, o)
      BY <2>2, <2>5, <2>8, <2>9 DEF RecvGoesOn
    <2>11. Matches(x, r, o, y)
      BY <1>1, <2>1, <2>2, <2>9 DEF Matches
    <2> QED  BY <1>0, <1>1, <2>2, <2>3, <2>10, <2>11, MatchedOnArrival
  <1> QED  BY <1>3, <1>4

----------------------------------------------------------------------------
(* Starting receives. *)

\* The node t goes on with its receive r, which is started.
RecvStarts(t, r, o, to) ==
  /\ pc[t] \in {"start_rh", "answer"} /\ r = cur[t]
  /\ o \in RecvHandle /\ rh' = [rh EXCEPT ![r] = o]
  /\ o.type = rh[r].type /\ o.live = rh[r].live /\ o.held = rh[r].held
  /\ o.stat \in {"PEND_STRT", "PEND_DATA", "MATCH"} /\ o.msg <= posted'[t]
  /\ pc' = [pc EXCEPT ![t] = to]
  /\ to = "answer" \/ to = AfterStartRecv(r)

LEMMA ReceiveStarts ==
  ASSUME Inv, Typed, Typed', HandlesOK, NEW t \in Nodes, NEW r, NEW o, NEW to, RecvStarts(t, r, o, to),
         \A n \in Nodes : posted[n] <= posted'[n], UNCHANGED <<sh, nsh, nrh, cur>>
  PROVE  /\ HandlesOK' /\ r \in RH /\ r[1] = t /\ rh'[r] = o
         /\ \A g \in RH : g # r => rh'[g] = rh[g]
         /\ pc'[t] = to /\ \A n \in Nodes : n # t => pc'[n] = pc[n]
         /\ to \in {"answer", "enter_wait_rh", "idle"}
  <1>1. pc[t] \in RecvLocs /\ pc[t] \notin SendLocs /\ pc[t] \in {"start_rh", "answer"} /\ r = cur[t]
    BY DEF RecvStarts, RecvLocs, SendLocs
  <1>2. /\ r \in RH /\ r[1] = t /\ r[2] <= nrh[t] /\ ~(r[2] > nrh[t])
        /\ RecvOK(r) /\ ReceiverOK(t) /\ rh[r].live
    BY <1>1, ReceiverFacts
  <1>3. /\ rh'[r] = o /\ \A g \in RH : g # r => rh'[g] = rh[g]
    BY <1>2 DEF RecvStarts, Typed
  <1>4. pc'[t] = to /\ \A n \in Nodes : n # t => pc'[n] = pc[n]
    BY DEF RecvStarts, Typed
  <1>5. /\ to = "answer" \/ to = IF rh[r].type = "RECV" THEN "enter_wait_rh" ELSE "idle"
        /\ o.type = rh[r].type /\ o.live = rh[r].live /\ o.held = rh[r].held
        /\ o.stat \in {"PEND_STRT", "PEND_DATA", "MATCH"} /\ o.msg <= posted'[t]
    BY DEF RecvStarts, AfterStartRecv
  <1>6. to \notin SendLocs /\ (o.type = "RECV" => to \in RecvLocs)
    BY <1>5 DEF SendLocs, RecvLocs
  <1>7. RecvOK(r)'
    <2>1. o.type = "RECV" => UsesRecv(r[1], r)'
      BY <1>1, <1>2, <1>4, <1>6 DEF UsesRecv
    <2>2. ~(r[2] > nrh'[r[1]]) /\ o.msg <= posted'[r[1]]
      BY <1>2, <1>5
    <2>3. o.live /\ (o.held <=> o.type # "RECV")
      BY <1>2, <1>5 DEF RecvOK
    <2> QED  BY <1>3, <1>5, <2>1, <2>2, <2>3 DEF RecvOK
  <1>8. ReceiverOK(t)'
    BY <1>1, <1>2, <1>3, <1>4, <1>5 DEF ReceiverOK
  <1>9. (\A g \in SH : SendOK(g)') /\ (\A n \in Nodes : SenderOK(n)')
    <2>1. \A n \in Nodes : \/ pc'[n] = pc[n] /\ cur'[n] = cur[n]
                           \/ pc[n] \notin SendLocs /\ pc'[n] \notin SendLocs
      BY <1>1, <1>4, <1>6
    <2> QED  BY <2>1, SendQuiet
  <1>10. (\A g \in RH : RecvOK(g)') /\ (\A n \in Nodes : ReceiverOK(n)')
    <2>1. (pc[t] \in RecvLocs => cur[t] = r) /\ (pc'[t] \in RecvLocs => cur'[t] = r)
      BY <1>1
    <2>2. \A n \in Nodes : n # t => pc'[n] = pc[n] /\ cur'[n] = cur[n] /\ nrh'[n] = nrh[n]
      BY <1>4
    <2>3. \A g \in RH : g # r /\ g[1] = t => (g[2] <= nrh'[t] <=> g[2] <= nrh[t])
      OBVIOUS
    <2> QED  BY <1>2, <1>3, <1>7, <1>8, <2>1, <2>2, <2>3, RecvSide
  <1>11. to \in {"answer", "enter_wait_rh", "idle"}
    BY <1>5
  <1> QED  BY <1>2, <1>3, <1>4, <1>9, <1>10, <1>11 DEF HandlesOK

\* What the node that answers does to the places.
LEMMA NodeSends ==
  ASSUME Inv, NEW t \in Nodes, pc[t] = "answer", NEW x, x = out[t],
         NEW q \in Machines, q = Target(x), netq_send(Mac[t], x), out' = [out EXCEPT ![t] = NoMSG],
         sq' = sq, movin' = movin, pc'[t] # "answer", \A n \in Nodes : n # t => pc'[n] = pc[n],
         x.type \notin Starting
  PROVE  /\ PlacesTyped /\ PlacesOK' /\ Grows
         /\ <<<<"node", t, t>>, x>> \in Tokens
         /\ Tokens' = (Tokens \ {<<<<"node", t, t>>, x>>}) \cup {<<<<"conn", Mac[t], q>>, x>>}
  <1>1. Typed /\ Bounded /\ HandlesOK /\ TokensOK /\ PlacesOK
    BY DEF Inv
  <1>2. x \in Messages /\ <<<<"node", t, t>>, x>> \in Tokens
    BY <1>1, InNode
  <1>0. PICK m : m = Mac[t]
    OBVIOUS
  <1>3. Len(conn[m][q]) < Capacity /\ conn' = [conn EXCEPT ![m][q] = Append(@, x)] /\ m \in Machines
    BY <1>0, RemoteAssumption DEF netq_send, Room
  <1>4. \A y \in Elems(conn[m][q]) : y.sh # x.sh
    <2> TAKE y \in Elems(conn[m][q])
    <2>1. <<<<"conn", m, q>>, y>> \in Tokens
      BY <1>1, <1>3, InConn
    <2> QED  BY <1>1, <1>2, <2>1 DEF TokensOK
  <1>5. PutOn(m, q, x)
    BY <1>1, <1>2, <1>3, <1>4, ConnSend
  <1>6. PlacesTyped
    <2>1. movin \in [Machines -> [at : {"recv", "reply", "data"}, msg : Messages \cup {NoMSG}]]
      BY <1>1 DEF Typed
    <2> QED  BY <1>1, <1>5, <2>1 DEF PutOn, PlacesTyped, Bounded
  <1>7. out'[t] = NoMSG /\ \A n \in Nodes : n # t => out'[n] = out[n]
    BY <1>1 DEF Typed
  <1>8. PlacesOK'
    <2>1. \A a, b \in Machines : Distinct(conn'[a][b])
      BY <1>5 DEF PutOn
    <2>2. \A n \in Nodes : pc'[n] = "answer" => out'[n] \in Messages
      BY <1>1, <1>7 DEF PlacesOK
    <2> QED  BY <1>1, <2>1, <2>2 DEF PlacesOK
  <1>9. Grows
    BY <1>2, <1>5 DEF PutOn, Grows
  <1>10. PICK u, v : u = <<<<"node", t, t>>, x>> /\ v = <<<<"conn", m, q>>, x>>
    OBVIOUS
  <1>11. Tokens' = (Tokens \ {u}) \cup {v}
    <2>1. ConnMove({u}, {v})
      <3>1. \A a, b \in Machines : \A z \in Messages :
              z \in Elems(conn'[a][b]) <=> z \in Elems(conn[a][b]) \/ (a = m /\ b = q /\ z = x)
        BY <1>5 DEF PutOn
      <3> QED  BY <1>10, <3>1 DEF ConnMove
    <2>2. QueueMove({u}, {v}) /\ MovinMove({u}, {v})
      BY <1>10 DEF QueueMove, MovinMove
    <2>3. NodeMove({u}, {v})
      BY <1>7, <1>10 DEF NodeMove
    <2>4. Put({v})
      <3>1. <<"conn", m, q>> \in Places
        BY <1>3 DEF Places
      <3>2. v[1][1] = "conn" /\ v[1][2] = m /\ v[1][3] = q /\ v \in Places \X Messages
        BY <1>2, <1>10, <3>1
      <3> QED  BY <1>3, <3>2 DEF Put
    <2> QED  BY <2>1, <2>2, <2>3, <2>4, TokensMove
  <1> QED  BY <1>0, <1>2, <1>6, <1>8, <1>9, <1>10, <1>11

LEMMA StepStartRecvAnswer ==
  ASSUME Inv, NEW t \in Nodes, StartRecvAnswer(t)
  PROVE  Inv'
  <1>0. PICK r, o, to : r = cur[t] /\ o = rh[r] /\ to = AfterStartRecv(r)
    OBVIOUS
  <1>1. /\ pc[t] = "answer" /\ pc' = [pc EXCEPT ![t] = to] /\ netq_send(Mac[t], out[t])
        /\ out' = [out EXCEPT ![t] = NoMSG] /\ chlock' = [chlock EXCEPT ![t] = Nobody]
        /\ UNCHANGED <<sh, rh, sq, rq, shlock, movin, cur, nsh, nrh, starts, recvs, spurious,
                       sent, posted, matched, received>>
    BY <1>0 DEF StartRecvAnswer, Goto, handles, queues, counts, history
  <1>2. Typed /\ Bounded /\ HandlesOK /\ TokensOK /\ PlacesOK /\ OrderOK /\ ReceivedOK /\ RecvQueues
    BY DEF Inv
  <1>3. PICK x : x = out[t]
    OBVIOUS
  <1>4. PICK u : u = <<<<"node", t, t>>, x>>
    OBVIOUS
  <1>5. x \in Messages /\ u \in Tokens /\ u[1] = <<"node", t, t>> /\ u[2] = x
    BY <1>1, <1>2, <1>3, <1>4, InNode
  <1>6. /\ Right(u[1], x) /\ NamesRecv(x) /\ Payload(x) /\ Started(x) /\ x.type \in Types
        /\ x.sh[1] \in Nodes /\ Mac[x.sh[1]] \in Machines
    BY <1>2, <1>5, TokenFacts
  <1>7. x.type \in {"MSG_RECV", "MSGDAT_RECV"} /\ t = sh[x.sh].dest /\ sh[x.sh].stat \in Early
    BY <1>5, <1>6 DEF Right, Types, Starting
  <1>8. PICK q : q = Mac[x.sh[1]]
    OBVIOUS
  <1>9. q = Target(x) /\ q \in Machines /\ x.type \notin Starting
    BY <1>6, <1>7, <1>8 DEF Target, Starting
  <1>10. /\ r \in RH /\ rh[r] \in RecvHandle /\ RecvOK(r) /\ ReceiverOK(t)
    BY <1>0, <1>1, ReceiverFacts DEF RecvLocs
  <1>11. RecvStarts(t, r, o, to)
    <2>1. o.stat \in {"PEND_STRT", "PEND_DATA", "MATCH"}
      BY <1>0, <1>1, <1>10 DEF ReceiverOK, RecvLocs
    <2>2. o.msg <= posted'[t]
      BY <1>0, <1>1, <1>10, ReceiverFacts DEF RecvOK, RecvLocs
    <2>3. rh' = [rh EXCEPT ![r] = o]
      BY <1>0, <1>1, <1>2 DEF Typed
    <2> QED  BY <1>0, <1>1, <1>10, <2>1, <2>2, <2>3 DEF RecvStarts
  <1>12. to \in {"enter_wait_rh", "idle"}
    BY <1>0 DEF AfterStartRecv
  <1>13. pc'[t] # "answer" /\ pc'[t] = to /\ \A n \in Nodes : n # t => pc'[n] = pc[n]
    BY <1>1, <1>2, <1>12 DEF Typed
  <1>14. /\ PlacesTyped /\ PlacesOK' /\ Grows
         /\ Tokens' = (Tokens \ {<<<<"node", t, t>>, x>>}) \cup {<<<<"conn", Mac[t], q>>, x>>}
    BY <1>1, <1>3, <1>9, <1>13, NodeSends
  <1>15. PICK v : v = <<<<"conn", Mac[t], q>>, x>>
    OBVIOUS
  <1>16. Tokens' = (Tokens \ {u}) \cup {v} /\ v[1] = <<"conn", Mac[t], q>> /\ v[2] = x
    BY <1>4, <1>14, <1>15
  <1>17. Typed'
    <2>1. pc' \in [Nodes -> SendLocs \cup RecvLocs \cup {"idle"}]
      BY <1>1, <1>2, <1>12 DEF Typed, RecvLocs
    <2>2. out' \in [Nodes -> Messages \cup {NoMSG}]
      BY <1>1, <1>2 DEF Typed
    <2>3. chlock' \in [Nodes -> Nodes \cup {Nobody}] /\ \A n \in Nodes : chlock'[n] \in {n, Nobody}
      BY <1>1, <1>2 DEF Typed
    <2> QED  BY <1>1, <1>2, <1>14, <2>1, <2>2, <2>3 DEF Typed, PlacesTyped
  <1>18. Right(v[1], v[2])'
    BY <1>1, <1>7, <1>8, <1>16 DEF Right, Starting
  <1>19. NamesRecv(v[2])' /\ Payload(v[2])' /\ Started(v[2])'
    BY <1>1, <1>6, <1>16 DEF NamesRecv, Payload, Started, Pair
  <1>20. Moves({u}, {v})
    <2>1. v[2].sh = u[2].sh /\ v[2].rh = u[2].rh
      BY <1>5, <1>16
    <2>2. \A g \in RH : rh'[g].stat \in Data => g = v[2].rh \/ (rh[g].stat \in Data /\ g # u[2].rh)
      BY <1>1, <2>1
    <2> QED  BY <1>1, <1>2, <1>5, <1>16, <1>18, <1>19, <2>1, <2>2, OneMove
  <1>21. Bounded'
    BY <1>1, <1>2, <1>12, <1>13, <1>14, BoundedKept DEF PlacesTyped
  <1>22. HandlesOK'
    <2>1. \A n \in Nodes : posted[n] <= posted'[n]
      BY <1>1, <1>2, TypesAre DEF TypeFacts
    <2> QED  BY <1>1, <1>2, <1>11, <1>17, <2>1, ReceiveStarts
  <1>23. SendsKept
    BY <1>1 DEF SendsKept
  <1>24. Ordered'
    BY <1>1, <1>2, <1>14, <1>17, <1>23, QueuesRise DEF Grows
  <1>25. ReceivedOK' /\ NoMissedMatch'
    BY <1>1, <1>2 DEF ReceivedOK, RecvQueues, NoMissedMatch
  <1>26. /\ \A w \in {u} : w[2].type \notin Starting
         /\ \A w \in {v} : w[2].type \notin Starting
    BY <1>5, <1>9, <1>16
  <1> QED  BY <1>1, <1>14, <1>17, <1>20, <1>21, <1>22, <1>23, <1>24, <1>25, <1>26, QuietMove

\* A receive is put at the end of the queue of its node.
WaitsLast(t, r) == rq' = [rq EXCEPT ![t] = Append(@, r)]

LEMMA RecvQueuesAppend ==
  ASSUME Typed, RecvQueues, HandlesOK, MatchedOK, NEW t \in Nodes, NEW r \in RH, r[1] = t, NEW o,
         WaitsLast(t, r), sq' = sq, sq[t] = <<>>, matched' = matched,
         \A g \in RH : g # r => rh'[g] = rh[g], rh'[r] = o, o.stat = "PEND_STRT",
         o.msg = posted[t] + 1, rh[r].stat \notin Queue
  PROVE  RecvQueues' /\ rq' \in [Nodes -> Seq(RH)]
  <1>1. PICK s : s = rq[t]
    OBVIOUS
  <1>2. s \in Seq(RH) /\ rq \in [Nodes -> Seq(RH)] /\ posted[t] \in Nat
    BY <1>1, TypesAre DEF Typed, TypeFacts
  <1>3. /\ Append(s, r) \in Seq(RH) /\ Len(s) \in Nat /\ Len(Append(s, r)) = Len(s) + 1
        /\ \A i \in 1..Len(s) : Append(s, r)[i] = s[i]
        /\ Append(s, r)[Len(s) + 1] = r
        /\ Elems(Append(s, r)) = Elems(s) \cup {r}
    BY <1>2, AppendTo
  <1>4. rq'[t] = Append(s, r) /\ \A n \in Nodes : n # t => rq'[n] = rq[n]
    BY <1>1, <1>2 DEF WaitsLast
  <1>5. rq' \in [Nodes -> Seq(RH)]
    BY <1>1, <1>2, <1>3 DEF WaitsLast
  <1>6. ASSUME NEW n \in Nodes, NEW g \in Elems(rq[n])
        PROVE  /\ g \in RH /\ g # r /\ rh'[g] = rh[g] /\ g[1] = n /\ rh[g].stat \in Queue
               /\ rh[g].msg \in Nat /\ rh[g].msg <= posted[n]
    <2>1. g \in RH
      BY TypesAre, ElemsIn DEF TypeFacts
    <2>2. g[1] = n /\ rh[g].stat \in Queue
      BY DEF RecvQueues, Queue
    <2>3. rh[g].msg \in Nat /\ rh[g].msg <= posted[n]
      BY <2>1, <2>2, TypesAre DEF HandlesOK, RecvOK, TypeFacts
    <2> QED  BY <2>1, <2>2, <2>3
  <1>7. ASSUME NEW n \in Nodes, NEW i \in 1..Len(rq'[n]), NEW j \in 1..Len(rq'[n]), i < j
        PROVE  rh'[rq'[n][i]].msg < rh'[rq'[n][j]].msg
    <2>1. CASE n # t
      <3>1. rq'[n] = rq[n] /\ rq[n][i] \in Elems(rq[n]) /\ rq[n][j] \in Elems(rq[n])
        BY <1>4, <2>1 DEF Elems
      <3>2. rh'[rq[n][i]] = rh[rq[n][i]] /\ rh'[rq[n][j]] = rh[rq[n][j]]
        BY <1>6, <3>1
      <3> QED  BY <1>7, <3>1, <3>2 DEF RecvQueues
    <2>2. CASE n = t
      <3>1. rq'[n] = Append(s, r) /\ i \in 1..(Len(s) + 1) /\ j \in 1..(Len(s) + 1)
        BY <1>3, <1>4, <2>2
      <3>2. i \in 1..Len(s) /\ rq'[n][i] = s[i]
        BY <1>3, <1>7, <3>1
      <3>3. s[i] \in Elems(rq[t])
        BY <1>1, <3>2 DEF Elems
      <3>4. rh'[s[i]] = rh[s[i]] /\ rh[s[i]].msg \in Nat /\ rh[s[i]].msg <= posted[t]
        BY <1>6, <3>3
      <3>5. CASE j = Len(s) + 1
        <4>1. rq'[n][j] = r
          BY <1>3, <3>1, <3>5
        <4>2. rh[s[i]].msg < o.msg
          BY <1>2, <3>4
        <4> QED  BY <3>2, <3>4, <4>1, <4>2
      <3>6. CASE j # Len(s) + 1
        <4>1. j \in 1..Len(s) /\ rq'[n][j] = s[j]
          BY <1>3, <3>1, <3>6
        <4>2. s[j] \in Elems(rq[t])
          BY <1>1, <4>1 DEF Elems
        <4>3. rh'[s[j]] = rh[s[j]]
          BY <1>6, <4>2
        <4>4. rh[s[i]].msg < rh[s[j]].msg
          BY <1>1, <1>7, <3>2, <4>1 DEF RecvQueues
        <4> QED  BY <3>2, <3>4, <4>1, <4>3, <4>4
      <3> QED  BY <3>5, <3>6
    <2> QED  BY <2>1, <2>2
  <1>8. ASSUME NEW n \in Nodes, NEW g \in Elems(rq'[n])
        PROVE  g \in Elems(rq[n]) \/ (n = t /\ g = r)
    <2>1. CASE n = t
      <3>1. g \in Elems(Append(s, r))
        BY <1>4, <2>1
      <3>2. g \in Elems(s) \cup {r}
        BY <1>3, <3>1
      <3> QED  BY <1>1, <2>1, <3>2
    <2>2. CASE n # t
      <3>1. rq'[n] = rq[n]
        BY <1>4, <2>2
      <3> QED  BY <3>1
    <2> QED  BY <2>1, <2>2
  <1>9. ASSUME NEW n \in Nodes, NEW g \in Elems(rq'[n])
        PROVE  g[1] = n /\ rh'[g].stat \in {"PEND_STRT", "PEND_WAIT"}
    <2>1. CASE g \in Elems(rq[n])
      BY <1>6, <2>1 DEF Queue
    <2>2. CASE n = t /\ g = r
      BY <2>2
    <2> QED  BY <1>8, <2>1, <2>2
  <1>10. ASSUME NEW g \in RH, rh'[g].stat \in {"PEND_STRT", "PEND_WAIT"} PROVE g \in Elems(rq'[g[1]])
    <2>1. CASE g = r
      BY <1>3, <1>4, <2>1
    <2>2. CASE g # r
      <3>1. g \in Elems(rq[g[1]]) /\ g[1] \in Nodes
        BY <1>10, <2>2, TypesAre DEF RecvQueues, TypeFacts
      <3> QED  BY <1>1, <1>3, <1>4, <3>1
    <2> QED  BY <2>1, <2>2
  <1>11. ASSUME NEW y \in matched, NEW g \in Elems(rq'[y.recv[1]]) PROVE y.recv[2] < rh'[g].msg
    <2>1. y.recv[1] \in Nodes /\ y.recv[2] \in Nat
      BY TypesAre DEF TypeFacts
    <2>2. CASE g \in Elems(rq[y.recv[1]])
      <3>1. rh'[g] = rh[g]
        BY <1>6, <2>1, <2>2
      <3> QED  BY <2>2, <3>1 DEF RecvQueues
    <2>3. CASE y.recv[1] = t /\ g = r
      <3>1. y.recv[2] <= posted[t]
        BY <2>3 DEF MatchedOK
      <3> QED  BY <1>2, <2>1, <2>3, <3>1
    <2> QED  BY <1>8, <2>1, <2>2, <2>3
  <1>12. NoMissedMatch'
    BY <1>4 DEF RecvQueues, NoMissedMatch
  <1> QED  BY <1>5, <1>7, <1>9, <1>10, <1>11, <1>12 DEF RecvQueues

LEMMA StepStartRecvUnmatched ==
  ASSUME Inv, NEW t \in Nodes, StartRecvUnmatched(t)
  PROVE  Inv'
  <1>0. PICK r, to, k : r = cur[t] /\ to = AfterStartRecv(r) /\ k = posted[t] + 1
    OBVIOUS
  <1>1. PICK o : o = [rh[r] EXCEPT !.stat = "PEND_STRT", !.msg = k]
    OBVIOUS
  <1>2. /\ pc[t] = "start_rh" /\ pc' = [pc EXCEPT ![t] = to] /\ sq[t] = <<>>
        /\ rh' = [rh EXCEPT ![r].stat = "PEND_STRT", ![r].msg = posted[t] + 1]
        /\ WaitsLast(t, r) /\ posted' = [posted EXCEPT ![t] = @ + 1]
        /\ UNCHANGED <<sh, sq, chlock, shlock, conn, movin, cur, out, nsh, nrh, starts, recvs, spurious,
                       sent, matched, received>>
    BY <1>0 DEF StartRecvUnmatched, Goto, WaitsLast, locks, net, counts
  <1>3. Typed /\ Bounded /\ HandlesOK /\ TokensOK /\ PlacesOK /\ OrderOK /\ ReceivedOK /\ RecvQueues /\ MatchedOK
    BY DEF Inv
  <1>4. /\ r \in RH /\ r[1] = t /\ rh[r] \in RecvHandle /\ RecvOK(r) /\ ReceiverOK(t)
    BY <1>0, <1>2, ReceiverFacts DEF RecvLocs
  <1>5. rh[r].stat = "CREATE"
    BY <1>0, <1>2, <1>4 DEF ReceiverOK, RecvLocs
  <1>6. posted[t] \in Nat /\ k \in Nat /\ posted \in [Nodes -> Nat]
    <2>1. posted \in [Nodes -> Nat]
      BY <1>3 DEF Typed
    <2> QED  BY <1>0, <2>1
  <1>7. /\ o \in RecvHandle /\ o.type = rh[r].type /\ o.live = rh[r].live /\ o.held = rh[r].held
        /\ o.stat = "PEND_STRT" /\ o.msg = k
    BY <1>1, <1>4, <1>6 DEF RecvHandle, RecvStats
  <1>8. rh \in [RH -> RecvHandle]
    BY <1>3 DEF Typed
  <1>9. rh' = [rh EXCEPT ![r] = o]
    BY <1>0, <1>1, <1>2, <1>4, <1>8
  <1>10. posted'[t] = k /\ posted' \in [Nodes -> Nat] /\ \A n \in Nodes : n # t => posted'[n] = posted[n]
    BY <1>0, <1>2, <1>6
  <1>11. \A n \in Nodes : posted'[n] \in Nat /\ posted[n] \in Nat /\ posted[n] <= posted'[n]
    <2> TAKE n \in Nodes
    <2>1. posted[n] \in Nat /\ posted'[n] \in Nat
      BY <1>6, <1>10
    <2>2. CASE n = t
      BY <1>0, <1>6, <1>10, <2>2
    <2>3. CASE n # t
      BY <1>10, <2>1, <2>3
    <2> QED  BY <2>1, <2>2, <2>3
  <1>12. RecvStarts(t, r, o, to)
    <2>1. o.msg <= posted'[t]
      BY <1>6, <1>7, <1>10
    <2> QED  BY <1>0, <1>2, <1>7, <1>9, <2>1 DEF RecvStarts
  <1>13. rh'[r] = o /\ rh' \in [RH -> RecvHandle] /\ \A g \in RH : g # r => rh'[g] = rh[g]
    BY <1>4, <1>7, <1>8, <1>9
  <1>14. RecvQueues' /\ rq' \in [Nodes -> Seq(RH)]
    <2>1. rh[r].stat \notin Queue
      BY <1>5 DEF Queue
    <2>2. WaitsLast(t, r) /\ sq' = sq /\ sq[t] = <<>> /\ matched' = matched
      BY <1>2
    <2>3. o.stat = "PEND_STRT" /\ o.msg = posted[t] + 1
      BY <1>0, <1>7
    <2> QED  BY <1>3, <1>4, <1>13, <2>1, <2>2, <2>3, RecvQueuesAppend
  <1>15. to \in {"enter_wait_rh", "idle"}
    BY <1>0 DEF AfterStartRecv
  <1>16. pc'[t] = to /\ \A n \in Nodes : n # t => pc'[n] = pc[n]
    BY <1>2, <1>3 DEF Typed
  <1>17. Typed'
    <2>1. pc' \in [Nodes -> SendLocs \cup RecvLocs \cup {"idle"}]
      BY <1>2, <1>3, <1>15 DEF Typed, RecvLocs
    <2> QED  BY <1>2, <1>3, <1>10, <1>13, <1>14, <2>1 DEF Typed
  <1>18. HandlesOK'
    BY <1>2, <1>3, <1>11, <1>12, <1>17, ReceiveStarts
  <1>19. Bounded'
    <2>1. nrh[t] \in Nat /\ posted[t] < nrh[t]
      BY <1>2, <1>3, TypesAre DEF TypeFacts, Bounded
    <2>2. \A n \in Nodes : posted'[n] <= nrh[n]
      BY <1>0, <1>3, <1>6, <1>10, <2>1 DEF Bounded
    <2>3. \A n \in Nodes : pc'[n] = "start_rh" => n # t /\ posted'[n] < nrh[n]
      BY <1>3, <1>10, <1>15, <1>16 DEF Bounded
    <2>4. \A n \in Nodes : pc'[n] = "start_sh" => pc[n] = "start_sh"
      BY <1>15, <1>16
    <2> QED  BY <1>2, <1>3, <2>2, <2>3, <2>4 DEF Bounded
  <1>20. Tokens' = Tokens
    <2>1. \A n \in Nodes : pc'[n] = "answer" <=> pc[n] = "answer"
      BY <1>2, <1>15, <1>16
    <2>2. ConnMove({}, {}) /\ MovinMove({}, {}) /\ QueueMove({}, {}) /\ Put({})
      BY <1>2 DEF ConnMove, MovinMove, QueueMove, Put
    <2>3. NodeMove({}, {})
      BY <1>2, <2>1 DEF NodeMove
    <2>4. Tokens' = (Tokens \ {}) \cup {}
      BY <2>2, <2>3, TokensMove
    <2> QED  BY <2>4
  <1>21. HistoryGrows
    BY <1>2, <1>3, TypesAre DEF HistoryGrows, TypeFacts
  <1>22. TokensOK'
    <2>1. ASSUME NEW u \in Tokens
          PROVE  KeepsSend(u[2].sh) /\ (u[2].rh # Nobody => KeepsRecv(u[2].rh))
      <3>1. NamesRecv(u[2])
        BY <1>3, TokenFacts
      <3>2. u[2].rh # Nobody => u[2].rh \in RH /\ u[2].rh # r
        BY <1>5, <3>1 DEF NamesRecv
      <3>3. KeepsSend(u[2].sh)
        BY <1>2 DEF KeepsSend
      <3> QED  BY <1>13, <3>2, <3>3 DEF KeepsRecv
    <2>2. \A h \in SH : Awaiting(h)' => Awaiting(h)
      BY <1>2 DEF Awaiting
    <2>3. \A g \in RH : rh'[g].stat \in {"PEND_DATA", "PEND_DWAT"} => rh[g].stat \in {"PEND_DATA", "PEND_DWAT"}
      BY <1>7, <1>13
    <2>4. Moves({}, {})
      BY <1>20, <2>1, <2>2, <2>3 DEF Moves
    <2> QED  BY <1>3, <1>17, <1>21, <2>4, TokensStep
  <1>23. PlacesOK'
    <2>1. \A n \in Nodes : pc'[n] = "answer" => pc[n] = "answer"
      BY <1>15, <1>16
    <2> QED  BY <1>2, <1>3, <2>1 DEF PlacesOK
  <1>24. SendsKept
    BY <1>2 DEF SendsKept
  <1>25. OrderOK'
    <2>1. Announced' = Announced
      BY <1>20 DEF Announced
    <2>2. Ordered'
      BY <1>2, <1>3, <1>17, <1>24, QueuesRise
    <2> QED  BY <1>2, <1>3, <1>24, <2>1, <2>2, OrderKept
  <1>26. MatchedOK'
    <2>1. \A y \in matched : y.recv[2] <= posted'[y.recv[1]]
      <3> TAKE y \in matched
      <3>1. y.recv[1] \in Nodes /\ y.recv[2] \in Nat /\ y.recv[2] <= posted[y.recv[1]]
        BY <1>3, TypesAre DEF TypeFacts, MatchedOK
      <3> QED  BY <1>11, <3>1
    <2> QED  BY <1>2, <1>3, <2>1 DEF MatchedOK, NonOvertaking
  <1>27. ReceivedOK'
    BY <1>2, <1>3 DEF ReceivedOK
  <1> QED  BY <1>14, <1>17, <1>18, <1>19, <1>22, <1>23, <1>25, <1>26, <1>27 DEF Inv

\* A receive takes the first message from the queue of its node and has the answer y to send.
TakesFirst(t, e, y) ==
  /\ sq[t] # <<>> /\ e = Head(sq[t]) /\ sq' = [sq EXCEPT ![t] = Tail(@)]
  /\ out' = [out EXCEPT ![t] = y]
TakenFirst(t, e, y) ==
  /\ e \in Messages /\ e = sq[t][1] /\ e \in Elems(sq[t])
  /\ sq' \in [Nodes -> Seq(Messages)] /\ out' \in [Nodes -> Messages \cup {NoMSG}]
  /\ out'[t] = y
  /\ \A n \in Nodes :
       /\ n # t => sq'[n] = sq[n] /\ out'[n] = out[n]
       /\ Distinct(sq'[n]) /\ (sq'[n] = sq[n] \/ (sq[n] # <<>> /\ sq'[n] = Tail(sq[n])))
       /\ \A z \in Messages : z \in Elems(sq'[n]) <=> z \in Elems(sq[n]) /\ ~(n = t /\ z = e)

LEMMA QueueTake ==
  ASSUME Typed, PlacesOK, NEW t \in Nodes, NEW e, NEW y \in Messages, TakesFirst(t, e, y)
  PROVE  TakenFirst(t, e, y)
  <1>1. PICK s : s = sq[t]
    OBVIOUS
  <1>2. /\ s \in Seq(Messages) /\ Distinct(s) /\ s # <<>> /\ e = Head(s) /\ sq' = [sq EXCEPT ![t] = Tail(s)]
        /\ out' = [out EXCEPT ![t] = y]
    BY <1>1, TypesAre DEF TypeFacts, PlacesOK, TakesFirst
  <1>3. e = s[1] /\ e \in Messages /\ e \in Elems(s) /\ Tail(s) \in Seq(Messages)
    BY <1>2, TailOf
  <1>4. Distinct(Tail(s)) /\ Elems(Tail(s)) = Elems(s) \ {e}
    BY <1>2, <1>3, DistinctTail
  <1>5. sq \in [Nodes -> Seq(Messages)] /\ out \in [Nodes -> Messages \cup {NoMSG}]
    BY DEF Typed
  <1>6. sq' \in [Nodes -> Seq(Messages)] /\ out' \in [Nodes -> Messages \cup {NoMSG}] /\ out'[t] = y
    BY <1>2, <1>3, <1>5
  <1>7. ASSUME NEW n \in Nodes
        PROVE  /\ n # t => sq'[n] = sq[n] /\ out'[n] = out[n]
               /\ Distinct(sq'[n]) /\ (sq'[n] = sq[n] \/ (sq[n] # <<>> /\ sq'[n] = Tail(sq[n])))
               /\ \A z \in Messages : z \in Elems(sq'[n]) <=> z \in Elems(sq[n]) /\ ~(n = t /\ z = e)
    <2>1. CASE n = t
      <3>1. sq'[n] = Tail(s)
        BY <1>2, <1>5, <2>1
      <3> QED  BY <1>1, <1>2, <1>4, <2>1, <3>1
    <2>2. CASE n # t
      <3>1. sq'[n] = sq[n] /\ out'[n] = out[n] /\ Distinct(sq[n])
        BY <1>2, <1>5, <2>2 DEF PlacesOK
      <3> QED  BY <2>2, <3>1
    <2> QED  BY <2>1, <2>2
  <1> QED  BY <1>1, <1>3, <1>6, <1>7 DEF TakenFirst

LEMMA NodeTakes ==
  ASSUME Inv, NEW t \in Nodes, NEW e, NEW y \in Messages, TakenFirst(t, e, y),
         pc[t] # "answer", pc'[t] = "answer", \A n \in Nodes : n # t => pc'[n] = pc[n],
         conn' = conn, movin' = movin
  PROVE  /\ PlacesOK' /\ <<<<"sq", t, t>>, e>> \in Tokens
         /\ Tokens' = (Tokens \ {<<<<"sq", t, t>>, e>>}) \cup {<<<<"node", t, t>>, y>>}
  <1>1. Typed /\ PlacesOK
    BY DEF Inv
  <1>2. /\ e \in Messages /\ e \in Elems(sq[t]) /\ out'[t] = y
        /\ \A n \in Nodes : n # t => out'[n] = out[n]
        /\ \A n \in Nodes : Distinct(sq'[n])
        /\ \A n \in Nodes : \A z \in Messages :
             z \in Elems(sq'[n]) <=> z \in Elems(sq[n]) /\ ~(n = t /\ z = e)
    BY DEF TakenFirst
  <1>3. <<<<"sq", t, t>>, e>> \in Tokens
    BY <1>1, <1>2, InQueue
  <1>4. PlacesOK'
    <2>1. \A n \in Nodes : pc'[n] = "answer" => out'[n] \in Messages
      BY <1>1, <1>2 DEF PlacesOK
    <2> QED  BY <1>1, <1>2, <2>1 DEF PlacesOK
  <1>5. PICK u, v : u = <<<<"sq", t, t>>, e>> /\ v = <<<<"node", t, t>>, y>>
    OBVIOUS
  <1>6. Tokens' = (Tokens \ {u}) \cup {v}
    <2>1. ConnMove({u}, {v}) /\ MovinMove({u}, {v})
      BY <1>5 DEF ConnMove, MovinMove
    <2>2. QueueMove({u}, {v})
      BY <1>2, <1>5 DEF QueueMove
    <2>3. NodeMove({u}, {v})
      BY <1>2, <1>5 DEF NodeMove
    <2>4. Put({v})
      <3>1. <<"node", t, t>> \in Places
        BY DEF Places
      <3>2. v[1][1] = "node" /\ v[1][2] = t /\ v[1][3] = t /\ v \in Places \X Messages
        BY <1>5, <3>1
      <3> QED  BY <3>2 DEF Put
    <2> QED  BY <2>1, <2>2, <2>3, <2>4, TokensMove
  <1> QED  BY <1>3, <1>4, <1>5, <1>6

\* The first message of a queue is the next of its kind.
LEMMA FirstInQueue ==
  ASSUME Typed, HandlesOK, TokensOK, OrderOK, NEW t \in Nodes, NEW e, sq[t] # <<>>, e = sq[t][1],
         e \in Elems(sq[t]), e.type \in Starting, sh[e.sh].dest = t
  PROVE  \A g \in Announced : g # e.sh /\ Alike(sh, e.sh, g) => sh[e.sh].msg < sh[g].msg
  <1>0. PICK h, s : h = e.sh /\ s = sq[t]
    OBVIOUS
  <1>1. s \in Seq(Messages) /\ Rising(sh, s) /\ s # <<>> /\ e = s[1]
    BY <1>0, TypesAre DEF TypeFacts, OrderOK, Ordered
  <1>2. \A z \in Elems(Tail(s)) :
          z.type \in Starting /\ Alike(sh, h, z.sh) => sh[h].msg < sh[z.sh].msg
    <2>1. \A z \in Elems(Tail(s)) :
            s[1].type \in Starting /\ z.type \in Starting /\ Alike(sh, s[1].sh, z.sh) =>
              sh[s[1].sh].msg < sh[z.sh].msg
      BY <1>1, RisingTail
    <2> QED  BY <1>0, <1>1, <2>1
  <1>3. \A z \in Elems(s) : z = e \/ z \in Elems(Tail(s))
    BY <1>1, TailOf
  <1>4. ASSUME NEW g \in Announced, g # h, Alike(sh, h, g) PROVE sh[h].msg < sh[g].msg
    <2>1. g[1] = h[1] /\ sh[g].dest = t /\ g[1] \in Nodes
      BY <1>0, <1>4, AnnouncedFacts DEF Alike
    <2>2. PICK u \in Tokens :
            /\ u[2].sh = g /\ u[2].type \in Starting
            /\ \/ u[2] \in Elems(conn[Mac[g[1]]][Mac[sh[g].dest]])
               \/ u[2] \in Elems(sq[sh[g].dest]) /\ sh[g].mode # "READY"
      BY AnnouncedWhere
    <2>3. CASE u[2] \in Elems(conn[Mac[g[1]]][Mac[sh[g].dest]])
      <3>1. Mac[g[1]] \in Machines /\ Mac[sh[g].dest] \in Machines
        BY <2>1, RemoteAssumption
      <3>2. Alike(sh, e.sh, u[2].sh)
        BY <1>0, <1>4, <2>2
      <3>3. sh[e.sh].msg < sh[u[2].sh].msg
        BY <2>2, <2>3, <3>1, <3>2 DEF OrderOK, Ordered
      <3> QED  BY <1>0, <2>2, <3>3
    <2>4. CASE u[2] \in Elems(sq[sh[g].dest])
      <3>1. u[2] \in Elems(s)
        BY <1>0, <2>1, <2>4
      <3>2. u[2] \in Elems(Tail(s))
        BY <1>0, <1>3, <1>4, <2>2, <3>1
      <3> QED  BY <1>2, <1>4, <2>2, <3>2
    <2> QED  BY <2>2, <2>3, <2>4
  <1> QED  BY <1>0, <1>4

\* The receive queues, when a receive is matched as it starts.
LEMMA RecvQueuesMatched ==
  ASSUME Typed, RecvQueues, NEW t \in Nodes, NEW e, NEW y, TakenFirst(t, e, y), sq[t] # <<>>, rq' = rq,
         NEW r \in RH, rh[r].stat \notin Queue, rh'[r].stat \notin Queue,
         \A g \in RH : g # r => rh'[g] = rh[g],
         NEW new, matched' = matched \cup {new}, new.recv[1] = t
  PROVE  RecvQueues'
  <1>1. rq[t] = <<>>
    BY DEF RecvQueues, NoMissedMatch
  <1>2. ASSUME NEW n \in Nodes, NEW g \in Elems(rq[n])
        PROVE  g \in RH /\ g # r /\ rh'[g] = rh[g]
    <2>1. g \in RH
      BY TypesAre, ElemsIn DEF TypeFacts
    <2>2. rh[g].stat \in Queue
      BY DEF RecvQueues, Queue
    <2> QED  BY <2>1, <2>2
  <1>3. ASSUME NEW n \in Nodes, NEW i \in 1..Len(rq[n]), NEW j \in 1..Len(rq[n]), i < j
        PROVE  rh'[rq[n][i]].msg < rh'[rq[n][j]].msg
    <2>1. rq[n][i] \in Elems(rq[n]) /\ rq[n][j] \in Elems(rq[n])
      BY DEF Elems
    <2>2. rh'[rq[n][i]] = rh[rq[n][i]] /\ rh'[rq[n][j]] = rh[rq[n][j]]
      BY <1>2, <2>1
    <2> QED  BY <1>3, <2>2 DEF RecvQueues
  <1>4. ASSUME NEW n \in Nodes, NEW g \in Elems(rq[n])
        PROVE  g[1] = n /\ rh'[g].stat \in {"PEND_STRT", "PEND_WAIT"}
    BY <1>2 DEF RecvQueues
  <1>5. ASSUME NEW g \in RH, rh'[g].stat \in {"PEND_STRT", "PEND_WAIT"} PROVE g \in Elems(rq[g[1]])
    <2>1. g # r
      BY <1>5 DEF Queue
    <2> QED  BY <1>5, <2>1 DEF RecvQueues
  <1>6. ASSUME NEW z \in matched', NEW g \in Elems(rq[z.recv[1]]) PROVE z.recv[2] < rh'[g].msg
    <2>1. CASE z \in matched
      <3>1. z.recv[1] \in Nodes
        BY <2>1, TypesAre DEF TypeFacts
      <3>2. rh'[g] = rh[g]
        BY <1>2, <3>1
      <3> QED  BY <2>1, <3>2 DEF RecvQueues
    <2>2. CASE z = new
      <3>1. rq[z.recv[1]] = <<>>
        BY <1>1, <2>2
      <3>2. Elems(<<>>) = {}
        BY DEF Elems
      <3>3. FALSE
        BY <3>1, <3>2
      <3> QED  BY <3>3
    <2> QED  BY <2>1, <2>2
  <1>7. NoMissedMatch'
    <2> SUFFICES ASSUME NEW n \in Nodes PROVE sq'[n] = <<>> \/ rq[n] = <<>>
      BY DEF NoMissedMatch
    <2>1. n = t \/ sq'[n] = sq[n]
      BY DEF TakenFirst
    <2> QED  BY <1>1, <2>1 DEF RecvQueues, NoMissedMatch
  <1> QED  BY <1>3, <1>4, <1>5, <1>6, <1>7 DEF RecvQueues

\* What a receive that starts does with the message it finds.
Finds(e, r, k, o, y) ==
  /\ o = [rh[r] EXCEPT !.msg = k, !.stat = IF e.type = "MSGDAT_SEND" THEN "MATCH" ELSE "PEND_DATA"]
  /\ y = IF e.type = "MSGDAT_SEND" THEN MSG("MSGDAT_RECV", e.sh, Nobody, "none")
                                   ELSE MSG("MSG_RECV", e.sh, r, "none")
Found(r, k, h, o, y) ==
  /\ o \in RecvHandle /\ o.type = rh[r].type /\ o.live = rh[r].live /\ o.held = rh[r].held /\ o.msg = k
  /\ y \in Messages /\ y.sh = h /\ Payload(y)
  /\ \/ o.stat = "MATCH" /\ y.type = "MSGDAT_RECV" /\ y.rh = Nobody
     \/ o.stat = "PEND_DATA" /\ y.type = "MSG_RECV" /\ y.rh = r

LEMMA FindsFacts ==
  ASSUME NEW e, e.sh \in SH, NEW r \in RH, rh[r] \in RecvHandle, NEW k \in Nat, NEW o, NEW y,
         Finds(e, r, k, o, y)
  PROVE  Found(r, k, e.sh, o, y)
  <1>1. CASE e.type = "MSGDAT_SEND"
    <2>1. /\ o = [rh[r] EXCEPT !.msg = k, !.stat = "MATCH"]
          /\ y = [type |-> "MSGDAT_RECV", sh |-> e.sh, rh |-> Nobody, payload |-> "none"]
      BY <1>1 DEF Finds, MSG
    <2>2. /\ o \in RecvHandle /\ o.type = rh[r].type /\ o.live = rh[r].live /\ o.held = rh[r].held
          /\ o.msg = k /\ o.stat = "MATCH"
      BY <2>1 DEF RecvHandle, RecvStats
    <2>3. /\ y \in Messages /\ y.sh = e.sh /\ Payload(y) /\ y.type = "MSGDAT_RECV" /\ y.rh = Nobody
      BY <2>1 DEF Messages, Types, Payload
    <2> QED  BY <2>2, <2>3 DEF Found
  <1>2. CASE e.type # "MSGDAT_SEND"
    <2>1. /\ o = [rh[r] EXCEPT !.msg = k, !.stat = "PEND_DATA"]
          /\ y = [type |-> "MSG_RECV", sh |-> e.sh, rh |-> r, payload |-> "none"]
      BY <1>2 DEF Finds, MSG
    <2>2. /\ o \in RecvHandle /\ o.type = rh[r].type /\ o.live = rh[r].live /\ o.held = rh[r].held
          /\ o.msg = k /\ o.stat = "PEND_DATA"
      BY <2>1 DEF RecvHandle, RecvStats
    <2>3. /\ y \in Messages /\ y.sh = e.sh /\ Payload(y) /\ y.type = "MSG_RECV" /\ y.rh = r
      BY <2>1 DEF Messages, Types, Payload
    <2> QED  BY <2>2, <2>3 DEF Found
  <1> QED  BY <1>1, <1>2

\* The number of receives that t has started goes up by one.
Posts(t, k) == k = posted[t] + 1 /\ posted' = [posted EXCEPT ![t] = @ + 1]

LEMMA PostsFacts ==
  ASSUME Typed, NEW t \in Nodes, NEW k, Posts(t, k)
  PROVE  /\ k \in Nat /\ posted[t] \in Nat /\ posted[t] < k /\ posted'[t] = k /\ posted' \in [Nodes -> Nat]
         /\ \A n \in Nodes : n # t => posted'[n] = posted[n]
         /\ \A n \in Nodes : posted'[n] \in Nat /\ posted[n] \in Nat /\ posted[n] <= posted'[n]
  <1>1. posted \in [Nodes -> Nat] /\ posted[t] \in Nat
    BY DEF Typed
  <1>2. /\ k \in Nat /\ posted[t] < k /\ posted'[t] = k /\ posted' \in [Nodes -> Nat]
        /\ \A n \in Nodes : n # t => posted'[n] = posted[n]
    BY <1>1 DEF Posts
  <1>3. ASSUME NEW n \in Nodes PROVE posted'[n] \in Nat /\ posted[n] \in Nat /\ posted[n] <= posted'[n]
    <2>1. posted[n] \in Nat /\ posted'[n] \in Nat
      BY <1>1, <1>2
    <2>2. CASE n = t
      BY <1>1, <1>2, <2>2
    <2>3. CASE n # t
      BY <1>2, <2>1, <2>3
    <2> QED  BY <2>1, <2>2, <2>3
  <1> QED  BY <1>1, <1>2, <1>3

LEMMA StepStartRecvMatched ==
  ASSUME Inv, NEW t \in Nodes, StartRecvMatched(t)
  PROVE  Inv'
  <1>0. PICK r, e, h, k : r = cur[t] /\ e = Head(sq[t]) /\ h = e.sh /\ k = posted[t] + 1
    OBVIOUS
  <1>1. PICK o, y, new :
          /\ o = [rh[r] EXCEPT !.msg = k, !.stat = IF e.type = "MSGDAT_SEND" THEN "MATCH" ELSE "PEND_DATA"]
          /\ y = IF e.type = "MSGDAT_SEND" THEN MSG("MSGDAT_RECV", e.sh, Nobody, "none")
                                           ELSE MSG("MSG_RECV", e.sh, r, "none")
          /\ new = [msg |-> <<h[1], sh[h].msg>>, recv |-> <<t, k>>]
    OBVIOUS
  <1>2. /\ pc[t] = "start_rh" /\ pc' = [pc EXCEPT ![t] = "answer"] /\ sq[t] # <<>>
        /\ rh' = [rh EXCEPT ![r].msg = posted[t] + 1,
                            ![r].stat = IF e.type = "MSGDAT_SEND" THEN "MATCH" ELSE "PEND_DATA"]
        /\ TakesFirst(t, e, y) /\ Posts(t, k) /\ Finds(e, r, k, o, y)
        /\ chlock' = [chlock EXCEPT ![t] = t] /\ matched' = matched \cup {new}
        /\ UNCHANGED <<sh, rq, shlock, conn, movin, cur, nsh, nrh, starts, recvs, spurious, sent>>
    BY <1>0, <1>1 DEF StartRecvMatched, Goto, TakesFirst, Posts, Finds, net, counts
  <1>3. received' = IF e.type = "MSGDAT_SEND"
                    THEN received \cup {[msg |-> new.msg, recv |-> new.recv, data |-> e.payload,
                                         cancelled |-> sh[e.sh].stat = "CANCEL"]}
                    ELSE received
    BY <1>0, <1>1 DEF StartRecvMatched
  <1>4. Typed /\ Bounded /\ HandlesOK /\ TokensOK /\ PlacesOK /\ OrderOK /\ ReceivedOK /\ RecvQueues /\ MatchedOK
    BY DEF Inv
  <1>5. /\ r \in RH /\ r[1] = t /\ rh[r] \in RecvHandle /\ RecvOK(r) /\ ReceiverOK(t)
    BY <1>0, <1>2, ReceiverFacts DEF RecvLocs
  <1>6. rh[r].stat = "CREATE"
    BY <1>0, <1>2, <1>5 DEF ReceiverOK, RecvLocs
  <1>7. /\ k \in Nat /\ posted[t] \in Nat /\ posted[t] < k /\ posted'[t] = k /\ posted' \in [Nodes -> Nat]
        /\ \A n \in Nodes : n # t => posted'[n] = posted[n]
        /\ \A n \in Nodes : posted'[n] \in Nat /\ posted[n] \in Nat /\ posted[n] <= posted'[n]
    BY <1>2, <1>4, PostsFacts
  <1>8. /\ e \in Messages /\ e.sh \in SH /\ h[1] \in Nodes /\ e \in Elems(sq[t])
        /\ <<<<"sq", t, t>>, e>> \in Tokens
    <2>1. sq[t] \in Seq(Messages)
      BY <1>4, TypesAre DEF TypeFacts
    <2>2. e \in Messages /\ e \in Elems(sq[t])
      BY <1>0, <1>2, <2>1, TailOf
    <2>3. e.sh \in SH /\ h[1] \in Nodes
      BY <1>0, <1>4, <2>2, TypesAre DEF TypeFacts
    <2> QED  BY <1>4, <2>2, <2>3, InQueue
  <1>9. Found(r, k, h, o, y)
    BY <1>0, <1>2, <1>5, <1>7, <1>8, FindsFacts
  <1>10. /\ o \in RecvHandle /\ o.msg = k /\ o.stat \in {"MATCH", "PEND_DATA"} /\ y \in Messages
         /\ y.sh = h /\ Payload(y) /\ y.type \in {"MSG_RECV", "MSGDAT_RECV"}
         /\ y.type = "MSG_RECV" => y.rh = r /\ o.stat = "PEND_DATA"
         /\ y.type = "MSGDAT_RECV" => y.rh = Nobody /\ o.stat = "MATCH"
    BY <1>9 DEF Found
  <1>11. TakenFirst(t, e, y)
    BY <1>2, <1>4, <1>10, QueueTake
  <1>12. pc'[t] = "answer" /\ pc[t] # "answer" /\ \A n \in Nodes : n # t => pc'[n] = pc[n]
    BY <1>2, <1>4 DEF Typed
  <1>13. /\ PlacesOK' /\ Tokens' = (Tokens \ {<<<<"sq", t, t>>, e>>}) \cup {<<<<"node", t, t>>, y>>}
    BY <1>2, <1>10, <1>11, <1>12, NodeTakes
  <1>14. PICK u, v : u = <<<<"sq", t, t>>, e>> /\ v = <<<<"node", t, t>>, y>>
    OBVIOUS
  <1>15. /\ u \in Tokens /\ Tokens' = (Tokens \ {u}) \cup {v} /\ u[1] = <<"sq", t, t>>
         /\ u[2] = e /\ v[1] = <<"node", t, t>> /\ v[2] = y
    BY <1>8, <1>13, <1>14
  <1>16. /\ Right(u[1], e) /\ NamesRecv(e) /\ Payload(e) /\ Started(e) /\ e.type \in Types
    BY <1>4, <1>15, TokenFacts
  <1>17. e.type \in Starting /\ sh[h].dest = t /\ sh[h].stat \in Early /\ e.rh = Nobody
    <2>1. e.type \in Starting
      BY <1>15, <1>16 DEF Right, Types, Starting
    <2>2. sh[h].dest = t /\ sh[h].stat \in Early
      BY <1>0, <1>15, <1>16, <2>1 DEF Right
    <2> QED  BY <1>16, <2>1, <2>2 DEF NamesRecv, Starting
  <1>18. rh' = [rh EXCEPT ![r] = o] /\ rh \in [RH -> RecvHandle]
    <2>1. rh \in [RH -> RecvHandle]
      BY <1>4 DEF Typed
    <2> QED  BY <1>0, <1>1, <1>2, <1>5, <2>1
  <1>19. rh'[r] = o /\ rh' \in [RH -> RecvHandle] /\ \A g \in RH : g # r => rh'[g] = rh[g]
    BY <1>5, <1>10, <1>18
  <1>20. RecvStarts(t, r, o, "answer")
    <2>1. o.msg <= posted'[t]
      BY <1>7, <1>10
    <2>2. o.type = rh[r].type /\ o.live = rh[r].live /\ o.held = rh[r].held
      BY <1>9 DEF Found
    <2> QED  BY <1>0, <1>2, <1>10, <1>18, <2>1, <2>2 DEF RecvStarts
  <1>21. /\ new \in [msg : Numbers, recv : Numbers] /\ new.recv = <<t, k>> /\ new \in matched'
         /\ new.msg = <<h[1], sh[h].msg>> /\ new = [msg |-> new.msg, recv |-> new.recv]
    <2>1. sh[h].msg \in Nat
      BY <1>0, <1>4, <1>8, TypesAre DEF TypeFacts
    <2> QED  BY <1>1, <1>2, <1>7, <1>8, <2>1 DEF Numbers
  <1>22. ASSUME NEW g \in received'
         PROVE  /\ g \in [msg : Numbers, recv : Numbers, data : {"none", "intact", "overwritten", "garbage"},
                                  cancelled : BOOLEAN]
                /\ [msg |-> g.msg, recv |-> g.recv] \in matched'
                /\ g.data # "overwritten" /\ (g.data = "garbage" => g.cancelled)
    <2>1. CASE g \in received
      BY <1>2, <1>4, <2>1 DEF Typed, ReceivedOK
    <2>2. CASE g \notin received
      <3>1. e.type = "MSGDAT_SEND" /\ g = [msg |-> new.msg, recv |-> new.recv, data |-> e.payload,
                                           cancelled |-> sh[e.sh].stat = "CANCEL"]
        BY <1>3, <2>2
      <3>2. e.payload = "intact"
        BY <1>16, <3>1 DEF Payload
      <3>3. [msg |-> g.msg, recv |-> g.recv] = new
        BY <1>21, <3>1
      <3> QED  BY <1>21, <3>1, <3>2, <3>3
    <2> QED  BY <2>1, <2>2
  <1>23. ReceivedOK'
    BY <1>22 DEF ReceivedOK
  <1>24. Typed'
    <2>1. matched' \subseteq [msg : Numbers, recv : Numbers]
      BY <1>2, <1>4, <1>21 DEF Typed
    <2>2. received' \subseteq [msg : Numbers, recv : Numbers, data : {"none", "intact", "overwritten", "garbage"},
                                  cancelled : BOOLEAN]
      BY <1>22
    <2>3. chlock' \in [Nodes -> Nodes \cup {Nobody}] /\ \A n \in Nodes : chlock'[n] \in {n, Nobody}
      BY <1>2, <1>4 DEF Typed
    <2>4. pc' \in [Nodes -> SendLocs \cup RecvLocs \cup {"idle"}]
      BY <1>2, <1>4 DEF Typed, RecvLocs
    <2>5. sq' \in [Nodes -> Seq(Messages)] /\ out' \in [Nodes -> Messages \cup {NoMSG}]
      BY <1>11 DEF TakenFirst
    <2> QED  BY <1>2, <1>4, <1>7, <1>19, <2>1, <2>2, <2>3, <2>4, <2>5 DEF Typed
  <1>25. HandlesOK'
    BY <1>2, <1>4, <1>7, <1>20, <1>24, ReceiveStarts
  <1>26. Bounded'
    <2>1. nrh[t] \in Nat /\ posted[t] < nrh[t]
      BY <1>2, <1>4, TypesAre DEF TypeFacts, Bounded
    <2>2. k <= nrh[t]
      BY <1>0, <1>7, <2>1
    <2>3. \A n \in Nodes : posted'[n] <= nrh[n]
      BY <1>4, <1>7, <2>2 DEF Bounded
    <2>4. \A n \in Nodes : pc'[n] = "start_rh" => n # t /\ posted'[n] < nrh[n]
      BY <1>4, <1>7, <1>12 DEF Bounded
    <2>5. \A n \in Nodes : pc'[n] = "start_sh" => pc[n] = "start_sh"
      BY <1>12
    <2> QED  BY <1>2, <1>4, <2>3, <2>4, <2>5 DEF Bounded
  <1>27. Right(v[1], v[2])'
    BY <1>2, <1>10, <1>15, <1>17 DEF Right, Starting
  <1>28. NamesRecv(v[2])' /\ Payload(v[2])' /\ Started(v[2])'
    <2>1. NamesRecv(y)'
      <3>1. Pair(h, r)' = new
        BY <1>1, <1>2, <1>5, <1>10, <1>19 DEF Pair
      <3> QED  BY <1>2, <1>5, <1>10, <1>17, <1>19, <1>21, <3>1 DEF NamesRecv
    <2>2. Payload(y)' /\ Started(y)'
      BY <1>0, <1>2, <1>10, <1>16 DEF Payload, Started
    <2> QED  BY <1>15, <2>1, <2>2
  <1>29. Moves({u}, {v})
    <2>1. v[2].sh = u[2].sh /\ u[2].rh = Nobody /\ (v[2].rh = Nobody \/ (v[2].rh = r /\ rh[r].stat \notin Data))
      BY <1>0, <1>6, <1>10, <1>15, <1>17 DEF Data
    <2>2. \A g \in RH : rh'[g].stat \in Data => g = v[2].rh \/ (rh[g].stat \in Data /\ g # u[2].rh)
      <3> TAKE g \in RH
      <3>1. g # Nobody
        BY <1>4, TypesAre DEF TypeFacts
      <3>2. CASE g = r
        BY <1>10, <1>15, <1>19, <3>2 DEF Data
      <3>3. CASE g # r
        BY <1>19, <2>1, <3>1, <3>3
      <3> QED  BY <3>2, <3>3
    <2>3. \A g \in RH : g # u[2].rh /\ rh[g].stat \in Data => rh'[g] = rh[g]
      BY <1>6, <1>19 DEF Data
    <2>4. v[2].rh \in {u[2].rh, Nobody} \/ (v[2].rh \in RH /\ rh[v[2].rh].stat \notin Data)
      BY <1>5, <2>1
    <2>5. sh' = sh
      BY <1>2
    <2> QED  BY <1>4, <1>15, <1>27, <1>28, <2>1, <2>2, <2>3, <2>4, <2>5, OneMove
  <1>30. SendsKept
    BY <1>2 DEF SendsKept
  <1>31. Ordered'
    <2>1. \A n \in Nodes : sq'[n] = sq[n] \/ (sq[n] # <<>> /\ sq'[n] = Tail(sq[n]))
      BY <1>11 DEF TakenFirst
    <2> QED  BY <1>2, <1>4, <1>24, <1>30, <2>1, QueuesRise
  <1>32. RecvQueues'
    <2>1. rh[r].stat \notin Queue /\ rh'[r].stat \notin Queue
      BY <1>6, <1>10, <1>19 DEF Queue
    <2>2. matched' = matched \cup {new} /\ new.recv[1] = t /\ rq' = rq /\ sq[t] # <<>>
      BY <1>2, <1>21
    <2> QED  BY <1>4, <1>5, <1>11, <1>19, <2>1, <2>2, RecvQueuesMatched
  <1>33. \A g \in Announced : g # h /\ Alike(sh, h, g) => sh[h].msg < sh[g].msg
    <2>1. e = sq[t][1]
      BY <1>11 DEF TakenFirst
    <2> QED  BY <1>0, <1>2, <1>4, <1>8, <1>17, <2>1, FirstInQueue
  <1>34. \A z \in matched : z.recv[1] = sh[h].dest => z.recv[2] < k
    <2> TAKE z \in matched
    <2>1. z.recv[2] \in Nat /\ z.recv[2] <= posted[z.recv[1]]
      BY <1>4, TypesAre DEF TypeFacts, MatchedOK
    <2> QED  BY <1>7, <1>17, <2>1
  <1>35. /\ k <= posted'[sh[h].dest] /\ u[2].type \in Starting /\ v[2].type \notin Starting /\ h = u[2].sh
         /\ matched' = matched \cup {[msg |-> <<h[1], sh[h].msg>>, recv |-> <<sh[h].dest, k>>]}
         /\ UNCHANGED <<nsh, sent>>
    <2>1. k <= posted'[sh[h].dest]
      BY <1>7, <1>17
    <2>2. u[2].type \in Starting /\ v[2].type \notin Starting /\ h = u[2].sh
      BY <1>0, <1>10, <1>15, <1>17 DEF Starting
    <2>3. new = [msg |-> <<h[1], sh[h].msg>>, recv |-> <<sh[h].dest, k>>]
      BY <1>17, <1>21
    <2>4. matched' = matched \cup {new} /\ UNCHANGED <<nsh, sent>>
      BY <1>2
    <2> QED  BY <2>1, <2>2, <2>3, <2>4
  <1>36. \A n \in Nodes : posted'[n] \in Nat /\ posted[n] <= posted'[n]
    BY <1>7
  <1>37. k \in Nat /\ u \in Tokens
    BY <1>7, <1>15
  <1> QED  BY <1>13, <1>23, <1>24, <1>25, <1>26, <1>29, <1>30, <1>31, <1>32, <1>33, <1>34, <1>35,
              <1>36, <1>37, MatchingMove

----------------------------------------------------------------------------
(* Starting sends. *)

\* What a send is like when it starts, and the message that goes out for it.
Begins(h, k, s, x) ==
  /\ s = [sh[h] EXCEPT !.stat = "PEND_STRT", !.msg = k]
  /\ x = IF s.long THEN MSG("MSG_SEND", h, Nobody, "none") ELSE MSG("MSGDAT_SEND", h, Nobody, Content(s))
Begun(h, k, s, x) ==
  /\ s \in SendHandle /\ s.stat = "PEND_STRT" /\ s.msg = k /\ s.type = sh[h].type /\ s.mode = sh[h].mode
  /\ s.dest = sh[h].dest /\ s.sys_buf = sh[h].sys_buf /\ s.curdata = "user"
  /\ s.live = sh[h].live /\ s.held = sh[h].held
  /\ x \in Messages /\ x.sh = h /\ x.rh = Nobody /\ x.type \in Starting /\ Payload(x) /\ x.payload # "garbage"

LEMMA BeginsFacts ==
  ASSUME NEW h \in SH, sh[h] \in SendHandle, sh[h].curdata = "user", NEW k \in Nat, NEW s, NEW x,
         Begins(h, k, s, x)
  PROVE  Begun(h, k, s, x)
  <1>1. s = [sh[h] EXCEPT !.stat = "PEND_STRT", !.msg = k]
    BY DEF Begins
  <1>2. /\ s \in SendHandle /\ s.stat = "PEND_STRT" /\ s.msg = k /\ s.type = sh[h].type
        /\ s.mode = sh[h].mode /\ s.dest = sh[h].dest /\ s.sys_buf = sh[h].sys_buf
        /\ s.curdata = "user" /\ s.live = sh[h].live /\ s.held = sh[h].held
    BY <1>1 DEF SendHandle, Stats, PEND
  <1>3. Content(s) = "intact"
    BY <1>2 DEF Content
  <1>4. x \in Messages /\ x.sh = h /\ x.rh = Nobody /\ x.type \in Starting /\ Payload(x) /\ x.payload # "garbage"
    <2>1. CASE s.long
      <3>1. x = [type |-> "MSG_SEND", sh |-> h, rh |-> Nobody, payload |-> "none"]
        BY <2>1 DEF Begins, MSG
      <3> QED  BY <3>1 DEF Messages, Types, Starting, Payload
    <2>2. CASE ~s.long
      <3>1. x = [type |-> "MSGDAT_SEND", sh |-> h, rh |-> Nobody, payload |-> "intact"]
        BY <1>3, <2>2 DEF Begins, MSG
      <3> QED  BY <3>1 DEF Messages, Types, Starting, Payload
    <2> QED  BY <2>1, <2>2
  <1> QED  BY <1>2, <1>4 DEF Begun

\* The send is one more in the history of its node.
Counts(t, k, b) == k = Len(sent[t]) + 1 /\ sent' = [sent EXCEPT ![t] = Append(@, b)]
Counted(t, k, b) ==
  /\ k \in Nat /\ Len(sent[t]) \in Nat /\ Len(sent[t]) < k /\ k = Len(sent[t]) + 1
  /\ sent' \in [Nodes -> Seq([dest : Nodes, mode : Modes])]
  /\ Len(sent'[t]) = k /\ sent'[t][k] = b
  /\ \A n \in Nodes : /\ n # t => sent'[n] = sent[n]
                      /\ Len(sent[n]) <= Len(sent'[n])
                      /\ \A i \in 1..Len(sent[n]) : sent'[n][i] = sent[n][i]

LEMMA CountsFacts ==
  ASSUME Typed, NEW t \in Nodes, NEW k, NEW b \in [dest : Nodes, mode : Modes], Counts(t, k, b)
  PROVE  Counted(t, k, b)
  <1>1. PICK s : s = sent[t]
    OBVIOUS
  <1>2. sent \in [Nodes -> Seq([dest : Nodes, mode : Modes])] /\ s \in Seq([dest : Nodes, mode : Modes])
    BY <1>1 DEF Typed
  <1>3. /\ Append(s, b) \in Seq([dest : Nodes, mode : Modes]) /\ Len(s) \in Nat
        /\ Len(Append(s, b)) = Len(s) + 1
        /\ \A i \in 1..Len(s) : Append(s, b)[i] = s[i]
        /\ Append(s, b)[Len(s) + 1] = b
    BY <1>2, AppendTo
  <1>4. k = Len(s) + 1 /\ sent' = [sent EXCEPT ![t] = Append(s, b)]
    BY <1>1 DEF Counts
  <1>5. k \in Nat /\ Len(s) < k /\ sent' \in [Nodes -> Seq([dest : Nodes, mode : Modes])] /\ sent'[t] = Append(s, b)
    <2>1. k \in Nat /\ Len(s) < k
      BY <1>3, <1>4
    <2>2. sent'[t] = Append(s, b)
      BY <1>2, <1>4
    <2>3. sent' \in [Nodes -> Seq([dest : Nodes, mode : Modes])]
      <3>1. PICK S : S = Seq([dest : Nodes, mode : Modes])
        OBVIOUS
      <3>2. sent \in [Nodes -> S] /\ Append(s, b) \in S
        BY <1>2, <1>3, <3>1
      <3>3. sent' \in [Nodes -> S]
        BY <1>4, <3>2
      <3> QED  BY <3>1, <3>3
    <2> QED  BY <2>1, <2>2, <2>3
  <1>6. ASSUME NEW n \in Nodes
        PROVE  /\ n # t => sent'[n] = sent[n]
               /\ Len(sent[n]) <= Len(sent'[n])
               /\ \A i \in 1..Len(sent[n]) : sent'[n][i] = sent[n][i]
    <2>1. CASE n = t
      <3>1. sent[n] = s /\ sent'[n] = Append(s, b)
        BY <1>1, <1>5, <2>1
      <3>2. Len(s) <= Len(Append(s, b))
        BY <1>3
      <3> QED  BY <1>3, <2>1, <3>1, <3>2
    <2>2. CASE n # t
      <3>1. sent'[n] = sent[n] /\ Len(sent[n]) \in Nat
        BY <1>2, <1>4, <2>2, TypesAre DEF TypeFacts
      <3> QED  BY <3>1
    <2> QED  BY <2>1, <2>2
  <1> QED  BY <1>1, <1>3, <1>4, <1>5, <1>6 DEF Counted

\* The handle of a send that starts.
LEMMA SendStarts ==
  ASSUME Inv, Typed', NEW t \in Nodes, pc[t] = "start_sh", NEW h, h = cur[t], NEW k, NEW s, NEW x,
         Begun(h, k, s, x), sh'[h] = s, \A g \in SH : g # h => sh'[g] = sh[g],
         pc'[t] = AfterStartSend(h), \A n \in Nodes : n # t => pc'[n] = pc[n],
         UNCHANGED <<rh, nsh, nrh, cur, posted>>
  PROVE  HandlesOK'
  <1>1. /\ h \in SH /\ h[1] = t /\ h[2] <= nsh[t] /\ ~(h[2] > nsh[t]) /\ SendOK(h) /\ SenderOK(t)
        /\ sh[h].live /\ Typed /\ HandlesOK
    BY SenderFacts DEF SendLocs
  <1>2. sh[h].stat \in {"CREATE", "FREE"}
    BY <1>1 DEF SenderOK, SendLocs
  <1>3. /\ s.stat = "PEND_STRT" /\ s.type = sh[h].type /\ s.mode = sh[h].mode
        /\ s.dest = sh[h].dest /\ s.sys_buf = sh[h].sys_buf /\ s.curdata = "user"
        /\ s.live = sh[h].live /\ s.held = sh[h].held
    BY DEF Begun
  <1>4. pc'[t] = IF s.type = "SEND" THEN "enter_wait_sh" ELSE "idle"
    BY <1>3 DEF AfterStartSend
  <1>5. SendOK(h)'
    <2>1. s.type = "SEND" => UsesSend(h[1], h)'
      BY <1>1, <1>4 DEF UsesSend, SendLocs
    <2>2. /\ s.dest \in Nodes /\ Mac[h[1]] # Mac[s.dest]
          /\ s.type = "PERSISTENT" => s.mode \in {"SYNC", "READY"}
          /\ s.mode = "READY" /\ "cancel" \in RequestCalls => s.type = "SEND"
          /\ s.mode = "BUFFERED" => s.sys_buf
          /\ s.sys_buf => s.mode \in {"STANDARD", "BUFFERED"}
          /\ s.held <=> s.type # "SEND"
          /\ s.live
      BY <1>1, <1>2, <1>3 DEF SendOK
    <2>3. ~(h[2] > nsh'[h[1]]) /\ sh'[h] = s
      BY <1>1
    <2> QED  BY <1>3, <2>1, <2>2, <2>3 DEF SendOK
  <1>6. SenderOK(t)'
    <2>1. cur'[t] = h /\ sh'[h] = s /\ h[2] <= nsh'[t] /\ s.live
      BY <1>1, <1>3
    <2> QED  BY <1>1, <1>3, <1>4, <2>1 DEF SenderOK, SendLocs, PEND
  <1>7. (\A g \in SH : SendOK(g)') /\ (\A n \in Nodes : SenderOK(n)')
    <2>1. (pc[t] \in SendLocs => cur[t] = h) /\ (pc'[t] \in SendLocs => cur'[t] = h)
      OBVIOUS
    <2>2. \A n \in Nodes : n # t => pc'[n] = pc[n] /\ cur'[n] = cur[n] /\ nsh'[n] = nsh[n]
      OBVIOUS
    <2>3. \A g \in SH : g # h /\ g[1] = t => (g[2] <= nsh'[t] <=> g[2] <= nsh[t])
      OBVIOUS
    <2> QED  BY <1>1, <1>5, <1>6, <2>1, <2>2, <2>3, SendSide
  <1>8. (\A g \in RH : RecvOK(g)') /\ (\A n \in Nodes : ReceiverOK(n)')
    <2>1. \A n \in Nodes : \/ pc'[n] = pc[n] /\ cur'[n] = cur[n]
                           \/ pc[n] \notin RecvLocs /\ pc'[n] \notin RecvLocs
      BY <1>4 DEF RecvLocs
    <2> QED  BY <1>1, <2>1, RecvQuiet
  <1> QED  BY <1>7, <1>8 DEF HandlesOK

\* A message that starts an exchange is the last of its kind.
LEMMA OrderNew ==
  ASSUME Typed, HandlesOK, TokensOK, OrderOK, MatchedOK, NEW t \in Nodes, NEW h \in SH, h[1] = t,
         NEW k, NEW b, Counted(t, k, b), NEW q \in Machines, NEW x \in Messages, x.sh = h, x.type \in Starting,
         PutOn(Mac[t], q, x), sq' = sq, matched' = matched, \A u \in Tokens : u[2].sh # h,
         \A g \in SH : g # h => sh'[g] = sh[g], sh'[h].msg = k,
         Announced' = Announced \cup {h}
  PROVE  OrderOK'
  <1>1. ASSUME NEW u \in Tokens
        PROVE  u[2].sh \in SH /\ sh'[u[2].sh] = sh[u[2].sh] /\ u[2].sh # h
    <2>1. u[2].sh \in SH /\ u[2].sh # h
      BY TokenFacts
    <2> QED  BY <2>1
  <1>2. ASSUME NEW u \in Tokens, u[2].sh[1] = t
        PROVE  sh'[u[2].sh].msg < k
    <2>1. sh[u[2].sh].msg \in 1..Len(sent[t])
      BY <1>2, TokenFacts
    <2>2. Len(sent[t]) \in Nat /\ Len(sent[t]) < k /\ k \in Nat
      BY DEF Counted
    <2>3. sh[u[2].sh].msg < k
      BY <2>1, <2>2
    <2> QED  BY <1>1, <2>3
  <1>3. ASSUME NEW a \in Machines, NEW c \in Machines, NEW z \in Elems(conn[a][c])
        PROVE  /\ sh'[z.sh] = sh[z.sh] /\ z.sh # h
               /\ Alike(sh', z.sh, h) \/ Alike(sh', h, z.sh) => sh'[z.sh].msg < k
    <2>1. PICK u : u = <<<<"conn", a, c>>, z>>
      OBVIOUS
    <2>2. u \in Tokens /\ u[2] = z
      BY <2>1, InConn
    <2>3. sh'[z.sh] = sh[z.sh] /\ z.sh # h /\ (z.sh[1] = t => sh'[z.sh].msg < k)
      BY <1>1, <1>2, <2>2
    <2> QED  BY <2>3 DEF Alike
  <1>4. ASSUME NEW n \in Nodes, NEW z \in Elems(sq[n])
        PROVE  /\ sh'[z.sh] = sh[z.sh] /\ z.sh # h
               /\ Alike(sh', z.sh, h) => sh'[z.sh].msg < k
    <2>1. PICK u : u = <<<<"sq", n, n>>, z>>
      OBVIOUS
    <2>2. u \in Tokens /\ u[2] = z
      BY <2>1, InQueue
    <2>3. sh'[z.sh] = sh[z.sh] /\ z.sh # h /\ (z.sh[1] = t => sh'[z.sh].msg < k)
      BY <1>1, <1>2, <2>2
    <2> QED  BY <2>3 DEF Alike
  <1>5. ASSUME NEW a \in Machines, NEW c \in Machines PROVE Rising(sh', conn'[a][c])
    <2>1. conn[a][c] \in Seq(Messages) /\ Rising(sh, conn[a][c])
      BY TypesAre DEF TypeFacts, OrderOK, Ordered
    <2>2. \A z \in Elems(conn[a][c]) : sh'[z.sh].msg = sh[z.sh].msg /\ sh'[z.sh].dest = sh[z.sh].dest
      BY <1>3
    <2>3. Rising(sh', conn[a][c])
      BY <2>1, <2>2, RisingKept
    <2>4. CASE conn'[a][c] = conn[a][c]
      BY <2>3, <2>4
    <2>5. CASE conn'[a][c] = Append(conn[a][c], x)
      <3>1. \A z \in Elems(conn[a][c]) :
              x.type \in Starting /\ z.type \in Starting /\ Alike(sh', z.sh, x.sh) =>
                sh'[z.sh].msg < sh'[x.sh].msg
        BY <1>3
      <3>2. Rising(sh', Append(conn[a][c], x))
        BY <2>1, <2>3, <3>1, RisingAppend
      <3> QED  BY <2>5, <3>2
    <2> QED  BY <2>4, <2>5 DEF PutOn
  <1>6. ASSUME NEW n \in Nodes PROVE Rising(sh', sq'[n])
    <2>1. Rising(sh, sq[n])
      BY DEF OrderOK, Ordered
    <2>2. \A z \in Elems(sq[n]) : sh'[z.sh].msg = sh[z.sh].msg /\ sh'[z.sh].dest = sh[z.sh].dest
      BY <1>4
    <2>3. Rising(sh', sq[n])
      BY <2>1, <2>2, RisingKept
    <2> QED  BY <2>3
  <1>7. ASSUME NEW n \in Nodes, NEW a \in Machines, NEW c \in Machines,
               NEW w \in Elems(sq'[n]), NEW z \in Elems(conn'[a][c]),
               z.type \in Starting, Alike(sh', w.sh, z.sh)
        PROVE  sh'[w.sh].msg < sh'[z.sh].msg
    <2>1. w \in Elems(sq[n]) /\ sh'[w.sh] = sh[w.sh]
      BY <1>4
    <2>2. z \in Messages
      <3>1. conn'[a][c] \in Seq(Messages)
        BY DEF PutOn
      <3> QED  BY <3>1, ElemsIn
    <2>3. z \in Elems(conn[a][c]) \/ z = x
      BY <2>2 DEF PutOn
    <2>4. CASE z = x
      BY <1>4, <1>7, <2>1, <2>4
    <2>5. CASE z \in Elems(conn[a][c])
      <3>1. sh'[z.sh] = sh[z.sh]
        BY <1>3, <2>5
      <3>2. Alike(sh, w.sh, z.sh)
        BY <1>7, <2>1, <3>1 DEF Alike
      <3>3. sh[w.sh].msg < sh[z.sh].msg
        BY <1>7, <2>1, <2>5, <3>2 DEF OrderOK, Ordered
      <3> QED  BY <2>1, <3>1, <3>3
    <2> QED  BY <2>3, <2>4, <2>5
  <1>8. Ordered'
    BY <1>5, <1>6, <1>7 DEF Ordered
  <1>9. ASSUME NEW g \in Announced PROVE g # h /\ g \in SH /\ sh'[g] = sh[g]
    <2>1. PICK u \in Tokens : u[2].sh = g
      BY DEF Announced
    <2> QED  BY <1>1, <2>1
  <1>10. ASSUME NEW g \in Announced', NEW y \in matched', y.msg[1] = g[1], y.recv[1] = sh'[g].dest
         PROVE  y.msg[2] < sh'[g].msg
    <2>1. CASE g \in Announced
      <3>1. sh'[g] = sh[g]
        BY <1>9, <2>1
      <3> QED  BY <1>10, <2>1, <3>1 DEF OrderOK
    <2>2. CASE g = h
      <3>1. y.msg[2] \in 1..Len(sent[t])
        BY <1>10, <2>2 DEF MatchedOK
      <3>2. Len(sent[t]) \in Nat /\ Len(sent[t]) < k /\ k \in Nat
        BY DEF Counted
      <3>3. y.msg[2] < k
        BY <3>1, <3>2
      <3> QED  BY <2>2, <3>3
    <2> QED  BY <2>1, <2>2
  <1>11. ASSUME NEW n \in Nodes, NEW i \in 1..Len(sent'[n])
         PROVE  \/ sent'[n][i].mode = "READY"
                \/ \E y \in matched' : y.msg = <<n, i>>
                \/ \E g \in Announced' : g[1] = n /\ sh'[g].msg = i
    <2>1. CASE i \in 1..Len(sent[n])
      <3>1. sent'[n][i] = sent[n][i]
        BY <2>1 DEF Counted
      <3>2. \/ sent[n][i].mode = "READY"
            \/ \E y \in matched : y.msg = <<n, i>>
            \/ \E g \in Announced : g[1] = n /\ sh[g].msg = i
        BY ZenonT(40), <2>1 DEF OrderOK
      <3>3. CASE \E g \in Announced : g[1] = n /\ sh[g].msg = i
        <4>1. PICK g \in Announced : g[1] = n /\ sh[g].msg = i
          BY <3>3
        <4>2. g \in Announced' /\ sh'[g].msg = i
          BY <1>9, <4>1
        <4> QED  BY <4>1, <4>2
      <3> QED  BY <3>1, <3>2, <3>3
    <2>2. CASE i \notin 1..Len(sent[n])
      <3>1. n = t
        BY <2>2 DEF Counted
      <3>2. Len(sent'[t]) = k /\ Len(sent[t]) \in Nat /\ k = Len(sent[t]) + 1
        BY DEF Counted
      <3>3. i = k
        BY <2>2, <3>1, <3>2
      <3>4. h \in Announced' /\ h[1] = n /\ sh'[h].msg = i
        BY <3>1, <3>3
      <3> QED  BY <3>4
    <2> QED  BY <2>1, <2>2
  <1> QED  BY <1>8, <1>10, <1>11 DEF OrderOK

\* What has been matched stays so when one more send is counted.
LEMMA MatchedNew ==
  ASSUME Typed, MatchedOK, NEW t \in Nodes, NEW k, NEW b, Counted(t, k, b),
         UNCHANGED <<matched, posted>>
  PROVE  MatchedOK'
  <1>1. ASSUME NEW y \in matched
        PROVE  /\ y.msg[1] \in Nodes /\ y.msg[2] \in 1..Len(sent[y.msg[1]]) /\ Len(sent[y.msg[1]]) \in Nat
               /\ Len(sent'[y.msg[1]]) \in Nat
               /\ Len(sent[y.msg[1]]) <= Len(sent'[y.msg[1]])
               /\ \A i \in 1..Len(sent[y.msg[1]]) : sent'[y.msg[1]][i] = sent[y.msg[1]][i]
    <2>1. y.msg[1] \in Nodes /\ y.msg[2] \in 1..Len(sent[y.msg[1]]) /\ Len(sent[y.msg[1]]) \in Nat
      BY TypesAre DEF TypeFacts, MatchedOK
    <2>2. sent'[y.msg[1]] \in Seq([dest : Nodes, mode : Modes])
      BY <2>1 DEF Counted
    <2>3. Len(sent'[y.msg[1]]) \in Nat
      BY <2>2, LenProperties
    <2> QED  BY <2>1, <2>3 DEF Counted
  <1>2. ASSUME NEW y \in matched
        PROVE  /\ y.msg[2] \in 1..Len(sent'[y.msg[1]]) /\ sent'[y.msg[1]][y.msg[2]].dest = y.recv[1]
               /\ y.recv[2] <= posted'[y.recv[1]]
    <2>1. y.msg[2] \in 1..Len(sent'[y.msg[1]])
      BY <1>1
    <2>2. sent'[y.msg[1]][y.msg[2]] = sent[y.msg[1]][y.msg[2]]
      BY <1>1
    <2> QED  BY <2>1, <2>2 DEF MatchedOK
  <1>3. NonOvertaking'
    <2> SUFFICES ASSUME NEW y \in matched, NEW i \in 1..(y.msg[2] - 1),
                        sent'[y.msg[1]][i].dest = y.recv[1]
                 PROVE  /\ \A x \in {z \in matched : z.msg = <<y.msg[1], i>>} : x.recv[2] < y.recv[2]
                        /\ {z \in matched : z.msg = <<y.msg[1], i>>} = {} => sent'[y.msg[1]][i].mode = "READY"
      BY DEF NonOvertaking
    <2>1. y.msg[2] \in 1..Len(sent[y.msg[1]]) /\ Len(sent[y.msg[1]]) \in Nat
      BY <1>1
    <2>2. i \in 1..Len(sent[y.msg[1]])
      BY <2>1
    <2>3. sent'[y.msg[1]][i] = sent[y.msg[1]][i]
      BY <1>1, <2>2
    <2> QED  BY <2>3 DEF MatchedOK, NonOvertaking
  <1>4. \A x, y \in matched : x.msg = y.msg <=> x.recv = y.recv
    BY DEF MatchedOK
  <1> QED  BY <1>2, <1>3, <1>4 DEF MatchedOK

LEMMA StepStartSend ==
  ASSUME Inv, NEW t \in Nodes, StartSend(t)
  PROVE  Inv'
  <1>0. PICK h, k, d, b : /\ h = cur[t] /\ k = Len(sent[t]) + 1 /\ d = sh[h].dest
                          /\ b = [dest |-> sh[h].dest, mode |-> sh[h].mode]
    OBVIOUS
  <1>1. PICK s, x :
          /\ s = [sh[h] EXCEPT !.stat = "PEND_STRT", !.msg = k]
          /\ x = IF s.long THEN MSG("MSG_SEND", h, Nobody, "none")
                           ELSE MSG("MSGDAT_SEND", h, Nobody, Content(s))
    OBVIOUS
  <1>2. /\ pc[t] = "start_sh" /\ pc' = [pc EXCEPT ![t] = AfterStartSend(h)] /\ netq_send(Mac[t], x)
        /\ Begins(h, k, s, x) /\ sh' = [sh EXCEPT ![h] = s] /\ Counts(t, k, b) /\ starts' = starts + 1
        /\ UNCHANGED <<rh, sq, rq, chlock, shlock, movin, cur, out, nsh, nrh, recvs, spurious,
                       posted, matched, received>>
    BY <1>0, <1>1 DEF StartSend, Goto, Begins, Counts, queues, locks
  <1>3. Typed /\ Bounded /\ HandlesOK /\ TokensOK /\ PlacesOK /\ OrderOK /\ ReceivedOK /\ RecvQueues /\ MatchedOK
    BY DEF Inv
  <1>4. /\ h \in SH /\ h[1] = t /\ h[2] <= nsh[t] /\ ~(h[2] > nsh[t]) /\ SendOK(h) /\ SenderOK(t)
        /\ sh[h].live /\ sh[h] \in SendHandle
    BY <1>0, <1>2, SenderFacts DEF SendLocs
  <1>5. sh[h].stat \in {"CREATE", "FREE"}
    BY <1>0, <1>2, <1>4 DEF SenderOK, SendLocs
  <1>6. sh[h].curdata = "user" /\ d \in Nodes /\ Mac[t] # Mac[d] /\ Mac[t] \in Machines /\ Mac[d] \in Machines
    <2>1. sh[h].curdata = "user" /\ d \in Nodes /\ Mac[t] # Mac[d]
      BY <1>0, <1>4, <1>5 DEF SendOK
    <2> QED  BY <2>1, RemoteAssumption
  <1>7. Counted(t, k, b)
    <2>1. sh[h].mode \in Modes
      BY <1>4 DEF SendHandle
    <2>2. b \in [dest : Nodes, mode : Modes]
      BY <1>0, <1>6, <2>1
    <2> QED  BY <1>2, <1>3, <2>2, CountsFacts
  <1>8. Begun(h, k, s, x)
    <2>1. k \in Nat
      BY <1>7 DEF Counted
    <2> QED  BY <1>2, <1>4, <1>6, <2>1, BeginsFacts
  <1>9. /\ s \in SendHandle /\ s.stat = "PEND_STRT" /\ s.msg = k /\ s.mode = sh[h].mode /\ s.dest = d
        /\ x \in Messages /\ x.sh = h /\ x.rh = Nobody /\ x.type \in Starting /\ Payload(x) /\ x.payload # "garbage"
    BY <1>0, <1>8 DEF Begun
  <1>10. sh'[h] = s /\ sh' \in [SH -> SendHandle] /\ \A g \in SH : g # h => sh'[g] = sh[g]
    BY <1>2, <1>3, <1>4, <1>9 DEF Typed
  <1>11. ASSUME NEW u \in Tokens PROVE u[2].sh # h /\ u[2].sh \in SH
    <2>1. Awaiting(u[2].sh) /\ u[2].sh \in SH
      BY <1>3, TokenFacts
    <2> QED  BY <1>5, <2>1 DEF Awaiting, Early, Late
  <1>12. PICK m, q : m = Mac[t] /\ q = Mac[d]
    OBVIOUS
  <1>13. PutOn(m, q, x)
    <2>1. Target(x) = q
      BY <1>0, <1>9, <1>12 DEF Target, Starting
    <2>2. Len(conn[m][q]) < Capacity /\ conn' = [conn EXCEPT ![m][q] = Append(@, x)]
      BY <1>2, <1>12, <2>1 DEF netq_send, Room
    <2>3. \A z \in Elems(conn[m][q]) : z.sh # x.sh
      <3> TAKE z \in Elems(conn[m][q])
      <3>1. PICK u : u = <<<<"conn", m, q>>, z>>
        OBVIOUS
      <3>2. u \in Tokens /\ u[2] = z
        BY <1>3, <1>6, <1>12, <3>1, InConn
      <3> QED  BY <1>9, <1>11, <3>2
    <2> QED  BY <1>3, <1>6, <1>9, <1>12, <2>2, <2>3, ConnSend
  <1>14. /\ pc'[t] = AfterStartSend(h) /\ pc'[t] \in {"enter_wait_sh", "idle"}
         /\ \A n \in Nodes : n # t => pc'[n] = pc[n]
    BY <1>2, <1>3 DEF Typed, AfterStartSend
  <1>15. Typed'
    <2>1. pc' \in [Nodes -> SendLocs \cup RecvLocs \cup {"idle"}]
      <3>1. AfterStartSend(h) \in SendLocs \cup RecvLocs \cup {"idle"}
        BY DEF AfterStartSend, SendLocs
      <3> QED  BY <1>2, <1>3, <3>1 DEF Typed
    <2>2. conn' \in [Machines -> [Machines -> Seq(Messages)]]
      BY <1>13 DEF PutOn
    <2>3. sent' \in [Nodes -> Seq([dest : Nodes, mode : Modes])]
      BY <1>7 DEF Counted
    <2>4. starts' \in Nat
      BY <1>2, <1>3 DEF Typed
    <2> QED  BY <1>2, <1>3, <1>10, <2>1, <2>2, <2>3, <2>4 DEF Typed
  <1>16. HandlesOK'
    BY <1>0, <1>2, <1>8, <1>10, <1>14, <1>15, SendStarts
  <1>17. Bounded'
    <2>1. \A a, c \in Machines : Len(conn'[a][c]) <= Capacity
      BY <1>3, <1>13 DEF Bounded, PutOn
    <2>2. ASSUME NEW n \in Nodes
          PROVE  Len(sent'[n]) <= starts' /\ Len(sent'[n]) <= MaxStarts
      <3>1. /\ Len(sent[n]) <= starts /\ Len(sent[n]) <= MaxStarts /\ Len(sent[n]) \in Nat /\ starts \in Nat
            /\ n = t => Len(sent[n]) < MaxStarts
        BY <1>2, <1>3, TypesAre DEF Bounded, TypeFacts, Typed
      <3>2. MaxStarts \in Nat
        BY RemoteAssumption
      <3>3. (n = t /\ Len(sent'[n]) = Len(sent[n]) + 1) \/ Len(sent'[n]) = Len(sent[n])
        BY <1>7 DEF Counted
      <3> QED  BY <1>2, <3>1, <3>2, <3>3
    <2>3. \A n \in Nodes : pc'[n] = "start_sh" => Len(sent'[n]) < MaxStarts
      <3> SUFFICES ASSUME NEW n \in Nodes, pc'[n] = "start_sh" PROVE Len(sent'[n]) < MaxStarts
        OBVIOUS
      <3>1. n # t /\ pc[n] = "start_sh"
        BY <1>14
      <3>2. sent'[n] = sent[n]
        BY <1>7, <3>1 DEF Counted
      <3> QED  BY <1>3, <3>1, <3>2 DEF Bounded
    <2>4. \A n \in Nodes : pc'[n] = "start_rh" => pc[n] = "start_rh"
      BY <1>14
    <2> QED  BY <1>2, <1>3, <2>1, <2>2, <2>3, <2>4 DEF Bounded
  <1>18. PICK v : v = <<<<"conn", m, q>>, x>>
    OBVIOUS
  <1>19. v[1] = <<"conn", m, q>> /\ v[2] = x
    BY <1>18
  <1>20. Tokens' = (Tokens \ {}) \cup {v}
    <2>1. \A n \in Nodes : pc'[n] = "answer" <=> pc[n] = "answer"
      BY <1>2, <1>14
    <2>2. ConnMove({}, {v})
      <3>1. \A a, c \in Machines : \A z \in Messages :
              z \in Elems(conn'[a][c]) <=> z \in Elems(conn[a][c]) \/ (a = m /\ c = q /\ z = x)
        BY <1>13 DEF PutOn
      <3> QED  BY <1>18, <3>1 DEF ConnMove
    <2>3. QueueMove({}, {v}) /\ MovinMove({}, {v})
      BY <1>2, <1>18 DEF QueueMove, MovinMove
    <2>4. NodeMove({}, {v})
      BY <1>2, <1>18, <2>1 DEF NodeMove
    <2>5. Put({v})
      <3>1. <<"conn", m, q>> \in Places
        BY <1>6, <1>12 DEF Places
      <3>2. v[1][1] = "conn" /\ v[1][2] = m /\ v[1][3] = q /\ v \in Places \X Messages
        BY <1>9, <1>18, <3>1
      <3> QED  BY <1>6, <1>12, <3>2 DEF Put
    <2> QED  BY <2>2, <2>3, <2>4, <2>5, TokensMove
  <1>21. HistoryGrows
    <2>1. \A n \in Nodes : nsh[n] <= nsh'[n]
      BY <1>2, <1>3, TypesAre DEF TypeFacts
    <2>2. \A n \in Nodes : Len(sent[n]) <= Len(sent'[n]) /\ \A i \in 1..Len(sent[n]) : sent'[n][i] = sent[n][i]
      BY <1>7 DEF Counted
    <2>3. matched \subseteq matched'
      BY <1>2
    <2> QED  BY <2>1, <2>2, <2>3 DEF HistoryGrows
  <1>22. TokensOK'
    <2>1. ASSUME NEW u \in Tokens
          PROVE  KeepsSend(u[2].sh) /\ (u[2].rh # Nobody => KeepsRecv(u[2].rh))
      <3>1. sh'[u[2].sh] = sh[u[2].sh]
        BY <1>10, <1>11
      <3> QED  BY <1>2, <3>1 DEF KeepsSend, KeepsRecv
    <2>2. Right(v[1], v[2])'
      BY <1>4, <1>9, <1>10, <1>12, <1>19 DEF Right, Starting, Early
    <2>3. NamesRecv(v[2])' /\ Payload(v[2])'
      BY <1>9, <1>19 DEF NamesRecv, Payload, Starting
    <2>4. Started(v[2])'
      <3>1. k \in 1..Len(sent'[t]) /\ sent'[t][k] = b
        BY <1>7 DEF Counted
      <3>2. b = [dest |-> s.dest, mode |-> s.mode] /\ h[2] <= nsh'[t]
        BY <1>0, <1>2, <1>4, <1>9
      <3> QED  BY <1>4, <1>9, <1>10, <1>19, <3>1, <3>2 DEF Started
    <2>5. \A g \in SH : Awaiting(g)' => Awaiting(g) \/ g = h
      BY <1>10 DEF Awaiting
    <2>6. \A u \in Tokens : v[2].sh # u[2].sh /\ (v[2].rh = u[2].rh => v[2].rh = Nobody)
      BY <1>9, <1>11, <1>19
    <2>7. v[2].sh = h /\ rh' = rh
      BY <1>2, <1>9, <1>19
    <2>8. Moves({}, {v})
      BY <1>20, <2>1, <2>2, <2>3, <2>4, <2>5, <2>6, <2>7 DEF Moves
    <2> QED  BY <1>3, <1>15, <1>21, <2>8, TokensStep
  <1>23. PlacesOK'
    <2>1. \A n \in Nodes : pc'[n] = "answer" => pc[n] = "answer"
      BY <1>14
    <2>2. \A a, c \in Machines : Distinct(conn'[a][c])
      BY <1>13 DEF PutOn
    <2> QED  BY <1>2, <1>3, <2>1, <2>2 DEF PlacesOK
  <1>24. Announced' = Announced \cup {h}
    <2>1. v[2].type \in Starting /\ v[2].sh = h
      BY <1>9, <1>19
    <2>2. Tokens' = Tokens \cup {v}
      BY <1>20
    <2>3. Announced' = {w[2].sh : w \in {z \in Tokens' : z[2].type \in Starting}}
      BY DEF Announced, Starting
    <2> QED  BY <2>1, <2>2, <2>3 DEF Announced
  <1>25. OrderOK'
    <2>1. sh'[h].msg = k
      BY <1>9, <1>10
    <2>2. PutOn(Mac[t], q, x) /\ q \in Machines
      BY <1>6, <1>12, <1>13
    <2>3. sq' = sq /\ matched' = matched
      BY <1>2
    <2> QED  BY <1>3, <1>4, <1>7, <1>9, <1>10, <1>11, <1>24, <2>1, <2>2, <2>3, OrderNew
  <1>26. MatchedOK'
    BY <1>2, <1>3, <1>7, MatchedNew
  <1>27. ReceivedOK'
    BY <1>2, <1>3 DEF ReceivedOK
  <1>28. RecvQueues'
    <2>1. NoMissedMatch'
      BY <1>2, <1>3 DEF RecvQueues, NoMissedMatch
    <2> QED  BY <1>2, <1>3, <2>1, RecvQueuesKept
  <1> QED  BY <1>15, <1>16, <1>17, <1>22, <1>23, <1>25, <1>26, <1>27, <1>28 DEF Inv

----------------------------------------------------------------------------
(* The invariant holds at the start and is kept by every step. *)

LEMMA InitTokens ==
  ASSUME Init
  PROVE  Tokens = {} /\ Announced = {}
  <1>1. ASSUME NEW p \in Places, NEW x, Here(p, x)
        PROVE  FALSE
    <2>1. CASE p[2] \in Machines /\ p[3] \in Machines /\ x \in Elems(conn[p[2]][p[3]])
      <3>1. conn[p[2]][p[3]] = <<>>
        BY <2>1 DEF Init
      <3> QED  BY <2>1, <3>1 DEF Elems
    <2>2. CASE p[2] \in Machines /\ movin[p[2]].at # "recv"
      BY <2>2 DEF Init, Receiving
    <2>3. CASE p[2] \in Nodes /\ pc[p[2]] = "answer"
      BY <2>3 DEF Init
    <2>4. CASE p[2] \in Nodes /\ x \in Elems(sq[p[2]])
      <3>1. sq[p[2]] = <<>>
        BY <2>4 DEF Init
      <3> QED  BY <2>4, <3>1 DEF Elems
    <2> QED  BY <1>1, <2>1, <2>2, <2>3, <2>4 DEF Here
  <1>2. Tokens = {}
    BY <1>1 DEF Tokens
  <1> QED  BY <1>2 DEF Announced

LEMMA InitTyped ==
  ASSUME Init
  PROVE  Typed /\ Bounded
  <1>1. NoSend \in SendHandle /\ NoRecv \in RecvHandle
    BY DEF NoSend, NoRecv, SendHandle, RecvHandle, Stats, RecvStats, SendTypes, RecvTypes, Modes
  <1>2. sh \in [SH -> SendHandle] /\ rh \in [RH -> RecvHandle]
    BY <1>1 DEF Init
  <1>3. /\ sq \in [Nodes -> Seq(Messages)] /\ rq \in [Nodes -> Seq(RH)]
        /\ conn \in [Machines -> [Machines -> Seq(Messages)]]
        /\ sent \in [Nodes -> Seq([dest : Nodes, mode : Modes])]
    BY DEF Init
  <1>4. movin \in [Machines -> [at : {"recv", "reply", "data"}, msg : Messages \cup {NoMSG}]]
    BY DEF Init, Receiving
  <1>5. /\ chlock \in [Nodes -> Nodes \cup {Nobody}] /\ shlock \in [SH -> Machines \cup {Nobody}]
        /\ \A n \in Nodes : chlock[n] \in {n, Nobody}
    BY DEF Init
  <1>6. /\ pc \in [Nodes -> SendLocs \cup RecvLocs \cup {"idle"}]
        /\ cur \in [Nodes -> Numbers] /\ out \in [Nodes -> Messages \cup {NoMSG}]
    BY DEF Init, Numbers
  <1>7. /\ nsh \in [Nodes -> Nat] /\ nrh \in [Nodes -> Nat] /\ posted \in [Nodes -> Nat]
        /\ starts \in Nat /\ recvs \in Nat /\ spurious \in Nat /\ matched = {} /\ received = {}
    BY DEF Init
  <1>8. Bounded
    <2>1. MaxSends \in Nat /\ MaxRecvs \in Nat /\ MaxStarts \in Nat /\ Capacity \in Nat
      BY RemoteAssumption
    <2>2. \A m, p \in Machines : Len(conn[m][p]) <= Capacity
      BY <2>1 DEF Init
    <2>3. \A n \in Nodes : /\ nsh[n] = 0 /\ nrh[n] = 0 /\ posted[n] = 0 /\ Len(sent[n]) = 0
                           /\ pc[n] = "idle"
      BY DEF Init
    <2>4. recvs = 0 /\ starts = 0
      BY DEF Init
    <2> QED  BY <2>1, <2>2, <2>3, <2>4 DEF Bounded
  <1> QED  BY <1>2, <1>3, <1>4, <1>5, <1>6, <1>7, <1>8 DEF Typed

LEMMA InitHandles ==
  ASSUME Init
  PROVE  HandlesOK
  <1>1. ASSUME NEW h \in SH PROVE SendOK(h)
    <2>1. sh[h] = NoSend /\ nsh[h[1]] = 0 /\ h[2] \in Nat /\ h[2] > 0
      BY DEF Init, SH
    <2> QED  BY <2>1 DEF SendOK
  <1>2. ASSUME NEW r \in RH PROVE RecvOK(r)
    <2>1. rh[r] = NoRecv /\ nrh[r[1]] = 0 /\ posted[r[1]] = 0 /\ r[2] \in Nat /\ r[2] > 0
      BY DEF Init, RH
    <2> QED  BY <2>1 DEF RecvOK, NoRecv
  <1>3. ASSUME NEW t \in Nodes PROVE SenderOK(t) /\ ReceiverOK(t)
    <2>1. pc[t] = "idle"
      BY DEF Init
    <2> QED  BY <2>1 DEF SenderOK, ReceiverOK, SendLocs, RecvLocs
  <1> QED  BY <1>1, <1>2, <1>3 DEF HandlesOK

LEMMA InitInv == Init => Inv
  <1> SUFFICES ASSUME Init PROVE Inv
    OBVIOUS
  <1>1. Typed /\ Bounded /\ HandlesOK
    BY InitTyped, InitHandles
  <1>2. Tokens = {} /\ Announced = {} /\ matched = {} /\ received = {}
    BY InitTokens DEF Init
  <1>3. /\ \A h \in SH : sh[h].stat = "NONE"
        /\ \A r \in RH : rh[r].stat = "NONE"
    BY DEF Init, NoSend, NoRecv
  <1>4. TokensOK
    BY <1>2, <1>3 DEF TokensOK, Awaiting, Early, Late
  <1>5. /\ \A m, p \in Machines : conn[m][p] = <<>>
        /\ \A n \in Nodes : sq[n] = <<>> /\ rq[n] = <<>> /\ sent[n] = <<>> /\ pc[n] = "idle"
        /\ \A m \in Machines : movin[m].at = "recv"
    BY DEF Init, Receiving
  <1>6. PlacesOK
    BY <1>5 DEF PlacesOK, Distinct
  <1>7. RecvQueues
    BY <1>2, <1>3, <1>5 DEF RecvQueues, NoMissedMatch, Elems
  <1>8. OrderOK
    BY <1>2, <1>5 DEF OrderOK, Ordered, Rising, Elems
  <1>9. MatchedOK /\ ReceivedOK
    BY <1>2 DEF MatchedOK, ReceivedOK, NonOvertaking
  <1> QED  BY <1>1, <1>4, <1>6, <1>7, <1>8, <1>9 DEF Inv

LEMMA InvStutters ==
  ASSUME Inv, UNCHANGED vars
  PROVE  Inv'
  <1>1. UNCHANGED <<sh, rh, sq, rq, chlock, shlock, conn, movin, pc, cur, out,
                    nsh, nrh, starts, recvs, spurious, sent, posted, matched, received>>
    BY DEF vars
  <1>2. Typed' /\ Bounded'
    BY <1>1 DEF Inv, Typed, Bounded
  <1>3. HandlesOK'
    BY <1>1, HandlesUnchanged DEF Inv
  <1>4. UNCHANGED <<queues, net, out, history>>
    BY <1>1 DEF queues, net, history
  <1>5. TypeFacts
    BY TypesAre DEF Inv
  <1>6. \A n \in Nodes : nsh[n] <= nsh'[n]
    BY <1>1, <1>5 DEF TypeFacts
  <1>7. \A h \in SH : (Awaiting(h) => KeepsSend(h)) /\ (Awaiting(h)' => Awaiting(h))
    BY <1>1 DEF Awaiting, KeepsSend
  <1> QED  BY <1>1, <1>2, <1>3, <1>4, <1>6, <1>7, LocalStep

LEMMA InvNext ==
  ASSUME Careful, Inv, [Next]_vars
  PROVE  Inv'
  <1>1. ASSUME NEW t \in Nodes, LibraryStep(t)
        PROVE  Inv'
    BY <1>1, StepStartSend, StepStartRecvUnmatched, StepStartRecvMatched, StepStartRecvAnswer,
       StepEnterWaitSend, StepWaitSendReady, StepWaitSendOver, StepWaitSendSync,
       StepWaitSendBuffered, StepWakeSend, StepCancelSend, StepEnterWaitRecv, StepWaitRecv,
       StepWakeRecv
       DEF LibraryStep
  <1>2. ASSUME NEW t \in Nodes, ProgramStep(t)
        PROVE  Inv'
    BY <1>2, StepInitSend, StepInitRecv, StepCallSend, StepCallWaitRecv DEF ProgramStep
  <1>3. ASSUME NEW m \in Machines, NEW p \in Machines, Handle(m, p)
        PROVE  Inv'
    <2>1. CASE HandleRDR(m, p)
      <3>1. /\ Acknowledge(m, p, "DAT_RECV", {IF FALSE THEN "PEND_STRT" ELSE "PEND_DATA"},
                                             {IF FALSE THEN "PEND_WAIT" ELSE "PEND_DWAT"})
            /\ "DAT_RECV" = IF FALSE THEN "MSGDAT_RECV" ELSE "DAT_RECV"
        BY <2>1 DEF HandleRDR
      <3> QED  BY <3>1, StepAcknowledge
    <2>2. CASE HandleRMDR(m, p)
      <3>1. /\ Acknowledge(m, p, "MSGDAT_RECV", {IF TRUE THEN "PEND_STRT" ELSE "PEND_DATA"},
                                                {IF TRUE THEN "PEND_WAIT" ELSE "PEND_DWAT"})
            /\ "MSGDAT_RECV" = IF TRUE THEN "MSGDAT_RECV" ELSE "DAT_RECV"
        BY <2>2 DEF HandleRMDR
      <3> QED  BY <3>1, StepAcknowledge
    <2> QED  BY <1>3, <2>1, <2>2, StepHandleRMS, StepHandleRMDS, StepHandleRDS, StepHandleRMR,
                StepHandleNRDY
                DEF Handle
  <1>4. ASSUME NEW m \in Machines, MovinStep(m)
        PROVE  Inv'
    BY <1>3, <1>4, StepSendReply, StepSendData DEF MovinStep
  <1> QED  BY <1>1, <1>2, <1>4, StepSpuriousWakeup, InvStutters DEF Next

\* The account of every exchange between two machines that all the properties below rest on.
THEOREM InterInvariant ==
  ASSUME Careful
  PROVE  Init /\ [][Next]_vars => []Inv
  <1>1. Inv /\ [Next]_vars => Inv'
    BY InvNext
  <1> QED  BY <1>1, InitInv, PTL

----------------------------------------------------------------------------
(* Sends carry the numbers of starts that have been made. *)
Numbered == \A h \in SH : sh[h].msg <= Len(sent[h[1]])

\* Handle h has the same number in g as in sh.
SameNumber(g, h) == g[h].msg = sh[h].msg

LEMMA NumbersKept ==
  ASSUME Typed, Numbered, sent' = sent, \A h \in SH : SameNumber(sh', h) \/ sh'[h].msg = 0
  PROVE  Numbered'
  <1>1. \A h \in SH : Len(sent[h[1]]) \in Nat
    BY TypesAre DEF TypeFacts
  <1> QED  BY <1>1 DEF Numbered, SameNumber

LEMMA OnSendNumbers ==
  ASSUME Typed, Numbered, NEW t \in Nodes, NEW s, NEW l, OnSend(t, s, l),
         s.msg = sh[cur[t]].msg
  PROVE  Numbered'
  <1>1. sh' = [sh EXCEPT ![cur[t]] = s] /\ sent' = sent
    BY DEF OnSend, history
  <1>2. \A h \in SH : SameNumber(sh', h)
    BY <1>1 DEF SameNumber, Typed
  <1> QED  BY <1>1, <1>2, NumbersKept

LEMMA OverNumbers ==
  ASSUME NEW s \in SendHandle
  PROVE  SendOver(s).msg = s.msg /\ SendLeft(s).msg = s.msg /\ SendCancelled(s).msg = s.msg
  BY DEF SendOver, SendLeft, SendCancelled, Freed, SendHandle

LEMMA LibraryNumbers ==
  ASSUME Inv, Numbered, NEW t \in Nodes, LibraryStep(t)
  PROVE  Numbered'
  <1>1. Typed /\ TypeFacts /\ SenderOK(t)
    BY TypesAre DEF Inv, HandlesOK
  <1>2. CASE StartSend(t)
    <2>1. PICK h, s : /\ h = cur[t] /\ s = [sh[h] EXCEPT !.stat = "PEND_STRT", !.msg = Len(sent[t]) + 1]
      OBVIOUS
    <2>2. /\ pc[t] = "start_sh" /\ sh' = [sh EXCEPT ![h] = s]
          /\ sent' = [sent EXCEPT ![t] = Append(@, [dest |-> sh[h].dest, mode |-> sh[h].mode])]
      BY <1>2, <2>1 DEF StartSend, Goto
    <2>3. h \in SH /\ h[1] = t /\ sh[h] \in SendHandle
      BY <1>1, <2>1, <2>2 DEF SenderOK, SendLocs, TypeFacts
    <2>4. s.msg = Len(sent[t]) + 1
      BY <2>1, <2>3 DEF SendHandle
    <2>5. Len(sent'[t]) = Len(sent[t]) + 1 /\ \A n \in Nodes : n # t => sent'[n] = sent[n]
      BY <1>1, <2>2 DEF Typed, TypeFacts
    <2>6. ASSUME NEW g \in SH
          PROVE  sh'[g].msg <= Len(sent'[g[1]])
      <3>1. g[1] \in Nodes /\ sh[g].msg \in Nat /\ Len(sent[g[1]]) \in Nat /\ Len(sent[t]) \in Nat
            /\ sh[g].msg <= Len(sent[g[1]])
        BY <1>1 DEF TypeFacts, Numbered
      <3>2. CASE g = h
        BY <1>1, <2>2, <2>3, <2>4, <2>5, <3>1, <3>2 DEF Typed
      <3>3. CASE g # h
        <4>1. sh'[g] = sh[g]
          BY <1>1, <2>2, <3>3 DEF Typed
        <4> QED  BY <2>5, <3>1, <4>1
      <3> QED  BY <3>2, <3>3
    <2> QED  BY <2>6 DEF Numbered
  <1>3. CASE StartRecvUnmatched(t) \/ StartRecvMatched(t) \/ StartRecvAnswer(t)
    <2>1. sh' = sh /\ sent' = sent
      BY <1>3 DEF StartRecvUnmatched, StartRecvMatched, StartRecvAnswer, handles, history
    <2> QED  BY <1>1, <2>1, NumbersKept DEF SameNumber
  <1>4. CASE EnterWaitRecv(t) \/ WaitRecv(t) \/ WakeRecv(t)
    <2>1. sh' = sh /\ sent' = sent
      BY <1>4 DEF EnterWaitRecv, WaitRecv, WakeRecv, OnRecv, history
    <2> QED  BY <1>1, <2>1, NumbersKept DEF SameNumber
  <1>5. CASE \/ EnterWaitSend(t) \/ WaitSendReady(t) \/ WaitSendOver(t) \/ WaitSendSync(t)
             \/ WaitSendBuffered(t) \/ WakeSend(t) \/ CancelSend(t)
    <2>1. PICK s : s = sh[cur[t]]
      OBVIOUS
    <2>2. pc[t] \in SendLocs
      BY <1>5 DEF EnterWaitSend, WaitSendReady, WaitSendOver, WaitSendSync, WaitSendBuffered, WakeSend,
                  CancelSend, AtSend, SendLocs
    <2>3. s \in SendHandle
      BY <1>1, <2>1, <2>2 DEF SenderOK, TypeFacts
    <2>4. \E l, x : /\ OnSend(t, x, l)
                    /\ \/ x \in {s, SendOver(s), SendLeft(s), SendCancelled(s)}
                       \/ \E y : x = [s EXCEPT !.stat = y]
      BY <1>5, <2>1 DEF EnterWaitSend, WaitSendReady, WaitSendOver, WaitSendSync, WaitSendBuffered, WakeSend,
                  CancelSend
    <2>5. PICK l, x : /\ OnSend(t, x, l)
                      /\ \/ x \in {s, SendOver(s), SendLeft(s), SendCancelled(s)}
                         \/ \E y : x = [s EXCEPT !.stat = y]
      BY <2>4
    <2>6. x.msg = s.msg
      <3>1. CASE x \in {s, SendOver(s), SendLeft(s), SendCancelled(s)}
        BY <2>3, <3>1, OverNumbers
      <3>2. CASE \E y : x = [s EXCEPT !.stat = y]
        <4>1. PICK y : x = [s EXCEPT !.stat = y]
          BY <3>2
        <4> QED  BY <2>3, <4>1 DEF SendHandle
      <3> QED  BY <2>5, <3>1, <3>2
    <2>7. x.msg = sh[cur[t]].msg
      BY <2>1, <2>6
    <2> QED  BY <1>1, <2>5, <2>7, OnSendNumbers
  <1> QED  BY <1>2, <1>3, <1>4, <1>5 DEF LibraryStep

LEMMA ProgramNumbers ==
  ASSUME Inv, Numbered, NEW t \in Nodes, ProgramStep(t) \/ SpuriousWakeup(t)
  PROVE  Numbered'
  <1>1. Typed
    BY DEF Inv
  <1>2. ASSUME NEW c \in SendCalls, NEW sys \in BOOLEAN, InitSend(t, c, sys)
        PROVE  Numbered'
    <2>1. PICK h, s : /\ h = <<t, nsh[t] + 1>>
                      /\ s = [stat |-> "CREATE", type |-> c.type, mode |-> c.mode, dest |-> c.dest,
                              long |-> c.long, sys_buf |-> sys, curdata |-> "user", msg |-> 0,
                              live |-> TRUE, held |-> c.type # "SEND"]
      OBVIOUS
    <2>4. sh' = [sh EXCEPT ![h] = s] /\ s.msg = 0
      BY <1>2, <2>1 DEF InitSend
    <2>2. \A g \in SH : SameNumber(sh', g) \/ sh'[g].msg = 0
      BY <1>1, <2>4 DEF Typed, SameNumber
    <2>3. sent' = sent
      BY <1>2 DEF InitSend, history
    <2> QED  BY <1>1, <2>2, <2>3, NumbersKept
  <1>3. ASSUME sh' = sh /\ sent' = sent
        PROVE  Numbered'
    BY <1>1, <1>3, NumbersKept DEF SameNumber
  <1>4. ASSUME NEW c \in RecvCalls, InitRecv(t, c)
        PROVE  sh' = sh /\ sent' = sent
    BY <1>4 DEF InitRecv, history
  <1>5. ASSUME NEW h, NEW w, NEW l, CallOn(t, w, h, l)
        PROVE  sh' = sh /\ sent' = sent
    BY <1>5 DEF CallOn, handles, history
  <1>6. ASSUME SpuriousWakeup(t)
        PROVE  sh' = sh /\ sent' = sent
    BY <1>6 DEF SpuriousWakeup, handles, history
  <1> QED  BY <1>2, <1>3, <1>4, <1>5, <1>6 DEF ProgramStep, CallStartSend, CallWaitSend, CallCancelSend, CallWaitRecv

LEMMA MovinNumbers ==
  ASSUME Inv, Numbered, NEW m \in Machines, MovinStep(m)
  PROVE  Numbered'
  <1>1. Typed /\ \A h \in SH : sh[h] \in SendHandle
    BY DEF Inv, Typed
  <1>2. ASSUME sh' = sh /\ sent' = sent
        PROVE  Numbered'
    BY <1>1, <1>2, NumbersKept DEF SameNumber
  <1>3. ASSUME NEW h, sent' = sent,
               \E x : sh' = [sh EXCEPT ![h] = x] /\ (x \in {sh[h], SendOver(sh[h])} \/ \E y : x = [sh[h] EXCEPT !.stat = y])
        PROVE  Numbered'
    <2>1. PICK x : /\ sh' = [sh EXCEPT ![h] = x]
                   /\ (x \in {sh[h], SendOver(sh[h])} \/ \E y : x = [sh[h] EXCEPT !.stat = y])
      BY <1>3
    <2>2. ASSUME NEW g \in SH
          PROVE  SameNumber(sh', g)
      <3>1. CASE g = h
        <4>1. x.msg = sh[h].msg
          <5>1. sh[h] \in SendHandle
            BY <1>1, <3>1
          <5>2. CASE x \in {sh[h], SendOver(sh[h])}
            BY <5>1, <5>2, OverNumbers
          <5>3. CASE \E y : x = [sh[h] EXCEPT !.stat = y]
            <6>1. PICK y : x = [sh[h] EXCEPT !.stat = y]
              BY <5>3
            <6> QED  BY <5>1, <6>1 DEF SendHandle
          <5> QED  BY <2>1, <5>2, <5>3
        <4> QED  BY <1>1, <2>1, <3>1, <4>1 DEF Typed, SameNumber
      <3>2. CASE g # h
        BY <1>1, <2>1, <3>2 DEF Typed, SameNumber
      <3> QED  BY <3>1, <3>2
    <2> QED  BY <1>1, <1>3, <2>2, NumbersKept
  <1>4. CASE SendReply(m)
    BY <1>2, <1>4 DEF SendReply, handles, history
  <1>5. CASE SendData(m)
    <2>1. PICK h : h = movin[m].msg.sh
      OBVIOUS
    <2>2. PICK y : y = CASE sh[h].stat = "PEND_STRT" -> "PEND_DATA"
                         [] sh[h].stat = "PEND_WAIT" -> "PEND_DWAT"
                         [] OTHER -> sh[h].stat
      OBVIOUS
    <2>3. sh' = [sh EXCEPT ![h] = [sh[h] EXCEPT !.stat = y]] /\ sent' = sent
      BY <1>5, <2>1, <2>2 DEF SendData, history
    <2> QED  BY <1>3, <2>3
  <1>6. ASSUME NEW p \in Machines, Handle(m, p)
        PROVE  Numbered'
    <2>1. CASE HandleRMS(m, p) \/ (\E room \in BOOLEAN : HandleRMDS(m, p, room)) \/ HandleRDS(m, p)
      BY <1>2, <2>1 DEF HandleRMS, HandleRMDS, HandleRDS
    <2>2. CASE HandleRMR(m, p)
      BY <1>2, <2>2 DEF HandleRMR, handles, history
    <2>3. ASSUME NEW type, NEW w, NEW a, Acknowledge(m, p, type, w, a)
          PROVE  Numbered'
      <3>1. PICK h : h = Head(conn[p][m]).sh
        OBVIOUS
      <3>2. PICK x : x = CASE sh[h].stat \in w \cup a -> [sh[h] EXCEPT !.stat = "MATCH"]
                           [] sh[h].stat \in {"CANCEL", "PEND_RELS"} -> SendOver(sh[h])
                           [] OTHER -> sh[h]
        OBVIOUS
      <3>3. sh' = [sh EXCEPT ![h] = x] /\ sent' = sent
        BY <2>3, <3>1, <3>2 DEF Acknowledge, history
      <3>4. x \in {sh[h], SendOver(sh[h])} \/ \E y : x = [sh[h] EXCEPT !.stat = y]
        BY SMTT(30), <3>2
      <3> QED  BY <1>3, <3>3, <3>4
    <2>4. CASE HandleNRDY(m, p)
      <3>1. PICK h : h = Head(conn[p][m]).sh
        OBVIOUS
      <3>2. PICK y : y = IF sh[h].stat = "PEND_STRT" THEN "PEND_NRDY" ELSE sh[h].stat
        OBVIOUS
      <3>3. sh' = [sh EXCEPT ![h] = [sh[h] EXCEPT !.stat = y]] /\ sent' = sent
        BY <2>4, <3>1, <3>2 DEF HandleNRDY, history
      <3> QED  BY <1>3, <3>3
    <2> QED  BY <1>6, <2>1, <2>2, <2>3, <2>4 DEF Handle, HandleRDR, HandleRMDR
  <1> QED  BY <1>4, <1>5, <1>6 DEF MovinStep

LEMMA NumberedInvariant ==
  ASSUME Careful
  PROVE  Init /\ [][Next]_vars => []Numbered
  <1>1. Init => Numbered
    BY DEF Init, Numbered, NoSend, SH
  <1>2. Inv /\ Numbered /\ [Next]_vars => Numbered'
    <2> SUFFICES ASSUME Inv, Numbered, [Next]_vars PROVE Numbered'
      OBVIOUS
    <2>1. CASE UNCHANGED vars
      <3>1. sh' = sh /\ sent' = sent /\ Typed
        BY <2>1 DEF vars, Inv
      <3> QED  BY <3>1, NumbersKept DEF SameNumber
    <2> QED  BY <2>1, LibraryNumbers, ProgramNumbers, MovinNumbers DEF Next
  <1> QED  BY <1>1, <1>2, InterInvariant, PTL

----------------------------------------------------------------------------
(* The messages under way and queued, position by position, are the tokens. *)
OnConn(x) ==
  \E m \in Machines : \E p \in Machines : \E i \in 1..Len(conn[m][p]) :
    x = <<<<"conn", m, p, i>>, conn[m][p][i]>>
OnMovin(x) == \E m \in Machines : movin[m].at # "recv" /\ x = <<<<"movin", m>>, movin[m].msg>>
AtNode(x) == \E n \in Nodes : pc[n] = "answer" /\ x = <<<<"node", n>>, out[n]>>
OnQueue(x) == \E n \in Nodes : \E i \in 1..Len(sq[n]) : x = <<<<"sq", n, i>>, sq[n][i]>>

Spot(x) == <<x[1][1], x[1][2], IF x[1][1] = "conn" THEN x[1][3] ELSE x[1][2]>>

LEMMA UnderWay ==
  ASSUME NEW x
  PROVE  /\ x \in InFlight <=> OnConn(x) \/ OnMovin(x) \/ AtNode(x)
         /\ x \in Queued <=> OnQueue(x)
  <1> DEFINE On(m, p) == {<<<<"conn", m, p, i>>, conn[m][p][i]>> : i \in 1..Len(conn[m][p])}
             A == {On(m, p) : m, p \in Machines}
             B == {<<<<"movin", m>>, movin[m].msg>> : m \in {y \in Machines : movin[y].at # "recv"}}
             C == {<<<<"node", n>>, out[n]>> : n \in {y \in Nodes : pc[y] = "answer"}}
  <1>1. x \in UNION A <=> OnConn(x)
    <2>1. \A m, p \in Machines :
            x \in On(m, p) <=> \E i \in 1..Len(conn[m][p]) : x = <<<<"conn", m, p, i>>, conn[m][p][i]>>
      OBVIOUS
    <2> HIDE DEF On
    <2>2. x \in UNION A <=> \E m, p \in Machines : x \in On(m, p)
      <3>1. ASSUME x \in UNION A PROVE \E m, p \in Machines : x \in On(m, p)
        BY <3>1
      <3>2. ASSUME NEW m \in Machines, NEW p \in Machines, x \in On(m, p) PROVE x \in UNION A
        <4>1. On(m, p) \in A
          OBVIOUS
        <4> HIDE DEF A
        <4> QED  BY <3>2, <4>1
      <3> QED  BY <3>1, <3>2
    <2> QED  BY <2>1, <2>2 DEF OnConn
  <1>2. x \in B <=> OnMovin(x)
    BY DEF OnMovin
  <1>3. x \in C <=> AtNode(x)
    BY DEF AtNode
  <1>5. InFlight = (UNION A) \cup B \cup C
    BY DEF InFlight
  <1>4. x \in Queued <=> OnQueue(x)
    BY DEF OnQueue, Queued
  <1> HIDE DEF A, B, C
  <1> QED  BY <1>1, <1>2, <1>3, <1>4, <1>5

LEMMA SpotToken ==
  ASSUME Inv, NEW x \in InFlight \cup Queued
  PROVE  Carried(x) \in Messages /\ <<Spot(x), Carried(x)>> \in Tokens
  <1>1. Typed /\ PlacesOK
    BY DEF Inv
  <1>2. CASE OnConn(x)
    <2>1. PICK m \in Machines, p \in Machines : \E i \in 1..Len(conn[m][p]) :
                 x = <<<<"conn", m, p, i>>, conn[m][p][i]>>
      BY <1>2 DEF OnConn
    <2>2. PICK i \in 1..Len(conn[m][p]) : x = <<<<"conn", m, p, i>>, conn[m][p][i]>>
      BY <2>1
    <2>3. Spot(x) = <<"conn", m, p>> /\ Carried(x) = conn[m][p][i]
      BY <2>2 DEF Spot, Carried
    <2>4. conn[m][p][i] \in Elems(conn[m][p])
      BY DEF Elems
    <2> QED  BY <1>1, <2>3, <2>4, InConn
  <1>3. CASE OnMovin(x)
    <2>1. PICK m \in Machines : movin[m].at # "recv" /\ x = <<<<"movin", m>>, movin[m].msg>>
      BY <1>3 DEF OnMovin
    <2>2. Spot(x) = <<"movin", m, m>> /\ Carried(x) = movin[m].msg
      BY <2>1 DEF Spot, Carried
    <2> QED  BY <1>1, <2>1, <2>2, InMovin
  <1>4. CASE AtNode(x)
    <2>1. PICK n \in Nodes : pc[n] = "answer" /\ x = <<<<"node", n>>, out[n]>>
      BY <1>4 DEF AtNode
    <2>2. Spot(x) = <<"node", n, n>> /\ Carried(x) = out[n]
      BY <2>1 DEF Spot, Carried
    <2> QED  BY <1>1, <2>1, <2>2, InNode
  <1>5. CASE OnQueue(x)
    <2>1. PICK n \in Nodes : \E i \in 1..Len(sq[n]) : x = <<<<"sq", n, i>>, sq[n][i]>>
      BY <1>5 DEF OnQueue
    <2>2. PICK i \in 1..Len(sq[n]) : x = <<<<"sq", n, i>>, sq[n][i]>>
      BY <2>1
    <2>3. Spot(x) = <<"sq", n, n>> /\ Carried(x) = sq[n][i]
      BY <2>2 DEF Spot, Carried
    <2>4. sq[n][i] \in Elems(sq[n])
      BY DEF Elems
    <2> QED  BY <1>1, <2>3, <2>4, InQueue
  <1> QED  BY <1>2, <1>3, <1>4, <1>5, UnderWay

LEMMA TokenSpot ==
  ASSUME Inv, NEW u \in Tokens
  PROVE  \E x \in InFlight \cup Queued :
           Carried(x) = u[2] /\ (u[1][1] # "sq" => x \in InFlight)
  <1>1. PICK q, y : q = u[1] /\ y = u[2] /\ Here(q, y)
    BY DEF Tokens
  <1>2. CASE q[2] \in Machines /\ q[3] \in Machines /\ y \in Elems(conn[q[2]][q[3]])
    <2>1. PICK i \in 1..Len(conn[q[2]][q[3]]) : y = conn[q[2]][q[3]][i]
      BY <1>2 DEF Elems
    <2>2. PICK x : x = <<<<"conn", q[2], q[3], i>>, conn[q[2]][q[3]][i]>>
      OBVIOUS
    <2>3. OnConn(x) /\ Carried(x) = y
      BY <1>2, <2>1, <2>2 DEF OnConn, Carried
    <2> QED  BY <1>1, <2>3, UnderWay
  <1>3. CASE q[2] \in Machines /\ movin[q[2]].at # "recv" /\ y = movin[q[2]].msg
    <2>1. PICK x : x = <<<<"movin", q[2]>>, movin[q[2]].msg>>
      OBVIOUS
    <2>2. OnMovin(x) /\ Carried(x) = y
      BY <1>3, <2>1 DEF OnMovin, Carried
    <2> QED  BY <1>1, <2>2, UnderWay
  <1>4. CASE q[2] \in Nodes /\ pc[q[2]] = "answer" /\ y = out[q[2]]
    <2>1. PICK x : x = <<<<"node", q[2]>>, out[q[2]]>>
      OBVIOUS
    <2>2. AtNode(x) /\ Carried(x) = y
      BY <1>4, <2>1 DEF AtNode, Carried
    <2> QED  BY <1>1, <2>2, UnderWay
  <1>5. CASE q[1] = "sq" /\ q[2] \in Nodes /\ y \in Elems(sq[q[2]])
    <2>1. PICK i \in 1..Len(sq[q[2]]) : y = sq[q[2]][i]
      BY <1>5 DEF Elems
    <2>2. PICK x : x = <<<<"sq", q[2], i>>, sq[q[2]][i]>>
      OBVIOUS
    <2>3. OnQueue(x) /\ Carried(x) = y
      BY <1>5, <2>1, <2>2 DEF OnQueue, Carried
    <2> QED  BY <1>1, <1>5, <2>3, UnderWay
  <1> QED  BY <1>1, <1>2, <1>3, <1>4, <1>5 DEF Here

\* Two messages about one send, or for one receive, are the same message.
LEMMA SpotOne ==
  ASSUME Inv, NEW x \in InFlight \cup Queued, NEW y \in InFlight \cup Queued,
         Carried(x).sh = Carried(y).sh
  PROVE  x = y
  <1>1. PICK u, v : u = <<Spot(x), Carried(x)>> /\ v = <<Spot(y), Carried(y)>>
    OBVIOUS
  <1>2. u \in Tokens /\ v \in Tokens
    BY <1>1, SpotToken
  <1>3. u = v
    BY <1>1, <1>2 DEF Inv, TokensOK
  <1>4. Spot(x) = Spot(y) /\ Carried(x) = Carried(y)
    BY <1>1, <1>3
  <1>5. /\ x[1][1] = y[1][1] /\ x[1][2] = y[1][2] /\ x[2] = y[2]
        /\ x[1][1] = "conn" => x[1][3] = y[1][3]
    BY <1>4 DEF Spot, Carried
  <1>6. PlacesOK
    BY DEF Inv
  <1>7. CASE OnConn(x)
    <2>1. PICK m \in Machines, p \in Machines : \E i \in 1..Len(conn[m][p]) :
                 x = <<<<"conn", m, p, i>>, conn[m][p][i]>>
      BY <1>7 DEF OnConn
    <2>2. PICK i \in 1..Len(conn[m][p]) : x = <<<<"conn", m, p, i>>, conn[m][p][i]>>
      BY <2>1
    <2>3. OnConn(y)
      BY <1>5, <2>2, UnderWay DEF OnConn, OnMovin, AtNode, OnQueue
    <2>4. PICK n \in Machines, q \in Machines : \E j \in 1..Len(conn[n][q]) :
                 y = <<<<"conn", n, q, j>>, conn[n][q][j]>>
      BY <2>3 DEF OnConn
    <2>5. PICK j \in 1..Len(conn[n][q]) : y = <<<<"conn", n, q, j>>, conn[n][q][j]>>
      BY <2>4
    <2>6. n = m /\ q = p /\ conn[m][p][i] = conn[m][p][j]
      BY <1>5, <2>2, <2>5
    <2>7. i = j
      BY <1>6, <2>6 DEF PlacesOK, Distinct
    <2> QED  BY <2>2, <2>5, <2>6, <2>7
  <1>8. CASE OnMovin(x)
    <2>1. PICK m \in Machines : x = <<<<"movin", m>>, movin[m].msg>>
      BY <1>8 DEF OnMovin
    <2>2. OnMovin(y)
      BY <1>5, <2>1, UnderWay DEF OnConn, AtNode, OnQueue
    <2>3. PICK n \in Machines : y = <<<<"movin", n>>, movin[n].msg>>
      BY <2>2 DEF OnMovin
    <2> QED  BY <1>5, <2>1, <2>3
  <1>9. CASE AtNode(x)
    <2>1. PICK m \in Nodes : x = <<<<"node", m>>, out[m]>>
      BY <1>9 DEF AtNode
    <2>2. AtNode(y)
      BY <1>5, <2>1, UnderWay DEF OnConn, OnMovin, OnQueue
    <2>3. PICK n \in Nodes : y = <<<<"node", n>>, out[n]>>
      BY <2>2 DEF AtNode
    <2> QED  BY <1>5, <2>1, <2>3
  <1>10. CASE OnQueue(x)
    <2>1. PICK m \in Nodes : \E i \in 1..Len(sq[m]) : x = <<<<"sq", m, i>>, sq[m][i]>>
      BY <1>10 DEF OnQueue
    <2>2. PICK i \in 1..Len(sq[m]) : x = <<<<"sq", m, i>>, sq[m][i]>>
      BY <2>1
    <2>3. OnQueue(y)
      BY <1>5, <2>2, UnderWay DEF OnConn, OnMovin, AtNode
    <2>4. PICK n \in Nodes : \E j \in 1..Len(sq[n]) : y = <<<<"sq", n, j>>, sq[n][j]>>
      BY <2>3 DEF OnQueue
    <2>5. PICK j \in 1..Len(sq[n]) : y = <<<<"sq", n, j>>, sq[n][j]>>
      BY <2>4
    <2>6. n = m /\ sq[m][i] = sq[m][j]
      BY <1>5, <2>2, <2>5
    <2>7. i = j
      BY <1>6, <2>6 DEF PlacesOK, Distinct
    <2> QED  BY <2>2, <2>5, <2>6, <2>7
  <1> QED  BY <1>7, <1>8, <1>9, <1>10, UnderWay

----------------------------------------------------------------------------
(* The properties. *)

LEMMA ExchangeOne ==
  ASSUME Inv
  PROVE  OneExchange
  <1>1. Typed /\ HandlesOK /\ TokensOK
    BY DEF Inv
  <1> SUFFICES ASSUME NEW h \in SH
               PROVE  Cardinality(TokensOf(h)) =
                        IF sh[h].stat \in (PEND \ {"PEND_NRDY"}) \cup {"CANCEL"} THEN 1 ELSE 0
    BY DEF OneExchange
  <1>2. Awaiting(h) <=> sh[h].stat \in (PEND \ {"PEND_NRDY"}) \cup {"CANCEL"}
    BY DEF Awaiting, Early, Late, PEND
  <1>3. CASE Awaiting(h)
    <2>1. PICK u \in Tokens : u[2].sh = h
      BY <1>1, <1>3 DEF TokensOK, Carries
    <2>2. PICK x \in InFlight \cup Queued : Carried(x) = u[2]
      BY TokenSpot
    <2>3. TokensOf(h) = {x}
      BY <2>1, <2>2, SpotOne DEF TokensOf
    <2> QED  BY <1>2, <1>3, <2>3, FS_Singleton
  <1>4. CASE ~Awaiting(h)
    <2>1. ASSUME NEW x \in TokensOf(h)
          PROVE  FALSE
      <3>1. x \in InFlight \cup Queued /\ Carried(x).sh = h
        BY DEF TokensOf
      <3>2. PICK u : u = <<Spot(x), Carried(x)>>
        OBVIOUS
      <3>3. u \in Tokens /\ u[2].sh = h
        BY <3>1, <3>2, SpotToken
      <3> QED  BY <1>1, <1>4, <3>3, TokenFacts
    <2>2. TokensOf(h) = {}
      BY <2>1
    <2> QED  BY <1>2, <1>4, <2>2, FS_EmptySet
  <1> QED  BY <1>3, <1>4

LEMMA DeliveryOne ==
  ASSUME Inv
  PROVE  OneDelivery
  <1>1. Typed /\ HandlesOK /\ TokensOK /\ RecvQueues /\ TypeFacts
    BY TypesAre DEF Inv
  <1>2. ASSUME NEW r \in RH
        PROVE  Cardinality(DataFor(r)) = IF rh[r].stat \in {"PEND_DATA", "PEND_DWAT"} THEN 1 ELSE 0
    <2>0. r # Nobody
      BY <1>1 DEF TypeFacts
    <2>1. ASSUME NEW x \in DataFor(r)
          PROVE  /\ x \in InFlight /\ rh[r].stat \in {"PEND_DATA", "PEND_DWAT"}
                 /\ <<Spot(x), Carried(x)>> \in Tokens /\ Carried(x).rh = r
      <3>1. x \in InFlight /\ Carried(x).rh = r
        BY DEF DataFor
      <3>2. PICK u : u = <<Spot(x), Carried(x)>>
        OBVIOUS
      <3>3. u \in Tokens /\ u[2].rh = r
        BY <3>1, <3>2, SpotToken
      <3>4. NamesRecv(u[2])
        BY <1>1, <3>3, TokenFacts
      <3>5. rh[r].stat \in {"PEND_DATA", "PEND_DWAT"}
        BY <2>0, <3>3, <3>4 DEF NamesRecv
      <3> QED  BY <3>1, <3>2, <3>3, <3>5
    <2>2. CASE rh[r].stat \in {"PEND_DATA", "PEND_DWAT"}
      <3>1. PICK u \in Tokens : u[2].rh = r
        BY <1>1, <2>2 DEF TokensOK, Names
      <3>2. NamesRecv(u[2]) /\ Right(u[1], u[2]) /\ u[2].type \in Types
        BY <1>1, TokenFacts
      <3>3. u[2].type \in {"MSG_RECV", "DAT_SEND"}
        BY <2>0, <3>1, <3>2 DEF NamesRecv
      <3>4. u[1][1] # "sq"
        BY <3>2, <3>3 DEF Right, Starting
      <3>5. PICK x \in InFlight : Carried(x) = u[2]
        BY <3>4, TokenSpot
      <3>6. x \in DataFor(r)
        BY <3>1, <3>5 DEF DataFor
      <3>7. ASSUME NEW y \in DataFor(r)
            PROVE  y = x
        <4>1. PICK v, w : v = <<Spot(y), Carried(y)>> /\ w = <<Spot(x), Carried(x)>>
          OBVIOUS
        <4>2. v \in Tokens /\ w \in Tokens /\ v[2].rh = r /\ w[2].rh = r
          BY <2>1, <3>6, <4>1
        <4>3. v = w
          BY <1>1, <2>0, <4>2 DEF TokensOK
        <4>4. Carried(x).sh = Carried(y).sh
          BY <4>1, <4>3
        <4>5. y \in InFlight
          BY <2>1
        <4> QED  BY <4>4, <4>5, SpotOne
      <3>8. DataFor(r) = {x}
        BY <3>6, <3>7
      <3> QED  BY <2>2, <3>8, FS_Singleton
    <2>3. CASE rh[r].stat \notin {"PEND_DATA", "PEND_DWAT"}
      <3>1. DataFor(r) = {}
        BY <2>1, <2>3
      <3> QED  BY <2>3, <3>1, FS_EmptySet
    <2> QED  BY <2>2, <2>3
  <1>3. ASSUME NEW r \in RH
        PROVE  Cardinality({i \in 1..Len(rq[r[1]]) : rq[r[1]][i] = r}) =
                 IF rh[r].stat \in {"PEND_STRT", "PEND_WAIT"} THEN 1 ELSE 0
    <2>1. PICK S : S = {i \in 1..Len(rq[r[1]]) : rq[r[1]][i] = r}
      OBVIOUS
    <2>2. r[1] \in Nodes /\ rh[r].msg \in Nat /\ Len(rq[r[1]]) \in Nat
      BY <1>1 DEF TypeFacts
    <2>3. CASE rh[r].stat \in {"PEND_STRT", "PEND_WAIT"}
      <3>1. r \in Elems(rq[r[1]])
        BY <1>1, <2>3 DEF RecvQueues
      <3>2. PICK i \in 1..Len(rq[r[1]]) : rq[r[1]][i] = r
        BY <3>1 DEF Elems
      <3>3. ASSUME NEW j \in S
            PROVE  j = i
        <4>1. j \in 1..Len(rq[r[1]]) /\ rq[r[1]][j] = r
          BY <2>1
        <4>2. \A a, b \in 1..Len(rq[r[1]]) : a < b => rh[rq[r[1]][a]].msg < rh[rq[r[1]][b]].msg
          BY <1>1, <2>2 DEF RecvQueues
        <4>3. ~(i < j) /\ ~(j < i)
          BY <2>2, <3>2, <4>1, <4>2
        <4> QED  BY <2>2, <4>1, <4>3
      <3>4. S = {i}
        BY <2>1, <3>2, <3>3
      <3> QED  BY <2>1, <2>3, <3>4, FS_Singleton
    <2>4. CASE rh[r].stat \notin {"PEND_STRT", "PEND_WAIT"}
      <3>1. ASSUME NEW j \in S PROVE FALSE
        <4>1. r \in Elems(rq[r[1]])
          BY <2>1 DEF Elems
        <4> QED  BY <1>1, <2>2, <2>4, <4>1 DEF RecvQueues
      <3>2. S = {}
        BY <3>1
      <3> QED  BY <2>1, <2>4, <3>2, FS_EmptySet
    <2> QED  BY <2>3, <2>4
  <1> QED  BY <1>2, <1>3 DEF OneDelivery

LEMMA TypesOK ==
  ASSUME Inv, Numbered
  PROVE  TypeOK
  <1>1. Typed /\ Bounded /\ HandlesOK /\ TypeFacts
    BY TypesAre DEF Inv
  <1>2. MaxStarts \in Nat /\ MaxRecvs \in Nat
    BY RemoteAssumption
  <1>3. ASSUME NEW h \in SH
        PROVE  /\ sh[h].stat \in Stats /\ sh[h].curdata \in {"user", "sys", "garbage"}
               /\ shlock[h] \in Machines \cup {Nobody} /\ sh[h].msg \in 0..MaxStarts
    <2>1. /\ sh[h] \in SendHandle /\ sh[h].msg \in Nat /\ h[1] \in Nodes /\ Len(sent[h[1]]) \in Nat
          /\ sh[h].stat \in Stats /\ shlock[h] \in Machines \cup {Nobody}
      BY <1>1 DEF TypeFacts
    <2>2. sh[h].msg <= Len(sent[h[1]]) /\ Len(sent[h[1]]) <= MaxStarts
      BY <1>1, <2>1 DEF Numbered, Bounded
    <2>3. sh[h].curdata \in {"user", "sys", "garbage"}
      BY <2>1 DEF SendHandle
    <2> QED  BY <1>2, <2>1, <2>2, <2>3
  <1>4. ASSUME NEW r \in RH
        PROVE  /\ rh[r].stat \in Stats \ {"PEND_RELS", "PEND_NRDY", "CANCEL"}
               /\ rh[r].msg \in 0..MaxRecvs
    <2>1. /\ rh[r].msg \in Nat /\ r[1] \in Nodes /\ rh[r].stat \in RecvStats
          /\ posted[r[1]] \in Nat /\ nrh[r[1]] \in Nat
      BY <1>1 DEF TypeFacts
    <2>2. rh[r].msg <= posted[r[1]]
      BY <1>1 DEF HandlesOK, RecvOK
    <2>3. posted[r[1]] <= nrh[r[1]] /\ nrh[r[1]] <= recvs /\ recvs <= MaxRecvs /\ recvs \in Nat
      BY <1>1, <2>1 DEF Bounded, Typed
    <2>4. rh[r].stat \in Stats \ {"PEND_RELS", "PEND_NRDY", "CANCEL"}
      BY <2>1 DEF RecvStats, Stats, PEND
    <2> QED  BY <1>2, <2>1, <2>2, <2>3, <2>4
  <1>5. \A n \in Nodes : /\ sq[n] \in Seq(Messages) /\ rq[n] \in Seq(RH)
                         /\ chlock[n] \in {n, Nobody} /\ out[n] \in Messages \cup {NoMSG}
    BY <1>1 DEF TypeFacts
  <1>6. \A m, p \in Machines : conn[m][p] \in Seq(Messages) /\ Len(conn[m][p]) <= Capacity
    BY <1>1 DEF TypeFacts, Bounded
  <1>7. \A m \in Machines : movin[m].at \in {"recv", "reply", "data"} /\ movin[m].msg \in Messages \cup {NoMSG}
    BY <1>1 DEF TypeFacts
  <1> QED  BY <1>3, <1>4, <1>5, <1>6, <1>7 DEF TypeOK

LEMMA SleepersAndHandles ==
  ASSUME Inv
  PROVE  NoLostWakeup /\ NoLeak
  <1>1. Typed /\ HandlesOK /\ TokensOK /\ TypeFacts
    BY TypesAre DEF Inv
  <1>2. NoLostWakeup
    BY <1>1 DEF HandlesOK, SenderOK, ReceiverOK, NoLostWakeup, SendLocs, RecvLocs
  <1>3. ASSUME NEW h \in SH, sh[h].live
        PROVE  sh[h].held \/ (pc[h[1]] # "idle" /\ cur[h[1]] = h) \/ TokensOf(h) # {}
    <2>1. SendOK(h)
      BY <1>1 DEF HandlesOK
    <2>2. h[2] \in Nat /\ nsh[h[1]] \in Nat
      BY <1>1 DEF TypeFacts
    <2>3. h[2] <= nsh[h[1]]
      BY <1>3, <2>1, <2>2 DEF SendOK, NoSend
    <2>4. CASE sh[h].stat \in {"PEND_RELS", "CANCEL"}
      <3>1. Carries(h)
        BY <1>1, <2>4 DEF TokensOK, Awaiting, Early, Late
      <3>2. PICK u \in Tokens : u[2].sh = h
        BY <3>1 DEF Carries
      <3>3. PICK x \in InFlight \cup Queued : Carried(x) = u[2]
        BY TokenSpot
      <3> QED  BY <3>2, <3>3 DEF TokensOf
    <2>5. CASE sh[h].stat \notin {"PEND_RELS", "CANCEL"} /\ sh[h].type = "SEND"
      BY <1>3, <2>1, <2>3, <2>5 DEF SendOK, UsesSend, SendLocs
    <2>6. CASE sh[h].stat \notin {"PEND_RELS", "CANCEL"} /\ sh[h].type # "SEND"
      BY <1>3, <2>1, <2>3, <2>6 DEF SendOK
    <2> QED  BY <2>4, <2>5, <2>6
  <1>4. ASSUME NEW r \in RH, rh[r].live
        PROVE  rh[r].held \/ (pc[r[1]] # "idle" /\ cur[r[1]] = r)
    <2>1. RecvOK(r)
      BY <1>1 DEF HandlesOK
    <2> QED  BY <1>4, <2>1 DEF RecvOK, UsesRecv, RecvLocs
  <1>5. NoLeak
    BY <1>3, <1>4 DEF NoLeak
  <1> QED  BY <1>2, <1>5

LEMMA NamedLive ==
  ASSUME Inv
  PROVE  NamedHandlesLive
  <1>1. Typed /\ HandlesOK /\ TokensOK /\ TypeFacts
    BY TypesAre DEF Inv
  <1> SUFFICES ASSUME NEW x \in InFlight \cup Queued
               PROVE  sh[Carried(x).sh].live /\ (Carried(x).rh # Nobody => rh[Carried(x).rh].live)
    BY DEF NamedHandlesLive
  <1>2. PICK u : u = <<Spot(x), Carried(x)>>
    OBVIOUS
  <1>3. u \in Tokens /\ u[2] = Carried(x)
    BY <1>2, SpotToken
  <1>4. sh[u[2].sh].live /\ NamesRecv(u[2])
    BY <1>1, <1>3, TokenFacts
  <1>5. ASSUME u[2].rh # Nobody
        PROVE  rh[u[2].rh].live
    <2>1. u[2].rh \in RH /\ rh[u[2].rh].stat \in {"PEND_DATA", "PEND_DWAT"}
      BY <1>4, <1>5 DEF NamesRecv
    <2>2. RecvOK(u[2].rh)
      BY <1>1, <2>1 DEF HandlesOK
    <2> QED  BY <2>1, <2>2 DEF RecvOK
  <1> QED  BY <1>3, <1>4, <1>5

LEMMA AllExpected ==
  ASSUME Inv
  PROVE  NoProtocolError
  <1>1. Typed /\ HandlesOK /\ TokensOK /\ TypeFacts
    BY TypesAre DEF Inv
  <1> SUFFICES ASSUME NEW m \in Machines, NEW p \in Machines, conn[m][p] # <<>>
               PROVE  Expected(Head(conn[m][p]))
    BY DEF NoProtocolError
  <1>2. PICK x : x = Head(conn[m][p])
    OBVIOUS
  <1>3. conn[m][p] \in Seq(Messages)
    BY <1>1 DEF TypeFacts
  <1>4. x \in Elems(conn[m][p])
    BY <1>2, <1>3 DEF Elems
  <1>5. PICK u : u = <<<<"conn", m, p>>, x>>
    OBVIOUS
  <1>6. u \in Tokens /\ u[2] = x /\ u[1] = <<"conn", m, p>>
    BY <1>1, <1>4, <1>5, InConn
  <1>7. Right(<<"conn", m, p>>, x) /\ x.type \in Types
    BY <1>1, <1>6, TokenFacts
  <1>8. NamesRecv(x) /\ x.sh \in SH /\ sh[x.sh].dest \in Nodes
    BY <1>1, <1>6, TokenFacts
  <1>9. PICK q : q = rq[sh[x.sh].dest]
    OBVIOUS
  <1>10. q # <<>> => rh[Head(q)].stat \in {"PEND_STRT", "PEND_WAIT"}
    <2> SUFFICES ASSUME q # <<>> PROVE rh[Head(q)].stat \in {"PEND_STRT", "PEND_WAIT"}
      OBVIOUS
    <2>1. q \in Seq(RH)
      BY <1>1, <1>8, <1>9 DEF TypeFacts
    <2>2. Head(q) \in Elems(q)
      BY <2>1 DEF Elems
    <2> QED  BY <1>8, <1>9, <2>2 DEF Inv, RecvQueues
  <1>11. x.type = "DAT_SEND" => rh[x.rh].stat \in {"PEND_DATA", "PEND_DWAT"}
    BY <1>8 DEF NamesRecv
  <1>12. Expected(x)
    BY <1>7, <1>9, <1>10, <1>11 DEF Right, Expected, Types, Starting, Early, Late, Announceable
  <1> QED  BY <1>2, <1>12

LEMMA DataSound ==
  ASSUME Inv
  PROVE  DataIntact
  <1>1. ReceivedOK /\ MatchedOK
    BY DEF Inv
  <1>2. ASSUME NEW x \in received, NEW y \in received
        PROVE  x.msg = y.msg <=> x.recv = y.recv
    <2>1. PICK a, b : a = [msg |-> x.msg, recv |-> x.recv] /\ b = [msg |-> y.msg, recv |-> y.recv]
      OBVIOUS
    <2>2. a \in matched /\ b \in matched
      BY <1>1, <2>1 DEF ReceivedOK
    <2>3. a.msg = b.msg <=> a.recv = b.recv
      BY <1>1, <2>2 DEF MatchedOK
    <2> QED  BY <2>1, <2>3
  <1> QED  BY <1>1, <1>2 DEF DataIntact, ReceivedOK

\* The two machines' views of every exchange agree (inter_sr.c): each pending send and
\* receive has exactly one message about it under way or queued, nothing that fits is left
\* waiting, no wake-up is lost and no handle is leaked, for any machines, nodes and calls of
\* careful programs, and connections of any capacity.
THEOREM InterExchangesSound ==
  ASSUME Careful
  PROVE  Spec => []ExchangesSound
  <1>1. Inv /\ Numbered => ExchangesSound
    BY ExchangeOne, DeliveryOne, TypesOK, SleepersAndHandles
       DEF ExchangesSound, Inv, RecvQueues
  <1> QED  BY <1>1, InterInvariant, NumberedInvariant, PTL DEF Spec

\* The handle a message or a queue entry points to is still in use when the other machine
\* hands the pointer back (intra_sr.c:481, inter_sr.c:270 and 492): no handler touches a
\* handle that has been given back to its pool.
THEOREM InterHandlesLive ==
  ASSUME Careful
  PROVE  Spec => []NamedHandlesLive
  <1>1. Inv => NamedHandlesLive
    BY NamedLive
  <1> QED  BY <1>1, InterInvariant, PTL DEF Spec

\* No handler of inter_sr.c meets a handle in a state that it reports as a protocol error:
\* neither the send an answer is for, nor the queued receive an announcement meets, nor the
\* receive that data is for.
THEOREM InterNoProtocolError ==
  ASSUME Careful
  PROVE  Spec => []NoProtocolError
  <1>1. Inv => NoProtocolError
    BY AllExpected
  <1> QED  BY <1>1, InterInvariant, PTL DEF Spec

\* Messages of one node to another are matched in the order of their sends, whatever their
\* modes and lengths and however the connections delay them; only a ready send may be
\* refused.
THEOREM InterNonOvertaking ==
  ASSUME Careful
  PROVE  Spec => []NonOvertaking
  <1>1. Inv => NonOvertaking
    BY DEF Inv, MatchedOK
  <1> QED  BY <1>1, InterInvariant, PTL DEF Spec

\* A receive gets the data of the message it was matched with, once, as it was when the send
\* was called (tmpi_rds_handle, tmpi_rmds_handle), unless that send was cancelled.
THEOREM InterDataIntact ==
  ASSUME Careful
  PROVE  Spec => []DataIntact
  <1>1. Inv => DataIntact
    BY DataSound
  <1> QED  BY <1>1, InterInvariant, PTL DEF Spec
=============================================================================
